------------------------------ MODULE WasiTokio ------------------------------
(***************************************************************************)
(* The single-threaded executor that stands for tokio (wasi-tokio):        *)
(* block_on, spawned tasks and their handles, the select! macro, the mpsc  *)
(* channel and OnceCell.                                                   *)
(*                                                                         *)
(* There is one thread, and yet there are interleavings: a poll of a task  *)
(* that reaches a select! or a block_on runs a round of other tasks in the *)
(* middle of that poll.  `rounds' is the stack of the rounds in progress.  *)
(* A body (the future given to block_on, or a task) is a program that may  *)
(* call any operation in any order: what it does between two awaits is not *)
(* of this crate.  The waker does nothing, so a body that waits is polled  *)
(* in every round.                                                         *)
(***************************************************************************)
EXTENDS Naturals, FiniteSets, Sequences

CONSTANTS MaxTasks,  \* bound on the tasks spawned
          MaxSends,  \* bound on the messages sent
          Selects    \* what select! is used on

ASSUME ConstantsAssumption ==
  /\ MaxTasks \in Nat /\ MaxSends \in Nat
  /\ Selects \subseteq SUBSET {"recv", "join", "init", "pause"}

Tasks  == 1..MaxTasks  \* NEXT_TASK_ID numbers them
Main   == 0            \* the future given to the outer block_on
Bodies == Tasks \cup {Main}
None   == MaxTasks + 1

VARIABLES
  queue,      \* TASK_QUEUE
  rounds,     \* calls of poll_spawned_tasks in progress, the innermost first
  at,         \* where each body is
  want,       \* what each body awaits
  cancelled,  \* tasks whose flag JoinHandle::abort set
  owner,      \* who holds the JoinHandle of each task; it is awaited once
  buffer,     \* ChannelInner.queue; messages are numbered as they are sent
  sent, received,
  senders,    \* bodies that hold a clone of the Sender; Main has the Receiver
  closed,     \* ChannelInner.closed
  ended,      \* recv() has returned None
  cell        \* OnceCell: whose initializer gave the value

tasks == <<cancelled, owner>>
chan  == <<buffer, sent, received, senders, closed, ended>>
vars  == <<queue, rounds, at, want, tasks, chan, cell>>

\* Something to await: a message, a task, the initializer of the cell, or
\* anything that comes from outside (a sleep, a fetch).
Await == [on: {"recv", "init", "pause"}, of: {Main}] \cup [on: {"join"}, of: Tasks]

\* on: one future, or the branches of a select! that are not disabled; block: in
\* a block_on, as Main always is; fresh: not polled yet.
Want   == [on: SUBSET Await, select: BOOLEAN, block: BOOLEAN, fresh: BOOLEAN]
NoWant == [on |-> {}, select |-> FALSE, block |-> FALSE, fresh |-> FALSE]

\* rest: tasks of this round still to be polled; pending: those that were, and
\* wait; loop: the round is block_on's, otherwise it is one of a select!.
Round == [owner: Bodies, loop: BOOLEAN, current: Tasks \cup {None},
          rest: Seq(Tasks), pending: Seq(Tasks)]

Live == {t \in Tasks : at[t] \notin {"unborn", "done", "dropped"}}

\* A select!, which begins every poll with a round, whatever is disabled of it.
Select(x) == want[x].select

\* Whose code runs.
Current == IF rounds = <<>> THEN Main ELSE Head(rounds).current

(***************************************************************************)
(* Type invariant, with the shape of the stack: each round was begun by    *)
(* the body that the round below it polls, and who is polled is not among  *)
(* those that wait.                                                        *)
(***************************************************************************)
TypeOK ==
  /\ queue \in Seq(Tasks)
  /\ rounds \in Seq(Round)
  /\ \A i \in DOMAIN rounds : rounds[i].owner =
       IF i = Len(rounds) THEN Main ELSE rounds[i+1].current
  /\ {x \in Bodies : at[x] = "round"} = {rounds[i].owner : i \in DOMAIN rounds}
  /\ Current # None => at[Current] \in {"running", "check", "done"}
  /\ at \in [Bodies -> {"unborn", "queued", "running", "check",
                        "round", "pending", "done", "dropped"}]
  /\ want \in [Bodies -> Want]
  /\ cancelled \subseteq Tasks
  /\ owner \in [Tasks -> Bodies \cup {None}]
  /\ buffer \in Seq(1..MaxSends)
  /\ sent \in 0..MaxSends /\ received \in 0..MaxSends
  /\ senders \subseteq Bodies
  /\ closed \in BOOLEAN /\ ended \in BOOLEAN
  /\ cell \in Bodies \cup {None}

\* Main is polled for the first time; it has made a channel and a cell.
Init ==
  /\ queue = <<>> /\ rounds = <<>>
  /\ at = [x \in Bodies |-> IF x = Main THEN "running" ELSE "unborn"]
  /\ want = [x \in Bodies |-> NoWant]
  /\ cancelled = {}
  /\ owner = [t \in Tasks |-> None]
  /\ buffer = <<>> /\ sent = 0 /\ received = 0
  /\ senders = {Main} /\ closed = FALSE /\ ended = FALSE
  /\ cell = None

Runs(x) == Current = x /\ at[x] = "running"

-----------------------------------------------------------------------------
\* What a running body may do before its next await.

\* The child may be given a clone of the Sender.
spawn(x, t) ==
  /\ Runs(x)
  /\ at[t] = "unborn" /\ \A u \in Tasks : u < t => at[u] # "unborn"
  /\ queue' = Append(queue, t)
  /\ at' = [at EXCEPT ![t] = "queued"]
  /\ owner' = [owner EXCEPT ![t] = x]
  /\ \/ x \in senders /\ senders' = senders \cup {t}
     \/ UNCHANGED senders
  /\ UNCHANGED <<rounds, want, cancelled, buffer, sent, received, closed, ended,
                 cell>>

\* Of a task that is over, only what its handle says changes, not modelled.
abort(x, t) ==
  /\ Runs(x) /\ owner[t] = x /\ t \in Live \ cancelled
  /\ cancelled' = cancelled \cup {t}
  /\ UNCHANGED <<queue, rounds, at, want, owner, chan, cell>>

\* send, try_send and blocking_send, of either kind of channel: none waits.
send(x) ==
  /\ Runs(x) /\ x \in senders /\ ~closed
  /\ sent < MaxSends
  /\ sent' = sent + 1
  /\ buffer' = Append(buffer, sent')
  /\ UNCHANGED <<queue, rounds, at, want, tasks, received, senders, closed,
                 ended, cell>>

\* Whether the channel is closed when the Sender of x, if it has one, is
\* dropped: strong_count is 2 when only that and the Receiver are left.
Close(x) == closed \/ (x \in senders /\ Cardinality(senders) + 1 = 2)

drop_sender(x) ==
  /\ Runs(x) /\ x \in senders
  /\ closed' = Close(x)
  /\ senders' = senders \ {x}
  /\ UNCHANGED <<queue, rounds, at, want, tasks, buffer, sent, received, ended,
                 cell>>

\* Receiver::close
close ==
  /\ Runs(Main) /\ ~closed
  /\ closed' = TRUE
  /\ UNCHANGED <<queue, rounds, at, want, tasks, buffer, sent, received,
                 senders, ended, cell>>

\* The future is done: what it holds is dropped, a task leaves its result.
finish(x) ==
  /\ Runs(x)
  /\ at' = [at EXCEPT ![x] = "done"]
  /\ closed' = (Close(x) \/ x = Main) /\ senders' = senders \ {x}
  /\ rounds' = IF x = Main THEN rounds ELSE [rounds EXCEPT ![1].current = None]
  /\ UNCHANGED <<queue, want, tasks, buffer, sent, received, ended, cell>>

-----------------------------------------------------------------------------
\* Polling what is awaited.

\* What is awaited from outside may or may not be there at a later poll.
Ready(a, fresh) ==
  CASE a.on = "recv" -> buffer # <<>> \/ closed
    [] a.on = "join" -> a.of \in cancelled \/ at[a.of] = "done"
    [] OTHER -> ~fresh

Missing(a) == a.on \in {"recv", "join"} => ~Ready(a, TRUE)

poll_recv ==
  /\ IF buffer # <<>>
     THEN /\ buffer' = Tail(buffer) /\ received' = Head(buffer)
          /\ UNCHANGED ended
     ELSE ended' = TRUE /\ UNCHANGED <<buffer, received>>
  /\ UNCHANGED <<sent, senders, closed>>

\* get_or_init after its initializer: the first value stays.
set(x) == IF cell = None THEN x ELSE cell

\* Mutant: a message is taken by a select! that another branch wins.
take_OfAll(x, a) ==
  /\ IF a.on = "recv" THEN poll_recv
     ELSE /\ buffer' = IF buffer # <<>> /\ \E b \in want[x].on : b.on = "recv"
                       THEN Tail(buffer) ELSE buffer
          /\ UNCHANGED <<sent, received, senders, closed, ended>>
  /\ owner' = IF a.on = "join" THEN [owner EXCEPT ![a.of] = None] ELSE owner
  /\ cell' = IF a.on = "init" THEN set(x) ELSE cell
  /\ UNCHANGED <<queue, rounds, cancelled>>

\* The output of a is taken: a message, the result of a task, a value.
take(x, a) ==
  /\ IF a.on = "recv" THEN poll_recv ELSE UNCHANGED chan
  /\ owner' = IF a.on = "join" THEN [owner EXCEPT ![a.of] = None] ELSE owner
  /\ cell' = IF a.on = "init" THEN set(x) ELSE cell
  /\ UNCHANGED <<queue, rounds, cancelled>>

\* A branch is ready: the others are dropped, the body goes on.
resume(x, a) ==
  /\ take(x, a)
  /\ at' = [at EXCEPT ![x] = "running"]
  /\ want' = [want EXCEPT ![x] = NoWant]

\* The output of a branch does not match its pattern: it is thrown away, the
\* other branches are polled without it.  When none is left select! panics, and
\* the program is over.
disable(x, a) ==
  /\ Select(x) /\ want[x].on # {a}
  /\ take(x, a)
  /\ want' = [want EXCEPT ![x].on = @ \ {a}]
  /\ UNCHANGED at

\* poll_spawned_tasks is entered, for a body whose poll goes on afterwards.
begin(x, loop, stack, all) ==
  /\ rounds' = <<[owner |-> x, loop |-> loop, current |-> None, rest |-> all,
                  pending |-> <<>>]>> \o stack
  /\ queue' = <<>>

\* Mutant: the task is listed as pending while its poll goes on.
Pended_StillCurrent(round, x) == [round EXCEPT !.pending = Append(@, x)]

\* Mutant: the first task that waits ends the round, and is first again.
Pended_EndsRound(round, x) ==
  [round EXCEPT !.current = None, !.rest = <<>>,
                !.pending = @ \o <<x>> \o round.rest]

\* The round after the poll of x has returned Pending.
Pended(round, x) == [round EXCEPT !.current = None, !.pending = Append(@, x)]

\* Nothing is ready: a task gives way to its round, a block_on runs one.
give_way(x, w) ==
  /\ want' = [want EXCEPT ![x] = [w EXCEPT !.fresh = FALSE]]
  /\ IF w.block
     THEN begin(x, TRUE, rounds, queue) /\ at' = [at EXCEPT ![x] = "round"]
     ELSE /\ at' = [at EXCEPT ![x] = "pending"]
          /\ rounds' = [rounds EXCEPT ![1] = Pended(@, x)]
          /\ UNCHANGED queue
  /\ UNCHANGED <<tasks, chan, cell>>

\* What x may await: Main has the receiver, a task its handle, and who finds
\* a value in the cell does not wait.
Open(x) ==
  {a \in Await : CASE a.on = "recv" -> x = Main /\ ~ended
                   [] a.on = "join" -> owner[a.of] = x
                   [] a.on = "init" -> cell = None
                   [] OTHER -> TRUE}

\* The body awaits one future, or a select! of two, which is polled at once.
wait(x) ==
  /\ Runs(x)
  /\ \E on \in SUBSET Open(x), nested \in BOOLEAN :
       LET w == [on |-> on, select |-> Cardinality(on) = 2,
                 block |-> x = Main \/ nested, fresh |-> TRUE]
       IN \/ /\ Cardinality(on) = 1
             /\ \E a \in on : (Ready(a, TRUE) /\ resume(x, a))
                                \/ (Missing(a) /\ give_way(x, w))
          \/ /\ Cardinality(on) = 2 /\ {a.on : a \in on} \in Selects
             /\ want' = [want EXCEPT ![x] = w]
             /\ at' = [at EXCEPT ![x] = "round"]
             /\ begin(x, FALSE, rounds, queue)
             /\ UNCHANGED <<tasks, chan, cell>>

\* A later poll, that of a select! after its round; its branches are polled in
\* an order that is random.
check(x) ==
  /\ Current = x /\ at[x] = "check"
  /\ \/ \E a \in want[x].on : /\ Ready(a, want[x].fresh)
                              /\ resume(x, a) \/ disable(x, a)
     \/ (\A a \in want[x].on : Missing(a)) /\ give_way(x, want[x])

-----------------------------------------------------------------------------
\* poll_spawned_tasks.

\* Mutant: the flag is not looked at.
Skip_Never(t) == FALSE

Skip(t) == t \in cancelled

\* The next task of the innermost round is polled, or dropped with all it
\* holds when it was aborted.
next_task ==
  /\ rounds # <<>> /\ Head(rounds).current = None /\ Head(rounds).rest # <<>>
  /\ LET t == Head(Head(rounds).rest)
         popped == [rounds EXCEPT ![1].rest = Tail(@)]
         polled == [popped EXCEPT ![1].current = t]
     IN IF Skip(t)
        THEN /\ rounds' = popped
             /\ at' = [at EXCEPT ![t] = "dropped"]
             /\ want' = [want EXCEPT ![t] = NoWant]
             /\ closed' = Close(t) /\ senders' = senders \ {t}
             /\ UNCHANGED queue
        ELSE /\ IF Select(t) THEN begin(t, FALSE, polled, queue)
                ELSE rounds' = polled /\ UNCHANGED queue
             /\ at' = [at EXCEPT ![t] = CASE @ = "queued" -> "running"
                                          [] Select(t)    -> "round"
                                          [] OTHER        -> "check"]
             /\ UNCHANGED <<want, senders, closed>>
  /\ UNCHANGED <<tasks, buffer, sent, received, ended, cell>>

\* Mutant: what was spawned meanwhile is overwritten.
Requeued_Overwritten(pending) == IF pending = <<>> THEN queue ELSE pending

\* Those that wait come before those spawned meanwhile.
Requeued(pending) == pending \o queue

\* block_on yields to the event loop and polls its future again, a select!
\* goes on to its branches.
end_round ==
  /\ rounds # <<>>
  /\ Head(rounds).current = None /\ Head(rounds).rest = <<>>
  /\ LET x == Head(rounds).owner
         all == Requeued(Head(rounds).pending)
     IN IF Head(rounds).loop /\ Select(x)
        THEN begin(x, FALSE, Tail(rounds), all) /\ UNCHANGED at
        ELSE /\ rounds' = Tail(rounds) /\ queue' = all
             /\ at' = [at EXCEPT ![x] = "check"]
  /\ UNCHANGED <<want, tasks, chan, cell>>

-----------------------------------------------------------------------------
Program == \E x \in Bodies : \/ \E t \in Tasks : spawn(x, t) \/ abort(x, t)
                             \/ send(x) \/ drop_sender(x)
                             \/ wait(x) \/ finish(x)
Executor == \/ \E x \in Bodies : check(x)
            \/ next_task
            \/ end_round

Next == Program \/ close \/ Executor

\* The one thread goes on: no body runs for ever without an await.
Spec == Init /\ [][Next]_vars /\ WF_vars(Next)

-----------------------------------------------------------------------------
\* Where a task is listed: in the queue, or in a round, which has still to poll
\* it, has polled it, or polls it.
PlacesIn(k, t) ==
  LET r == rounds[k] IN
    {<<"rest", k, i>> : i \in {j \in DOMAIN r.rest : r.rest[j] = t}}
      \cup {<<"pending", k, i>> : i \in {j \in DOMAIN r.pending : r.pending[j] = t}}
      \cup {<<"current", k, 1>> : c \in {r.current} \cap {t}}

Places(t) ==
  {<<"queue", 0, i>> : i \in {j \in DOMAIN queue : queue[j] = t}}
    \cup UNION {PlacesIn(k, t) : k \in DOMAIN rounds}

(***************************************************************************)
(* Whatever rounds run within polls of others, a task that is not over is  *)
(* in one place: none is lost when a round gives back what it took, and    *)
(* none can be polled while it is being polled.                            *)
(***************************************************************************)
InOnePlace ==
  \A t \in Tasks : Cardinality(Places(t)) = IF t \in Live THEN 1 ELSE 0

(***************************************************************************)
(* A message is taken by the await that gets it only: none is lost by a    *)
(* branch of a select! that another one won, or by the end of its sender;  *)
(* they come in the order they were sent.  (What a branch takes that does  *)
(* not match its pattern counts as received: it is thrown away.)           *)
(***************************************************************************)
InOrder == buffer = [i \in 1..(sent - received) |-> received + i]

(***************************************************************************)
(* The receiver is told that the channel ended after it has received all   *)
(* that was, or ever will be, accepted.                                    *)
(***************************************************************************)
EndIsTheEnd == ended => sent = received

(***************************************************************************)
(* A channel nobody can send to any more is closed, whether its senders    *)
(* were dropped, finished or aborted: its receiver does not wait for ever. *)
(***************************************************************************)
EndIsSeen == senders = {} => closed

(***************************************************************************)
(* What a channel promises: every message, in order, and then the end.     *)
(***************************************************************************)
ChannelContract == InOrder /\ EndIsTheEnd /\ EndIsSeen

(***************************************************************************)
(* Initializers may run at the same time; all callers get the same value.  *)
(***************************************************************************)
OneValue == cell # None => cell' = cell

(***************************************************************************)
(* An aborted task that is not being polled is not polled again, from      *)
(* whatever round it was taken by.                                         *)
(***************************************************************************)
InPoll == {rounds[i].current : i \in DOMAIN rounds}

NoLifeAfterAbort == \A t \in cancelled : t \notin InPoll => t \notin InPoll'

(***************************************************************************)
(* What one body has settled, no other undoes in the middle of its poll.   *)
(***************************************************************************)
SettledForGood == [][OneValue /\ NoLifeAfterAbort]_vars

Blocked == \E t \in Tasks : at[t] = "round" /\ want[t].block

(***************************************************************************)
(* Unless the program is over, or a task has called block_on, every task   *)
(* that waits is polled again, or dropped: neither tasks that spawn nor    *)
(* rounds within rounds starve it.                                         *)
(***************************************************************************)
EveryTaskIsPolled ==
  \A t \in Tasks : t \in Live /\ t \notin InPoll
                     ~> t \in InPoll \/ t \notin Live \/ at[Main] = "done" \/ Blocked

(***************************************************************************)
(* block_on comes back to its own future (and, on the way, to the event    *)
(* loop) again and again, unless a task has called block_on.               *)
(***************************************************************************)
MainIsPolled == []<>(at[Main] # "round" \/ Blocked)

(***************************************************************************)
(* Nobody starves: neither the tasks nor the future of block_on.           *)
(***************************************************************************)
EveryBodyIsPolled == EveryTaskIsPolled /\ MainIsPolled
=============================================================================

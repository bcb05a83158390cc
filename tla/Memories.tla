------------------------------ MODULE Memories ------------------------------
(***************************************************************************)
(* The memory pipeline of the Codex state store (memories.rs): sessions    *)
(* claim "stage 1" jobs that extract the memories of a thread, and then    *)
(* the one "phase 2" job that consolidates all of them.  The rows of the   *)
(* tables threads, stage1_outputs and jobs are the only thing sessions     *)
(* share.  Every function runs its statements without giving way (the      *)
(* SQLite layer never suspends), so each of them is one action; what the   *)
(* sessions do between two calls is outside of the crate, and any order of *)
(* calls, a crash or a lease that runs out may come in between.            *)
(*                                                                         *)
(* Time is abstracted in two ways.  Watermarks are compared with each      *)
(* other only: they are numbers below `now', which an edit advances.       *)
(* Leases and backoffs are compared with the clock only: they are flags    *)
(* that time may clear at any moment, since their lengths are the          *)
(* caller's.  An ownership token is the name of its holder: a worker holds *)
(* one batch of claims at a time.                                          *)
(***************************************************************************)
EXTENDS Naturals, FiniteSets, FiniteSetsExt

CONSTANTS Threads,        \* ids of threads; numbers, the scan orders by them
          Workers,        \* sessions that run the pipeline
          Nobody,         \* NULL in ownership_token
          MaxRunning,     \* max_claimed, also max_running_jobs
          ScanLimit,      \* scan_limit
          MaxSelected,    \* n of get_phase2_input_selection
          DefaultRetries, \* DEFAULT_RETRY_REMAINING
          MaxNow,         \* bound on edits
          MaxFaults       \* bound on the events that call Fault

ASSUME ConstantsAssumption ==
  /\ Threads \subseteq Nat /\ IsFiniteSet(Threads) /\ IsFiniteSet(Workers)
  /\ Nobody \notin Workers
  /\ {MaxRunning, ScanLimit, MaxSelected, DefaultRetries, MaxNow,
      MaxFaults} \subseteq Nat
  /\ MaxNow > 0 /\ DefaultRetries > 0

VARIABLES
  now,          \* the latest time a thread was updated at
  updated,      \* threads.updated_at
  mode,         \* threads.memory_mode
  output,       \* stage1_outputs
  job,          \* jobs of kind memory_stage1
  global,       \* the job of kind memory_consolidate_global
  held,         \* what each worker claimed: thread -> source_updated_at
  run,          \* the phase-2 claim of each worker, and what it selected
  \* The files the last successful phase 2 wrote, which no row holds:
  memory,       \* the version of each thread in them
  seen,         \* the versions of all outputs when they were selected from
  unqueued,     \* history: threads polluted or pruned with nothing enqueued
  faults        \* crashes, lost leases, clearings, ... so far

store  == <<updated, mode, output, job, global>>
files  == <<memory, seen, unqueued>>
vars   == <<now, store, held, run, files, faults>>

Versions == [Threads -> Nat]
Nothing  == [t \in Threads |-> 0]

JobRow == [status: {"absent", "pending", "running", "done", "error"},
           token: Workers \cup {Nobody}, live: BOOLEAN, backoff: BOOLEAN,
           retries: 0..DefaultRetries, input: Nat, success: Nat]
NoJob  == [status |-> "absent", token |-> Nobody, live |-> FALSE,
           backoff |-> FALSE, retries |-> 0, input |-> 0, success |-> 0]

\* source 0: no row; snapshot 0: not selected_for_phase2.
OutputRow == [source: Nat, selected: BOOLEAN, snapshot: Nat]
NoOutput  == [source |-> 0, selected |-> FALSE, snapshot |-> 0]

RunState == [claimed: Nat, chosen: Versions, shown: Versions,
             selected: BOOLEAN]
NoRun == [claimed |-> 0, chosen |-> Nothing, shown |-> Nothing,
          selected |-> FALSE]

(***************************************************************************)
(* Type invariant of the rows and of what the workers hold: no retry       *)
(* counter leaves its range, no thread is listed before it was edited.     *)
(***************************************************************************)
TypeOK ==
  /\ now \in 1..MaxNow
  /\ updated \in [Threads -> 1..MaxNow]
  /\ mode \in [Threads -> {"enabled", "disabled", "polluted"}]
  /\ output \in [Threads -> OutputRow]
  /\ job \in [Threads -> JobRow]
  /\ global \in JobRow
  /\ held \in [Workers -> Versions]
  /\ run \in [Workers -> RunState]
  /\ memory \in Versions /\ seen \in Versions
  /\ unqueued \subseteq Threads
  /\ faults \in 0..MaxFaults

\* Threads exist, nothing has been extracted yet.
Init ==
  /\ now = 1
  /\ updated = [t \in Threads |-> 1]
  /\ mode = [t \in Threads |-> "enabled"]
  /\ output = [t \in Threads |-> NoOutput]
  /\ job = [t \in Threads |-> NoJob]
  /\ global = NoJob
  /\ held = [w \in Workers |-> Nothing]
  /\ run = [w \in Workers |-> NoRun]
  /\ memory = Nothing /\ seen = Nothing /\ unqueued = {}
  /\ faults = 0

Max2(a, b) == IF a > b THEN a ELSE b

Fault == faults < MaxFaults /\ faults' = faults + 1

Idle(w) == held[w] = Nothing /\ run[w] = NoRun

-----------------------------------------------------------------------------
\* The upsert of the global job.
enqueue(g, watermark) ==
  IF g.status = "absent"
  THEN [NoJob EXCEPT !.status = "pending", !.retries = DefaultRetries,
                     !.input = watermark]
  ELSE [g EXCEPT !.status  = IF @ = "running" THEN @ ELSE "pending",
                 !.backoff = g.status = "running" /\ @,
                 !.retries = Max2(@, DefaultRetries),
                 !.input   = IF watermark > @ THEN watermark ELSE @ + 1]

-----------------------------------------------------------------------------
\* Threads.

\* A turn of the conversation: touch_thread_updated_at.
Edit(t) ==
  /\ now < MaxNow
  /\ now' = now + 1
  /\ updated' = [updated EXCEPT ![t] = now']
  /\ UNCHANGED <<mode, output, job, global, held, run, files, faults>>

\* The mode the metadata of a rollout gives.  Nothing is enqueued, whichever
\* it is.
set_thread_memory_mode(t, m) ==
  /\ Fault
  /\ mode[t] # m
  /\ mode' = [mode EXCEPT ![t] = m]
  /\ unqueued' = IF m = "polluted" THEN unqueued \cup {t} ELSE unqueued
  /\ UNCHANGED <<now, updated, output, job, global, held, run, memory, seen>>

\* Mutant: nothing is enqueued, whether or not the thread is in the baseline.
mark_thread_memory_mode_polluted_NotQueued(t) ==
  /\ Fault
  /\ mode[t] # "polluted"
  /\ mode' = [mode EXCEPT ![t] = "polluted"]
  /\ UNCHANGED <<now, updated, output, job, global, held, run, files>>

\* Enqueues if the flag of the last baseline is up, which a consolidation
\* that has selected the thread and is not over has not raised yet.
mark_thread_memory_mode_polluted(t) ==
  /\ Fault
  /\ mode[t] # "polluted"
  /\ mode' = [mode EXCEPT ![t] = "polluted"]
  /\ IF output[t].selected
     THEN global' = enqueue(global, now) /\ unqueued' = unqueued \ {t}
     ELSE unqueued' = unqueued \cup {t} /\ UNCHANGED global
  /\ UNCHANGED <<now, updated, output, job, held, run, memory, seen>>

-----------------------------------------------------------------------------
\* Stage 1.

\* Threads whose memory is older than they are.
Stale == {t \in Threads : /\ mode[t] = "enabled"
                          /\ output[t].source < updated[t]
                          /\ job[t].success < updated[t]}

Ahead(t, u) == updated[t] > updated[u] \/ (updated[t] = updated[u] /\ t > u)

\* ORDER BY updated_at DESC, id DESC LIMIT n
Newest(S, n) == {t \in S : Cardinality({u \in S : Ahead(u, t)}) < n}

Running(t) == job[t].status = "running" /\ job[t].live

\* Mutant: a thread that was edited does not get its retries back.
Claimable_NoFreshRetries(t) ==
  LET row == job[t]
  IN row.status = "absent" \/ (~Running(t) /\ ~row.backoff /\ row.retries > 0)

\* The WHERE of the upsert of try_claim_stage1_job, but for the count.
Claimable(t) ==
  LET row == job[t]
      newer == updated[t] > row.input
  IN \/ row.status = "absent"
     \/ /\ ~Running(t)
        /\ ~row.backoff \/ newer
        /\ row.retries > 0 \/ newer

\* Mutant: each startup counts its own claims only.
Claims_OwnCount(eligible) ==
  Newest({t \in Newest(Stale \cap eligible, ScanLimit) : Claimable(t)},
         MaxRunning)

\* What one startup claims: its loop takes claimable threads in order until
\* MaxRunning jobs run.
Claims(eligible) ==
  LET live == Cardinality({t \in Threads : Running(t)})
  IN IF live >= MaxRunning THEN {}
     ELSE Newest({t \in Newest(Stale \cap eligible, ScanLimit) : Claimable(t)},
                 MaxRunning - live)

\* The row try_claim_stage1_job leaves.
Claimed(t, w) ==
  [job[t] EXCEPT !.status = "running", !.token = w, !.live = TRUE,
                 !.backoff = FALSE, !.input = updated[t],
                 !.retries = IF updated[t] > job[t].input
                             THEN DefaultRetries ELSE @]

\* eligible: the threads that pass the filters that have nothing to do with
\* memory, as active, not the session's own, of a known source, and in the
\* window of ages.
claim_stage1_jobs_for_startup(w, eligible) ==
  /\ Idle(w)
  /\ LET claimed == Claims(eligible)
     IN /\ claimed # {}
        /\ held' = [held EXCEPT ![w] =
                      [t \in Threads |-> IF t \in claimed THEN updated[t] ELSE 0]]
        /\ job' = [t \in Threads |->
                      IF t \in claimed THEN Claimed(t, w) ELSE job[t]]
  /\ UNCHANGED <<now, updated, mode, output, global, run, files, faults>>

\* Mutant: any worker that was once given the thread may finish it.
OwnsStage1_Anyone(w, t) == job[t].status = "running"

OwnsStage1(w, t) == job[t].status = "running" /\ job[t].token = w

Finished(row) ==
  [row EXCEPT !.status = "done", !.live = FALSE, !.success = row.input]

mark_stage1_job_succeeded(w, t) ==
  LET source == held[w][t]
  IN /\ source # 0
     /\ held' = [held EXCEPT ![w][t] = 0]
     /\ IF OwnsStage1(w, t)
        THEN /\ job' = [job EXCEPT ![t] = Finished(@)]
             /\ output' = IF source >= output[t].source
                          THEN [output EXCEPT ![t].source = source]
                          ELSE output
             /\ global' = enqueue(global, source)
             /\ unqueued' = unqueued \ {t}
        ELSE UNCHANGED <<job, output, global, unqueued>>
     /\ UNCHANGED <<now, updated, mode, run, memory, seen, faults>>

mark_stage1_job_succeeded_no_output(w, t) ==
  /\ held[w][t] # 0
  /\ held' = [held EXCEPT ![w][t] = 0]
  /\ IF OwnsStage1(w, t)
     THEN /\ job' = [job EXCEPT ![t] = Finished(@)]
          /\ output' = [output EXCEPT ![t] = NoOutput]
          /\ IF output[t].source # 0
             THEN global' = enqueue(global, job[t].input) /\ unqueued' = unqueued \ {t}
             ELSE UNCHANGED <<global, unqueued>>
     ELSE UNCHANGED <<job, output, global, unqueued>>
  /\ UNCHANGED <<now, updated, mode, run, memory, seen, faults>>

Failed(row) ==
  [row EXCEPT !.status = "error", !.live = FALSE, !.backoff = TRUE,
              !.retries = @ - 1]

mark_stage1_job_failed(w, t) ==
  /\ held[w][t] # 0
  /\ held' = [held EXCEPT ![w][t] = 0]
  /\ job' = IF OwnsStage1(w, t) THEN [job EXCEPT ![t] = Failed(@)] ELSE job
  /\ UNCHANGED <<now, updated, mode, output, global, run, files, faults>>

\* prune_stage1_outputs_for_retention: rows outside of the baseline that were
\* not used for a while, oldest first, up to a limit of the caller.  Nothing is
\* enqueued.
prune_stage1_outputs_for_retention(t) ==
  /\ Fault
  /\ output[t].source # 0 /\ ~output[t].selected
  /\ output' = [output EXCEPT ![t] = NoOutput]
  /\ unqueued' = unqueued \cup {t}
  /\ UNCHANGED <<now, updated, mode, job, global, held, run, memory, seen>>

-----------------------------------------------------------------------------
\* Phase 2.

Dirty == global.input > global.success

\* Mutant: a lease that has run out is respected too.
try_claim_global_phase2_job_NoSteal(w) ==
  /\ Idle(w)
  /\ Dirty /\ global.retries > 0 /\ ~global.backoff
  /\ global.status # "running"
  /\ global' = [global EXCEPT !.status = "running", !.token = w,
                              !.live = TRUE, !.backoff = FALSE]
  /\ run' = [run EXCEPT ![w].claimed = global.input]
  /\ UNCHANGED <<now, updated, mode, output, job, held, files, faults>>

try_claim_global_phase2_job(w) ==
  /\ Idle(w)
  /\ Dirty /\ global.retries > 0 /\ ~global.backoff
  /\ global.status = "running" => ~global.live
  /\ global' = [global EXCEPT !.status = "running", !.token = w,
                              !.live = TRUE, !.backoff = FALSE]
  /\ run' = [run EXCEPT ![w].claimed = global.input]
  /\ UNCHANGED <<now, updated, mode, output, job, held, files, faults>>

\* The rows of enabled threads, up to MaxSelected; which, the counters of
\* their use and the age of that use decide, which are not modelled.
get_phase2_input_selection(w) ==
  /\ run[w].claimed # 0 /\ ~run[w].selected
  /\ \E S \in SUBSET {t \in Threads : mode[t] = "enabled" /\ output[t].source # 0} :
       /\ Cardinality(S) <= MaxSelected
       /\ run' = [run EXCEPT ![w] =
            [@ EXCEPT !.selected = TRUE,
                      !.chosen = [t \in Threads |->
                                    IF t \in S THEN output[t].source ELSE 0],
                      !.shown  = [t \in Threads |-> output[t].source]]]
  /\ UNCHANGED <<now, store, held, files, faults>>

OwnsGlobal(w) == global.status = "running" /\ global.token = w

heartbeat_global_phase2_job(w) ==
  /\ run[w].claimed # 0
  /\ OwnsGlobal(w) /\ ~global.live
  /\ global' = [global EXCEPT !.live = TRUE]
  /\ UNCHANGED <<now, updated, mode, output, job, held, run, files, faults>>

\* Mutant: the flags of the last baseline are left up.
Rewritten_KeepsFlags(row, version) ==
  IF version # 0 /\ version = row.source
  THEN [row EXCEPT !.selected = TRUE, !.snapshot = version] ELSE row

\* A row after the two updates that rewrite the baseline.
Rewritten(row, version) ==
  IF version # 0 /\ version = row.source
  THEN [row EXCEPT !.selected = TRUE, !.snapshot = version]
  ELSE [row EXCEPT !.selected = FALSE, !.snapshot = 0]

\* Mutant: the watermark of whoever finishes last counts.
mark_global_phase2_job_succeeded_LastWins(w, completed) ==
  /\ run[w].selected
  /\ run' = [run EXCEPT ![w] = NoRun]
  /\ IF global.status = "running"
     THEN /\ global' = [global EXCEPT !.status = "done", !.live = FALSE,
                                      !.success = completed]
          /\ output' = [t \in Threads |-> Rewritten(output[t], run[w].chosen[t])]
          /\ memory' = run[w].chosen /\ seen' = run[w].shown
          /\ unqueued' = {t \in unqueued : run[w].chosen[t] # 0}
     ELSE UNCHANGED <<global, output, files>>
  /\ UNCHANGED <<now, updated, mode, job, held, faults>>

\* completed is the caller's: the watermark it claimed, or the newest version
\* it selected if that is later.
mark_global_phase2_job_succeeded(w, completed) ==
  /\ run[w].selected
  /\ run' = [run EXCEPT ![w] = NoRun]
  /\ IF OwnsGlobal(w)
     THEN /\ global' = [global EXCEPT !.status = "done", !.live = FALSE,
                                      !.success = Max2(@, completed)]
          /\ output' = [t \in Threads |-> Rewritten(output[t], run[w].chosen[t])]
          /\ memory' = run[w].chosen /\ seen' = run[w].shown
          /\ unqueued' = {t \in unqueued : run[w].chosen[t] # 0}
     ELSE UNCHANGED <<global, output, files>>
  /\ UNCHANGED <<now, updated, mode, job, held, faults>>

Completed(w) ==
  {run[w].claimed, Max({run[w].claimed} \cup {run[w].chosen[t] : t \in Threads})}

mark_global_phase2_job_failed(w) ==
  /\ run[w].claimed # 0
  /\ run' = [run EXCEPT ![w] = NoRun]
  /\ global' = IF OwnsGlobal(w) THEN Failed(global) ELSE global
  /\ UNCHANGED <<now, updated, mode, output, job, held, files, faults>>

\* As above; a running row without an owner is taken over too.
mark_global_phase2_job_failed_if_unowned(w) ==
  /\ run[w].claimed # 0
  /\ run' = [run EXCEPT ![w] = NoRun]
  /\ global' = IF global.status = "running" /\ global.token \in {w, Nobody}
               THEN Failed(global) ELSE global
  /\ UNCHANGED <<now, updated, mode, output, job, held, files, faults>>

-----------------------------------------------------------------------------
\* clear_memory_data and reset_memory_data_for_fresh_start; the files are the
\* caller's to remove.
clear_memory_data_inner(disable) ==
  /\ Fault
  /\ output' = [t \in Threads |-> NoOutput]
  /\ job' = [t \in Threads |-> NoJob]
  /\ global' = NoJob
  /\ mode' = [t \in Threads |-> IF disable /\ mode[t] = "enabled"
                                THEN "disabled" ELSE mode[t]]
  /\ memory' = Nothing /\ seen' = Nothing /\ unqueued' = {}
  /\ UNCHANGED <<now, updated, held, run>>

\* A session ends in the middle of its work.
Crash(w) ==
  /\ Fault
  /\ ~Idle(w)
  /\ held' = [held EXCEPT ![w] = Nothing]
  /\ run' = [run EXCEPT ![w] = NoRun]
  /\ UNCHANGED <<now, store, files>>

\* Time passes the backoff of a row, or its lease.  That a lease ends while
\* its holder is still at work counts as a fault.
Elapse(row, working) ==
  \/ row.backoff /\ UNCHANGED faults
  \/ row.live /\ ~working /\ UNCHANGED faults
  \/ row.live /\ working /\ Fault

Elapsed(row) == IF row.backoff THEN [row EXCEPT !.backoff = FALSE]
                ELSE [row EXCEPT !.live = FALSE]

Time ==
  /\ \/ \E t \in Threads :
          /\ Elapse(job[t], \E w \in Workers : job[t].token = w /\ held[w][t] # 0)
          /\ job' = [job EXCEPT ![t] = Elapsed(@)]
          /\ UNCHANGED global
     \/ /\ Elapse(global, \E w \in Workers : global.token = w /\ run[w] # NoRun)
        /\ global' = Elapsed(global)
        /\ UNCHANGED job
  /\ UNCHANGED <<now, updated, mode, output, held, run, files>>

-----------------------------------------------------------------------------
Stage1(w) == \E t \in Threads : \/ mark_stage1_job_succeeded(w, t)
                               \/ mark_stage1_job_succeeded_no_output(w, t)
                               \/ mark_stage1_job_failed(w, t)

Succeeds(w) == \E completed \in Completed(w) :
                 mark_global_phase2_job_succeeded(w, completed)

Phase2(w) == \/ get_phase2_input_selection(w)
             \/ heartbeat_global_phase2_job(w)
             \/ Succeeds(w)
             \/ mark_global_phase2_job_failed(w)
             \/ mark_global_phase2_job_failed_if_unowned(w)

Next ==
  \/ \E t \in Threads :
       \/ Edit(t)
       \/ \E m \in {"enabled", "disabled", "polluted"} :
            set_thread_memory_mode(t, m)
       \/ mark_thread_memory_mode_polluted(t)
       \/ prune_stage1_outputs_for_retention(t)
  \/ \E w \in Workers :
       \/ \E eligible \in SUBSET Threads :
            claim_stage1_jobs_for_startup(w, eligible)
       \/ try_claim_global_phase2_job(w)
       \/ Stage1(w)
       \/ Phase2(w)
       \/ Crash(w)
  \/ \E disable \in BOOLEAN : clear_memory_data_inner(disable)
  \/ Time

\* Sessions keep being started, do what they claimed in bounded time (with any
\* outcome) and time passes.
Fairness ==
  /\ WF_vars(Time)
  /\ \A w \in Workers : /\ WF_vars(Stage1(w))
                       /\ WF_vars(get_phase2_input_selection(w))
                       /\ WF_vars(Succeeds(w) \/ mark_global_phase2_job_failed(w))
  /\ SF_vars(\E w \in Workers : claim_stage1_jobs_for_startup(w, Threads))
  /\ SF_vars(\E w \in Workers : try_claim_global_phase2_job(w))

Spec == Init /\ [][Next]_vars /\ Fairness

-----------------------------------------------------------------------------
(***************************************************************************)
(* However startups, edits, expiries and late workers interleave, no more  *)
(* than MaxRunning extractions have a lease at one time.                   *)
(***************************************************************************)
RunningCap == Cardinality({t \in Threads : Running(t)}) <= MaxRunning

(***************************************************************************)
(* The row of outputs is the one of the last success: a worker whose job   *)
(* was taken over, and is late, leaves neither its older memory nor its    *)
(* older watermark.                                                        *)
(***************************************************************************)
SuccessHasItsOutput ==
  \A t \in Threads : output[t].source # 0 => output[t].source = job[t].success

(***************************************************************************)
(* What the rows are at every moment: their types, and the tie between the *)
(* table of jobs and the table of outputs.                                 *)
(***************************************************************************)
RowsInv == TypeOK /\ SuccessHasItsOutput

(***************************************************************************)
(* When the global job is not dirty, the last consolidation has looked at  *)
(* every output there is, at its present version: none that came while a   *)
(* consolidation ran is missed.                                            *)
(***************************************************************************)
NoOutputLost ==
  ~Dirty => \A t \in Threads : output[t].source # 0 => seen[t] = output[t].source

\* The threads that the files still hold and should not: polluted, or without
\* an output.
MustGo == {t \in Threads :
             memory[t] # 0 /\ (mode[t] = "polluted" \/ output[t].source = 0)}

(***************************************************************************)
(* A thread that must go from the files leaves the global job dirty until  *)
(* a consolidation without it, whenever it came to that: before, during or *)
(* after the consolidation that put it there.  The code's exceptions are   *)
(* named: what pollutes or prunes a thread whose row is not flagged, or    *)
(* sets its mode from a rollout, queues nothing, and a consolidation that  *)
(* had selected the thread by then leaves it in the files.                 *)
(***************************************************************************)
ForgettingIsQueued == ~Dirty => MustGo \subseteq unqueued

(***************************************************************************)
(* A new output is consolidated or queued, and so is the forgetting of one *)
(* but for the exceptions above.                                           *)
(***************************************************************************)
NothingMissed == NoOutputLost /\ ForgettingIsQueued

(***************************************************************************)
(* The flags of the rows say what is in the files: a flagged row is in     *)
(* them at the version of its snapshot, and, when the job is not dirty, a  *)
(* row that is in the files is flagged at its present version.             *)
(***************************************************************************)
BaselineIsTheMemory ==
  \A t \in Threads :
    /\ output[t].selected => memory[t] = output[t].snapshot
    /\ ~Dirty /\ output[t].source # 0 /\ memory[t] # 0
         => output[t].selected /\ output[t].snapshot = output[t].source

(***************************************************************************)
(* Neither an output nor a watermark of success ever goes back, until all  *)
(* of them are cleared.                                                    *)
(***************************************************************************)
NothingGoesBack ==
  [][(\E t \in Threads : job'[t] # NoJob) =>
       /\ global'.success >= global.success
       /\ \A t \in Threads : /\ job'[t].success >= job[t].success
                             /\ \/ output'[t].source = 0
                                \/ output'[t].source >= output[t].source]_vars

Exhausted(t) == job[t].retries = 0 /\ updated[t] <= job[t].input

(***************************************************************************)
(* A thread that was edited is extracted, or its retries are used up, or   *)
(* it is switched off: a crash, a lease or a backoff only delays it.       *)
(***************************************************************************)
EveryEditIsExtracted ==
  \A t \in Threads : t \in Stale ~> t \notin Stale \/ Exhausted(t)

(***************************************************************************)
(* What is dirty is consolidated, or the retries are used up.              *)
(***************************************************************************)
EveryChangeIsConsolidated == Dirty ~> ~Dirty \/ global.retries = 0
=============================================================================

---------------------------- MODULE MemoriesProofs ----------------------------
(***************************************************************************)
(* Theorems about Memories for any number of threads and sessions: the     *)
(* rows stay consistent, the cap on running extractions holds, and no      *)
(* change of the outputs escapes the consolidation.                        *)
(***************************************************************************)
EXTENDS Memories, FiniteSetTheorems, TLAPS

-----------------------------------------------------------------------------
\* Numbers and finite sets.

LEMMA ConstantTypes ==
  /\ Threads \subseteq Nat /\ IsFiniteSet(Threads) /\ Nobody \notin Workers
  /\ MaxRunning \in Nat /\ DefaultRetries \in Nat /\ DefaultRetries > 0
  /\ MaxNow \in Nat /\ MaxNow > 0 /\ MaxFaults \in Nat
BY ConstantsAssumption

LEMMA Max2Facts ==
  ASSUME NEW a \in Nat, NEW b \in Nat
  PROVE  Max2(a, b) \in Nat /\ Max2(a, b) >= a /\ Max2(a, b) >= b
         /\ Max2(a, b) \in {a, b}
BY DEF Max2

LEMMA MaxOfBounded ==
  ASSUME NEW S \in SUBSET Nat, S # {}, NEW bound \in Nat,
         \A x \in S : x <= bound
  PROVE  Max(S) \in S /\ \A x \in S : x <= Max(S)
<1> DEFINE T == {bound - x : x \in S}
           less == {ss \in Nat \X Nat : ss[1] < ss[2]}
<1>1. T \subseteq Nat /\ T # {}
  <2>1. ASSUME NEW x \in S
        PROVE  bound - x \in Nat
    <3>1. x \in Nat /\ x <= bound
      OBVIOUS
    <3>2. QED
      BY <3>1
  <2>2. QED
    BY <2>1
<1>2. \E m \in T : \A y \in T : ~(<<y, m>> \in less)
  <2>1. IsWellFoundedOn(less, Nat)
    BY NatLessThanWellFounded DEF OpToRel
  <2> HIDE DEF T, less
  <2>2. QED
    BY <1>1, <2>1, WFMin
<1>3. PICK m \in T : \A y \in T : ~(y < m)
  <2>1. PICK m \in T : \A y \in T : ~(<<y, m>> \in less)
    BY <1>2
  <2>2. ASSUME NEW y \in T
        PROVE  ~(y < m)
    <3>1. y \in Nat /\ m \in Nat /\ <<y, m>> \notin less
      BY <1>1, <2>1
    <3>2. QED
      BY <3>1
  <2>3. QED
    BY <2>2
<1>4. PICK x \in S : m = bound - x
  BY <1>3
<1>5. \A y \in S : x >= y
  <2> SUFFICES ASSUME NEW y \in S PROVE x >= y
    OBVIOUS
  <2>1. bound - y \in T
    OBVIOUS
  <2>2. ~(bound - y < bound - x)
    BY <1>3, <1>4, <2>1
  <2>3. x \in Nat /\ y \in Nat
    OBVIOUS
  <2>4. QED
    BY <2>2, <2>3
<1>6. QED
  BY <1>5 DEF Max

LEMMA AheadIsAnOrder ==
  ASSUME TypeOK, NEW t \in Threads, NEW u \in Threads, NEW v \in Threads
  PROVE  /\ ~Ahead(t, t)
         /\ t # u => Ahead(t, u) \/ Ahead(u, t)
         /\ Ahead(t, u) /\ Ahead(u, v) => Ahead(t, v)
<1>1. updated[t] \in Nat /\ updated[u] \in Nat /\ updated[v] \in Nat
  BY ConstantTypes DEF TypeOK
<1>2. t \in Nat /\ u \in Nat /\ v \in Nat
  BY ConstantTypes
<1>3. QED
  BY <1>1, <1>2 DEF Ahead

\* The scan's ORDER BY ... LIMIT n yields no more than n threads: how many of S
\* are ahead of a thread tells the threads of S apart.
LEMMA NewestIsLimited ==
  ASSUME TypeOK, NEW S \in SUBSET Threads, NEW n \in Nat
  PROVE  /\ Newest(S, n) \subseteq S /\ IsFiniteSet(Newest(S, n))
         /\ Cardinality(Newest(S, n)) <= n
<1> DEFINE before(t) == {u \in S : Ahead(u, t)}
           N == Newest(S, n)
           rank == [t \in N |-> Cardinality(before(t))]
<1>1. IsFiniteSet(S) /\ N \subseteq S
  BY FS_Subset, ConstantTypes DEF Newest
<1>2. \A t \in S : IsFiniteSet(before(t)) /\ Cardinality(before(t)) \in Nat
  BY <1>1, FS_Subset, FS_CardinalityType
<1>3. ASSUME NEW t \in S, NEW u \in S, Ahead(t, u)
      PROVE  Cardinality(before(t)) < Cardinality(before(u))
  <2>1. before(t) \subseteq before(u)
    BY <1>3, AheadIsAnOrder
  <2>2. t \in before(u) /\ t \notin before(t)
    BY <1>3, AheadIsAnOrder
  <2>3. Cardinality(before(t)) <= Cardinality(before(u))
        /\ (Cardinality(before(u)) = Cardinality(before(t)) => before(u) = before(t))
    BY <1>2, <2>1, FS_Subset
  <2>4. QED
    BY <1>2, <2>2, <2>3
<1>4. rank \in Injection(N, 0 .. n - 1)
  <2>1. ASSUME NEW t \in N
        PROVE  Cardinality(before(t)) \in 0 .. n - 1
    <3>1. t \in S /\ Cardinality(before(t)) < n
      BY DEF Newest
    <3>2. Cardinality(before(t)) \in Nat
      BY <1>2, <3>1
    <3>3. QED
      BY <3>1, <3>2
  <2>2. rank \in [N -> 0 .. n - 1]
    BY <2>1
  <2>3. ASSUME NEW t \in N, NEW u \in N, t # u
        PROVE  rank[t] # rank[u]
    <3>1. Ahead(t, u) \/ Ahead(u, t)
      BY <1>1, <2>3, AheadIsAnOrder
    <3>2. rank[t] < rank[u] \/ rank[u] < rank[t]
      BY <1>1, <1>3, <3>1
    <3>3. QED
      BY <1>1, <1>2, <3>2
  <2>4. QED
    BY <2>2, <2>3 DEF Injection, IsInjective
<1>5. IsFiniteSet(0 .. n - 1) /\ Cardinality(0 .. n - 1) = n
  BY FS_Interval
<1>6. QED
  BY <1>1, <1>4, <1>5, FS_Injection

-----------------------------------------------------------------------------
\* Rows.

LEMMA RowTypes ==
  /\ NoJob \in JobRow /\ NoOutput \in OutputRow /\ Nothing \in Versions
  /\ NoRun \in RunState
BY ConstantTypes DEF NoJob, JobRow, NoOutput, OutputRow, Nothing, Versions,
                     NoRun, RunState

Statuses == {"absent", "pending", "running", "done", "error"}

LEMMA RowFields ==
  ASSUME NEW row \in JobRow
  PROVE  /\ row.status \in Statuses /\ row.token \in Workers \cup {Nobody}
         /\ row.live \in BOOLEAN /\ row.backoff \in BOOLEAN
         /\ row.retries \in 0 .. DefaultRetries
         /\ row.input \in Nat /\ row.success \in Nat
BY DEF JobRow, Statuses

\* The watermark of an enqueued job is ahead of the old one and reaches the
\* given one; nothing else of a running job changes but its retries.
LEMMA EnqueueFacts ==
  ASSUME NEW g \in JobRow, NEW watermark \in Nat
  PROVE  LET e == enqueue(g, watermark)
         IN  /\ e \in JobRow /\ e.status # "absent" /\ e.retries > 0
             /\ e.input >= watermark
             /\ g.status = "absent" => e.status = "pending" /\ e.success = 0
                                       /\ e.input = watermark
             /\ g.status # "absent" => /\ e.input > g.input
                                       /\ e.success = g.success
                                       /\ e.token = g.token
                                       /\ (e.status = "running") <=> (g.status = "running")
<1> DEFINE e == enqueue(g, watermark)
<1>1. CASE g.status = "absent"
  <2>1. e = [status |-> "pending", token |-> Nobody, live |-> FALSE,
             backoff |-> FALSE, retries |-> DefaultRetries,
             input |-> watermark, success |-> 0]
    BY <1>1 DEF enqueue, NoJob
  <2>2. DefaultRetries \in 0 .. DefaultRetries
    BY ConstantTypes
  <2>3. e \in JobRow
    BY <2>1, <2>2 DEF JobRow
  <2>4. QED
    BY <1>1, <2>1, <2>3, ConstantTypes
<1>2. CASE g.status # "absent"
  <2> DEFINE st == IF g.status = "running" THEN "running" ELSE "pending"
             bo == g.status = "running" /\ g.backoff
             in == IF watermark > g.input THEN watermark ELSE g.input + 1
  <2>1. Max2(g.retries, DefaultRetries) = DefaultRetries
    BY RowFields, ConstantTypes DEF Max2
  <2>2. e = [g EXCEPT !.status = st, !.token = g.token, !.live = g.live,
                      !.backoff = bo, !.input = in, !.retries = DefaultRetries]
    BY <1>2, <2>1, RowFields DEF enqueue, JobRow
  <2>3. st \in Statuses /\ bo \in BOOLEAN
    BY RowFields DEF Statuses
  <2>4. in \in Nat /\ in > g.input /\ in >= watermark
    BY RowFields
  <2>5. DefaultRetries \in 0 .. DefaultRetries
    BY ConstantTypes
  <2>6. /\ e \in JobRow
        /\ e.status = st /\ e.token = g.token /\ e.success = g.success
        /\ e.input = in /\ e.retries = DefaultRetries
    <3> HIDE DEF e, st, bo, in
    <3>1. QED
      BY <2>2, <2>3, <2>4, <2>5, RowFields DEF JobRow, Statuses
  <2>7. QED
    BY <1>2, <2>4, <2>6, ConstantTypes
<1>3. QED
  BY <1>1, <1>2

LEMMA FinishedFacts ==
  ASSUME NEW row \in JobRow
  PROVE  LET f == Finished(row)
         IN  /\ f \in JobRow /\ f.status = "done" /\ ~f.live
             /\ f.success = row.input /\ f.input = row.input
BY DEF Finished, JobRow

LEMMA FailedFacts ==
  ASSUME NEW row \in JobRow, row.retries > 0
  PROVE  LET f == Failed(row)
         IN  /\ f \in JobRow /\ f.status = "error" /\ ~f.live
             /\ f.success = row.success /\ f.input = row.input
<1>1. row.retries - 1 \in 0 .. DefaultRetries
  BY ConstantTypes DEF JobRow
<1>2. QED
  BY <1>1 DEF Failed, JobRow

LEMMA ElapsedFacts ==
  ASSUME NEW row \in JobRow
  PROVE  LET e == Elapsed(row)
         IN  /\ e \in JobRow /\ e.status = row.status /\ e.token = row.token
             /\ e.success = row.success /\ e.input = row.input
             /\ e.retries = row.retries
             /\ e.live => row.live
BY DEF Elapsed, JobRow

LEMMA NothingElapses == Elapsed(NoJob) = NoJob
<1>1. [NoJob EXCEPT !.live = NoJob.live] = NoJob
  BY Zenon DEF NoJob
<1>2. NoJob.backoff = FALSE /\ NoJob.live = FALSE
  BY DEF NoJob
<1>3. QED
  BY <1>1, <1>2 DEF Elapsed

LEMMA ClaimedFacts ==
  ASSUME TypeOK, NEW t \in Threads, NEW w \in Workers, Claimable(t)
  PROVE  LET c == Claimed(t, w)
         IN  /\ c \in JobRow /\ c.status = "running" /\ c.token = w
             /\ c.success = job[t].success /\ c.input = updated[t]
             /\ NoJob = job[t] \/ job[t].status # "absent" => c.retries > 0
<1> DEFINE c == Claimed(t, w)
           re == IF updated[t] > job[t].input THEN DefaultRetries
                 ELSE job[t].retries
<1>1. job[t] \in JobRow /\ updated[t] \in 1 .. MaxNow
  BY DEF TypeOK
<1>2. /\ c \in JobRow /\ c.status = "running" /\ c.token = w
      /\ c.success = job[t].success /\ c.input = updated[t]
      /\ c.retries = re
  <2>1. c = [job[t] EXCEPT !.status = "running", !.token = w, !.live = TRUE,
                           !.backoff = FALSE, !.input = updated[t],
                           !.retries = re]
    BY <1>1 DEF Claimed, JobRow
  <2>2. re \in 0 .. DefaultRetries /\ updated[t] \in Nat
    BY <1>1, RowFields, ConstantTypes
  <2>3. "running" \in Statuses /\ w \in Workers \cup {Nobody}
    BY DEF Statuses
  <2> HIDE DEF c, re
  <2>4. QED
    BY <1>1, <2>1, <2>2, <2>3 DEF JobRow, Statuses
<1>3. NoJob = job[t] => updated[t] > job[t].input
  BY <1>1, ConstantTypes DEF NoJob
<1>4. job[t].status # "absent" => job[t].retries > 0 \/ updated[t] > job[t].input
  BY DEF Claimable
<1>5. QED
  BY <1>2, <1>3, <1>4, ConstantTypes

-----------------------------------------------------------------------------
\* A job that runs has a retry to lose; a row that is not there is blank.
JobsAreSound ==
  /\ \A t \in Threads : /\ job[t].status = "running" => job[t].retries > 0
                        /\ job[t].status = "absent" => job[t] = NoJob
  /\ global.status = "running" => global.retries > 0
  /\ global.status = "absent" => global = NoJob

\* The owner of a running extraction was given the version its row is for, and
\* the row's last success is no later.
ClaimsAreCurrent ==
  \A t \in Threads :
    /\ job[t].success <= job[t].input
    /\ \A w \in Workers :
         OwnsStage1(w, t) /\ held[w][t] # 0 => held[w][t] = job[t].input

\* An output that was deleted leaves nothing behind.
DeletedIsBlank ==
  \A t \in Threads : output[t].source = 0 => output[t] = NoOutput

\* The watermark of the global job is ahead of every output, of its success,
\* and of it strictly while it runs.
WatermarkIsAhead ==
  /\ global.success <= global.input
  /\ global.status = "running" => Dirty
  /\ \A t \in Threads : output[t].source <= global.input

\* A thread whose memory the files should not hold.
Bad(t) == mode[t] = "polluted" \/ output[t].source = 0

\* The watermark has passed all a worker may complete with.
Overtaken(w) ==
  /\ global.input > run[w].claimed
  /\ \A t \in Threads : global.input > run[w].chosen[t]

\* What a worker selected from is what there is, and it chose no thread that
\* must go, but for those that came to that with nothing queued.
UpToDate(w) ==
  \A t \in Threads :
    /\ output[t].source # 0 => run[w].shown[t] = output[t].source
    /\ Bad(t) /\ t \notin unqueued => run[w].chosen[t] = 0

\* A consolidation that owns the global job can complete no later watermark
\* than the job's, and whatever changed since it selected has advanced that.
OwnerNoticesChanges ==
  \A w \in Workers :
    /\ run[w].selected => run[w].claimed # 0
    /\ OwnsGlobal(w) /\ run[w].claimed # 0 =>
         global.success < run[w].claimed /\ run[w].claimed <= global.input
    /\ OwnsGlobal(w) /\ run[w].selected =>
         /\ \A t \in Threads : /\ run[w].chosen[t] <= global.input
                               /\ run[w].chosen[t] \in {0, run[w].shown[t]}
         /\ Overtaken(w) \/ UpToDate(w)

IInv ==
  /\ TypeOK /\ SuccessHasItsOutput /\ NothingMissed /\ BaselineIsTheMemory
  /\ JobsAreSound /\ ClaimsAreCurrent /\ DeletedIsBlank /\ WatermarkIsAhead
  /\ OwnerNoticesChanges

-----------------------------------------------------------------------------
\* What an action leaves alone.

LEMMA Frame ==
  ASSUME IInv
  PROVE  /\ UNCHANGED <<job, global>> => JobsAreSound'
         /\ UNCHANGED <<job, held>> => ClaimsAreCurrent'
         /\ UNCHANGED <<job, output>> => SuccessHasItsOutput'
         /\ UNCHANGED output => DeletedIsBlank'
         /\ UNCHANGED <<global, output>> => WatermarkIsAhead'
         /\ UNCHANGED <<run, global, output, mode, unqueued>> => OwnerNoticesChanges'
         /\ UNCHANGED <<global, output, mode, files>> => NothingMissed'
         /\ UNCHANGED <<global, output, memory>> => BaselineIsTheMemory'
<1>1. UNCHANGED <<job, global>> => JobsAreSound'
  BY DEF IInv, JobsAreSound
<1>2. UNCHANGED <<job, held>> => ClaimsAreCurrent'
  BY DEF IInv, ClaimsAreCurrent, OwnsStage1
<1>3. UNCHANGED <<job, output>> => SuccessHasItsOutput'
  BY DEF IInv, SuccessHasItsOutput
<1>4. UNCHANGED output => DeletedIsBlank'
  BY DEF IInv, DeletedIsBlank
<1>5. UNCHANGED <<global, output>> => WatermarkIsAhead'
  BY DEF IInv, WatermarkIsAhead, Dirty
<1>6. UNCHANGED <<run, global, output, mode, unqueued>> => OwnerNoticesChanges'
  BY DEF IInv, OwnerNoticesChanges, OwnsGlobal, Overtaken, UpToDate, Bad
<1>7. UNCHANGED <<global, output, mode, files>> => NothingMissed'
  BY DEF IInv, NothingMissed, NoOutputLost, ForgettingIsQueued, MustGo, Dirty, files
<1>8. UNCHANGED <<global, output, memory>> => BaselineIsTheMemory'
  BY DEF IInv, BaselineIsTheMemory, Dirty
<1>9. QED
  BY <1>1, <1>2, <1>3, <1>4, <1>5, <1>6, <1>7, <1>8

\* The types of what the lemmas below compare.
LEMMA Types ==
  ASSUME TypeOK
  PROVE  /\ global \in JobRow /\ global.input \in Nat /\ global.success \in Nat
         /\ \A t \in Threads :
              /\ job[t] \in JobRow /\ job[t].input \in Nat /\ job[t].success \in Nat
              /\ output[t] \in OutputRow /\ output[t].source \in Nat
              /\ updated[t] \in Nat /\ memory[t] \in Nat /\ seen[t] \in Nat
         /\ \A w \in Workers :
              /\ run[w] \in RunState /\ run[w].claimed \in Nat
              /\ run[w].chosen \in Versions /\ run[w].shown \in Versions
              /\ \A t \in Threads : /\ held[w][t] \in Nat
                                    /\ run[w].chosen[t] \in Nat
                                    /\ run[w].shown[t] \in Nat
         /\ unqueued \subseteq Threads /\ now \in Nat /\ now > 0
<1>1. global \in JobRow /\ global.input \in Nat /\ global.success \in Nat
  BY RowFields DEF TypeOK
<1>2. \A t \in Threads :
        job[t] \in JobRow /\ job[t].input \in Nat /\ job[t].success \in Nat
  BY RowFields DEF TypeOK
<1>3. \A t \in Threads :
        /\ output[t] \in OutputRow /\ output[t].source \in Nat
        /\ updated[t] \in Nat /\ memory[t] \in Nat /\ seen[t] \in Nat
  BY ConstantTypes DEF TypeOK, OutputRow, Versions
<1>4. \A w \in Workers :
        /\ run[w] \in RunState /\ run[w].claimed \in Nat
        /\ run[w].chosen \in Versions /\ run[w].shown \in Versions
  BY DEF TypeOK, RunState
<1>5. \A w \in Workers : \A t \in Threads :
        /\ held[w][t] \in Nat /\ run[w].chosen[t] \in Nat
        /\ run[w].shown[t] \in Nat
  BY <1>4 DEF TypeOK, Versions
<1>6. QED
  BY <1>1, <1>2, <1>3, <1>4, <1>5, ConstantTypes DEF TypeOK

\* Of the global job only the lease, the backoff, the retries or the end of the
\* run change; claims of workers may end.
LEMMA GlobalFlags ==
  ASSUME IInv,
         /\ global'.input = global.input /\ global'.success = global.success
         /\ global'.status = "running" =>
              global.status = "running" /\ global'.token = global.token
         /\ \A w \in Workers : run'[w] \in {run[w], NoRun}
         /\ UNCHANGED <<mode, output, memory, seen, unqueued>>
  PROVE  /\ WatermarkIsAhead' /\ OwnerNoticesChanges'
         /\ NothingMissed' /\ BaselineIsTheMemory' /\ DeletedIsBlank'
<1>1. Dirty' <=> Dirty
  BY DEF Dirty
<1>2. WatermarkIsAhead'
  BY <1>1 DEF IInv, WatermarkIsAhead
<1>3. OwnerNoticesChanges'
  <2> SUFFICES ASSUME NEW w \in Workers
      PROVE  /\ run'[w].selected => run'[w].claimed # 0
             /\ OwnsGlobal(w)' /\ run'[w].claimed # 0 =>
                  global.success < run'[w].claimed /\ run'[w].claimed <= global.input
             /\ OwnsGlobal(w)' /\ run'[w].selected =>
                  /\ \A t \in Threads : /\ run'[w].chosen[t] <= global.input
                                        /\ run'[w].chosen[t] \in {0, run'[w].shown[t]}
                  /\ Overtaken(w)' \/ UpToDate(w)'
    BY DEF OwnerNoticesChanges
  <2>1. OwnsGlobal(w)' => OwnsGlobal(w)
    BY DEF OwnsGlobal
  <2>2. CASE run'[w] = run[w]
    BY <2>1, <2>2 DEF IInv, OwnerNoticesChanges, Overtaken, UpToDate, Bad
  <2>3. CASE run'[w] = NoRun
    BY <2>3 DEF NoRun
  <2>4. QED
    BY <2>2, <2>3
<1>4. NothingMissed'
  BY <1>1 DEF IInv, NothingMissed, NoOutputLost, ForgettingIsQueued, MustGo
<1>5. BaselineIsTheMemory'
  BY <1>1 DEF IInv, BaselineIsTheMemory
<1>6. QED
  BY <1>2, <1>3, <1>4, <1>5, Frame

\* The global job is enqueued: it is dirty, and its owner, if it has one, is
\* overtaken.  Outputs may be deleted or replaced by one up to the watermark.
LEMMA GlobalAdvances ==
  ASSUME IInv, NEW watermark \in Nat, watermark > 0,
         /\ global' = enqueue(global, watermark)
         /\ UNCHANGED <<run, memory, seen>>
         /\ \A t \in Threads :
              /\ \/ output'[t].source \in {0, output[t].source}
                 \/ output'[t].source \in 0 .. watermark
              /\ output'[t].selected => /\ output[t].selected
                                        /\ output'[t].snapshot = output[t].snapshot
  PROVE  /\ WatermarkIsAhead' /\ OwnerNoticesChanges' /\ Dirty'
         /\ NothingMissed' /\ BaselineIsTheMemory'
         /\ global' \in JobRow /\ global'.retries > 0 /\ global'.status # "absent"
         /\ global'.success >= global.success
<1>1. TypeOK /\ WatermarkIsAhead /\ OwnerNoticesChanges /\ JobsAreSound
  BY DEF IInv
<1>2. /\ global' \in JobRow /\ global'.retries > 0 /\ global'.status # "absent"
      /\ global'.input >= watermark
      /\ global'.status = "running" => /\ global.status = "running"
                                       /\ global'.token = global.token
  BY <1>1, Types, EnqueueFacts
<1>3. global'.input > global.input /\ global'.success = global.success
  <2>1. CASE global.status = "absent"
    <3>1. global = NoJob
      BY <1>1, <2>1 DEF JobsAreSound
    <3>2. QED
      BY <1>1, <2>1, <3>1, Types, EnqueueFacts DEF NoJob
  <2>2. CASE global.status # "absent"
    BY <1>1, <2>2, Types, EnqueueFacts
  <2>3. QED
    BY <2>1, <2>2
<1>4. global'.input \in Nat /\ global.input \in Nat /\ global.success \in Nat
  BY <1>1, <1>2, Types, RowFields
<1>5. Dirty'
  BY <1>1, <1>3, <1>4 DEF Dirty, WatermarkIsAhead
<1>6. WatermarkIsAhead'
  <2>1. global'.success <= global'.input
    BY <1>1, <1>3, <1>4 DEF WatermarkIsAhead
  <2>2. ASSUME NEW t \in Threads
        PROVE  output'[t].source <= global'.input
    <3>1. output[t].source <= global.input /\ output[t].source \in Nat
      BY <1>1, Types DEF WatermarkIsAhead
    <3>2. CASE output'[t].source = 0
      BY <3>2, <1>4
    <3>3. CASE output'[t].source = output[t].source
      BY <3>1, <3>3, <1>3, <1>4
    <3>4. CASE output'[t].source \in 0 .. watermark
      BY <3>4, <1>2, <1>4
    <3>5. QED
      BY <3>2, <3>3, <3>4
  <2>3. QED
    BY <1>5, <2>1, <2>2 DEF WatermarkIsAhead
<1>7. OwnerNoticesChanges'
  <2> SUFFICES ASSUME NEW w \in Workers
      PROVE  /\ run[w].selected => run[w].claimed # 0
             /\ OwnsGlobal(w)' /\ run[w].claimed # 0 =>
                  global'.success < run[w].claimed /\ run[w].claimed <= global'.input
             /\ OwnsGlobal(w)' /\ run[w].selected =>
                  /\ \A t \in Threads : /\ run[w].chosen[t] <= global'.input
                                        /\ run[w].chosen[t] \in {0, run[w].shown[t]}
                  /\ Overtaken(w)'
    BY DEF OwnerNoticesChanges
  <2>1. OwnsGlobal(w)' => OwnsGlobal(w)
    BY <1>2 DEF OwnsGlobal
  <2>2. run[w].claimed \in Nat /\ \A t \in Threads : run[w].chosen[t] \in Nat
    BY <1>1, Types
  <2>3. OwnsGlobal(w)' /\ run[w].claimed # 0 =>
          global'.success < run[w].claimed /\ run[w].claimed < global'.input
    BY <1>1, <1>3, <1>4, <2>1, <2>2 DEF OwnerNoticesChanges
  <2>4. OwnsGlobal(w)' /\ run[w].selected =>
          \A t \in Threads : /\ run[w].chosen[t] < global'.input
                             /\ run[w].chosen[t] \in {0, run[w].shown[t]}
    BY <1>1, <1>3, <1>4, <2>1, <2>2 DEF OwnerNoticesChanges
  <2>5. run[w].selected => run[w].claimed # 0
    BY <1>1 DEF OwnerNoticesChanges
  <2>6. QED
    BY <1>4, <2>2, <2>3, <2>4, <2>5 DEF Overtaken
<1>8. NothingMissed'
  BY <1>5 DEF NothingMissed, NoOutputLost, ForgettingIsQueued
<1>9. BaselineIsTheMemory'
  BY <1>5 DEF IInv, BaselineIsTheMemory
<1>10. QED
  BY <1>2, <1>3, <1>4, <1>5, <1>6, <1>7, <1>8, <1>9

-----------------------------------------------------------------------------
\* One lemma per action.

LEMMA EditStep ==
  ASSUME IInv, NEW t \in Threads, Edit(t)
  PROVE  IInv'
<1>1. TypeOK /\ UNCHANGED <<mode, output, job, global, held, run, files, faults>>
  BY DEF IInv, Edit
<1>2. now + 1 \in 1 .. MaxNow
  BY <1>1, ConstantTypes DEF Edit, TypeOK
<1>3. TypeOK'
  BY <1>1, <1>2, ConstantTypes DEF Edit, TypeOK, files
<1>4. QED
  BY <1>1, <1>3, Frame DEF IInv, files

\* With nothing queued a thread can become one that must go, if it is named, and
\* be one no more; only the output of one that is named is deleted.
LEMMA MoreUnqueued ==
  ASSUME IInv, UNCHANGED <<global, run, memory, seen>>,
         unqueued \subseteq unqueued',
         \A t \in Threads :
           /\ Bad(t)' => Bad(t) \/ t \in unqueued'
           /\ output'[t].source \in {0, output[t].source}
  PROVE  OwnerNoticesChanges' /\ NothingMissed'
<1>1. \A w \in Workers : UpToDate(w) => UpToDate(w)'
  BY DEF UpToDate
<1>2. OwnerNoticesChanges'
  BY <1>1 DEF IInv, OwnerNoticesChanges, OwnsGlobal, Overtaken
<1>3. NothingMissed'
  BY DEF IInv, NothingMissed, NoOutputLost, ForgettingIsQueued, MustGo, Bad, Dirty
<1>4. QED
  BY <1>2, <1>3

LEMMA SetModeStep ==
  ASSUME IInv, NEW t \in Threads, NEW m \in {"enabled", "disabled", "polluted"},
         set_thread_memory_mode(t, m)
  PROVE  IInv'
<1>1. TypeOK /\ UNCHANGED <<now, updated, output, job, global, held, run, memory, seen>>
  BY DEF IInv, set_thread_memory_mode
<1>2. /\ unqueued \subseteq unqueued' /\ unqueued' \subseteq Threads
      /\ \A u \in Threads : Bad(u)' => Bad(u) \/ u \in unqueued'
  BY <1>1 DEF set_thread_memory_mode, TypeOK, Bad
<1>3. TypeOK'
  <2>1. faults' \in 0 .. MaxFaults
    BY <1>1, ConstantTypes DEF set_thread_memory_mode, Fault, TypeOK
  <2>2. QED
    BY <1>1, <1>2, <2>1 DEF set_thread_memory_mode, TypeOK
<1>4. OwnerNoticesChanges' /\ NothingMissed'
  BY <1>1, <1>2, MoreUnqueued
<1>5. QED
  BY <1>1, <1>3, <1>4, Frame DEF IInv

LEMMA PollutedStep ==
  ASSUME IInv, NEW t \in Threads, mark_thread_memory_mode_polluted(t)
  PROVE  IInv'
<1> USE DEF mark_thread_memory_mode_polluted
<1>1. TypeOK /\ UNCHANGED <<now, updated, output, job, held, run, memory, seen>>
  BY DEF IInv
<1>2. faults' \in 0 .. MaxFaults /\ mode' \in [Threads -> {"enabled", "disabled", "polluted"}]
  BY <1>1, ConstantTypes DEF Fault, TypeOK
<1>3. CASE output[t].selected
  <2>1. /\ WatermarkIsAhead' /\ OwnerNoticesChanges' /\ NothingMissed'
        /\ BaselineIsTheMemory' /\ global' \in JobRow /\ global'.retries > 0
        /\ global'.status # "absent"
    BY <1>1, <1>3, Types, GlobalAdvances
  <2>2. TypeOK'
    BY <1>1, <1>2, <1>3, <2>1 DEF TypeOK
  <2>3. JobsAreSound'
    BY <1>1, <2>1 DEF IInv, JobsAreSound
  <2>4. QED
    BY <1>1, <2>1, <2>2, <2>3, Frame DEF IInv
<1>4. CASE ~output[t].selected
  <2>1. UNCHANGED global /\ unqueued' = unqueued \cup {t}
    BY <1>4
  <2>2. TypeOK'
    BY <1>1, <1>2, <2>1 DEF TypeOK
  <2>3. \A u \in Threads : Bad(u)' => Bad(u) \/ u \in unqueued'
    BY <1>1, <2>1 DEF TypeOK, Bad
  <2>4. OwnerNoticesChanges' /\ NothingMissed'
    BY <1>1, <2>1, <2>3, MoreUnqueued
  <2>5. QED
    BY <1>1, <2>1, <2>2, <2>4, Frame DEF IInv
<1>5. QED
  BY <1>3, <1>4

LEMMA PruneStep ==
  ASSUME IInv, NEW t \in Threads, prune_stage1_outputs_for_retention(t)
  PROVE  IInv'
<1> USE DEF prune_stage1_outputs_for_retention
<1>1. /\ TypeOK /\ unqueued' = unqueued \cup {t}
      /\ UNCHANGED <<now, updated, mode, job, global, held, run, memory, seen>>
  BY DEF IInv
<1>2. output' \in [Threads -> OutputRow]
  BY <1>1, RowTypes DEF TypeOK
<1>3. \A u \in Threads : output'[u] = IF u = t THEN NoOutput ELSE output[u]
  BY <1>1 DEF TypeOK
<1>4. TypeOK'
  BY <1>1, <1>2, ConstantTypes DEF Fault, TypeOK
<1>5. NoOutput.source = 0 /\ NoOutput.selected = FALSE
  BY DEF NoOutput
<1>6. DeletedIsBlank' /\ SuccessHasItsOutput'
  BY <1>1, <1>3, <1>5 DEF IInv, DeletedIsBlank, SuccessHasItsOutput
<1>7. WatermarkIsAhead'
  BY <1>1, <1>3, <1>5, Types DEF IInv, WatermarkIsAhead, Dirty
<1>8. OwnerNoticesChanges' /\ NothingMissed'
  <2>1. \A u \in Threads : Bad(u)' => Bad(u) \/ u \in unqueued'
    BY <1>1, <1>3 DEF Bad
  <2>2. \A u \in Threads : output'[u].source \in {0, output[u].source}
    BY <1>3, <1>5
  <2>3. QED
    BY <1>1, <2>1, <2>2, MoreUnqueued
<1>9. BaselineIsTheMemory'
  BY <1>1, <1>3, <1>5 DEF IInv, Dirty, BaselineIsTheMemory
<1>10. QED
  BY <1>1, <1>4, <1>6, <1>7, <1>8, <1>9, Frame DEF IInv

LEMMA ClaimsFacts ==
  ASSUME TypeOK, NEW eligible \in SUBSET Threads
  PROVE  /\ Claims(eligible) \subseteq Stale /\ Stale \subseteq Threads
         /\ \A t \in Claims(eligible) : Claimable(t)
BY DEF Claims, Newest, Stale

LEMMA ClaimStage1Step ==
  ASSUME IInv, NEW w \in Workers, NEW eligible \in SUBSET Threads,
         claim_stage1_jobs_for_startup(w, eligible)
  PROVE  IInv'
<1> DEFINE C == Claims(eligible)
<1>1. /\ TypeOK /\ JobsAreSound /\ ClaimsAreCurrent /\ SuccessHasItsOutput
      /\ UNCHANGED <<now, updated, mode, output, global, run, files, faults>>
  BY DEF IInv, claim_stage1_jobs_for_startup
<1>2. /\ held' = [held EXCEPT ![w] = [t \in Threads |-> IF t \in C THEN updated[t] ELSE 0]]
      /\ job' = [t \in Threads |-> IF t \in C THEN Claimed(t, w) ELSE job[t]]
  BY DEF claim_stage1_jobs_for_startup
<1>3. C \subseteq Threads /\ \A t \in C : Claimable(t) /\ job[t].success < updated[t]
  BY <1>1, ClaimsFacts DEF Stale
<1> HIDE DEF C
<1>4. \A t \in C : /\ job'[t] \in JobRow /\ job'[t].status = "running"
                   /\ job'[t].token = w /\ job'[t].success = job[t].success
                   /\ job'[t].input = updated[t] /\ job'[t].retries > 0
  BY <1>1, <1>2, <1>3, ClaimedFacts DEF JobsAreSound
<1>5. \A t \in Threads \ C : job'[t] = job[t]
  BY <1>2
<1>6. TypeOK'
  <2>1. job' \in [Threads -> JobRow]
    BY <1>1, <1>2, <1>4, <1>5 DEF TypeOK
  <2>2. [t \in Threads |-> IF t \in C THEN updated[t] ELSE 0] \in Versions
    BY <1>1, Types DEF Versions
  <2>3. held' \in [Workers -> Versions]
    BY <1>1, <1>2, <2>2 DEF TypeOK
  <2>4. QED
    BY <1>1, <2>1, <2>3 DEF TypeOK, files
<1>7. JobsAreSound'
  BY <1>1, <1>4, <1>5 DEF JobsAreSound
<1>8. SuccessHasItsOutput'
  BY <1>1, <1>4, <1>5 DEF SuccessHasItsOutput
<1>9. ClaimsAreCurrent'
  <2> SUFFICES ASSUME NEW t \in Threads
      PROVE  /\ job'[t].success <= job'[t].input
             /\ \A v \in Workers : OwnsStage1(v, t)' /\ held'[v][t] # 0 =>
                                     held'[v][t] = job'[t].input
    BY DEF ClaimsAreCurrent
  <2>1. \A v \in Workers : held'[v][t] = IF v # w THEN held[v][t]
                                         ELSE IF t \in C THEN updated[t] ELSE 0
    BY <1>1, <1>2 DEF TypeOK, Versions
  <2>2. CASE t \in C
    <3>1. job'[t].success <= job'[t].input
      BY <1>1, <1>3, <1>4, <2>2, Types
    <3>2. \A v \in Workers : OwnsStage1(v, t)' => v = w
      BY <1>4, <2>2 DEF OwnsStage1
    <3>3. QED
      BY <1>4, <2>1, <2>2, <3>1, <3>2
  <2>3. CASE t \notin C
    BY <1>1, <1>5, <2>1, <2>3 DEF ClaimsAreCurrent, OwnsStage1
  <2>4. QED
    BY <2>2, <2>3
<1>10. QED
  BY <1>1, <1>6, <1>7, <1>8, <1>9, Frame DEF IInv, files

\* A worker gives up the claim of a thread, whatever it does to the row.
LEMMA HeldType ==
  ASSUME TypeOK, NEW w \in Workers, NEW t \in Threads,
         held' = [held EXCEPT ![w][t] = 0]
  PROVE  /\ held' \in [Workers -> Versions]
         /\ \A v \in Workers : \A u \in Threads :
              held'[v][u] = IF v = w /\ u = t THEN 0 ELSE held[v][u]
BY DEF TypeOK, Versions

\* Without the row of the thread a claim given up changes nothing.
LEMMA GivenUp ==
  ASSUME IInv, NEW w \in Workers, NEW t \in Threads,
         held' = [held EXCEPT ![w][t] = 0],
         UNCHANGED <<now, updated, mode, output, job, global, run, files, faults>>
  PROVE  IInv'
<1>1. TypeOK'
  BY HeldType DEF IInv, TypeOK, files
<1>2. ClaimsAreCurrent'
  BY HeldType DEF IInv, ClaimsAreCurrent, OwnsStage1
<1>3. QED
  BY <1>1, <1>2, Frame DEF IInv, files

\* A row that ends its run keeps the facts about jobs.
LEMMA RowEnds ==
  ASSUME IInv, NEW w \in Workers, NEW t \in Threads, NEW row \in JobRow,
         row.status \in {"done", "error"},
         row.success <= row.input,
         held' = [held EXCEPT ![w][t] = 0],
         job' = [job EXCEPT ![t] = row]
  PROVE  /\ ClaimsAreCurrent' /\ job' \in [Threads -> JobRow]
         /\ \A u \in Threads : /\ job'[u].status = "running" => job'[u].retries > 0
                               /\ job'[u].status = "absent" => job'[u] = NoJob
<1>1. TypeOK /\ ClaimsAreCurrent /\ JobsAreSound
  BY DEF IInv
<1>2. job' \in [Threads -> JobRow]
  BY <1>1 DEF TypeOK
<1>3. \A u \in Threads : job'[u] = IF u = t THEN row ELSE job[u]
  BY <1>1 DEF TypeOK
<1>4. ClaimsAreCurrent'
  BY <1>1, <1>3, HeldType DEF ClaimsAreCurrent, OwnsStage1
<1>5. QED
  BY <1>1, <1>2, <1>3, <1>4 DEF JobsAreSound

LEMMA SucceededStep ==
  ASSUME IInv, NEW w \in Workers, NEW t \in Threads,
         mark_stage1_job_succeeded(w, t)
  PROVE  IInv'
<1> DEFINE source == held[w][t]
           row == Finished(job[t])
<1>1. /\ TypeOK /\ source # 0 /\ source \in Nat
      /\ held' = [held EXCEPT ![w][t] = 0]
      /\ UNCHANGED <<now, updated, mode, run, memory, seen, faults>>
  BY Types DEF IInv, mark_stage1_job_succeeded
<1>2. CASE ~OwnsStage1(w, t)
  BY <1>1, <1>2, GivenUp DEF mark_stage1_job_succeeded, files
<1>3. CASE OwnsStage1(w, t)
  <2>1. /\ job' = [job EXCEPT ![t] = row]
        /\ output' = IF source >= output[t].source
                     THEN [output EXCEPT ![t].source = source] ELSE output
        /\ global' = enqueue(global, source)
        /\ unqueued' = unqueued \ {t}
    BY <1>1, <1>3 DEF mark_stage1_job_succeeded, TypeOK
  <2>2. /\ row \in JobRow /\ row.status = "done" /\ row.success = job[t].input
        /\ row.input = job[t].input /\ job[t].input \in Nat
    BY <1>1, Types, FinishedFacts
  \* The version that was claimed is the one the row is for, and no older than
  \* the one that is there.
  <2>3. source = job[t].input /\ output[t].source <= source
    <3>1. source = job[t].input /\ job[t].success <= job[t].input
      BY <1>1, <1>3 DEF IInv, ClaimsAreCurrent
    <3>2. output[t].source = 0 \/ output[t].source = job[t].success
      BY DEF IInv, SuccessHasItsOutput
    <3>3. QED
      BY <1>1, <3>1, <3>2
  <2>4. output' = [output EXCEPT ![t].source = source]
    BY <1>1, <2>1, <2>3, Types
  <2>5. /\ output' \in [Threads -> OutputRow]
        /\ \A u \in Threads : u # t => output'[u] = output[u]
        /\ output'[t].source = source
        /\ output'[t].selected = output[t].selected
        /\ output'[t].snapshot = output[t].snapshot
    BY <1>1, <2>4 DEF TypeOK, OutputRow
  <2>6. /\ WatermarkIsAhead' /\ OwnerNoticesChanges' /\ NothingMissed'
        /\ BaselineIsTheMemory' /\ global' \in JobRow /\ global'.retries > 0
        /\ global'.status # "absent"
    <3>1. \A u \in Threads :
            /\ \/ output'[u].source \in {0, output[u].source}
               \/ output'[u].source \in 0 .. source
            /\ output'[u].selected => /\ output[u].selected
                                      /\ output'[u].snapshot = output[u].snapshot
      BY <1>1, <2>5
    <3>2. QED
      BY <1>1, <2>1, <3>1, GlobalAdvances
  <2>7. /\ ClaimsAreCurrent' /\ job' \in [Threads -> JobRow]
        /\ \A u \in Threads : /\ job'[u].status = "running" => job'[u].retries > 0
                              /\ job'[u].status = "absent" => job'[u] = NoJob
    <3>1. row.status \in {"done", "error"} /\ row.success <= row.input
      BY <2>2
    <3> HIDE DEF row
    <3>2. QED
      BY <1>1, <2>1, <2>2, <3>1, RowEnds
  <2>8. TypeOK'
    BY <1>1, <2>1, <2>5, <2>6, <2>7, HeldType DEF TypeOK
  <2>9. JobsAreSound'
    BY <2>6, <2>7 DEF JobsAreSound
  <2>10. SuccessHasItsOutput'
    BY <1>1, <2>1, <2>2, <2>3, <2>5 DEF IInv, SuccessHasItsOutput, TypeOK
  <2>11. DeletedIsBlank'
    BY <1>1, <2>5 DEF IInv, DeletedIsBlank
  <2>12. QED
    BY <2>6, <2>7, <2>8, <2>9, <2>10, <2>11 DEF IInv
<1>4. QED
  BY <1>2, <1>3

LEMMA NoOutputStep ==
  ASSUME IInv, NEW w \in Workers, NEW t \in Threads,
         mark_stage1_job_succeeded_no_output(w, t)
  PROVE  IInv'
<1> DEFINE row == Finished(job[t])
<1>1. /\ TypeOK /\ held[w][t] # 0 /\ held' = [held EXCEPT ![w][t] = 0]
      /\ UNCHANGED <<now, updated, mode, run, memory, seen, faults>>
  BY DEF IInv, mark_stage1_job_succeeded_no_output
<1>2. CASE ~OwnsStage1(w, t)
  BY <1>1, <1>2, GivenUp DEF mark_stage1_job_succeeded_no_output, files
<1>3. CASE OwnsStage1(w, t)
  <2>1. job' = [job EXCEPT ![t] = row] /\ output' = [output EXCEPT ![t] = NoOutput]
    BY <1>1, <1>3 DEF mark_stage1_job_succeeded_no_output, TypeOK
  <2>2. /\ row \in JobRow /\ row.status = "done" /\ row.success = job[t].input
        /\ row.input = job[t].input /\ job[t].input \in Nat
    BY <1>1, Types, FinishedFacts
  <2>3. /\ output' \in [Threads -> OutputRow]
        /\ \A u \in Threads : output'[u] = IF u = t THEN NoOutput ELSE output[u]
        /\ NoOutput.source = 0 /\ NoOutput.selected = FALSE
    BY <1>1, <2>1, RowTypes DEF TypeOK, NoOutput
  <2>4. /\ ClaimsAreCurrent' /\ job' \in [Threads -> JobRow]
        /\ \A u \in Threads : /\ job'[u].status = "running" => job'[u].retries > 0
                              /\ job'[u].status = "absent" => job'[u] = NoJob
    <3>1. row.status \in {"done", "error"} /\ row.success <= row.input
      BY <2>2
    <3> HIDE DEF row
    <3>2. QED
      BY <1>1, <2>1, <2>2, <3>1, RowEnds
  <2>5. DeletedIsBlank' /\ SuccessHasItsOutput'
    BY <1>1, <2>1, <2>3 DEF IInv, DeletedIsBlank, SuccessHasItsOutput, TypeOK
  <2>6. CASE output[t].source # 0
    <3>1. /\ global' = enqueue(global, job[t].input)
          /\ unqueued' = unqueued \ {t}
      BY <1>3, <2>6 DEF mark_stage1_job_succeeded_no_output
    <3>2. job[t].input > 0
      BY <1>1, <1>3, <2>2, Types DEF IInv, ClaimsAreCurrent
    <3>3. /\ WatermarkIsAhead' /\ OwnerNoticesChanges' /\ NothingMissed'
          /\ BaselineIsTheMemory' /\ global' \in JobRow /\ global'.retries > 0
          /\ global'.status # "absent"
      BY <1>1, <2>2, <2>3, <3>1, <3>2, GlobalAdvances
    <3>4. TypeOK'
      BY <1>1, <2>3, <2>4, <3>1, <3>3, HeldType DEF TypeOK
    <3>5. JobsAreSound'
      BY <2>4, <3>3 DEF JobsAreSound
    <3>6. QED
      BY <1>1, <2>4, <2>5, <3>3, <3>4, <3>5 DEF IInv
  <2>7. CASE output[t].source = 0
    <3>1. UNCHANGED <<global, unqueued>>
      BY <1>3, <2>7 DEF mark_stage1_job_succeeded_no_output
    <3>2. output' = output
      <4>1. output[t] = NoOutput
        BY <2>7 DEF IInv, DeletedIsBlank
      <4>2. QED
        BY <1>1, <2>1, <4>1 DEF TypeOK
    <3>3. TypeOK'
      BY <1>1, <2>3, <2>4, <3>1, HeldType DEF TypeOK
    <3>4. JobsAreSound'
      BY <2>4, <3>1 DEF IInv, JobsAreSound
    <3>5. QED
      BY <1>1, <2>4, <2>5, <3>1, <3>2, <3>3, <3>4, Frame DEF IInv, files
  <2>8. QED
    BY <2>6, <2>7
<1>4. QED
  BY <1>2, <1>3

LEMMA Stage1FailedStep ==
  ASSUME IInv, NEW w \in Workers, NEW t \in Threads,
         mark_stage1_job_failed(w, t)
  PROVE  IInv'
<1>1. /\ TypeOK /\ held' = [held EXCEPT ![w][t] = 0]
      /\ UNCHANGED <<now, updated, mode, output, global, run, files, faults>>
  BY DEF IInv, mark_stage1_job_failed
<1>2. CASE ~OwnsStage1(w, t)
  BY <1>1, <1>2, GivenUp DEF mark_stage1_job_failed
<1>3. CASE OwnsStage1(w, t)
  <2> DEFINE row == Failed(job[t])
  <2>1. job' = [job EXCEPT ![t] = row]
    BY <1>1, <1>3 DEF mark_stage1_job_failed, TypeOK
  <2>2. /\ row \in JobRow /\ row.status = "error"
        /\ row.success = job[t].success /\ row.input = job[t].input
    BY <1>1, <1>3, Types, FailedFacts DEF IInv, JobsAreSound, OwnsStage1
  <2>3. row.success <= row.input
    BY <2>2 DEF IInv, ClaimsAreCurrent
  <2>4. /\ ClaimsAreCurrent' /\ job' \in [Threads -> JobRow]
        /\ \A u \in Threads : /\ job'[u].status = "running" => job'[u].retries > 0
                              /\ job'[u].status = "absent" => job'[u] = NoJob
    BY <1>1, <2>1, <2>2, <2>3, RowEnds
  <2>5. TypeOK'
    BY <1>1, <2>4, HeldType DEF TypeOK, files
  <2>6. JobsAreSound' /\ SuccessHasItsOutput'
    BY <1>1, <2>1, <2>2, <2>4 DEF IInv, JobsAreSound, SuccessHasItsOutput, TypeOK
  <2>7. QED
    BY <1>1, <2>4, <2>5, <2>6, Frame DEF IInv, files
<1>4. QED
  BY <1>2, <1>3

\* What the actions that leave the tables of threads, outputs and jobs alone
\* have in common: the global job keeps its watermarks.
LEMMA GlobalOnly ==
  ASSUME IInv, global' \in JobRow,
         /\ global'.input = global.input /\ global'.success = global.success
         /\ global'.status = "running" =>
              /\ global.status = "running" /\ global'.token = global.token
              /\ global'.retries > 0
         /\ global'.status = "absent" => global' = NoJob
         /\ \A w \in Workers : run'[w] \in {run[w], NoRun}
         /\ run' \in [Workers -> RunState]
         /\ UNCHANGED <<now, updated, mode, output, job, held, files, faults>>
  PROVE  IInv'
<1>1. TypeOK'
  BY DEF IInv, TypeOK, files
<1>2. JobsAreSound'
  BY DEF IInv, JobsAreSound
<1>3. QED
  BY <1>1, <1>2, GlobalFlags, Frame DEF IInv, files

LEMMA ClaimGlobalStep ==
  ASSUME IInv, NEW w \in Workers, try_claim_global_phase2_job(w)
  PROVE  IInv'
<1> DEFINE g == [global EXCEPT !.status = "running", !.token = w,
                               !.live = TRUE, !.backoff = FALSE]
<1>1. /\ TypeOK /\ Dirty /\ global.retries > 0 /\ run[w] = NoRun
      /\ global' = g
      /\ run' = [run EXCEPT ![w].claimed = global.input]
      /\ UNCHANGED <<now, updated, mode, output, job, held, files, faults>>
  BY DEF IInv, try_claim_global_phase2_job, Idle
<1>2. /\ g \in JobRow /\ g.status = "running" /\ g.token = w
      /\ g.input = global.input /\ g.success = global.success
      /\ g.retries = global.retries
  BY <1>1 DEF TypeOK, JobRow
<1>3. /\ run' \in [Workers -> RunState]
      /\ \A v \in Workers \ {w} : run'[v] = run[v]
      /\ run'[w].claimed = global.input /\ run'[w].selected = FALSE
  <2>1. run' = [run EXCEPT ![w] = [NoRun EXCEPT !.claimed = global.input]]
    BY <1>1 DEF TypeOK
  <2>2. [NoRun EXCEPT !.claimed = global.input] \in RunState
    BY <1>1, Types, RowTypes DEF RunState
  <2>3. /\ [NoRun EXCEPT !.claimed = global.input].claimed = global.input
        /\ [NoRun EXCEPT !.claimed = global.input].selected = FALSE
    BY DEF NoRun
  <2>4. QED
    BY <1>1, <2>1, <2>2, <2>3 DEF TypeOK
<1> HIDE DEF g
<1>4. TypeOK'
  BY <1>1, <1>2, <1>3 DEF TypeOK, files
<1>5. JobsAreSound'
  BY <1>1, <1>2 DEF IInv, JobsAreSound
<1>6. Dirty'
  BY <1>1, <1>2 DEF Dirty
<1>7. WatermarkIsAhead'
  BY <1>1, <1>2, <1>6 DEF IInv, WatermarkIsAhead
<1>8. OwnerNoticesChanges'
  <2> SUFFICES ASSUME NEW v \in Workers
      PROVE  /\ run'[v].selected => run'[v].claimed # 0
             /\ OwnsGlobal(v)' /\ run'[v].claimed # 0 =>
                  global.success < run'[v].claimed /\ run'[v].claimed <= global.input
             /\ OwnsGlobal(v)' => ~run'[v].selected
    BY <1>1, <1>2 DEF OwnerNoticesChanges
  <2>1. OwnsGlobal(v)' => v = w
    BY <1>1, <1>2 DEF OwnsGlobal
  <2>2. CASE v = w
    BY <1>1, <1>3, <2>2, Types DEF Dirty
  <2>3. CASE v # w
    BY <1>3, <2>1, <2>3 DEF IInv, OwnerNoticesChanges
  <2>4. QED
    BY <2>2, <2>3
<1>9. NothingMissed' /\ BaselineIsTheMemory'
  BY <1>6, <1>1 DEF IInv, NothingMissed, NoOutputLost, ForgettingIsQueued,
                    BaselineIsTheMemory, files
<1>10. QED
  BY <1>1, <1>4, <1>5, <1>7, <1>8, <1>9, Frame DEF IInv, files

LEMMA SelectionStep ==
  ASSUME IInv, NEW w \in Workers, get_phase2_input_selection(w)
  PROVE  IInv'
<1>1. PICK S \in SUBSET {t \in Threads : mode[t] = "enabled" /\ output[t].source # 0} :
        run' = [run EXCEPT ![w] =
          [@ EXCEPT !.selected = TRUE,
                    !.chosen = [t \in Threads |-> IF t \in S THEN output[t].source ELSE 0],
                    !.shown  = [t \in Threads |-> output[t].source]]]
  BY DEF get_phase2_input_selection
<1> DEFINE chosen == [t \in Threads |-> IF t \in S THEN output[t].source ELSE 0]
           shown  == [t \in Threads |-> output[t].source]
<1>2. /\ TypeOK /\ run[w].claimed # 0
      /\ UNCHANGED <<now, updated, mode, output, job, global, held, files, faults>>
  BY DEF IInv, get_phase2_input_selection, store
<1>3. chosen \in Versions /\ shown \in Versions
  BY <1>2, Types DEF Versions
<1>4. run' = [run EXCEPT ![w] = [run[w] EXCEPT !.selected = TRUE, !.chosen = chosen,
                                               !.shown = shown]]
  BY <1>1, <1>2 DEF TypeOK
<1> HIDE DEF chosen, shown
<1>5. /\ run' \in [Workers -> RunState]
      /\ \A v \in Workers \ {w} : run'[v] = run[v]
      /\ run'[w].claimed = run[w].claimed /\ run'[w].selected = TRUE
      /\ run'[w].chosen = chosen /\ run'[w].shown = shown
  BY <1>2, <1>3, <1>4 DEF TypeOK, RunState
<1>6. TypeOK'
  BY <1>2, <1>5 DEF TypeOK, files
<1>7. \A t \in Threads : /\ shown[t] = output[t].source
                         /\ chosen[t] \in {0, shown[t]}
                         /\ chosen[t] <= global.input
                         /\ Bad(t) => chosen[t] = 0
  BY <1>2, Types DEF chosen, shown, IInv, WatermarkIsAhead, Bad
<1>8. OwnerNoticesChanges'
  <2> SUFFICES ASSUME NEW v \in Workers
      PROVE  /\ run'[v].selected => run'[v].claimed # 0
             /\ OwnsGlobal(v)' /\ run'[v].claimed # 0 =>
                  global.success < run'[v].claimed /\ run'[v].claimed <= global.input
             /\ OwnsGlobal(v)' /\ run'[v].selected =>
                  /\ \A t \in Threads : /\ run'[v].chosen[t] <= global.input
                                        /\ run'[v].chosen[t] \in {0, run'[v].shown[t]}
                  /\ Overtaken(v)' \/ UpToDate(v)'
    BY <1>2 DEF OwnerNoticesChanges
  <2>1. OwnsGlobal(v)' = OwnsGlobal(v)
    BY <1>2 DEF OwnsGlobal
  <2>2. CASE v = w
    <3>1. UpToDate(v)'
      BY <1>2, <1>5, <1>7, <2>2 DEF UpToDate, Bad, files
    <3>2. QED
      BY <1>2, <1>5, <1>7, <2>1, <2>2, <3>1 DEF IInv, OwnerNoticesChanges
  <2>3. CASE v # w
    BY <1>2, <1>5, <2>1, <2>3
    DEF IInv, OwnerNoticesChanges, Overtaken, UpToDate, Bad, files
  <2>4. QED
    BY <2>2, <2>3
<1>9. QED
  BY <1>2, <1>6, <1>8, Frame DEF IInv, files

LEMMA HeartbeatStep ==
  ASSUME IInv, NEW w \in Workers, heartbeat_global_phase2_job(w)
  PROVE  IInv'
<1>1. /\ TypeOK /\ global' = [global EXCEPT !.live = TRUE]
      /\ UNCHANGED <<now, updated, mode, output, job, held, run, files, faults>>
      /\ global.status = "running" /\ global.retries > 0
  BY DEF IInv, heartbeat_global_phase2_job, OwnsGlobal, JobsAreSound
<1>2. /\ global' \in JobRow
      /\ global'.input = global.input /\ global'.success = global.success
      /\ global'.status = "running" /\ global'.token = global.token
      /\ global'.retries = global.retries
  BY <1>1 DEF TypeOK, JobRow
<1>3. run' \in [Workers -> RunState]
  BY <1>1 DEF TypeOK
<1>4. QED
  BY <1>1, <1>2, <1>3, GlobalOnly

LEMMA GlobalFailedStep ==
  ASSUME IInv, NEW w \in Workers,
         \/ mark_global_phase2_job_failed(w)
         \/ mark_global_phase2_job_failed_if_unowned(w)
  PROVE  IInv'
<1>1. /\ TypeOK /\ JobsAreSound /\ run' = [run EXCEPT ![w] = NoRun]
      /\ UNCHANGED <<now, updated, mode, output, job, held, files, faults>>
      /\ global' = global \/ (global.status = "running" /\ global' = Failed(global))
  BY DEF IInv, mark_global_phase2_job_failed,
         mark_global_phase2_job_failed_if_unowned, OwnsGlobal
<1>2. /\ run' \in [Workers -> RunState]
      /\ \A v \in Workers : run'[v] \in {run[v], NoRun}
  BY <1>1, RowTypes DEF TypeOK
<1>3. CASE global' = global
  BY <1>1, <1>2, <1>3, GlobalOnly DEF JobsAreSound, TypeOK
<1>4. CASE global.status = "running" /\ global' = Failed(global)
  <2>1. /\ global' \in JobRow /\ global'.status = "error"
        /\ global'.success = global.success /\ global'.input = global.input
    BY <1>1, <1>4, Types, FailedFacts DEF JobsAreSound
  <2>2. QED
    BY <1>1, <1>2, <2>1, GlobalOnly
<1>5. QED
  BY <1>1, <1>3, <1>4

LEMMA CrashStep ==
  ASSUME IInv, NEW w \in Workers, Crash(w)
  PROVE  IInv'
<1>1. /\ TypeOK /\ JobsAreSound
      /\ held' = [held EXCEPT ![w] = Nothing] /\ run' = [run EXCEPT ![w] = NoRun]
      /\ UNCHANGED <<now, updated, mode, output, job, global, files>>
  BY DEF IInv, Crash, store
<1>2. /\ run' \in [Workers -> RunState]
      /\ \A v \in Workers : run'[v] \in {run[v], NoRun}
  BY <1>1, RowTypes DEF TypeOK
<1>3. held' \in [Workers -> Versions] /\ Nothing \in Versions
  BY <1>1, RowTypes DEF TypeOK
<1>4. faults' \in 0 .. MaxFaults
  BY <1>1, ConstantTypes DEF Crash, Fault, TypeOK
<1>5. TypeOK'
  BY <1>1, <1>2, <1>3, <1>4 DEF TypeOK, files
<1>6. \A v \in Workers : \A t \in Threads : held'[v][t] \in {0, held[v][t]}
  BY <1>1 DEF TypeOK, Nothing
<1>7. ClaimsAreCurrent'
  BY <1>1, <1>6 DEF IInv, ClaimsAreCurrent, OwnsStage1
<1>8. QED
  BY <1>1, <1>2, <1>5, <1>7, GlobalFlags, Frame DEF IInv, files

LEMMA TimeStep ==
  ASSUME IInv, Time
  PROVE  IInv'
<1>1. TypeOK /\ UNCHANGED <<now, updated, mode, output, held, run, files>>
  BY DEF IInv, Time
<1>2. faults' \in 0 .. MaxFaults
  BY <1>1, ConstantTypes DEF Time, Elapse, Fault, TypeOK
<1>3. ASSUME NEW t \in Threads, job' = [job EXCEPT ![t] = Elapsed(job[t])],
             UNCHANGED global
      PROVE  IInv'
  <2> DEFINE row == Elapsed(job[t])
  <2>1. /\ row \in JobRow /\ row.status = job[t].status /\ row.token = job[t].token
        /\ row.success = job[t].success /\ row.input = job[t].input
        /\ row.retries = job[t].retries
    BY <1>1, Types, ElapsedFacts
  <2>2. job[t].status = "absent" => row = NoJob
    BY NothingElapses DEF IInv, JobsAreSound
  <2> HIDE DEF row
  <2>3. TypeOK'
    BY <1>1, <1>2, <1>3, <2>1 DEF TypeOK, files, row
  <2>4. \A u \in Threads : job'[u] = IF u = t THEN row ELSE job[u]
    BY <1>1, <1>3 DEF TypeOK, row
  <2>5. JobsAreSound' /\ ClaimsAreCurrent' /\ SuccessHasItsOutput'
    BY <1>1, <1>3, <2>1, <2>2, <2>4
    DEF IInv, JobsAreSound, ClaimsAreCurrent, SuccessHasItsOutput, OwnsStage1
  <2>6. QED
    BY <1>1, <1>3, <2>3, <2>5, Frame DEF IInv, files
<1>4. ASSUME global' = Elapsed(global), UNCHANGED job
      PROVE  IInv'
  <2>1. /\ global' \in JobRow /\ global'.status = global.status
        /\ global'.token = global.token /\ global'.success = global.success
        /\ global'.input = global.input /\ global'.retries = global.retries
    BY <1>1, <1>4, Types, ElapsedFacts
  <2>2. global.status = "absent" => global' = NoJob
    BY <1>4, NothingElapses DEF IInv, JobsAreSound
  <2>3. JobsAreSound'
    BY <1>4, <2>1, <2>2 DEF IInv, JobsAreSound
  <2>4. TypeOK'
    BY <1>1, <1>2, <1>4, <2>1 DEF TypeOK, files
  <2>5. QED
    BY <1>1, <1>4, <2>1, <2>3, <2>4, GlobalFlags, Frame DEF IInv, files
<1>5. QED
  BY <1>1, <1>3, <1>4 DEF Time, TypeOK

\* The watermark a consolidation completes with, if it still owns the job, is
\* one of those it claimed or selected.
LEMMA CompletedFacts ==
  ASSUME IInv, NEW w \in Workers, run[w].selected, OwnsGlobal(w),
         NEW completed \in Completed(w)
  PROVE  /\ completed \in Nat /\ completed >= run[w].claimed
         /\ completed <= global.input
         /\ \/ completed = run[w].claimed
            \/ \E t \in Threads : completed = run[w].chosen[t]
<1> DEFINE S == {run[w].claimed} \cup {run[w].chosen[t] : t \in Threads}
<1>1. TypeOK /\ global.input \in Nat /\ run[w].claimed \in Nat
  BY Types DEF IInv
<1>2. run[w].claimed <= global.input
      /\ \A t \in Threads : run[w].chosen[t] <= global.input
  BY DEF IInv, OwnerNoticesChanges
<1>3. S \in SUBSET Nat /\ S # {} /\ run[w].claimed \in S
  BY <1>1, Types
<1>4. \A x \in S : x <= global.input
  BY <1>2
<1>5. Max(S) \in S /\ \A x \in S : x <= Max(S)
  <2> HIDE DEF S
  <2>1. QED
    BY <1>1, <1>3, <1>4, MaxOfBounded
<1>6. completed \in {run[w].claimed, Max(S)}
  BY DEF Completed
<1>7. completed \in S /\ completed >= run[w].claimed
  <2> HIDE DEF S
  <2>1. QED
    BY <1>1, <1>3, <1>5, <1>6
<1>8. QED
  BY <1>3, <1>4, <1>7

LEMMA GlobalSucceededStep ==
  ASSUME IInv, NEW w \in Workers, NEW completed \in Completed(w),
         mark_global_phase2_job_succeeded(w, completed)
  PROVE  IInv' /\ global'.success >= global.success
               /\ \A t \in Threads : output'[t].source = output[t].source
<1>1. /\ TypeOK /\ JobsAreSound /\ run[w].selected
      /\ run' = [run EXCEPT ![w] = NoRun]
      /\ UNCHANGED <<now, updated, mode, job, held, faults>>
      /\ global \in JobRow
  BY DEF IInv, mark_global_phase2_job_succeeded, TypeOK
<1>2. /\ run' \in [Workers -> RunState]
      /\ \A v \in Workers : run'[v] \in {run[v], NoRun}
  BY <1>1, RowTypes DEF TypeOK
<1>3. CASE ~OwnsGlobal(w)
  <2>1. UNCHANGED <<global, output, files>>
    BY <1>3 DEF mark_global_phase2_job_succeeded
  <2>2. IInv'
    BY <1>1, <1>2, <2>1, GlobalOnly DEF JobsAreSound, TypeOK
  <2>3. QED
    BY <1>1, <2>1, <2>2, Types
<1>4. CASE OwnsGlobal(w)
  <2> DEFINE top == Max2(global.success, completed)
             chosen == run[w].chosen
             shown == run[w].shown
  <2>1. /\ global' = [global EXCEPT !.status = "done", !.live = FALSE, !.success = top]
        /\ output' = [t \in Threads |-> Rewritten(output[t], chosen[t])]
        /\ memory' = chosen /\ seen' = shown
        /\ unqueued' = {t \in unqueued : chosen[t] # 0}
    BY <1>1, <1>4 DEF mark_global_phase2_job_succeeded, TypeOK
  <2>2. /\ completed \in Nat /\ completed >= run[w].claimed
        /\ completed <= global.input
        /\ \/ completed = run[w].claimed
           \/ \E t \in Threads : completed = chosen[t]
    BY <1>1, <1>4, CompletedFacts
  <2>3. global.success < run[w].claimed
    BY <1>1, <1>4 DEF IInv, OwnerNoticesChanges
  <2>4. top = completed /\ top >= global.success
    BY <1>1, <2>2, <2>3, Types DEF Max2
  <2>5. /\ global' \in JobRow /\ global'.status = "done"
        /\ global'.input = global.input /\ global'.success = completed
    <3> HIDE DEF top
    <3>1. QED
      BY <1>1, <2>1, <2>2, <2>4 DEF JobRow
  <2>6. ASSUME NEW t \in Threads
        PROVE  /\ output'[t] \in OutputRow /\ output'[t].source = output[t].source
               /\ output'[t].selected => /\ chosen[t] # 0
                                         /\ chosen[t] = output[t].source
                                         /\ output'[t].snapshot = chosen[t]
               /\ chosen[t] # 0 /\ chosen[t] = output[t].source =>
                    output'[t].selected /\ output'[t].snapshot = chosen[t]
               /\ output'[t].source = 0 => output'[t] = NoOutput
    <3>1. output[t] \in OutputRow /\ chosen[t] \in Nat
      BY <1>1, Types
    <3>2. output'[t] = Rewritten(output[t], chosen[t])
      BY <2>1
    <3>3. CASE chosen[t] # 0 /\ chosen[t] = output[t].source
      BY <3>1, <3>2, <3>3 DEF Rewritten, OutputRow
    <3>4. CASE ~(chosen[t] # 0 /\ chosen[t] = output[t].source)
      <4>1. output'[t] = [source |-> output[t].source, selected |-> FALSE, snapshot |-> 0]
        BY <3>1, <3>2, <3>4 DEF Rewritten, OutputRow
      <4>2. output'[t] \in OutputRow
        BY <3>1, <4>1 DEF OutputRow
      <4>3. /\ output'[t].source = output[t].source
            /\ output'[t].selected = FALSE
        BY <4>1
      <4>4. output'[t].source = 0 => output'[t] = NoOutput
        BY <4>1, <4>3 DEF NoOutput
      <4>5. QED
        BY <3>4, <4>2, <4>3, <4>4
    <3>5. QED
      BY <3>3, <3>4
  <2> HIDE DEF chosen, shown, top
  <2>7. TypeOK'
    <3>1. output' \in [Threads -> OutputRow]
      BY <2>1, <2>6
    <3>2. memory' \in Versions /\ seen' \in Versions /\ unqueued' \subseteq Threads
      BY <1>1, <2>1, Types DEF chosen, shown
    <3>3. QED
      BY <1>1, <1>2, <2>5, <3>1, <3>2 DEF TypeOK
  <2>8. JobsAreSound' /\ DeletedIsBlank' /\ SuccessHasItsOutput'
    BY <1>1, <2>5, <2>6
    DEF IInv, JobsAreSound, DeletedIsBlank, SuccessHasItsOutput
  <2>9. WatermarkIsAhead'
    BY <1>1, <2>2, <2>5, <2>6 DEF IInv, WatermarkIsAhead
  <2>10. OwnerNoticesChanges'
    <3>1. \A v \in Workers : ~OwnsGlobal(v)'
      BY <2>5 DEF OwnsGlobal
    <3>2. \A v \in Workers : run'[v].selected => run'[v].claimed # 0
      BY <1>2 DEF IInv, OwnerNoticesChanges, NoRun
    <3>3. QED
      BY <3>1, <3>2 DEF OwnerNoticesChanges
  \* Clean is what it leaves only if it was not overtaken.
  <2>11. ~Dirty' => UpToDate(w)
    <3>1. Overtaken(w) => completed < global.input
      BY <2>2 DEF Overtaken, chosen
    <3>2. Overtaken(w) \/ UpToDate(w)
      BY <1>1, <1>4 DEF IInv, OwnerNoticesChanges
    <3>3. QED
      BY <1>1, <2>5, <3>1, <3>2, Types DEF Dirty
  <2>12. NothingMissed'
    <3>1. ~Dirty' => NoOutputLost'
      BY <1>1, <2>1, <2>6, <2>11 DEF NoOutputLost, UpToDate, shown, TypeOK
    <3>2. ~Dirty' => ForgettingIsQueued'
      <4>1. \A t \in Threads : Bad(t)' => Bad(t)
        BY <1>1, <2>6 DEF Bad
      <4>2. QED
        BY <2>1, <2>11, <4>1 DEF ForgettingIsQueued, MustGo, UpToDate, Bad, chosen
    <3>3. QED
      BY <3>1, <3>2 DEF NothingMissed, NoOutputLost, ForgettingIsQueued
  <2>13. BaselineIsTheMemory'
    <3>1. \A t \in Threads : chosen[t] \in {0, shown[t]}
      BY <1>1, <1>4 DEF IInv, OwnerNoticesChanges, chosen, shown
    <3>2. \A t \in Threads : output'[t].selected => memory'[t] = output'[t].snapshot
      BY <2>1, <2>6
    <3>3. ASSUME ~Dirty', NEW t \in Threads, output'[t].source # 0, memory'[t] # 0
          PROVE  output'[t].selected /\ output'[t].snapshot = output'[t].source
      <4>1. output[t].source # 0 /\ chosen[t] # 0
        <5>1. output'[t].source = output[t].source /\ memory' = chosen
          BY <2>1, <2>6
        <5>2. QED
          BY <3>3, <5>1
      <4>2. shown[t] = output[t].source
        BY <2>11, <3>3, <4>1 DEF UpToDate, shown
      <4>3. chosen[t] = output[t].source
        BY <3>1, <4>1, <4>2
      <4>4. QED
        BY <2>6, <4>1, <4>3
    <3>4. QED
      BY <3>2, <3>3 DEF BaselineIsTheMemory
  <2>14. QED
    BY <1>1, <2>4, <2>5, <2>6, <2>7, <2>8, <2>9, <2>10, <2>12, <2>13, Frame
    DEF IInv
<1>5. QED
  BY <1>3, <1>4

LEMMA ClearStep ==
  ASSUME IInv, NEW disable \in BOOLEAN, clear_memory_data_inner(disable)
  PROVE  IInv'
<1>1. /\ TypeOK
      /\ output' = [t \in Threads |-> NoOutput] /\ job' = [t \in Threads |-> NoJob]
      /\ global' = NoJob /\ memory' = Nothing /\ seen' = Nothing /\ unqueued' = {}
      /\ UNCHANGED <<now, updated, held, run>>
  BY DEF IInv, clear_memory_data_inner
<1>2. /\ faults' \in 0 .. MaxFaults
      /\ mode' \in [Threads -> {"enabled", "disabled", "polluted"}]
  BY <1>1, ConstantTypes DEF clear_memory_data_inner, Fault, TypeOK
<1>3. /\ NoOutput.source = 0 /\ NoOutput.selected = FALSE
      /\ NoJob.status = "absent" /\ NoJob.input = 0 /\ NoJob.success = 0
  BY DEF NoOutput, NoJob
<1>4. TypeOK'
  BY <1>1, <1>2, RowTypes DEF TypeOK
<1>5. JobsAreSound' /\ DeletedIsBlank' /\ SuccessHasItsOutput'
  BY <1>1, <1>3 DEF JobsAreSound, DeletedIsBlank, SuccessHasItsOutput
<1>6. ClaimsAreCurrent'
  BY <1>1, <1>3 DEF ClaimsAreCurrent, OwnsStage1
<1>7. WatermarkIsAhead'
  BY <1>1, <1>3 DEF WatermarkIsAhead
<1>8. OwnerNoticesChanges'
  BY <1>1, <1>3 DEF IInv, OwnerNoticesChanges, OwnsGlobal
<1>9. NothingMissed' /\ BaselineIsTheMemory'
  BY <1>1, <1>3
  DEF NothingMissed, NoOutputLost, ForgettingIsQueued, MustGo, Nothing,
      BaselineIsTheMemory
<1>10. QED
  BY <1>4, <1>5, <1>6, <1>7, <1>8, <1>9 DEF IInv

-----------------------------------------------------------------------------
LEMMA InitIInv == Init => IInv
<1> SUFFICES ASSUME Init PROVE IInv
  OBVIOUS
<1>1. /\ NoOutput.source = 0 /\ NoOutput.selected = FALSE
      /\ NoJob.status = "absent" /\ NoJob.input = 0 /\ NoJob.success = 0
      /\ NoRun.selected = FALSE
  BY DEF NoOutput, NoJob, NoRun
<1>2. TypeOK
  <2>1. 1 \in 1 .. MaxNow /\ 0 \in 0 .. MaxFaults
    BY ConstantTypes
  <2>2. QED
    BY <2>1, RowTypes DEF Init, TypeOK
<1>3. JobsAreSound /\ DeletedIsBlank /\ SuccessHasItsOutput
  BY <1>1 DEF Init, JobsAreSound, DeletedIsBlank, SuccessHasItsOutput
<1>4. ClaimsAreCurrent /\ WatermarkIsAhead
  BY <1>1 DEF Init, ClaimsAreCurrent, OwnsStage1, WatermarkIsAhead
<1>5. OwnerNoticesChanges
  BY <1>1 DEF Init, OwnerNoticesChanges, OwnsGlobal
<1>6. NothingMissed /\ BaselineIsTheMemory
  BY <1>1
  DEF Init, NothingMissed, NoOutputLost, ForgettingIsQueued, MustGo, Nothing,
      BaselineIsTheMemory
<1>7. QED
  BY <1>2, <1>3, <1>4, <1>5, <1>6 DEF IInv

LEMMA StepIInv ==
  ASSUME IInv, Next
  PROVE  IInv'
<1>1. ASSUME NEW t \in Threads,
             \/ Edit(t)
             \/ \E m \in {"enabled", "disabled", "polluted"} :
                  set_thread_memory_mode(t, m)
             \/ mark_thread_memory_mode_polluted(t)
             \/ prune_stage1_outputs_for_retention(t)
      PROVE  IInv'
  BY <1>1, EditStep, SetModeStep, PollutedStep, PruneStep
<1>2. ASSUME NEW w \in Workers,
             \/ \E eligible \in SUBSET Threads :
                  claim_stage1_jobs_for_startup(w, eligible)
             \/ try_claim_global_phase2_job(w)
             \/ Crash(w)
      PROVE  IInv'
  BY <1>2, ClaimStage1Step, ClaimGlobalStep, CrashStep
<1>3. ASSUME NEW w \in Workers, Stage1(w)
      PROVE  IInv'
  BY <1>3, SucceededStep, NoOutputStep, Stage1FailedStep DEF Stage1
<1>4. ASSUME NEW w \in Workers, Phase2(w)
      PROVE  IInv'
  BY <1>4, SelectionStep, HeartbeatStep, GlobalSucceededStep, GlobalFailedStep
  DEF Phase2, Succeeds
<1>5. QED
  BY <1>1, <1>2, <1>3, <1>4, ClearStep, TimeStep DEF Next

LEMMA StutterIInv ==
  ASSUME IInv, UNCHANGED vars
  PROVE  IInv'
<1>1. UNCHANGED <<now, updated, mode, output, job, global, held, run,
                  memory, seen, unqueued, faults>>
  BY DEF vars, store, files
<1>2. TypeOK'
  BY <1>1 DEF IInv, TypeOK
<1>3. QED
  BY <1>1, <1>2, Frame DEF IInv, files

\* However sessions interleave, crash and lose their leases, the rows of jobs
\* and of outputs agree, every new output is consolidated or queued, and so is
\* the forgetting of one unless nothing was enqueued when it came to that, and
\* the flags of the rows say what is in the files (memories.rs).
THEOREM RowsAgree == Spec => []IInv
<1>1. IInv /\ [Next]_vars => IInv'
  BY StepIInv, StutterIInv
<1>2. QED
  BY InitIInv, <1>1, PTL DEF Spec

\* The rows have their types and the last success is what is there.
THEOREM RowsAreSound == Spec => []RowsInv
<1>1. IInv => RowsInv
  BY DEF IInv, RowsInv
<1>2. QED
  BY RowsAgree, <1>1, PTL

\* No new output escapes the consolidation, and no thread to forget does but
\* those of `unqueued', which came to that with nothing enqueued.
THEOREM NothingIsMissed == Spec => []NothingMissed
<1>1. IInv => NothingMissed
  BY DEF IInv
<1>2. QED
  BY RowsAgree, <1>1, PTL

\* selected_for_phase2 and its snapshot say what the files hold.
THEOREM BaselineIsTrue == Spec => []BaselineIsTheMemory
<1>1. IInv => BaselineIsTheMemory
  BY DEF IInv
<1>2. QED
  BY RowsAgree, <1>1, PTL

-----------------------------------------------------------------------------
\* What no step but a clearing may do to a row of jobs: its success goes back,
\* or it runs without having been claimed.

LEMMA RowsOnlyAdvance ==
  ASSUME IInv, NEW t \in Threads, NEW w \in Workers,
         \/ mark_stage1_job_succeeded(w, t)
         \/ mark_stage1_job_succeeded_no_output(w, t)
         \/ mark_stage1_job_failed(w, t)
  PROVE  \A u \in Threads :
           /\ job'[u].success >= job[u].success
           /\ Running(u)' => Running(u)
<1>1. TypeOK /\ job[t] \in JobRow /\ \A u \in Threads : job[u].success \in Nat
  BY Types DEF IInv
<1>2. \/ job' = job
      \/ job' = [job EXCEPT ![t] = Finished(job[t])]
      \/ job[t].retries > 0 /\ job' = [job EXCEPT ![t] = Failed(job[t])]
  BY <1>1 DEF mark_stage1_job_succeeded, mark_stage1_job_succeeded_no_output,
              mark_stage1_job_failed, OwnsStage1, IInv, JobsAreSound, TypeOK
<1>3. CASE job' = job
  BY <1>1, <1>3 DEF Running
<1>4. CASE job' = [job EXCEPT ![t] = Finished(job[t])]
  <2>1. Finished(job[t]).success = job[t].input /\ ~Finished(job[t]).live
    BY <1>1, FinishedFacts
  <2>2. job[t].success <= job[t].input /\ job[t].input \in Nat
    BY <1>1, Types DEF IInv, ClaimsAreCurrent
  <2>3. \A u \in Threads : job'[u] = IF u = t THEN Finished(job[t]) ELSE job[u]
    BY <1>1, <1>4 DEF TypeOK
  <2>4. QED
    BY <1>1, <2>1, <2>2, <2>3 DEF Running
<1>5. CASE job[t].retries > 0 /\ job' = [job EXCEPT ![t] = Failed(job[t])]
  <2>1. Failed(job[t]).success = job[t].success /\ ~Failed(job[t]).live
    BY <1>1, <1>5, FailedFacts
  <2>2. \A u \in Threads : job'[u] = IF u = t THEN Failed(job[t]) ELSE job[u]
    BY <1>1, <1>5 DEF TypeOK
  <2>3. QED
    BY <1>1, <2>1, <2>2 DEF Running
<1>6. QED
  BY <1>2, <1>3, <1>4, <1>5

LEMMA TimeOnlyStops ==
  ASSUME IInv, Time
  PROVE  /\ global'.success = global.success
         /\ \A u \in Threads : /\ job'[u].success = job[u].success
                               /\ Running(u)' => Running(u)
<1>1. TypeOK /\ global \in JobRow /\ \A u \in Threads : job[u] \in JobRow
  BY Types DEF IInv
<1>2. ASSUME NEW t \in Threads, job' = [job EXCEPT ![t] = Elapsed(job[t])],
             UNCHANGED global
      PROVE  \A u \in Threads : /\ job'[u].success = job[u].success
                                /\ Running(u)' => Running(u)
  <2>1. \A u \in Threads : job'[u] = IF u = t THEN Elapsed(job[t]) ELSE job[u]
    BY <1>1, <1>2 DEF TypeOK
  <2>2. /\ Elapsed(job[t]).status = job[t].status
        /\ Elapsed(job[t]).success = job[t].success
        /\ Elapsed(job[t]).live => job[t].live
    BY <1>1, ElapsedFacts
  <2>3. QED
    BY <2>1, <2>2 DEF Running
<1>3. ASSUME global' = Elapsed(global), UNCHANGED job
      PROVE  global'.success = global.success
             /\ \A u \in Threads : /\ job'[u].success = job[u].success
                                   /\ Running(u)' => Running(u)
  BY <1>1, <1>3, ElapsedFacts DEF Running
<1>4. QED
  BY <1>1, <1>2, <1>3 DEF Time, TypeOK

LEMMA ClaimStage1Rows ==
  ASSUME IInv, NEW w \in Workers, NEW eligible \in SUBSET Threads,
         claim_stage1_jobs_for_startup(w, eligible)
  PROVE  \A u \in Threads :
           /\ job'[u].success = job[u].success
           /\ Running(u)' => Running(u) \/ u \in Claims(eligible)
<1>1. job' = [t \in Threads |-> IF t \in Claims(eligible) THEN Claimed(t, w) ELSE job[t]]
  BY DEF claim_stage1_jobs_for_startup
<1>2. TypeOK /\ \A t \in Claims(eligible) : t \in Threads /\ Claimable(t)
  BY ClaimsFacts DEF IInv
<1>3. \A t \in Claims(eligible) : Claimed(t, w).success = job[t].success
  BY <1>2, ClaimedFacts
<1>4. QED
  BY <1>1, <1>3 DEF Running

\* The claims of one startup fill the cap at most.
LEMMA ClaimsFit ==
  ASSUME TypeOK, RunningCap, NEW eligible \in SUBSET Threads
  PROVE  Cardinality({t \in Threads : Running(t)} \cup Claims(eligible)) <= MaxRunning
<1> DEFINE L == {t \in Threads : Running(t)}
           C == Claims(eligible)
           X == {t \in Newest(Stale \cap eligible, ScanLimit) : Claimable(t)}
<1>1. IsFiniteSet(L) /\ Cardinality(L) \in Nat /\ Cardinality(L) <= MaxRunning
  BY FS_Subset, FS_CardinalityType, ConstantTypes DEF RunningCap
<1>2. CASE Cardinality(L) >= MaxRunning
  <2>1. C = {}
    BY <1>2 DEF Claims
  <2>2. L \cup C = L
    BY <2>1
  <2>3. QED
    BY <1>1, <2>2
<1>3. CASE Cardinality(L) < MaxRunning
  <2>1. C = Newest(X, MaxRunning - Cardinality(L))
    BY <1>1, <1>3, ConstantTypes DEF Claims
  <2>2. X \in SUBSET Threads
    BY DEF Newest, Stale
  <2>3. MaxRunning - Cardinality(L) \in Nat
    BY <1>1, <1>3, ConstantTypes
  <2>4. IsFiniteSet(C) /\ Cardinality(C) <= MaxRunning - Cardinality(L)
    <3> HIDE DEF X, L, C
    <3>1. QED
      BY <2>1, <2>2, <2>3, NewestIsLimited
  <2>5. /\ Cardinality(L \cup C) = Cardinality(L) + Cardinality(C) - Cardinality(L \cap C)
        /\ Cardinality(C) \in Nat /\ Cardinality(L \cap C) \in Nat
        /\ Cardinality(L \cup C) \in Nat
    BY <1>1, <2>4, FS_Union, FS_Intersection, FS_CardinalityType
  <2>6. QED
    BY <1>1, <2>4, <2>5, ConstantTypes
<1>4. QED
  BY <1>1, <1>2, <1>3, ConstantTypes

LEMMA CapStep ==
  ASSUME IInv, RunningCap, [Next]_vars
  PROVE  RunningCap'
<1> DEFINE L == {t \in Threads : Running(t)}
<1>1. IsFiniteSet(L) /\ Cardinality(L) <= MaxRunning /\ TypeOK
  BY FS_Subset, ConstantTypes DEF RunningCap, IInv
<1>2. ASSUME NEW S \in SUBSET Threads, Cardinality(S) <= MaxRunning,
             \A t \in Threads : Running(t)' => t \in S
      PROVE  RunningCap'
  <2>1. {t \in Threads : Running(t)'} \in SUBSET S /\ IsFiniteSet(S)
    BY <1>2, FS_Subset, ConstantTypes
  <2>2. /\ Cardinality({t \in Threads : Running(t)'}) <= Cardinality(S)
        /\ Cardinality({t \in Threads : Running(t)'}) \in Nat
        /\ Cardinality(S) \in Nat
    BY <2>1, FS_Subset, FS_CardinalityType
  <2>3. QED
    BY <1>2, <2>2, ConstantTypes DEF RunningCap
<1>3. ASSUME NEW w \in Workers, NEW eligible \in SUBSET Threads,
             claim_stage1_jobs_for_startup(w, eligible)
      PROVE  RunningCap'
  <2>1. Claims(eligible) \subseteq Threads
    BY <1>1, ClaimsFacts
  <2>2. L \cup Claims(eligible) \in SUBSET Threads
    BY <2>1
  <2>3. Cardinality(L \cup Claims(eligible)) <= MaxRunning
    BY <1>1, ClaimsFit
  <2>4. \A t \in Threads : Running(t)' => t \in L \cup Claims(eligible)
    BY <1>3, ClaimStage1Rows
  <2>5. QED
    BY <1>2, <2>2, <2>3, <2>4
<1>4. ASSUME \A t \in Threads : Running(t)' => Running(t)
      PROVE  RunningCap'
  BY <1>1, <1>2, <1>4
<1>5. ASSUME UNCHANGED job
      PROVE  RunningCap'
  BY <1>4, <1>5 DEF Running
<1>6. ASSUME NEW disable \in BOOLEAN, clear_memory_data_inner(disable)
      PROVE  RunningCap'
  BY <1>4, <1>6 DEF clear_memory_data_inner, Running, NoJob
<1>7. ASSUME NEW w \in Workers, Stage1(w)
      PROVE  RunningCap'
  BY <1>4, <1>7, RowsOnlyAdvance DEF Stage1
<1>8. CASE Time
  BY <1>4, <1>8, TimeOnlyStops
<1>9. CASE UNCHANGED vars
  BY <1>5, <1>9 DEF vars, store
<1>10. ASSUME NEW t \in Threads,
             \/ Edit(t)
             \/ \E m \in {"enabled", "disabled", "polluted"} :
                  set_thread_memory_mode(t, m)
             \/ mark_thread_memory_mode_polluted(t)
             \/ prune_stage1_outputs_for_retention(t)
      PROVE  UNCHANGED job
  BY <1>10 DEF Edit, set_thread_memory_mode, mark_thread_memory_mode_polluted,
               prune_stage1_outputs_for_retention
<1>11. ASSUME NEW w \in Workers,
              Phase2(w) \/ try_claim_global_phase2_job(w) \/ Crash(w)
       PROVE  UNCHANGED job
  BY <1>11
  DEF Phase2, Succeeds, get_phase2_input_selection, heartbeat_global_phase2_job,
      mark_global_phase2_job_succeeded, mark_global_phase2_job_failed,
      mark_global_phase2_job_failed_if_unowned, try_claim_global_phase2_job,
      Crash, store
<1>12. QED
  BY <1>3, <1>5, <1>6, <1>7, <1>8, <1>9, <1>10, <1>11 DEF Next

\* However startups interleave, no more than MaxRunning extractions have a
\* lease (try_claim_stage1_job counts them in the statement that claims).
THEOREM RunningIsCapped == Spec => []RunningCap
<1>1. Init => RunningCap
  <2> SUFFICES ASSUME Init PROVE RunningCap
    OBVIOUS
  <2>1. {t \in Threads : Running(t)} = {}
    BY DEF Init, Running, NoJob
  <2>2. QED
    BY <2>1, FS_EmptySet, ConstantTypes DEF RunningCap
<1>2. IInv /\ RunningCap /\ [Next]_vars => RunningCap'
  BY CapStep
<1>3. QED
  BY <1>1, <1>2, RowsAgree, PTL DEF Spec

-----------------------------------------------------------------------------
\* Watermarks of success and versions of outputs from one state to the next.
Onward == /\ global'.success >= global.success
          /\ \A t \in Threads : /\ job'[t].success >= job[t].success
                                /\ \/ output'[t].source = 0
                                   \/ output'[t].source >= output[t].source

LEMMA OnwardIfUnchanged ==
  ASSUME IInv,
         UNCHANGED output \/ \A t \in Threads : output'[t].source = output[t].source
  PROVE  /\ UNCHANGED global \/ global'.success = global.success =>
              global'.success >= global.success
         /\ UNCHANGED job => \A t \in Threads : job'[t].success >= job[t].success
         /\ \A t \in Threads : output'[t].source >= output[t].source
BY Types DEF IInv

LEMMA Stage1Onward ==
  ASSUME IInv, NEW t \in Threads, NEW w \in Workers,
         \/ mark_stage1_job_succeeded(w, t)
         \/ mark_stage1_job_succeeded_no_output(w, t)
         \/ mark_stage1_job_failed(w, t)
  PROVE  Onward
<1>1. /\ TypeOK /\ global \in JobRow /\ \A u \in Threads : output[u].source \in Nat
      /\ job[t].input \in Nat /\ held[w][t] \in Nat
      /\ global.success \in Nat
  BY Types DEF IInv
<1>2. \A n \in Nat : enqueue(global, n).success >= global.success
  <2> SUFFICES ASSUME NEW n \in Nat PROVE enqueue(global, n).success >= global.success
    OBVIOUS
  <2>1. CASE global.status = "absent"
    <3>1. global.success = 0 /\ enqueue(global, n).success = 0
      BY <1>1, <2>1, EnqueueFacts DEF IInv, JobsAreSound, NoJob
    <3>2. QED
      BY <3>1
  <2>2. CASE global.status # "absent"
    <3>1. enqueue(global, n).success = global.success
      BY <1>1, <2>2, EnqueueFacts
    <3>2. QED
      BY <1>1, <3>1
  <2>3. QED
    BY <2>1, <2>2
<1>3. global'.success >= global.success
  BY <1>1, <1>2 DEF mark_stage1_job_succeeded, mark_stage1_job_succeeded_no_output,
                    mark_stage1_job_failed
<1>4. \A u \in Threads : \/ output'[u].source = 0
                         \/ output'[u].source >= output[u].source
  <2>1. CASE UNCHANGED output
    BY <1>1, <2>1
  <2>2. CASE output' = [output EXCEPT ![t] = NoOutput]
    BY <1>1, <2>2 DEF TypeOK, NoOutput
  <2>3. CASE /\ held[w][t] >= output[t].source
             /\ output' = [output EXCEPT ![t].source = held[w][t]]
    BY <1>1, <2>3 DEF TypeOK, OutputRow
  <2>4. QED
    BY <2>1, <2>2, <2>3
    DEF mark_stage1_job_succeeded, mark_stage1_job_succeeded_no_output,
        mark_stage1_job_failed
<1>5. QED
  BY <1>3, <1>4, RowsOnlyAdvance DEF Onward

LEMMA StepOnward ==
  ASSUME IInv, Next, \E t \in Threads : job'[t] # NoJob
  PROVE  Onward
<1>1. ASSUME NEW t \in Threads,
             Edit(t) \/ \E m \in {"enabled", "disabled", "polluted"} :
                          set_thread_memory_mode(t, m)
      PROVE  Onward
  BY <1>1, OnwardIfUnchanged DEF Edit, set_thread_memory_mode, Onward
<1>2. ASSUME NEW t \in Threads, mark_thread_memory_mode_polluted(t)
      PROVE  Onward
  <2>1. UNCHANGED <<job, output>>
    BY <1>2 DEF mark_thread_memory_mode_polluted
  <2>2. global'.success >= global.success
    <3>1. CASE output[t].selected
      BY <1>2, <2>1, <3>1, Types, GlobalAdvances
      DEF mark_thread_memory_mode_polluted, IInv
    <3>2. CASE ~output[t].selected
      BY <1>2, <3>2, Types DEF mark_thread_memory_mode_polluted, IInv
    <3>3. QED
      BY <3>1, <3>2
  <2>3. QED
    BY <2>1, <2>2, OnwardIfUnchanged DEF Onward
<1>3. ASSUME NEW t \in Threads, prune_stage1_outputs_for_retention(t)
      PROVE  Onward
  <2>1. /\ UNCHANGED <<job, global>>
        /\ \A u \in Threads : output'[u].source \in {0, output[u].source}
    BY <1>3 DEF prune_stage1_outputs_for_retention, NoOutput, IInv, TypeOK
  <2>2. QED
    BY <2>1, Types DEF Onward, IInv
<1>4. ASSUME NEW w \in Workers, NEW eligible \in SUBSET Threads,
             claim_stage1_jobs_for_startup(w, eligible)
      PROVE  Onward
  <2>1. UNCHANGED <<output, global>>
    BY <1>4 DEF claim_stage1_jobs_for_startup
  <2>2. QED
    BY <1>4, <2>1, ClaimStage1Rows, OnwardIfUnchanged, Types DEF Onward, IInv
<1>5. ASSUME NEW w \in Workers, try_claim_global_phase2_job(w)
      PROVE  Onward
  <2>1. UNCHANGED <<job, output>> /\ global'.success = global.success
    BY <1>5 DEF try_claim_global_phase2_job, IInv, TypeOK, JobRow
  <2>2. QED
    BY <2>1, OnwardIfUnchanged DEF Onward
<1>6. ASSUME NEW w \in Workers,
             \/ get_phase2_input_selection(w)
             \/ heartbeat_global_phase2_job(w)
             \/ mark_global_phase2_job_failed(w)
             \/ mark_global_phase2_job_failed_if_unowned(w)
             \/ Crash(w)
      PROVE  Onward
  <2>1. UNCHANGED <<job, output>>
    BY <1>6 DEF get_phase2_input_selection, heartbeat_global_phase2_job,
                mark_global_phase2_job_failed,
                mark_global_phase2_job_failed_if_unowned, Crash, store
  <2>2. \/ global' = global
        \/ global' = [global EXCEPT !.live = TRUE]
        \/ global' = Failed(global)
    BY <1>6 DEF get_phase2_input_selection, heartbeat_global_phase2_job,
                mark_global_phase2_job_failed,
                mark_global_phase2_job_failed_if_unowned, Crash, store
  <2>3. global'.success = global.success
    BY <2>2, Types DEF Failed, JobRow, IInv
  <2>4. QED
    BY <2>1, <2>3, OnwardIfUnchanged DEF Onward
<1>7. ASSUME NEW w \in Workers, NEW completed \in Completed(w),
             mark_global_phase2_job_succeeded(w, completed)
      PROVE  Onward
  <2>1. UNCHANGED job
    BY <1>7 DEF mark_global_phase2_job_succeeded
  <2>2. QED
    BY <1>7, <2>1, GlobalSucceededStep, OnwardIfUnchanged DEF Onward
<1>8. CASE Time
  <2>1. UNCHANGED output
    BY <1>8 DEF Time
  <2>2. QED
    BY <1>8, <2>1, TimeOnlyStops, OnwardIfUnchanged, Types DEF Onward, IInv
<1>9. ASSUME NEW disable \in BOOLEAN, clear_memory_data_inner(disable)
      PROVE  FALSE
  BY <1>9 DEF clear_memory_data_inner
<1>10. ASSUME NEW w \in Workers, Stage1(w)
       PROVE  Onward
  BY <1>10, Stage1Onward DEF Stage1
<1>11. ASSUME NEW w \in Workers, Phase2(w)
       PROVE  Onward
  BY <1>6, <1>7, <1>11 DEF Phase2, Succeeds
<1>12. QED
  BY <1>1, <1>2, <1>3, <1>4, <1>5, <1>6, <1>8, <1>9, <1>10, <1>11 DEF Next

\* A worker that is late, because its lease ran out and another one took the
\* job over, never puts an older output or watermark in place of a newer one.
THEOREM NothingIsUndone == Spec => NothingGoesBack
<1> DEFINE Kept == (\E t \in Threads : job'[t] # NoJob) => Onward
<1>1. IInv /\ [Next]_vars => [Kept]_vars
  BY StepOnward
<1>2. [][Kept]_vars => NothingGoesBack
  <2>1. [Kept]_vars => [(\E t \in Threads : job'[t] # NoJob) =>
       /\ global'.success >= global.success
       /\ \A t \in Threads : /\ job'[t].success >= job[t].success
                             /\ \/ output'[t].source = 0
                                \/ output'[t].source >= output[t].source]_vars
    BY DEF Onward
  <2>2. QED
    BY <2>1, PTL DEF NothingGoesBack
<1>3. QED
  BY <1>1, <1>2, RowsAgree, PTL DEF Spec
=============================================================================

------------------------- MODULE SessionLifetimeProofs -------------------------
(***************************************************************************)
(* Theorems about SessionLifetime for every TTL and every number of memory *)
(* losses: the alarm never removes a session in use, and an idle one lives *)
(* for one TTL more per loss at most.                                      *)
(***************************************************************************)
EXTENDS SessionLifetime, TLAPS

LEMMA ConstantTypes ==
  TTL \in Nat /\ TTL > 0 /\ MaxLosses \in Nat /\ MaxIdle \in Nat /\ MaxIdle > 0
<1>1. TTL * (MaxLosses + 1) \in Nat
  BY SessionLifetimeAssumption
<1>2. QED
  BY <1>1, SessionLifetimeAssumption

\* What n losses may add up to.
Lost(n) == TTL * n

LEMMA LostFacts ==
  ASSUME NEW n \in Nat
  PROVE  /\ Lost(n) \in Nat
         /\ Lost(n + 1) = Lost(n) + TTL
         /\ Lost(0) = 0
BY SessionLifetimeAssumption DEF Lost

LEMMA LostIsMonotonic ==
  ASSUME NEW n \in Nat, NEW m \in Nat, n <= m
  PROVE  Lost(n) <= Lost(m)
<1>1. PICK k \in Nat : m = n + k
  BY m - n \in Nat
<1>2. Lost(m) = Lost(n) + Lost(k)
  BY <1>1, SessionLifetimeAssumption DEF Lost
<1>3. QED
  BY <1>2, LostFacts

LEMMA LostIsCounted ==
  ASSUME NEW n \in 0 .. MaxLosses
  PROVE  Lost(n) + TTL < MaxIdle
<1>1. Lost(n) <= Lost(MaxLosses)
  BY LostIsMonotonic, SessionLifetimeAssumption
<1>2. TTL * (MaxLosses + 1) = Lost(MaxLosses) + TTL
  BY SessionLifetimeAssumption DEF Lost
<1>3. QED
  BY <1>1, <1>2, LostFacts, SessionLifetimeAssumption

-----------------------------------------------------------------------------

\* The alarm never removes a session in use, however often the object loses
\* its memory: the clock in memory never runs ahead of the real one, so that a
\* TTL that has passed in memory has passed.
ClockIsBehind == inMemory => elapsed <= idle

ClockInv == TypeOK /\ StoredHasAlarm /\ ClockIsBehind

LEMMA ClockTypes ==
  ASSUME TypeOK, Next
  PROVE  TypeOK'
<1> USE ConstantTypes DEF TypeOK, NoAlarm
<1>1. stored' \in BOOLEAN /\ inMemory' \in BOOLEAN
  BY DEF Next, fetch, webSocketMessage, Used, alarm, LoseMemory, Tick
<1>2. alarmIn' \in 0 .. NoAlarm
  BY DEF Next, fetch, webSocketMessage, Used, alarm, Elapsed, LoseMemory, Tick
<1>3. elapsed' \in 0 .. MaxIdle /\ idle' \in 0 .. MaxIdle
  BY DEF Next, fetch, webSocketMessage, Used, alarm, Elapsed, LoseMemory, Tick, UpTo
<1>4. losses' \in 0 .. MaxLosses
  BY DEF Next, fetch, webSocketMessage, Used, alarm, LoseMemory, Tick, UpTo
<1>5. QED
  BY <1>1, <1>2, <1>3, <1>4

LEMMA ClockStep ==
  ASSUME ClockInv, Next
  PROVE  ClockInv'
<1> USE ConstantTypes DEF TypeOK, NoAlarm, StoredHasAlarm, ClockIsBehind
<1>1. TypeOK /\ StoredHasAlarm /\ ClockIsBehind
  BY DEF ClockInv
<1>2. CASE fetch
  BY <1>1, <1>2, ClockTypes DEF fetch, Used, ClockInv
<1>3. CASE webSocketMessage
  BY <1>1, <1>3, ClockTypes DEF webSocketMessage, Used, ClockInv
<1>4. CASE alarm
  <2>1. Elapsed \in Nat /\ Elapsed <= idle
    BY <1>1 DEF Elapsed
  <2>2. alarmIn' # NoAlarm \/ stored' = FALSE
    BY <1>4, <2>1 DEF alarm
  <2>3. StoredHasAlarm' /\ ClockIsBehind'
    BY <1>4, <2>1, <2>2 DEF alarm
  <2>4. QED
    BY <2>3, ClockTypes, <1>1 DEF ClockInv
<1>5. CASE LoseMemory
  BY <1>1, <1>5, ClockTypes DEF LoseMemory, ClockInv
<1>6. CASE Tick
  <2>1. StoredHasAlarm'
    BY <1>1, <1>6 DEF Tick
  <2>2. ClockIsBehind'
    BY <1>1, <1>6 DEF Tick, UpTo
  <2>3. QED
    BY <1>1, <2>1, <2>2, ClockTypes DEF ClockInv
<1>7. QED
  BY <1>2, <1>3, <1>4, <1>5, <1>6 DEF Next

\* The types of the clock's state, a session in storage has an alarm, and the
\* clock in memory is never ahead (session-relay.ts, resetAlarm and alarm).
THEOREM ClockIsSound == Spec => []ClockInv
<1>1. Init => ClockInv
  <2> SUFFICES ASSUME Init PROVE ClockInv
    OBVIOUS
  <2>1. TypeOK
    <3>1. /\ NoAlarm \in 0 .. NoAlarm
          /\ 0 \in 0 .. MaxIdle /\ 0 \in 0 .. MaxLosses
      BY ConstantTypes DEF NoAlarm
    <3>2. QED
      BY <3>1 DEF Init, TypeOK
  <2>2. StoredHasAlarm /\ ClockIsBehind
    BY DEF Init, StoredHasAlarm, ClockIsBehind
  <2>3. QED
    BY <2>1, <2>2 DEF ClockInv
<1>2. ClockInv /\ [Next]_vars => ClockInv'
  BY ClockStep
  DEF ClockInv, TypeOK, NoAlarm, StoredHasAlarm, ClockIsBehind, vars
<1>3. QED
  BY <1>1, <1>2, PTL DEF Spec

\* The alarm, the one thing that removes a session nobody uses at the moment,
\* finds that a whole TTL passed since its last use (session-relay.ts, alarm).
THEOREM TheActiveAreKept == Spec => ActiveSessionIsKept
<1> DEFINE Kept == (stored /\ ~stored' /\ idle' # 0) => idle >= TTL
<1>1. ClockInv /\ [Next]_vars => Kept
  <2> SUFFICES ASSUME ClockInv, [Next]_vars, stored, ~stored', idle' # 0
               PROVE  idle >= TTL
    OBVIOUS
  <2>1. CASE alarm
    <3>1. Elapsed >= TTL
      BY <2>1 DEF alarm
    <3>2. inMemory /\ elapsed >= TTL
      BY <3>1, ConstantTypes DEF Elapsed
    <3>3. QED
      BY <3>2, ConstantTypes DEF ClockInv, ClockIsBehind, TypeOK
  <2>2. CASE ~alarm
    BY <2>2 DEF Next, fetch, webSocketMessage, Used, LoseMemory, Tick, vars
  <2>3. QED
    BY <2>1, <2>2
<1>2. ClockInv /\ [Next]_vars => [Kept]_vars
  BY <1>1
<1>3. QED
  BY <1>2, ClockIsSound, PTL DEF Spec, ActiveSessionIsKept

-----------------------------------------------------------------------------

\* A session with an alarm: the alarm comes before the bound is reached, and
\* the clock in memory is behind by no more than the losses explain.  Outside
\* of memory the alarm will come early, so that one loss is still in hand.
AlarmKeepsTheBound ==
  (stored /\ losses < MaxLosses) =>
    /\ alarmIn <= TTL
    /\ inMemory  => /\ idle + alarmIn <= Lost(losses) + TTL
                    /\ idle - elapsed <= Lost(losses)
    /\ ~inMemory => idle + alarmIn <= Lost(losses)

LEMMA BoundStep ==
  ASSUME ClockInv, AlarmKeepsTheBound, [Next]_vars
  PROVE  AlarmKeepsTheBound'
<1> USE ConstantTypes, LostFacts
    DEF ClockInv, TypeOK, NoAlarm, StoredHasAlarm, ClockIsBehind, AlarmKeepsTheBound
<1>1. CASE fetch
  BY <1>1 DEF fetch, Used
<1>2. CASE webSocketMessage
  BY <1>2 DEF webSocketMessage, Used
<1>3. CASE alarm
  <2>1. CASE Elapsed >= TTL
    BY <1>3, <2>1 DEF alarm
  <2>2. CASE Elapsed < TTL
    <3>1. /\ stored' = stored /\ idle' = idle /\ losses' = losses
          /\ inMemory' /\ elapsed' = Elapsed /\ alarmIn' = TTL - Elapsed
      BY <1>3, <2>2 DEF alarm, Elapsed
    <3>2. Elapsed \in Nat /\ Lost(losses) \in Nat
      BY DEF Elapsed
    <3>3. (stored /\ losses < MaxLosses) => idle - Elapsed <= Lost(losses)
      BY <1>3 DEF alarm, Elapsed
    <3>4. QED
      BY <3>1, <3>2, <3>3
  <2>3. QED
    BY <2>1, <2>2 DEF Elapsed
<1>4. CASE LoseMemory
  <2>1. losses' < MaxLosses => losses' = losses + 1
    BY <1>4 DEF LoseMemory, UpTo
  <2>2. QED
    BY <1>4, <2>1 DEF LoseMemory
<1>5. CASE Tick
  <2>1. CASE stored /\ losses < MaxLosses
    <3>1. alarmIn' = alarmIn - 1
      BY <1>5, <2>1 DEF Tick
    <3>2. idle < MaxIdle
      BY <1>5, <2>1, LostIsCounted DEF Tick
    <3>3. idle' = idle + 1
      BY <1>5, <3>2 DEF Tick, UpTo
    <3>4. inMemory => elapsed' = elapsed + 1
      BY <1>5, <3>2 DEF Tick, UpTo
    <3>5. QED
      BY <1>5, <3>1, <3>3, <3>4 DEF Tick
  <2>2. CASE ~(stored /\ losses < MaxLosses)
    BY <1>5, <2>2 DEF Tick
  <2>3. QED
    BY <2>1, <2>2
<1>6. CASE UNCHANGED vars
  BY <1>6 DEF vars
<1>7. QED
  BY <1>1, <1>2, <1>3, <1>4, <1>5, <1>6 DEF Next

\* An idle session is gone after one TTL, and one TTL more for each time the
\* object lost its memory since the last use (session-relay.ts, alarm and the
\* constructor's lastActivity).
THEOREM IdleLifeIsBoundedByLosses == Spec => []LifetimeInv
<1>1. Init => AlarmKeepsTheBound
  BY DEF Init, AlarmKeepsTheBound
<1>2. ClockInv /\ AlarmKeepsTheBound /\ [Next]_vars => AlarmKeepsTheBound'
  BY BoundStep
<1>3. ClockInv /\ AlarmKeepsTheBound => LifetimeInv
  <2> SUFFICES ASSUME ClockInv, AlarmKeepsTheBound PROVE LifetimeInv
    OBVIOUS
  <2>1. TTL * (losses + 1) = Lost(losses) + TTL /\ Lost(losses) \in Nat
    BY LostFacts, SessionLifetimeAssumption DEF Lost, ClockInv, TypeOK
  <2>2. IdleLifeIsBounded
    BY <2>1, ConstantTypes
    DEF IdleLifeIsBounded, ClockInv, TypeOK, NoAlarm, AlarmKeepsTheBound
  <2>3. QED
    BY <2>2 DEF LifetimeInv, ClockInv
<1>4. QED
  BY <1>1, <1>2, <1>3, ClockIsSound, PTL DEF Spec
=============================================================================

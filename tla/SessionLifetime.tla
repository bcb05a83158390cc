-------------------------- MODULE SessionLifetime ---------------------------
(***************************************************************************)
(* The clock of the SessionRelay Durable Object: lastActivity in memory,   *)
(* one alarm in storage, and the rule that a session idle for its TTL is   *)
(* cleaned up (worker/src/session-relay.ts).  SessionRelay leaves time     *)
(* out; this module has nothing else.  Time advances in ticks and an alarm *)
(* that is due fires before the next tick.                                 *)
(***************************************************************************)
EXTENDS Naturals

CONSTANTS
  TTL,       \* SESSION_TTL_MS in ticks
  MaxIdle,   \* the idle time is counted up to here
  MaxLosses  \* losses of memory since the last use are counted up to here

ASSUME SessionLifetimeAssumption ==
  /\ TTL \in Nat \ {0}
  /\ MaxLosses \in Nat
  /\ MaxIdle \in Nat /\ MaxIdle > TTL * (MaxLosses + 1)

NoAlarm == TTL + 1

VARIABLES
  stored,    \* the session has something in storage
  alarmIn,   \* ticks until the alarm, or NoAlarm
  inMemory,  \* the object is constructed
  elapsed,   \* ticks since lastActivity, while in memory
  idle,      \* history: ticks since the session was really used
  losses     \* history: memory losses since then

vars == <<stored, alarmIn, inMemory, elapsed, idle, losses>>

TypeOK ==
  /\ stored \in BOOLEAN
  /\ alarmIn \in 0 .. NoAlarm
  /\ inMemory \in BOOLEAN
  /\ elapsed \in 0 .. MaxIdle
  /\ idle \in 0 .. MaxIdle
  /\ losses \in 0 .. MaxLosses

UpTo(n, bound) == IF n > bound THEN bound ELSE n

Init ==
  /\ stored = FALSE
  /\ alarmIn = NoAlarm
  /\ inMemory = FALSE
  /\ elapsed = 0
  /\ idle = 0
  /\ losses = 0

-----------------------------------------------------------------------------

\* Any event constructs the object first; the constructor starts lastActivity
\* at the time of construction.
Elapsed == IF inMemory THEN elapsed ELSE 0

Used ==
  /\ inMemory' = TRUE
  /\ elapsed' = 0
  /\ idle' = 0
  /\ losses' = 0

\* Every fetch restarts the clock and the alarm before it is routed: /init
\* writes to storage, /teardown empties it (which leaves the alarm set).
fetch ==
  /\ Used
  /\ alarmIn' = TTL
  /\ \/ UNCHANGED stored
     \/ stored' = TRUE
     \/ stored' = FALSE

\* Mutant: a message is not taken for activity.
webSocketMessage_Ignored ==
  /\ alarmIn # NoAlarm
  /\ inMemory' = TRUE
  /\ elapsed' = Elapsed
  /\ idle' = 0
  /\ losses' = 0
  /\ UNCHANGED <<stored, alarmIn>>

\* A message of the browser restarts the clock but not the alarm.  Its socket
\* came with a fetch, and is closed when the session expires.
webSocketMessage ==
  /\ alarmIn # NoAlarm
  /\ Used
  /\ UNCHANGED <<stored, alarmIn>>

\* Mutants: an alarm that comes early is set again for n ticks more: for
\* a whole TTL, or never.
RescheduledAlarm(n) ==
  /\ alarmIn = 0
  /\ IF Elapsed >= TTL
     THEN stored' = FALSE /\ alarmIn' = NoAlarm
     ELSE alarmIn' = n /\ UNCHANGED stored
  /\ inMemory' = TRUE
  /\ elapsed' = Elapsed
  /\ UNCHANGED <<idle, losses>>

alarm_WholeTTL    == RescheduledAlarm(TTL)
alarm_NotRepeated == RescheduledAlarm(NoAlarm)

alarm ==
  /\ alarmIn = 0
  /\ IF Elapsed >= TTL
     THEN /\ stored' = FALSE
          /\ alarmIn' = NoAlarm
     ELSE /\ alarmIn' = TTL - Elapsed
          /\ UNCHANGED stored
  /\ inMemory' = TRUE
  /\ elapsed' = Elapsed
  /\ UNCHANGED <<idle, losses>>

\* Hibernation, a crash or a deployment, at any time: every event is handled
\* within its action, so the object is idle between two of them.
LoseMemory ==
  /\ inMemory
  /\ inMemory' = FALSE
  /\ elapsed' = 0
  /\ losses' = UpTo(losses + 1, MaxLosses)
  /\ UNCHANGED <<stored, alarmIn, idle>>

Tick ==
  /\ alarmIn > 0
  /\ alarmIn' = IF alarmIn = NoAlarm THEN NoAlarm ELSE alarmIn - 1
  /\ elapsed' = IF inMemory THEN UpTo(elapsed + 1, MaxIdle) ELSE 0
  /\ idle' = UpTo(idle + 1, MaxIdle)
  /\ UNCHANGED <<stored, inMemory, losses>>

Next == fetch \/ webSocketMessage \/ alarm \/ LoseMemory \/ Tick

Spec == Init /\ [][Next]_vars

\* Time passes and alarms are delivered.
FairSpec == Spec /\ WF_vars(Tick) /\ WF_vars(alarm)

-----------------------------------------------------------------------------

\* A session that has something to clean up has an alarm to do it.
StoredHasAlarm == stored => alarmIn # NoAlarm

\* The alarm never removes a session that was used within the TTL.
ActiveSessionIsKept ==
  [][(stored /\ ~stored' /\ idle' # 0) => idle >= TTL]_vars

\* An idle session outlives its TTL by one TTL at most for each time the
\* object forgot when it was last used, however far those are counted.
IdleLifeIsBounded ==
  (stored /\ losses < MaxLosses) => idle <= TTL * (losses + 1)

\* The rows and the clock: types, and the alarm that keeps the bound.
LifetimeInv == TypeOK /\ StoredHasAlarm /\ IdleLifeIsBounded

\* "How long to keep an idle session alive (7 days)" (session-relay.ts:23), and
\* the alarm that is to "clean up expired sessions" (:235): a session nobody
\* uses any more is eventually cleaned up.  An object that loses its memory
\* before each alarm is constructed by the alarm, as if it had just been used,
\* and the session stays for ever.
IdleSessionExpires == stored ~> (~stored \/ idle = 0)

\* What is left of that: a session nobody uses is cleaned up, unless the object
\* loses its memory again and again for ever.
ExpiresUnlessForgetful == (<>[][~LoseMemory]_vars) => IdleSessionExpires

=============================================================================

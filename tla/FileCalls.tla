------------------------------ MODULE FileCalls ------------------------------
(***************************************************************************)
(* What a synchronous file system promises to the one thread that calls    *)
(* it.  A call is carried out at most once, with the caller's own data,    *)
(* and returns its own result; one that fails may have been carried out,   *)
(* or may yet be, but never after the next call has begun: the operations  *)
(* take effect in the order of the calls.  OpfsBridge implements this.     *)
(***************************************************************************)
EXTENDS Naturals

CONSTANTS
  MaxCalls,  \* the calls are numbered 1 .. MaxCalls
  Kinds,     \* their kinds, among them "read" and "write" (of binary data)
  NoResult,  \* the result of a call that has not returned
  Failed     \* the result of a call that was given up

VARIABLES
  begun,     \* the last call begun, 0 before the first
  kind,      \* its kind
  done,      \* how often each call has been carried out
  written,   \* whose data the file got of each call, 0 for none
  result,    \* the call whose result each call returned with
  got        \* whose data each call returned with, 0 for none

vars == <<begun, kind, done, written, result, got>>

Calls == 1 .. MaxCalls

Init ==
  /\ begun = 0 /\ kind = "call"
  /\ done = [c \in Calls |-> 0]
  /\ written = [c \in Calls |-> 0]
  /\ result = [c \in Calls |-> NoResult]
  /\ got = [c \in Calls |-> 0]

-----------------------------------------------------------------------------

\* The caller waits for one call before it begins another.
Begin(k) ==
  /\ begun < MaxCalls
  /\ begun > 0 => result[begun] # NoResult
  /\ begun' = begun + 1
  /\ kind' = k
  /\ UNCHANGED <<done, written, result, got>>

\* The last call takes effect, whether or not it is still waited for.
CarryOut ==
  /\ begun > 0 /\ done[begun] = 0
  /\ done' = [done EXCEPT ![begun] = 1]
  /\ written' = IF kind = "write" THEN [written EXCEPT ![begun] = begun] ELSE written
  /\ UNCHANGED <<begun, kind, result, got>>

Return ==
  /\ begun > 0 /\ result[begun] = NoResult
  /\ done[begun] = 1
  /\ result' = [result EXCEPT ![begun] = begun]
  /\ got' = IF kind = "read" THEN [got EXCEPT ![begun] = begun] ELSE got
  /\ UNCHANGED <<begun, kind, done, written>>

Fail ==
  /\ begun > 0 /\ result[begun] = NoResult
  /\ result' = [result EXCEPT ![begun] = Failed]
  /\ UNCHANGED <<begun, kind, done, written, got>>

Next == (\E k \in Kinds : Begin(k)) \/ CarryOut \/ Return \/ Fail

Spec == Init /\ [][Next]_vars

=============================================================================

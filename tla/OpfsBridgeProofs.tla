--------------------------- MODULE OpfsBridgeProofs ---------------------------
(***************************************************************************)
(* Theorems about OpfsBridge for any number of calls and of helpers that   *)
(* die: the two threads take turns at the shared buffer, so every answer   *)
(* is the answer to the call that gets it.                                 *)
(*                                                                         *)
(* The hypothesis Remembered is about time: an operation that takes over   *)
(* 30 s is one whose timeout the code remembers.  Without it AnswersMatch  *)
(* is false (run OpfsBridge_late_answer).                                  *)
(***************************************************************************)
EXTENDS OpfsBridge, TLAPS

Remembered == Slow \subseteq {"bridge"} \X {"call", "read"}

-----------------------------------------------------------------------------
(***************************************************************************)
(* The inductive invariant: whose turn it is, and what each side knows at  *)
(* each of its steps.                                                      *)
(***************************************************************************)

\* The helper has been asked for something it has not answered.
Busy == hpc \notin {"boot", "wait", "dead"} \/ (hpc # "dead" /\ REQUEST_READY = 1)

\* A call of the bridge timed out: it makes none before the helper is replaced.
Abandoned ==
  client = "bridge" /\ spc = "idle" /\ ~helperReady /\ ~readyEvent /\ hpc # "boot"

OneAtATime == Busy => spc = "wait" \/ Abandoned

Asked    == Request(call, kind)
Answered == Response(call)

NotLoaded == {"boot", "wait", "load"}
NotTaken  == NotLoaded \cup {"decode", "clear"}
NotSliced == NotTaken \cup {"slice"}
NotDone   == NotSliced \cup {"work"}

\* A helper that is busy serves the last call, which is still waiting for it
\* or has been given up, and only that.
ServesTheCall ==
  Busy =>
    /\ call \in Calls /\ RESPONSE_READY = 0
    /\ REQUEST_READY = IF hpc \in NotTaken THEN 1 ELSE 0
    /\ hpc \in NotLoaded => DATA_LENGTH = Asked
    /\ hpc \in NotLoaded \cup {"decode"} => json = Asked
    /\ hpc = "decode" => hlen = Asked
    /\ hpc \notin NotLoaded \cup {"decode"} => request = Asked
    /\ executed[call] = IF hpc \in NotDone THEN 0 ELSE 1
    /\ kind = "write" /\ hpc \in NotSliced => binary.of = call
    /\ kind = "write" /\ hpc = "work" => chunk.of = call
    /\ kind = "read" /\ hpc \in {"respond", "length", "signal"} => binary.of = call
    /\ hpc \in {"length", "signal"} => json = Answered
    /\ hpc = "signal" => DATA_LENGTH = Answered

\* A worker that prepares a call has the buffer to itself.
PreparesTheCall ==
  spc \in {"payload", "encode", "length", "clear", "ring"} =>
    /\ executed[call] = 0 /\ outcome[call] = Pending
    /\ kind = "write" /\ spc # "payload" => binary.of = call
    /\ spc \in {"length", "clear", "ring"} => json = Asked
    /\ spc \in {"clear", "ring"} => DATA_LENGTH = Asked
    /\ spc = "ring" => RESPONSE_READY = 0

\* A worker that is woken finds the answer to its own call, and it stays there.
HasTheAnswer ==
  (spc = "wait" /\ RESPONSE_READY = 1) \/ spc \in {"load", "decode", "release", "copy"} =>
    /\ DATA_LENGTH = Answered /\ json = Answered
    /\ executed[call] = 1
    /\ kind = "read" => binary.of = call
    /\ spc = "decode" => slen = Answered
    /\ spc = "copy" => kind = "read"

\* The bridge makes a call only to a helper that has told it is there.
HelperIsKnown ==
  /\ hpc = "boot" => ~helperReady /\ ~readyEvent
  /\ ~(helperReady /\ readyEvent)
  /\ client = "bridge" /\ spc # "idle" => helperReady

CallsInOrder ==
  /\ spc # "idle" => call \in Calls
  /\ \A c \in Calls : c > call => executed[c] = 0 /\ outcome[c] = Pending

TurnInv == OneAtATime /\ ServesTheCall /\ PreparesTheCall /\ HasTheAnswer
KnownInv == HelperIsKnown /\ CallsInOrder

IInv == TypeOK /\ TurnInv /\ KnownInv /\ AnswersMatch /\ CarriedOutOnce

-----------------------------------------------------------------------------
(* Types *)

LEMMA MessageTypes ==
  /\ Garbage \in Messages /\ NoData \in Data
  /\ \A c \in Calls \cup {None}, k \in AllKinds : Request(c, k) \in Messages
  /\ \A c \in Calls \cup {None} : Response(c) \in Messages
  /\ \A m \in Messages : m.call \in Calls \cup {None} /\ m.kind \in AllKinds
  /\ \A c \in Calls \cup {None} : /\ [of |-> c, by |-> "sandbox"] \in Data
                                  /\ [of |-> c, by |-> "helper"] \in Data
<1>1. Garbage \in Messages
  BY DEF Garbage, Messages, AllKinds
<1>2. ASSUME NEW c \in Calls \cup {None}, NEW k \in AllKinds
      PROVE  Request(c, k) \in Messages /\ Response(c) \in Messages
  BY DEF Request, Response, Messages, AllKinds
<1>3. \A m \in Messages : m.call \in Calls \cup {None} /\ m.kind \in AllKinds
  BY DEF Messages
<1>4. ASSUME NEW c \in Calls \cup {None}, NEW s \in {"sandbox", "helper"}
      PROVE  [of |-> c, by |-> s] \in Data
  BY DEF Data
<1>5. NoData \in Data
  BY <1>4 DEF NoData
<1>6. "call" \in AllKinds
  BY DEF AllKinds
<1>7. QED
  BY <1>1, <1>2, <1>3, <1>4, <1>5, <1>6

LEMMA NumberTypes ==
  /\ MaxCalls \in Nat /\ MaxDeaths \in Nat
  /\ Pending \in 0 .. Unreadable /\ TimedOut \in 0 .. Unreadable /\ Unreadable \in 0 .. Unreadable
  /\ None \in 0 .. Unreadable /\ None \notin Calls
  /\ \A c \in Calls : c \in 0 .. Unreadable /\ c \notin {Pending, TimedOut, Unreadable, None}
  /\ Pending # TimedOut
BY OpfsBridgeAssumption DEF Pending, TimedOut, Unreadable, None, Calls

LEMMA SandboxTypes ==
  ASSUME TypeOK, Calling \/ Timeout \/ \E k \in Kinds : Begin(k)
  PROVE  TypeOK'
<1>1. ASSUME NEW k \in Kinds, Begin(k)
      PROVE  TypeOK'
  <2>1. call' \in Calls \cup {None} /\ k \in AllKinds
    BY <1>1, OpfsBridgeAssumption DEF Begin, TypeOK, Calls, None, AllKinds
  <2>2. QED
    BY <1>1, <2>1 DEF Begin, Sandbox, TypeOK, SandboxSteps, buffer, helper, events, history
<1>2. CASE PutPayload
  BY <1>2, MessageTypes DEF PutPayload, Sandbox, TypeOK, SandboxSteps, helper, events, history
<1>3. CASE PutRequest
  BY <1>3, MessageTypes DEF PutRequest, Sandbox, TypeOK, SandboxSteps, helper, events, history
<1>4. CASE PutLength
  BY <1>4, MessageTypes DEF PutLength, Sandbox, TypeOK, SandboxSteps, helper, events, history
<1>5. CASE ClearResponse \/ RingHelper
  BY <1>5 DEF ClearResponse, RingHelper, Sandbox, TypeOK, SandboxSteps, helper, events, history
<1>6. CASE Awake \/ LoadLength
  BY <1>6 DEF Awake, LoadLength, Sandbox, TypeOK, SandboxSteps, buffer, helper, events, history
<1>7. CASE Decode
  <2>1. spc' \in SandboxSteps
    BY <1>7 DEF Decode, Sandbox, SandboxSteps
  <2>2. PICK m \in Decoded(slen) : Outcome(m)
    BY <1>7 DEF Decode
  <2>3. m \in Messages
    BY MessageTypes DEF Decoded, TypeOK
  <2>4. m.call \in 0 .. Unreadable
    BY <2>3, MessageTypes, NumberTypes
  <2>5. outcome' \in [Calls -> 0 .. Unreadable]
    BY <2>2, <2>4, NumberTypes DEF Outcome, TypeOK
  <2>6. QED
    BY <1>7, <2>1, <2>5 DEF Decode, TypeOK, buffer, helper, events
<1>8. CASE Release
  BY <1>8 DEF Release, Sandbox, TypeOK, SandboxSteps, helper, events, history
<1>9. CASE CopyData
  BY <1>9 DEF CopyData, Sandbox, TypeOK, SandboxSteps, buffer, helper, events
<1>10. CASE Timeout
  BY <1>10, NumberTypes
  DEF Timeout, GivesUp, Sandbox, TypeOK, SandboxSteps, buffer, helper, events
<1>11. QED
  BY <1>1, <1>2, <1>3, <1>4, <1>5, <1>6, <1>7, <1>8, <1>9, <1>10 DEF Calling

LEMMA LoopTypes ==
  ASSUME TypeOK, OnReady \/ OnError \/ reinitHelperWorker
  PROVE  TypeOK'
<1>1. CASE OnReady
  BY <1>1 DEF OnReady, TypeOK, buffer, helper, history
<1>2. CASE OnError
  BY <1>2 DEF OnError, TypeOK, buffer, helper, history
<1>3. CASE reinitHelperWorker
  BY <1>3 DEF reinitHelperWorker, TypeOK, HelperSteps, history
<1>4. QED
  BY <1>1, <1>2, <1>3

LEMMA HelperTypes ==
  ASSUME TypeOK, Serving \/ HelperDies
  PROVE  TypeOK'
<1>1. CASE Boot \/ Summoned \/ HelperLoad
  BY <1>1 DEF Boot, Summoned, HelperLoad, Helper, TypeOK, HelperSteps, buffer, sandbox, events,
              history
<1>2. CASE HelperDecode
  <2>1. request' \in Messages
    BY <1>2, MessageTypes DEF HelperDecode, Decoded, TypeOK
  <2>2. QED
    BY <1>2, <2>1 DEF HelperDecode, Helper, TypeOK, HelperSteps, buffer, sandbox, events, history
<1>3. CASE HelperClear \/ HelperSlice
  BY <1>3 DEF HelperClear, HelperSlice, Helper, TypeOK, HelperSteps, buffer, sandbox, events,
              history
<1>4. CASE HelperWork
  <2>1. executed' \in [Calls -> 0 .. 2]
    <3>1. \A n \in 0 .. 2 : (IF n = 2 THEN 2 ELSE n + 1) \in 0 .. 2
      OBVIOUS
    <3>2. \A c \in Calls : (IF executed[c] = 2 THEN 2 ELSE executed[c] + 1) \in 0 .. 2
      BY <3>1 DEF TypeOK
    <3>3. CASE executed' = executed
      BY <3>3 DEF TypeOK
    <3>4. CASE executed' # executed
      <4> DEFINE c == request.call
                 n == IF executed[c] = 2 THEN 2 ELSE executed[c] + 1
      <4>1. executed' = [executed EXCEPT ![c] = n]
        BY <1>4, <3>4 DEF HelperWork
      <4>2. c \in Calls => n \in 0 .. 2
        BY <3>2
      <4> HIDE DEF n, c
      <4>3. executed \in [Calls -> 0 .. 2]
        BY DEF TypeOK
      <4>4. QED
        BY <4>1, <4>2, <4>3
    <3>5. QED BY <3>3, <3>4
  <2>2. committed' \in [Calls -> Data]
    <3>1. committed \in [Calls -> Data] /\ chunk \in Data
      BY DEF TypeOK
    <3>2. \/ committed' = committed
          \/ committed' = [committed EXCEPT ![request.call] = chunk]
      BY <1>4 DEF HelperWork
    <3>3. QED
      BY <3>1, <3>2
  <2>3. QED
    BY <1>4, <2>1, <2>2 DEF HelperWork, Helper, TypeOK, HelperSteps, buffer, sandbox, events
<1>5. CASE HelperPlace \/ HelperRespond \/ HelperLength
  <2>1. request.call \in Calls \cup {None}
    BY MessageTypes DEF TypeOK
  <2>2. QED
    BY <1>5, <2>1, MessageTypes
    DEF HelperPlace, HelperRespond, HelperLength, Helper, TypeOK, HelperSteps, sandbox, events,
        history
<1>6. CASE HelperSignal
  BY <1>6 DEF HelperSignal, Helper, TypeOK, HelperSteps, sandbox, events, history
<1>7. CASE HelperDies
  <2>1. deaths' \in 0 .. MaxDeaths
    BY <1>7, OpfsBridgeAssumption DEF HelperDies, TypeOK
  <2>2. errorEvent' \in BOOLEAN
    BY <1>7 DEF HelperDies, TypeOK
  <2>3. QED
    BY <1>7, <2>1, <2>2 DEF HelperDies, TypeOK, HelperSteps, buffer, sandbox
<1>8. QED
  BY <1>1, <1>2, <1>3, <1>4, <1>5, <1>6, <1>7 DEF Serving

-----------------------------------------------------------------------------
(***************************************************************************)
(* The steps of the two threads.  What each needs of the other is whose    *)
(* turn it is.                                                             *)
(***************************************************************************)

LEMMA TurnCalling ==
  ASSUME IInv, Remembered, Calling \/ Timeout
  PROVE  TurnInv'
<1> USE NumberTypes
    DEF IInv, TurnInv, KnownInv, TypeOK, OneAtATime, Busy, Abandoned, ServesTheCall,
        PreparesTheCall, HasTheAnswer, HelperIsKnown, CallsInOrder, Asked, Answered,
        NotLoaded, NotTaken, NotSliced, NotDone, Request, Response, Calls, None,
        Sandbox, buffer, helper, events, history
<1>1. CASE PutPayload
  BY <1>1 DEF PutPayload
<1>2. CASE PutRequest
  BY <1>2 DEF PutRequest
<1>3. CASE PutLength
  BY <1>3 DEF PutLength
<1>4. CASE ClearResponse
  BY <1>4 DEF ClearResponse
<1>5. CASE RingHelper
  BY <1>5 DEF RingHelper
<1>6. CASE Awake
  BY <1>6 DEF Awake
<1>7. CASE LoadLength
  BY <1>7 DEF LoadLength
<1>8. CASE Decode
  BY <1>8 DEF Decode, Decoded, Outcome
<1>9. CASE Release
  BY <1>9 DEF Release
<1>10. CASE CopyData
  BY <1>10 DEF CopyData
<1>11. CASE Timeout
  BY <1>11 DEF Timeout, GivesUp, Remembered
<1>12. QED
  BY <1>1, <1>2, <1>3, <1>4, <1>5, <1>6, <1>7, <1>8, <1>9, <1>10, <1>11 DEF Calling

LEMMA TurnServing ==
  ASSUME IInv, Serving \/ HelperDies
  PROVE  TurnInv'
<1> USE NumberTypes
    DEF IInv, TurnInv, KnownInv, TypeOK, OneAtATime, Busy, Abandoned, ServesTheCall,
        PreparesTheCall, HasTheAnswer, HelperIsKnown, CallsInOrder, Asked, Answered,
        NotLoaded, NotTaken, NotSliced, NotDone, Request, Response, Calls, None,
        Helper, buffer, sandbox, events, history
<1>1. CASE Boot
  BY <1>1 DEF Boot
<1>2. CASE Summoned
  BY <1>2 DEF Summoned
<1>3. CASE HelperLoad
  BY <1>3 DEF HelperLoad
<1>4. CASE HelperDecode
  BY <1>4 DEF HelperDecode, Decoded
<1>5. CASE HelperClear
  BY <1>5 DEF HelperClear
<1>6. CASE HelperSlice
  BY <1>6 DEF HelperSlice
<1>7. CASE HelperWork
  BY <1>7 DEF HelperWork
<1>8. CASE HelperPlace
  BY <1>8 DEF HelperPlace
<1>9. CASE HelperRespond
  BY <1>9 DEF HelperRespond
<1>10. CASE HelperLength
  BY <1>10 DEF HelperLength
<1>11. CASE HelperSignal
  BY <1>11 DEF HelperSignal
<1>12. CASE HelperDies
  BY <1>12 DEF HelperDies
<1>13. QED
  BY <1>1, <1>2, <1>3, <1>4, <1>5, <1>6, <1>7, <1>8, <1>9, <1>10, <1>11, <1>12 DEF Serving

LEMMA KnownCalling ==
  ASSUME IInv, Calling \/ Timeout
  PROVE  KnownInv'
<1> USE NumberTypes
    DEF IInv, TurnInv, KnownInv, TypeOK, HelperIsKnown, CallsInOrder, OneAtATime, Busy,
        ServesTheCall, Asked, Request, NotDone, NotSliced, NotTaken, NotLoaded, Calls, None,
        Sandbox, buffer, helper, events, history
<1>1. CASE PutPayload
  BY <1>1 DEF PutPayload
<1>2. CASE PutRequest
  BY <1>2 DEF PutRequest
<1>3. CASE PutLength
  BY <1>3 DEF PutLength
<1>4. CASE ClearResponse
  BY <1>4 DEF ClearResponse
<1>5. CASE RingHelper
  BY <1>5 DEF RingHelper
<1>6. CASE Awake
  BY <1>6 DEF Awake
<1>7. CASE LoadLength
  BY <1>7 DEF LoadLength
<1>8. CASE Decode
  BY <1>8 DEF Decode, Decoded, Outcome
<1>9. CASE Release
  BY <1>9 DEF Release
<1>10. CASE CopyData
  BY <1>10 DEF CopyData
<1>11. CASE Timeout
  BY <1>11 DEF Timeout, GivesUp, Remembered
<1>12. QED
  BY <1>1, <1>2, <1>3, <1>4, <1>5, <1>6, <1>7, <1>8, <1>9, <1>10, <1>11 DEF Calling

LEMMA KnownServing ==
  ASSUME IInv, Serving \/ HelperDies
  PROVE  KnownInv'
<1> USE NumberTypes
    DEF IInv, TurnInv, KnownInv, TypeOK, HelperIsKnown, CallsInOrder, OneAtATime, Busy,
        ServesTheCall, Asked, Request, NotDone, NotSliced, NotTaken, NotLoaded, Calls, None,
        Helper, buffer, sandbox, events, history
<1>1. CASE Boot
  BY <1>1 DEF Boot
<1>2. CASE Summoned
  BY <1>2 DEF Summoned
<1>3. CASE HelperLoad
  BY <1>3 DEF HelperLoad
<1>4. CASE HelperDecode
  BY <1>4 DEF HelperDecode, Decoded
<1>5. CASE HelperClear
  BY <1>5 DEF HelperClear
<1>6. CASE HelperSlice
  BY <1>6 DEF HelperSlice
<1>7. CASE HelperWork
  BY <1>7 DEF HelperWork
<1>8. CASE HelperPlace
  BY <1>8 DEF HelperPlace
<1>9. CASE HelperRespond
  BY <1>9 DEF HelperRespond
<1>10. CASE HelperLength
  BY <1>10 DEF HelperLength
<1>11. CASE HelperSignal
  BY <1>11 DEF HelperSignal
<1>12. CASE HelperDies
  BY <1>12 DEF HelperDies
<1>13. QED
  BY <1>1, <1>2, <1>3, <1>4, <1>5, <1>6, <1>7, <1>8, <1>9, <1>10, <1>11, <1>12 DEF Serving

LEMMA OutcomeCalling ==
  ASSUME IInv, Calling \/ Timeout
  PROVE  AnswersMatch' /\ CarriedOutOnce'
<1> USE NumberTypes
    DEF IInv, TurnInv, KnownInv, TypeOK, AnswersMatch, CarriedOutOnce, BinaryIntact,
        CallsInOrder, OneAtATime, Busy, ServesTheCall, PreparesTheCall, HasTheAnswer, Asked,
        Answered, NotLoaded, NotTaken, NotSliced, NotDone, Request, Response,
        Sandbox, buffer, helper, events, history
<1>1. CASE PutPayload
  BY <1>1 DEF PutPayload
<1>2. CASE PutRequest
  BY <1>2 DEF PutRequest
<1>3. CASE PutLength
  BY <1>3 DEF PutLength
<1>4. CASE ClearResponse
  BY <1>4 DEF ClearResponse
<1>5. CASE RingHelper
  BY <1>5 DEF RingHelper
<1>6. CASE Awake
  BY <1>6 DEF Awake
<1>7. CASE LoadLength
  BY <1>7 DEF LoadLength
<1>8. CASE Decode
  <2>1. call \in Calls /\ Decoded(slen) = {Answered}
    BY <1>8 DEF Decode, Decoded
  <2>2. outcome' = [outcome EXCEPT ![call] = call]
    <3>1. Answered # Garbage /\ Answered.call = call
      BY DEF Garbage
    <3>2. Outcome(Answered)
      BY <1>8, <2>1 DEF Decode
    <3>3. QED
      BY <3>1, <3>2 DEF Outcome
  <2>3. UNCHANGED <<executed, committed, taken>>
    BY <1>8 DEF Decode
  <2>4. executed[call] = 1
    BY <1>8 DEF Decode
  <2>5. AnswersMatch'
    BY <2>1, <2>2
  <2>6. QED
    BY <2>1, <2>2, <2>3, <2>4, <2>5
<1>9. CASE Release
  BY <1>9 DEF Release
<1>10. CASE CopyData
  <2>1. call \in Calls /\ binary.of = call
    BY <1>10 DEF CopyData
  <2>2. taken' = [taken EXCEPT ![call] = binary] /\ UNCHANGED <<executed, committed, outcome>>
    BY <1>10 DEF CopyData
  <2>3. \A c \in Calls : taken'[c].of \in {None, c}
    BY <2>1, <2>2
  <2>4. QED
    BY <2>2, <2>3
<1>11. CASE Timeout
  BY <1>11 DEF Timeout, GivesUp, Remembered
<1>12. QED
  BY <1>1, <1>2, <1>3, <1>4, <1>5, <1>6, <1>7, <1>8, <1>9, <1>10, <1>11 DEF Calling

LEMMA OutcomeServing ==
  ASSUME IInv, Serving \/ HelperDies
  PROVE  AnswersMatch' /\ CarriedOutOnce'
<1> USE NumberTypes
    DEF IInv, TurnInv, KnownInv, TypeOK, AnswersMatch, CarriedOutOnce, BinaryIntact,
        CallsInOrder, OneAtATime, Busy, ServesTheCall, PreparesTheCall, HasTheAnswer, Asked,
        Answered, NotLoaded, NotTaken, NotSliced, NotDone, Request, Response,
        Helper, buffer, sandbox, events, history
<1>1. CASE Boot
  BY <1>1 DEF Boot
<1>2. CASE Summoned
  BY <1>2 DEF Summoned
<1>3. CASE HelperLoad
  BY <1>3 DEF HelperLoad
<1>4. CASE HelperDecode
  BY <1>4 DEF HelperDecode, Decoded
<1>5. CASE HelperClear
  BY <1>5 DEF HelperClear
<1>6. CASE HelperSlice
  BY <1>6 DEF HelperSlice
<1>7. CASE HelperWork
  BY <1>7 DEF HelperWork
<1>8. CASE HelperPlace
  BY <1>8 DEF HelperPlace
<1>9. CASE HelperRespond
  BY <1>9 DEF HelperRespond
<1>10. CASE HelperLength
  BY <1>10 DEF HelperLength
<1>11. CASE HelperSignal
  BY <1>11 DEF HelperSignal
<1>12. CASE HelperDies
  BY <1>12 DEF HelperDies
<1>13. QED
  BY <1>1, <1>2, <1>3, <1>4, <1>5, <1>6, <1>7, <1>8, <1>9, <1>10, <1>11, <1>12 DEF Serving

\* A call is begun when nothing is outstanding that could still be answered.
LEMMA BeginStep ==
  ASSUME IInv, NEW k \in Kinds, Begin(k)
  PROVE  TurnInv' /\ KnownInv' /\ AnswersMatch' /\ CarriedOutOnce'
<1>1. /\ spc = "idle" /\ spc' \in {"payload", "encode"}
      /\ k = "write" <=> spc' = "payload"
      /\ call' = call + 1 /\ call' \in Calls
      /\ kind' = k
      /\ client = "bridge" => helperReady
      /\ UNCHANGED <<client, buffer, slen, helperReady, helperCrashed, helper, events, history>>
  BY NumberTypes DEF Begin, Accepts, Sandbox, IInv, TypeOK, Calls, None
<1>2. ~Busy
  BY <1>1 DEF IInv, TurnInv, OneAtATime, Abandoned
<1>3. ~Busy'
  BY <1>1, <1>2 DEF Busy, buffer, helper
<1>4. executed'[call'] = 0 /\ outcome'[call'] = Pending
  BY <1>1, NumberTypes DEF IInv, KnownInv, CallsInOrder, TypeOK, history, Calls, None
<1>5. TurnInv'
  BY <1>1, <1>3, <1>4
  DEF TurnInv, OneAtATime, ServesTheCall, PreparesTheCall, HasTheAnswer
<1>6. KnownInv'
  BY <1>1, NumberTypes
  DEF IInv, TypeOK, KnownInv, HelperIsKnown, CallsInOrder, helper, events, history, Calls, None
<1>7. AnswersMatch' /\ CarriedOutOnce'
  BY <1>1 DEF IInv, AnswersMatch, CarriedOutOnce, BinaryIntact, history
<1>8. QED BY <1>5, <1>6, <1>7

\* Between calls: the events that arrive, and the replacement of the helper.
LEMMA LoopStep ==
  ASSUME IInv, OnReady \/ OnError \/ reinitHelperWorker
  PROVE  TurnInv' /\ KnownInv' /\ AnswersMatch' /\ CarriedOutOnce'
<1>1. spc = "idle" /\ UNCHANGED <<client, spc, call, kind, slen, history>>
  BY DEF OnReady, OnError, reinitHelperWorker
<1>2. AnswersMatch' /\ CarriedOutOnce'
  BY <1>1 DEF IInv, AnswersMatch, CarriedOutOnce, BinaryIntact, history
<1>3. PreparesTheCall' /\ HasTheAnswer' /\ CallsInOrder'
  BY <1>1 DEF IInv, KnownInv, PreparesTheCall, HasTheAnswer, CallsInOrder, history
<1>4. CASE OnReady
  <2>1. ~Busy
    BY <1>1, <1>4 DEF OnReady, IInv, TurnInv, OneAtATime, Abandoned
  <2>2. ~Busy'
    BY <1>4, <2>1 DEF OnReady, Busy, buffer, helper
  <2>3. HelperIsKnown'
    BY <1>1, <1>4 DEF OnReady, IInv, KnownInv, HelperIsKnown, helper
  <2>4. QED
    BY <1>2, <1>3, <2>2, <2>3 DEF TurnInv, KnownInv, OneAtATime, ServesTheCall
<1>5. CASE OnError
  <2>1. UNCHANGED <<buffer, helper, readyEvent>> /\ helperReady' \in {FALSE, helperReady}
    BY <1>5 DEF OnError
  <2>2. OneAtATime'
    BY <1>1, <2>1 DEF IInv, TurnInv, TypeOK, OneAtATime, Busy, Abandoned, buffer, helper
  <2>3. ServesTheCall'
    BY <1>1, <2>1 DEF IInv, TurnInv, ServesTheCall, Busy, Asked, Answered, buffer, helper, history
  <2>4. HelperIsKnown'
    <3>1. hpc' = hpc /\ readyEvent' = readyEvent /\ spc' = "idle"
      BY <1>1, <2>1 DEF helper
    <3>2. CASE helperReady' = FALSE
      BY <3>1, <3>2 DEF IInv, KnownInv, HelperIsKnown
    <3>3. CASE helperReady' = helperReady
      BY <3>1, <3>3 DEF IInv, KnownInv, HelperIsKnown
    <3>4. QED BY <2>1, <3>2, <3>3
  <2>5. QED
    BY <1>2, <1>3, <2>2, <2>3, <2>4 DEF TurnInv, KnownInv
<1>6. CASE reinitHelperWorker
  <2>1. ~Busy'
    BY <1>6 DEF reinitHelperWorker, Busy
  <2>2. HelperIsKnown'
    BY <1>1, <1>6 DEF reinitHelperWorker, HelperIsKnown
  <2>3. QED
    BY <1>2, <1>3, <2>1, <2>2 DEF TurnInv, KnownInv, OneAtATime, ServesTheCall
<1>7. QED BY <1>4, <1>5, <1>6

LEMMA StutterStep ==
  ASSUME IInv, UNCHANGED vars
  PROVE  IInv'
<1> USE DEF vars, buffer, sandbox, helper, events, history
<1>1. TypeOK' /\ AnswersMatch' /\ CarriedOutOnce'
  BY DEF IInv, TypeOK, AnswersMatch, CarriedOutOnce, BinaryIntact
<1>2. KnownInv'
  BY DEF IInv, KnownInv, HelperIsKnown, CallsInOrder
<1>3. TurnInv'
  BY DEF IInv, TurnInv, OneAtATime, Busy, Abandoned, ServesTheCall, PreparesTheCall,
         HasTheAnswer, Asked, Answered
<1>4. QED BY <1>1, <1>2, <1>3 DEF IInv

-----------------------------------------------------------------------------

LEMMA InitIInv == Init => IInv
<1> SUFFICES ASSUME Init
             PROVE  IInv
  OBVIOUS
<1>1. TypeOK
  <2>1. /\ executed \in [Calls -> 0 .. 2] /\ outcome \in [Calls -> 0 .. Unreadable]
        /\ deaths \in 0 .. MaxDeaths
    BY NumberTypes DEF Init
  <2>2. committed \in [Calls -> Data] /\ taken \in [Calls -> Data]
    BY MessageTypes DEF Init
  <2>3. /\ json \in Messages /\ DATA_LENGTH \in Messages /\ slen \in Messages
        /\ hlen \in Messages /\ request \in Messages /\ binary \in Data /\ chunk \in Data
    BY MessageTypes DEF Init
  <2>4. /\ client \in Clients
        /\ REQUEST_READY \in {0, 1} /\ RESPONSE_READY \in {0, 1}
        /\ spc \in SandboxSteps /\ call \in Calls \cup {None} /\ kind \in AllKinds
        /\ hpc \in HelperSteps
    BY DEF Init, SandboxSteps, HelperSteps, AllKinds
  <2>5. /\ helperReady \in BOOLEAN /\ helperCrashed \in BOOLEAN
        /\ readyEvent \in BOOLEAN /\ errorEvent \in BOOLEAN
    BY DEF Init
  <2>6. QED
    BY <2>1, <2>2, <2>3, <2>4, <2>5 DEF TypeOK
<1>2. TurnInv
  BY DEF Init, TurnInv, OneAtATime, Busy, ServesTheCall, PreparesTheCall, HasTheAnswer
<1>3. KnownInv
  BY DEF Init, KnownInv, HelperIsKnown, CallsInOrder
<1>4. AnswersMatch /\ CarriedOutOnce
  BY NumberTypes DEF Init, AnswersMatch, CarriedOutOnce, BinaryIntact, NoData
<1>5. QED BY <1>1, <1>2, <1>3, <1>4 DEF IInv

LEMMA IInvStep ==
  ASSUME IInv, Remembered, [Next]_vars
  PROVE  IInv'
<1>1. TypeOK
  BY DEF IInv
<1>2. CASE \E k \in Kinds : Begin(k)
  BY <1>1, <1>2, SandboxTypes, BeginStep DEF IInv
<1>3. CASE Calling \/ Timeout
  BY <1>1, <1>3, SandboxTypes, TurnCalling, KnownCalling, OutcomeCalling DEF IInv
<1>4. CASE OnReady \/ OnError \/ reinitHelperWorker
  BY <1>1, <1>4, LoopTypes, LoopStep DEF IInv
<1>5. CASE Serving \/ HelperDies
  BY <1>1, <1>5, HelperTypes, TurnServing, KnownServing, OutcomeServing DEF IInv
<1>6. CASE UNCHANGED vars
  BY <1>6, StutterStep
<1>7. QED
  BY <1>2, <1>3, <1>4, <1>5, <1>6 DEF Next

\* The variables of both threads and the buffer have their types, however
\* long operations take.
THEOREM TypeCorrect == Spec => []TypeOK
<1>1. Init => TypeOK
  BY InitIInv DEF IInv
<1>2. TypeOK /\ [Next]_vars => TypeOK'
  <2>1. TypeOK /\ UNCHANGED vars => TypeOK'
    BY DEF vars, buffer, sandbox, helper, events, history, TypeOK
  <2>2. QED
    BY <2>1, SandboxTypes, LoopTypes, HelperTypes DEF Next
<1>3. QED
  BY <1>1, <1>2, PTL DEF Spec

LEMMA IInvCorrect ==
  ASSUME Remembered
  PROVE  Spec => []IInv
<1>1. IInv /\ [Next]_vars => IInv'
  BY IInvStep
<1>2. QED
  BY <1>1, InitIInv, PTL DEF Spec

\* The answer a call returns with is the answer to that call.
THEOREM AnswersAreTheCallsOwn ==
  ASSUME Remembered
  PROVE  Spec => []AnswersMatch
BY IInvCorrect, PTL DEF IInv

\* A call that was answered was carried out exactly once, with its own data.
THEOREM CallsAreCarriedOutOnce ==
  ASSUME Remembered
  PROVE  Spec => []CarriedOutOnce
BY IInvCorrect, PTL DEF IInv

\* The two threads never write the same bytes of the buffer at a time.
THEOREM TheBufferIsNotShared ==
  ASSUME Remembered
  PROVE  Spec => []NoRace
<1>1. IInv => NoRace
  BY DEF IInv, TurnInv, OneAtATime, Busy, Abandoned, NoRace, SandboxWrites, HelperWrites
<1>2. QED
  BY <1>1, IInvCorrect, PTL

-----------------------------------------------------------------------------
(***************************************************************************)
(* To its caller the bridge is a synchronous file system.  The steps of    *)
(* the protocol are stutters but for five: the call begins, the helper     *)
(* carries it out, and it returns, in one of two ways, or is given up.     *)
(* That a late operation is still the last call's is OneAtATime.           *)
(***************************************************************************)

\* A thread that goes on has an outcome to go on with.
OutcomeIsKnown ==
  /\ spc = "idle" /\ call # None => outcome[call] # Pending
  /\ spc \in {"release", "copy"} => outcome[call] = call

CallInv == IInv /\ OutcomeIsKnown

LEMMA DecodeReturns ==
  ASSUME IInv, Decode
  PROVE  /\ call \in Calls
         /\ outcome' = [outcome EXCEPT ![call] = call]
         /\ spc = "decode"
         /\ spc' = IF client = "bridge" THEN "release" ELSE IF kind = "read" THEN "copy" ELSE "idle"
         /\ executed[call] = 1
         /\ UNCHANGED <<call, kind, executed, committed, taken>>
<1>1. spc = "decode" /\ UNCHANGED <<call, kind, executed, committed, taken>>
  BY DEF Decode, Sandbox
<1>2. call \in Calls /\ executed[call] = 1 /\ slen = Answered /\ json = Answered
  BY <1>1 DEF IInv, TurnInv, KnownInv, HasTheAnswer, CallsInOrder
<1>3. Decoded(slen) = {Answered}
  BY <1>2 DEF Decoded
<1>4. Answered # Garbage /\ Answered.call = call
  BY DEF Answered, Response, Garbage
<1>5. /\ Outcome(Answered)
      /\ spc' = IF client = "bridge" THEN "release"
                ELSE IF kind = "read" /\ Answered # Garbage THEN "copy" ELSE "idle"
  BY <1>3 DEF Decode, Sandbox
<1>6. QED
  BY <1>1, <1>2, <1>4, <1>5 DEF Outcome

\* The helper works on the last call, which it has not carried out before.
LEMMA WorkIsTheCalls ==
  ASSUME IInv, HelperWork
  PROVE  /\ call \in Calls /\ executed[call] = 0
         /\ executed' = [executed EXCEPT ![call] = 1]
         /\ committed' = IF kind = "write" THEN [committed EXCEPT ![call] = chunk] ELSE committed
         /\ kind = "write" => chunk.of = call
         /\ UNCHANGED <<spc, call, kind, outcome, taken>>
<1>1. hpc = "work" /\ UNCHANGED <<spc, call, kind, outcome, taken>>
  BY DEF HelperWork, Helper, sandbox
<1>2. Busy
  BY <1>1 DEF Busy
<1>3. /\ call \in Calls /\ request = Asked /\ executed[call] = 0
      /\ kind = "write" => chunk.of = call
  BY <1>1, <1>2 DEF IInv, TurnInv, ServesTheCall, NotLoaded, NotTaken, NotSliced, NotDone
<1>4. request.call = call /\ request.kind = kind /\ request.call # None
  BY <1>3, NumberTypes DEF Asked, Request
<1>5. /\ executed' = [executed EXCEPT ![call] = IF executed[call] = 2 THEN 2 ELSE executed[call] + 1]
      /\ committed' = IF kind = "write" THEN [committed EXCEPT ![call] = chunk] ELSE committed
  BY <1>4 DEF HelperWork
<1>6. executed' = [executed EXCEPT ![call] = 1]
  BY <1>3, <1>5
<1>7. QED
  BY <1>1, <1>3, <1>5, <1>6

LEMMA OutcomeIsKnownStep ==
  ASSUME IInv, OutcomeIsKnown, [Next]_vars
  PROVE  OutcomeIsKnown'
<1>1. CASE \E k \in Kinds : Begin(k)
  BY <1>1 DEF Begin, Sandbox, OutcomeIsKnown
<1>2. CASE PutPayload \/ PutRequest \/ PutLength \/ ClearResponse \/ RingHelper \/ Awake \/ LoadLength
  BY <1>2 DEF PutPayload, PutRequest, PutLength, ClearResponse, RingHelper, Awake, LoadLength,
              Sandbox, OutcomeIsKnown
<1>3. CASE Decode
  <2>1. outcome[call]' = call /\ call # Pending
    BY <1>3, DecodeReturns, NumberTypes DEF IInv, TypeOK
  <2>2. QED
    BY <1>3, <2>1, DecodeReturns DEF OutcomeIsKnown
<1>4. CASE Release \/ CopyData
  <2>1. spc \in {"release", "copy"} /\ UNCHANGED <<call, outcome>>
    BY <1>4 DEF Release, CopyData, Sandbox, history
  <2>2. call \in Calls
    BY <2>1 DEF IInv, KnownInv, CallsInOrder
  <2>3. outcome[call] = call /\ call # Pending
    BY <2>1, <2>2, NumberTypes DEF OutcomeIsKnown
  <2>4. QED
    BY <2>1, <2>3 DEF OutcomeIsKnown
<1>5. CASE Timeout
  <2>1. /\ spc = "wait" /\ spc' = "idle" /\ call' = call
        /\ outcome' = [outcome EXCEPT ![call] = TimedOut]
    BY <1>5 DEF Timeout, GivesUp, Sandbox
  <2>2. call \in Calls
    BY <2>1 DEF IInv, KnownInv, CallsInOrder
  <2>3. outcome'[call] = TimedOut
    BY <2>1, <2>2 DEF IInv, TypeOK
  <2>4. QED
    BY <2>1, <2>3, NumberTypes DEF OutcomeIsKnown
<1>6. CASE Serving \/ HelperDies
  <2>1. UNCHANGED <<spc, call, outcome>>
    BY <1>6
    DEF Serving, Boot, Summoned, HelperLoad, HelperDecode, HelperClear, HelperSlice, HelperWork,
        HelperPlace, HelperRespond, HelperLength, HelperSignal, HelperDies, sandbox, history
  <2>2. QED
    BY <2>1 DEF OutcomeIsKnown
<1>7. CASE OnReady \/ OnError \/ reinitHelperWorker \/ UNCHANGED vars
  <2>1. UNCHANGED <<spc, call, outcome>>
    BY <1>7 DEF OnReady, OnError, reinitHelperWorker, vars, sandbox, history
  <2>2. QED
    BY <2>1 DEF OutcomeIsKnown
<1>8. QED
  BY <1>1, <1>2, <1>3, <1>4, <1>5, <1>6, <1>7 DEF Next, Calling

\* Most steps of the protocol say nothing to the caller.
LEMMA Unseen ==
  ASSUME UNCHANGED <<call, kind, executed, committed, taken>>,
         (spc = "idle") <=> (spc' = "idle"),
         \A c \in Calls : outcome'[c] = outcome[c] \/ (c = call /\ spc # "idle")
  PROVE  UNCHANGED File!vars
<1>1. Result' = Result
  BY DEF Result
<1>2. Written' = Written /\ Got' = Got
  BY DEF Written, Got
<1>3. QED
  BY <1>1, <1>2 DEF File!vars

\* The thread goes on with the outcome of its call.
LEMMA ResultIsOutcome ==
  ASSUME spc # "idle", spc' = "idle", call' = call, NEW v, call \in Calls,
         outcome'[call] = v, \A c \in Calls \ {call} : outcome'[c] = outcome[c]
  PROVE  /\ Result[call] = Pending
         /\ Result' = [Result EXCEPT ![call] = v]
BY DEF Result

LEMMA BeginRefines ==
  ASSUME CallInv, NEW k \in Kinds, Begin(k)
  PROVE  File!Begin(k)
<1>1. /\ spc = "idle" /\ spc' # "idle" /\ call < MaxCalls /\ call' = call + 1 /\ kind' = k
      /\ UNCHANGED <<executed, committed, outcome, taken>>
  BY DEF Begin, Sandbox, history
<1>2. call \in Calls \cup {None}
  BY DEF CallInv, IInv, TypeOK
<1>3. call' \in Calls /\ \A c \in Calls : c = call' => c > call /\ c # call
  BY <1>1, <1>2, NumberTypes DEF Calls, None
<1>4. outcome[call'] = Pending
  BY <1>3 DEF CallInv, IInv, KnownInv, CallsInOrder
<1>5. Result' = Result
  BY <1>1, <1>3, <1>4 DEF Result
<1>6. call > 0 => Result[call] # Pending
  BY <1>1, <1>2 DEF Result, CallInv, OutcomeIsKnown, None
<1>7. Written' = Written /\ Got' = Got
  BY <1>1 DEF Written, Got
<1>8. QED
  BY <1>1, <1>5, <1>6, <1>7 DEF File!Begin

LEMMA WorkRefines ==
  ASSUME IInv, HelperWork
  PROVE  File!CarryOut
<1>1. /\ call \in Calls /\ executed[call] = 0
      /\ executed' = [executed EXCEPT ![call] = 1]
      /\ committed' = IF kind = "write" THEN [committed EXCEPT ![call] = chunk] ELSE committed
      /\ kind = "write" => chunk.of = call
      /\ UNCHANGED <<spc, call, kind, outcome, taken>>
  BY WorkIsTheCalls
<1>2. Result' = Result /\ Got' = Got
  BY <1>1 DEF Result, Got
<1>3. Written' = IF kind = "write" THEN [Written EXCEPT ![call] = call] ELSE Written
  <2>1. committed \in [Calls -> Data]
    BY DEF IInv, TypeOK
  <2>2. QED
    BY <1>1, <2>1 DEF Written
<1>4. call > 0
  BY <1>1 DEF Calls
<1>5. QED
  BY <1>1, <1>2, <1>3, <1>4 DEF File!CarryOut

\* A call that returns has been carried out and has its own result.
LEMMA ReturnRefines ==
  ASSUME IInv, call \in Calls, spc # "idle", spc' = "idle", executed[call] = 1,
         outcome'[call] = call, \A c \in Calls \ {call} : outcome'[c] = outcome[c],
         Got' = IF kind = "read" THEN [Got EXCEPT ![call] = call] ELSE Got,
         UNCHANGED <<call, kind, executed, committed>>
  PROVE  File!Return
<1>1. Result[call] = Pending /\ Result' = [Result EXCEPT ![call] = call]
  BY ResultIsOutcome
<1>2. Written' = Written /\ call > 0
  BY DEF Written, Calls
<1>3. QED
  BY <1>1, <1>2 DEF File!Return

LEMMA DecodeRefines ==
  ASSUME IInv, Decode
  PROVE  File!Return \/ UNCHANGED File!vars
<1>1. /\ call \in Calls /\ spc = "decode" /\ executed[call] = 1
      /\ outcome' = [outcome EXCEPT ![call] = call]
      /\ spc' = IF client = "bridge" THEN "release" ELSE IF kind = "read" THEN "copy" ELSE "idle"
      /\ UNCHANGED <<call, kind, executed, committed, taken>>
  BY DecodeReturns
<1>2. outcome'[call] = call /\ \A c \in Calls \ {call} : outcome'[c] = outcome[c]
  BY <1>1 DEF IInv, TypeOK
<1>3. CASE spc' = "idle"
  <2>1. kind # "read"
    BY <1>1, <1>3
  <2>2. Got' = Got
    BY <1>1 DEF Got
  <2>3. QED
    BY <1>1, <1>2, <1>3, <2>1, <2>2, ReturnRefines
<1>4. CASE spc' # "idle"
  BY <1>1, <1>2, <1>4, Unseen
<1>5. QED BY <1>3, <1>4

LEMMA ReleaseRefines ==
  ASSUME CallInv, Release \/ CopyData
  PROVE  File!Return \/ UNCHANGED File!vars
<1>1. spc \in {"release", "copy"} /\ UNCHANGED <<call, kind, executed, committed, outcome>>
  BY DEF Release, CopyData, Sandbox, history
<1>2. /\ call \in Calls /\ outcome[call] = call /\ executed[call] = 1
      /\ kind = "read" => binary.of = call
      /\ spc = "copy" => kind = "read"
  BY <1>1 DEF CallInv, IInv, TurnInv, KnownInv, HasTheAnswer, CallsInOrder, OutcomeIsKnown
<1>3. CASE Release
  <2>1. /\ taken' = taken
        /\ spc' = IF kind = "read" /\ outcome[call] # Unreadable THEN "copy" ELSE "idle"
    BY <1>3 DEF Release, Sandbox, history
  <2>2. call # Unreadable
    BY <1>2, NumberTypes
  <2>3. CASE kind = "read"
    BY <1>1, <1>2, <2>1, <2>2, <2>3, Unseen
  <2>4. CASE kind # "read"
    <3>1. Got' = Got
      BY <2>1 DEF Got
    <3>2. QED
      BY <1>1, <1>2, <2>1, <2>4, <3>1, ReturnRefines DEF CallInv
  <2>5. QED BY <2>3, <2>4
<1>4. CASE CopyData
  <2>1. spc = "copy" /\ spc' = "idle" /\ taken' = [taken EXCEPT ![call] = binary]
    BY <1>4 DEF CopyData, Sandbox
  <2>2. taken \in [Calls -> Data]
    BY DEF CallInv, IInv, TypeOK
  <2>3. kind = "read" /\ binary.of = call
    BY <1>2, <2>1
  <2>4. Got' = [Got EXCEPT ![call] = call]
    BY <1>2, <2>1, <2>2, <2>3 DEF Got
  <2>5. QED
    BY <1>1, <1>2, <2>1, <2>3, <2>4, ReturnRefines DEF CallInv
<1>5. QED BY <1>3, <1>4

LEMMA TimeoutRefines ==
  ASSUME IInv, Timeout
  PROVE  File!Fail
<1>1. /\ spc = "wait" /\ spc' = "idle" /\ outcome' = [outcome EXCEPT ![call] = TimedOut]
      /\ UNCHANGED <<call, kind, executed, committed, taken>>
  BY DEF Timeout, GivesUp, Sandbox
<1>2. call \in Calls /\ call > 0
  BY <1>1 DEF IInv, KnownInv, CallsInOrder, Calls
<1>3. outcome'[call] = TimedOut /\ \A c \in Calls \ {call} : outcome'[c] = outcome[c]
  BY <1>1, <1>2 DEF IInv, TypeOK
<1>4. Result[call] = Pending /\ Result' = [Result EXCEPT ![call] = TimedOut]
  BY <1>1, <1>2, <1>3, ResultIsOutcome
<1>5. Written' = Written /\ Got' = Got
  BY <1>1 DEF Written, Got
<1>6. QED
  BY <1>1, <1>2, <1>4, <1>5 DEF File!Fail

LEMMA StepRefines ==
  ASSUME CallInv, [Next]_vars
  PROVE  [File!Next]_(File!vars)
<1>1. IInv
  BY DEF CallInv
<1>2. CASE \E k \in Kinds : Begin(k)
  BY <1>2, BeginRefines DEF File!Next
<1>3. CASE PutPayload \/ PutRequest \/ PutLength \/ ClearResponse \/ RingHelper \/ Awake \/ LoadLength
  <2>1. spc # "idle" /\ spc' # "idle" /\ UNCHANGED <<call, kind, history>>
    BY <1>3 DEF PutPayload, PutRequest, PutLength, ClearResponse, RingHelper, Awake, LoadLength,
                Sandbox
  <2>2. QED
    BY <2>1, Unseen DEF history
<1>4. CASE Decode
  BY <1>1, <1>4, DecodeRefines DEF File!Next
<1>5. CASE Release \/ CopyData
  BY <1>5, ReleaseRefines DEF File!Next
<1>6. CASE Timeout
  BY <1>1, <1>6, TimeoutRefines DEF File!Next
<1>7. CASE HelperWork
  BY <1>1, <1>7, WorkRefines DEF File!Next
<1>8. CASE (Serving /\ ~HelperWork) \/ HelperDies
  <2>1. UNCHANGED <<spc, call, kind, executed, committed, outcome, taken>>
    BY <1>8
    DEF Serving, Boot, Summoned, HelperLoad, HelperDecode, HelperClear, HelperSlice,
        HelperPlace, HelperRespond, HelperLength, HelperSignal, HelperDies, sandbox, history
  <2>2. QED
    BY <2>1, Unseen
<1>9. CASE OnReady \/ OnError \/ reinitHelperWorker \/ UNCHANGED vars
  <2>1. UNCHANGED <<spc, call, kind, executed, committed, outcome, taken>>
    BY <1>9 DEF OnReady, OnError, reinitHelperWorker, vars, sandbox, history
  <2>2. QED
    BY <2>1, Unseen
<1>10. QED
  BY <1>2, <1>3, <1>4, <1>5, <1>6, <1>7, <1>8, <1>9 DEF Next, Calling

\* A call through the shared buffer is a synchronous call: it is carried out
\* at most once and with its own data, returns its own result, and when it has
\* timed out it never takes effect after the next call has begun.
THEOREM TheBridgeIsSynchronous ==
  ASSUME Remembered
  PROVE  Spec => CallsSpec
<1>1. Init => OutcomeIsKnown /\ File!Init
  <2> SUFFICES ASSUME Init
               PROVE  OutcomeIsKnown /\ File!Init
    OBVIOUS
  <2>1. OutcomeIsKnown
    BY DEF Init, OutcomeIsKnown
  <2>2. /\ Result = [c \in Calls |-> Pending]
        /\ Written = [c \in Calls |-> 0]
        /\ Got = [c \in Calls |-> 0]
    BY DEF Init, Result, Written, Got, NoData, None
  <2>3. File!Init
    BY <2>2 DEF Init, File!Init, File!Calls, Calls, None
  <2>4. QED BY <2>1, <2>3
<1>2. IInv /\ OutcomeIsKnown /\ [Next]_vars => OutcomeIsKnown'
  BY OutcomeIsKnownStep
<1>3. IInv /\ OutcomeIsKnown /\ [Next]_vars => [File!Next]_(File!vars)
  BY StepRefines DEF CallInv
<1>4. QED
  BY <1>1, <1>2, <1>3, IInvCorrect, PTL DEF Spec, CallsSpec, File!Spec

=============================================================================

----------------------------- MODULE OpfsBridge ------------------------------
(***************************************************************************)
(* The shared-memory bridge to OPFS: a worker that runs WASM calls the     *)
(* asynchronous file system by writing a request into a SharedArrayBuffer  *)
(* and blocking in Atomics.wait until a helper worker has written the      *)
(* answer into the same bytes.  There are no request ids: the two sides    *)
(* know whose turn it is from REQUEST_READY and RESPONSE_READY only.       *)
(*                                                                         *)
(* One module is the helper (opfs-async-helper.ts); two are its client:    *)
(* "bridge" is opfs-sync-bridge.ts, "filesystem" is makeRequest of         *)
(* opfs-filesystem-sync-impl.ts.  A step is one access to shared memory;   *)
(* a store is taken together with the notify that follows it.  SHUTDOWN is *)
(* written by nobody and left out.  A call is known by its number; of its  *)
(* data only whose it is matters.                                          *)
(***************************************************************************)
EXTENDS Naturals

CONSTANTS
  Clients,    \* the client modules considered
  Kinds,      \* "call", "read" (of binary data) and "write" (of binary data)
  MaxCalls,   \* bound on the calls
  MaxDeaths,  \* bound on the helpers that die
  Slow        \* the <<client, kind>> whose operation may take over 30 s

ASSUME OpfsBridgeAssumption ==
  /\ Clients \subseteq {"bridge", "filesystem"}
  /\ Kinds \subseteq {"call", "read", "write"}
  /\ MaxCalls \in Nat
  /\ MaxDeaths \in Nat
  /\ Slow \subseteq Clients \X Kinds

VARIABLES
  client,         \* which module this worker has loaded
  \* the shared buffer; DATA_LENGTH is known by the message that has it
  REQUEST_READY, RESPONSE_READY, DATA_LENGTH, json, binary,
  \* the sandbox worker: its step, the call it makes, and what it has read
  spc, call, kind, slen,
  helperReady, helperCrashed,
  \* the helper worker: its step, what it has read, its request
  hpc, hlen, request, chunk,
  \* events posted to the sandbox worker's event loop
  readyEvent, errorEvent,
  \* history: operations carried out, data written to files, outcome of calls
  executed, committed, outcome, taken, deaths

buffer  == <<REQUEST_READY, RESPONSE_READY, DATA_LENGTH, json, binary>>
sandbox == <<spc, call, kind, slen, helperReady, helperCrashed>>
helper  == <<hpc, hlen, request, chunk>>
events  == <<readyEvent, errorEvent>>
history == <<executed, committed, outcome, taken, deaths>>
vars    == <<client, buffer, sandbox, helper, events, history>>

Calls == 1 .. MaxCalls
None  == 0   \* no call

\* The outcome of a call, besides the number of the call it got the answer of.
Pending    == MaxCalls + 1
TimedOut   == MaxCalls + 2
Unreadable == MaxCalls + 3

AllKinds == {"call", "read", "write"}

\* Messages.  The answer to something that is not a request belongs to nobody.
Request(c, k) == [type |-> "request", call |-> c, kind |-> k]
Response(c)   == [type |-> "response", call |-> c, kind |-> "call"]
Garbage       == [type |-> "garbage", call |-> None, kind |-> "call"]
Messages      == [type : {"request", "response", "garbage"}, call : Calls \cup {None}, kind : AllKinds]

\* What is at offset 1024: the data of a write, or the contents a read found.
Data == {[of |-> c, by |-> s] : c \in Calls \cup {None}, s \in {"sandbox", "helper"}}
NoData == [of |-> None, by |-> "sandbox"]

SandboxSteps == {"idle", "payload", "encode", "length", "clear", "ring", "wait",
                 "load", "decode", "release", "copy"}
HelperSteps  == {"boot", "wait", "load", "decode", "clear", "slice", "work",
                 "place", "respond", "length", "signal", "dead"}

TypeOK ==
  /\ client \in Clients
  /\ REQUEST_READY \in {0, 1} /\ RESPONSE_READY \in {0, 1}
  /\ DATA_LENGTH \in Messages /\ json \in Messages /\ binary \in Data
  /\ spc \in SandboxSteps /\ call \in Calls \cup {None} /\ kind \in AllKinds
  /\ slen \in Messages
  /\ helperReady \in BOOLEAN /\ helperCrashed \in BOOLEAN
  /\ hpc \in HelperSteps /\ hlen \in Messages /\ request \in Messages /\ chunk \in Data
  /\ readyEvent \in BOOLEAN /\ errorEvent \in BOOLEAN
  /\ executed \in [Calls -> 0 .. 2]
  /\ committed \in [Calls -> Data] /\ taken \in [Calls -> Data]
  /\ outcome \in [Calls -> 0 .. Unreadable]
  /\ deaths \in 0 .. MaxDeaths

\* The worker has spawned the helper with a cleared buffer.
Init ==
  /\ client \in Clients
  /\ REQUEST_READY = 0 /\ RESPONSE_READY = 0
  /\ DATA_LENGTH = Garbage /\ json = Garbage /\ binary = NoData
  /\ spc = "idle" /\ call = None /\ kind = "call" /\ slen = Garbage
  /\ helperReady = FALSE /\ helperCrashed = FALSE
  /\ hpc = "boot" /\ hlen = Garbage /\ request = Garbage /\ chunk = NoData
  /\ readyEvent = FALSE /\ errorEvent = FALSE
  /\ executed = [c \in Calls |-> 0]
  /\ committed = [c \in Calls |-> NoData]
  /\ taken = [c \in Calls |-> NoData]
  /\ outcome = [c \in Calls |-> Pending]
  /\ deaths = 0

-----------------------------------------------------------------------------
(* The sandbox worker *)

Sandbox(from, to) == spc = from /\ spc' = to
Helper(from, to)  == hpc = from /\ hpc' = to

\* Decoding the first bytes of the buffer: with the length of another message
\* they are a text cut short or run over, unless the lengths happen to agree.
Decoded(length) == IF length = json THEN {json} ELSE {json, Garbage}

\* The bridge refuses a call while it has no helper; a binary write does not
\* look at helperCrashed.  makeRequest does not look at either.
Accepts(k) ==
  client = "bridge" => helperReady /\ (k # "write" => ~helperCrashed)

Begin(k) ==
  /\ call < MaxCalls
  /\ Accepts(k)
  /\ Sandbox("idle", IF k = "write" THEN "payload" ELSE "encode")
  /\ call' = call + 1
  /\ kind' = k
  /\ UNCHANGED <<client, buffer, slen, helperReady, helperCrashed, helper, events, history>>

PutPayload ==
  /\ Sandbox("payload", "encode")
  /\ binary' = [of |-> call, by |-> "sandbox"]
  /\ UNCHANGED <<client, REQUEST_READY, RESPONSE_READY, DATA_LENGTH, json, call, kind, slen,
                 helperReady, helperCrashed, helper, events, history>>

PutRequest ==
  /\ Sandbox("encode", "length")
  /\ json' = Request(call, kind)
  /\ UNCHANGED <<client, REQUEST_READY, RESPONSE_READY, DATA_LENGTH, binary, call, kind, slen,
                 helperReady, helperCrashed, helper, events, history>>

PutLength ==
  /\ Sandbox("length", "clear")
  /\ DATA_LENGTH' = Request(call, kind)
  /\ UNCHANGED <<client, REQUEST_READY, RESPONSE_READY, json, binary, call, kind, slen,
                 helperReady, helperCrashed, helper, events, history>>

ClearResponse ==
  /\ Sandbox("clear", "ring")
  /\ RESPONSE_READY' = 0
  /\ UNCHANGED <<client, REQUEST_READY, DATA_LENGTH, json, binary, call, kind, slen,
                 helperReady, helperCrashed, helper, events, history>>

RingHelper ==
  /\ Sandbox("ring", "wait")
  /\ REQUEST_READY' = 1
  /\ UNCHANGED <<client, RESPONSE_READY, DATA_LENGTH, json, binary, call, kind, slen,
                 helperReady, helperCrashed, helper, events, history>>

Awake ==
  /\ RESPONSE_READY = 1
  /\ Sandbox("wait", "load")
  /\ UNCHANGED <<client, buffer, call, kind, slen, helperReady, helperCrashed, helper, events, history>>

LoadLength ==
  /\ Sandbox("load", "decode")
  /\ slen' = DATA_LENGTH
  /\ UNCHANGED <<client, buffer, call, kind, helperReady, helperCrashed, helper, events, history>>

\* The bridge lowers RESPONSE_READY before it parses the text, makeRequest
\* leaves it up.  Only a read of binary data goes on to copy it.
Outcome(m) == outcome' = [outcome EXCEPT ![call] = IF m = Garbage THEN Unreadable ELSE m.call]

Decode ==
  /\ \E m \in Decoded(slen) :
       /\ Sandbox("decode", IF client = "bridge" THEN "release"
                            ELSE IF kind = "read" /\ m # Garbage THEN "copy" ELSE "idle")
       /\ Outcome(m)
  /\ UNCHANGED <<client, buffer, call, kind, slen, helperReady, helperCrashed, helper, events,
                 executed, committed, taken, deaths>>

Release ==
  /\ Sandbox("release", IF kind = "read" /\ outcome[call] # Unreadable THEN "copy" ELSE "idle")
  /\ RESPONSE_READY' = 0
  /\ UNCHANGED <<client, REQUEST_READY, DATA_LENGTH, json, binary, call, kind, slen,
                 helperReady, helperCrashed, helper, events, history>>

CopyData ==
  /\ Sandbox("copy", "idle")
  /\ taken' = [taken EXCEPT ![call] = binary]
  /\ UNCHANGED <<client, buffer, call, kind, slen, helperReady, helperCrashed, helper, events,
                 executed, committed, outcome, deaths>>

\* Atomics.wait gives up after 30 s: the helper is dead, or slow.
GivesUp ==
  /\ RESPONSE_READY = 0
  /\ hpc = "dead" \/ <<client, kind>> \in Slow
  /\ Sandbox("wait", "idle")
  /\ outcome' = [outcome EXCEPT ![call] = TimedOut]
  /\ UNCHANGED <<client, buffer, call, kind, slen, helper, events, executed, committed, taken, deaths>>

\* Mutant, and the behaviour of every call but the two the code marks.
Timeout_Forgotten ==
  /\ GivesUp
  /\ UNCHANGED <<helperReady, helperCrashed>>

Timeout ==
  /\ GivesUp
  /\ IF client = "bridge" /\ kind # "write"
     THEN helperCrashed' = TRUE /\ helperReady' = FALSE
     ELSE UNCHANGED <<helperReady, helperCrashed>>

-----------------------------------------------------------------------------
(* The sandbox worker between calls: its event loop *)

\* onmessage 'ready'; makeRequest does not look at these flags.
OnReady ==
  /\ readyEvent
  /\ readyEvent' = FALSE
  /\ spc = "idle"
  /\ helperReady' = TRUE
  /\ helperCrashed' = FALSE
  /\ UNCHANGED <<client, buffer, spc, call, kind, slen, helper, errorEvent, history>>

\* onerror; the handler that reinitHelperWorker installs leaves helperReady.
OnError ==
  /\ errorEvent
  /\ errorEvent' = FALSE
  /\ spc = "idle"
  /\ helperCrashed' = TRUE
  /\ helperReady' \in {FALSE, helperReady}
  /\ UNCHANGED <<client, buffer, spc, call, kind, slen, helper, readyEvent, history>>

\* Mutant: the old helper is not terminated.
reinitHelperWorker_KeepsHelper ==
  /\ client = "bridge" /\ spc = "idle" /\ helperCrashed
  /\ helperReady' = TRUE
  /\ helperCrashed' = FALSE
  /\ REQUEST_READY' = 0
  /\ RESPONSE_READY' = 0
  /\ UNCHANGED <<client, DATA_LENGTH, json, binary, spc, call, kind, slen, helper, events, history>>

\* Called by the application once the bridge has told it of the crash.  To
\* terminate a worker also discards the messages it has posted.
reinitHelperWorker ==
  /\ client = "bridge" /\ spc = "idle" /\ helperCrashed
  /\ helperReady' = FALSE
  /\ helperCrashed' = FALSE
  /\ REQUEST_READY' = 0
  /\ RESPONSE_READY' = 0
  /\ hpc' = "boot"
  /\ readyEvent' = FALSE
  /\ UNCHANGED <<client, DATA_LENGTH, json, binary, spc, call, kind, slen, hlen, request, chunk,
                 errorEvent, history>>

-----------------------------------------------------------------------------
(* The helper worker *)

\* The OPFS root is acquired before 'ready' is posted.
Boot ==
  /\ Helper("boot", "wait")
  /\ readyEvent' = TRUE
  /\ UNCHANGED <<client, buffer, sandbox, hlen, request, chunk, errorEvent, history>>

Summoned ==
  /\ REQUEST_READY = 1
  /\ Helper("wait", "load")
  /\ UNCHANGED <<client, buffer, sandbox, hlen, request, chunk, events, history>>

HelperLoad ==
  /\ Helper("load", "decode")
  /\ hlen' = DATA_LENGTH
  /\ UNCHANGED <<client, buffer, sandbox, request, chunk, events, history>>

\* Mutant: a helper that is summoned to do nothing goes back to wait.
HelperDecode_GivesUp ==
  /\ hpc = "decode"
  /\ hpc' = "wait"
  /\ REQUEST_READY' = 0
  /\ UNCHANGED <<client, RESPONSE_READY, DATA_LENGTH, json, binary, sandbox, hlen, request, chunk,
                 events, history>>

\* Text that is not a request becomes a harmless one.
HelperDecode ==
  /\ Helper("decode", "clear")
  /\ request' \in {IF m.type = "request" THEN m ELSE Garbage : m \in Decoded(hlen)}
  /\ UNCHANGED <<client, buffer, sandbox, hlen, chunk, events, history>>

\* Mutant: the flag is left up.
HelperClear_LeftUp ==
  /\ Helper("clear", IF request.kind = "write" THEN "slice" ELSE "work")
  /\ UNCHANGED <<client, buffer, sandbox, hlen, request, chunk, events, history>>

HelperClear ==
  /\ Helper("clear", IF request.kind = "write" THEN "slice" ELSE "work")
  /\ REQUEST_READY' = 0
  /\ UNCHANGED <<client, RESPONSE_READY, DATA_LENGTH, json, binary, sandbox, hlen, request, chunk,
                 events, history>>

\* Mutant: binaryOffset is lost, and the slice is of the request itself.
HelperSlice_FromZero ==
  /\ Helper("slice", "work")
  /\ chunk' = json
  /\ UNCHANGED <<client, buffer, sandbox, hlen, request, events, history>>

\* A binary write takes its data before it first awaits anything.
HelperSlice ==
  /\ Helper("slice", "work")
  /\ chunk' = binary
  /\ UNCHANGED <<client, buffer, sandbox, hlen, request, events, history>>

\* The operation on OPFS.
HelperWork ==
  /\ Helper("work", IF request.kind = "read" THEN "place" ELSE "respond")
  /\ LET c == request.call IN
     IF c = None THEN UNCHANGED <<executed, committed>>
     ELSE /\ executed' = [executed EXCEPT ![c] = IF @ = 2 THEN 2 ELSE @ + 1]
          /\ committed' = IF request.kind = "write"
                          THEN [committed EXCEPT ![c] = chunk] ELSE committed
  /\ UNCHANGED <<client, buffer, sandbox, hlen, request, chunk, events, outcome, taken, deaths>>

HelperPlace ==
  /\ Helper("place", "respond")
  /\ binary' = [of |-> request.call, by |-> "helper"]
  /\ UNCHANGED <<client, REQUEST_READY, RESPONSE_READY, DATA_LENGTH, json, sandbox,
                 hlen, request, chunk, events, history>>

HelperRespond ==
  /\ Helper("respond", "length")
  /\ json' = Response(request.call)
  /\ UNCHANGED <<client, REQUEST_READY, RESPONSE_READY, DATA_LENGTH, binary, sandbox,
                 hlen, request, chunk, events, history>>

HelperLength ==
  /\ Helper("length", "signal")
  /\ DATA_LENGTH' = Response(request.call)
  /\ UNCHANGED <<client, REQUEST_READY, RESPONSE_READY, json, binary, sandbox,
                 hlen, request, chunk, events, history>>

HelperSignal ==
  /\ Helper("signal", "wait")
  /\ RESPONSE_READY' = 1
  /\ UNCHANGED <<client, REQUEST_READY, DATA_LENGTH, json, binary, sandbox,
                 hlen, request, chunk, events, history>>

\* The helper's thread or its loop ends; not every end raises an error event.
HelperDies ==
  /\ hpc # "dead" /\ deaths < MaxDeaths
  /\ hpc' = "dead"
  /\ deaths' = deaths + 1
  /\ errorEvent' \in {TRUE, errorEvent}
  /\ UNCHANGED <<client, buffer, sandbox, hlen, request, chunk, readyEvent,
                 executed, committed, outcome, taken>>

-----------------------------------------------------------------------------

Calling ==
  \/ PutPayload \/ PutRequest \/ PutLength \/ ClearResponse \/ RingHelper
  \/ Awake \/ LoadLength \/ Decode \/ Release \/ CopyData

Serving ==
  \/ Boot \/ Summoned \/ HelperLoad \/ HelperDecode \/ HelperClear \/ HelperSlice
  \/ HelperWork \/ HelperPlace \/ HelperRespond \/ HelperLength \/ HelperSignal

Next ==
  \/ \E k \in Kinds : Begin(k)
  \/ OnReady \/ OnError \/ reinitHelperWorker
  \/ Calling \/ Timeout
  \/ Serving
  \/ HelperDies

Spec == Init /\ [][Next]_vars

\* Both threads run; a wait on a dead helper ends after its 30 s.
Fairness ==
  /\ WF_vars(Calling)
  /\ WF_vars(hpc = "dead" /\ Timeout)
  /\ WF_vars(Serving)

FairSpec == Spec /\ Fairness

-----------------------------------------------------------------------------
(* What the callers see: a call returns when its thread goes on *)

Result == [c \in Calls |-> IF c = call /\ spc # "idle" THEN Pending ELSE outcome[c]]
Written == [c \in Calls |-> committed[c].of]
Got == [c \in Calls |-> taken[c].of]

File == INSTANCE FileCalls WITH
  NoResult <- Pending,
  Failed   <- TimedOut,
  begun    <- call,
  done     <- executed,
  written  <- Written,
  result   <- Result,
  got      <- Got

-----------------------------------------------------------------------------
(* Properties *)

\* The answer a call returns with is the answer to that call, whatever calls
\* before it timed out and whatever helpers died.
AnswersMatch ==
  \A c \in Calls : outcome[c] \in {Pending, TimedOut, c}

\* The file gets the bytes of the write that asked for it, and a read copies
\* out the bytes that were found for it.
BinaryIntact ==
  \A c \in Calls :
    /\ committed[c].of \in {None, c}
    /\ taken[c].of \in {None, c}

\* A call that was answered was carried out once, none ever is twice, and each
\* with the bytes of its own: requests, answers and data share one buffer.
CarriedOutOnce ==
  /\ \A c \in Calls : executed[c] <= 1 /\ (outcome[c] = c => executed[c] = 1)
  /\ BinaryIntact

\* The two threads never write the same bytes at the same time.
SandboxWrites == spc \in {"payload", "encode", "length"}
HelperWrites  == hpc \in {"place", "respond", "length"}
NoRace == ~(SandboxWrites /\ HelperWrites)

\* To its caller the bridge is a synchronous file system: a call has its own
\* result, one that times out may still be carried out, and no operation takes
\* effect after the next call has begun, whichever helper was at work on it.
CallsSpec == File!Spec

\* No wakeup is lost: a call returns without the help of a timeout, unless the
\* helper is dead.
EveryCallReturns == (spc # "idle") ~> (spc = "idle")

=============================================================================

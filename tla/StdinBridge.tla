----------------------------- MODULE StdinBridge -----------------------------
(***************************************************************************)
(* Terminal input for WASM that runs in a worker without JSPI: the page    *)
(* (worker-bridge.ts) passes what is typed to the worker                   *)
(* (stdin-sync-bridge.ts) through shared memory.  The worker asks, sleeps  *)
(* at most 50 ms in Atomics.wait, and gives up so that the program can     *)
(* render; the page answers a request, or sends at once when it sees       *)
(* REQUEST_READY.  Neither side acknowledges anything.                     *)
(*                                                                         *)
(* A step is one access to shared memory together with what its thread     *)
(* does alone around it; the store of RESPONSE_READY is taken with its     *)
(* notify.  A byte is known by its number in the order of typing.  Nobody  *)
(* calls nonBlockingReadStdin or signalStdinEof, so EOF is never set; no   *)
(* resize sequence is typed.  The user types at any time.                  *)
(***************************************************************************)
EXTENDS Integers, Sequences, SequencesExt

CONSTANTS
  ChunkSizes,  \* how many bytes a key produces (an arrow key: three)
  ReadSizes,   \* how many bytes the program asks for (the shell: one)
  BufferSize,  \* bytes of stdinDataArray; longer pastes are left out
  MaxTyped,    \* bound on the bytes typed
  MaxPosted    \* bound on the requests the page has not handled yet

ASSUME StdinBridgeAssumption ==
  /\ BufferSize \in Nat
  /\ ChunkSizes \subseteq 1 .. BufferSize
  /\ ReadSizes \subseteq Nat \ {0}
  /\ MaxTyped \in Nat /\ MaxPosted \in Nat

VARIABLES
  \* the shared buffer
  REQUEST_READY, RESPONSE_READY, DATA_LENGTH, data,
  \* the page: its step, stdinBuffer, the bytes it is sending
  ppc, stdinBuffer, sending,
  posted,               \* stdin-request messages on their way, each a maxLen
  \* the worker: its step, the request it serves, the length and bytes it read
  wpc, maxLen, dataLen, fullData, residualBuffer, hasDataBeenDelivered,
  typed,                \* how many bytes have been typed
  received,             \* the bytes the program has read
  harm                  \* history: how the page has harmed the stream so far

shared == <<REQUEST_READY, RESPONSE_READY, DATA_LENGTH, data>>
page   == <<ppc, stdinBuffer, sending>>
worker == <<wpc, maxLen, dataLen, fullData, residualBuffer, hasDataBeenDelivered>>
vars   == <<shared, page, posted, worker, typed, received, harm>>

Bytes == 1 .. MaxTyped
Blank == 0    \* what the buffer holds before anything is written

\* The bytes of a key, when n were typed before it.
Key(n, size) == [i \in 1 .. size |-> n + i]

\* The first n bytes of s, and the others.
First(s, n) == SubSeq(s, 1, IF n < Len(s) THEN n ELSE Len(s))
After(s, n) == SubSeq(s, n + 1, Len(s))

PageSteps   == {"idle", "data", "length", "signal"}
WorkerSteps == {"idle", "post", "compare", "sleep", "giveup", "length", "copy", "clear", "release"}

\* Where the two threads are, and what they hold there.
TypeOK ==
  /\ REQUEST_READY \in {0, 1} /\ RESPONSE_READY \in {0, 1}
  /\ DATA_LENGTH \in 0 .. BufferSize
  /\ data \in [1 .. BufferSize -> Bytes \cup {Blank}]
  /\ ppc \in PageSteps /\ sending \in Seq(Bytes) /\ Len(sending) <= BufferSize
  /\ stdinBuffer \in Seq(Seq(Bytes))
  /\ posted \in Seq(ReadSizes)
  /\ wpc \in WorkerSteps /\ maxLen \in ReadSizes /\ dataLen \in 0 .. BufferSize
  /\ fullData \in Seq(Bytes \cup {Blank}) /\ residualBuffer \in Seq(Bytes \cup {Blank})
  /\ hasDataBeenDelivered \in BOOLEAN
  /\ typed \in Nat
  /\ received \in Seq(Bytes \cup {Blank})
  /\ harm \subseteq {"overtaken", "overwritten", "truncated"}

Init ==
  /\ REQUEST_READY = 0 /\ RESPONSE_READY = 0 /\ DATA_LENGTH = 0
  /\ data = [i \in 1 .. BufferSize |-> Blank]
  /\ ppc = "idle" /\ stdinBuffer = <<>> /\ sending = <<>>
  /\ posted = <<>>
  /\ wpc = "idle" /\ maxLen \in ReadSizes /\ dataLen = 0 /\ fullData = <<>>
  /\ residualBuffer = <<>> /\ hasDataBeenDelivered = FALSE
  /\ typed = 0 /\ received = <<>> /\ harm = {}

-----------------------------------------------------------------------------
(* The page *)

\* What the code does not look at when it sends: keys that were kept before this
\* one, an answer the worker has not taken yet, bytes beyond what was asked for.
Overtaken == IF stdinBuffer = <<>> THEN {} ELSE {"overtaken"}
Overwritten == IF RESPONSE_READY = 0 THEN {} ELSE {"overwritten"}
Truncated(key, n) == IF Len(key) <= n THEN {} ELSE {"truncated"}

\* sendStdinToWorker: bytes, then their length, then the flag.
sendStdinToWorker(bytes) == ppc' = "data" /\ sending' = bytes

\* A key: sent at once if the worker is seen to wait, kept otherwise.
handleTerminalInput(size) ==
  /\ ppc = "idle" /\ typed + size <= MaxTyped
  /\ typed' = typed + size
  /\ \/ /\ REQUEST_READY = 1
        /\ sendStdinToWorker(Key(typed, size))
        /\ harm' = harm \cup Overtaken \cup Overwritten
        /\ UNCHANGED stdinBuffer
     \/ /\ REQUEST_READY # 1
        /\ stdinBuffer' = Append(stdinBuffer, Key(typed, size))
        /\ UNCHANGED <<ppc, sending, harm>>
  /\ UNCHANGED <<shared, posted, worker, received>>

\* A request: answered with the first key that was kept, cut to maxLen.
handleStdinRequest ==
  /\ ppc = "idle" /\ posted # <<>>
  /\ posted' = Tail(posted)
  /\ \/ /\ stdinBuffer # <<>>
        /\ stdinBuffer' = Tail(stdinBuffer)
        /\ sendStdinToWorker(First(Head(stdinBuffer), Head(posted)))
        /\ harm' = harm \cup Overwritten \cup Truncated(Head(stdinBuffer), Head(posted))
     \/ /\ stdinBuffer = <<>>
        /\ UNCHANGED <<page, harm>>
  /\ UNCHANGED <<shared, worker, typed, received>>

StoreData ==
  /\ ppc = "data" /\ ppc' = "length"
  /\ data' = [i \in 1 .. BufferSize |-> IF i <= Len(sending) THEN sending[i] ELSE data[i]]
  /\ UNCHANGED <<REQUEST_READY, RESPONSE_READY, DATA_LENGTH, stdinBuffer, sending,
                 posted, worker, typed, received, harm>>

\* Mutant: the length of the buffer is stored one too high.
StoreLength_OneMore ==
  /\ ppc = "length" /\ ppc' = "signal"
  /\ DATA_LENGTH' = Len(sending) + 1
  /\ UNCHANGED <<REQUEST_READY, RESPONSE_READY, data, stdinBuffer, sending,
                 posted, worker, typed, received, harm>>

StoreLength ==
  /\ ppc = "length" /\ ppc' = "signal"
  /\ DATA_LENGTH' = Len(sending)
  /\ UNCHANGED <<REQUEST_READY, RESPONSE_READY, data, stdinBuffer, sending,
                 posted, worker, typed, received, harm>>

\* The flag is stored and a sleeping worker woken.
Signal ==
  /\ ppc = "signal" /\ ppc' = "idle"
  /\ RESPONSE_READY' = 1 /\ sending' = <<>>
  /\ UNCHANGED <<REQUEST_READY, DATA_LENGTH, data, stdinBuffer, posted, worker, typed, received, harm>>

Page == StoreData \/ StoreLength \/ Signal \/ handleStdinRequest

-----------------------------------------------------------------------------
(* The worker *)

\* The program gets bytes, which are the last of its batch or not.
Return(bytes, rest) ==
  /\ received' = received \o bytes
  /\ residualBuffer' = rest
  /\ hasDataBeenDelivered' = TRUE
  /\ wpc' = "idle"

\* What is left of the last answer is served before anything else.
ReadResidual ==
  /\ wpc = "idle" /\ residualBuffer # <<>>
  /\ \E n \in ReadSizes : Return(First(residualBuffer, n), After(residualBuffer, n)) /\ maxLen' = n
  /\ UNCHANGED <<shared, page, posted, dataLen, fullData, typed, harm>>

\* After a batch one read is empty, so that the program renders.
EndBatch ==
  /\ wpc = "idle" /\ residualBuffer = <<>> /\ hasDataBeenDelivered
  /\ hasDataBeenDelivered' = FALSE
  /\ UNCHANGED <<shared, page, posted, wpc, maxLen, dataLen, fullData, residualBuffer, typed, received, harm>>

\* REQUEST_READY is set before the message is posted.
RequestInput ==
  /\ wpc = "idle" /\ residualBuffer = <<>> /\ ~hasDataBeenDelivered
  /\ Len(posted) < MaxPosted
  /\ \E n \in ReadSizes : maxLen' = n
  /\ REQUEST_READY' = 1 /\ wpc' = "post"
  /\ UNCHANGED <<RESPONSE_READY, DATA_LENGTH, data, page, posted,
                 dataLen, fullData, residualBuffer, hasDataBeenDelivered, typed, received, harm>>

\* A step of the worker that only moves on.
Step(from, to) ==
  /\ wpc = from /\ wpc' = to
  /\ UNCHANGED <<page, maxLen, residualBuffer, hasDataBeenDelivered, typed, received, harm>>

PostRequest ==
  /\ Step("post", "compare")
  /\ posted' = Append(posted, maxLen)
  /\ UNCHANGED <<shared, dataLen, fullData>>

\* Mutant: the worker sleeps without a look at the flag.
Compare_Unchecked == Step("compare", "sleep") /\ UNCHANGED <<shared, posted, dataLen, fullData>>

\* Atomics.wait returns at once if the flag is set already,
Compare ==
  /\ Step("compare", IF RESPONSE_READY = 0 THEN "sleep" ELSE "length")
  /\ UNCHANGED <<shared, posted, dataLen, fullData>>

\* is woken,
Woken ==
  /\ RESPONSE_READY = 1
  /\ Step("sleep", "length")
  /\ UNCHANGED <<shared, posted, dataLen, fullData>>

\* or sleeps for 50 ms, at the end of which the flag may just have been set.
TimedOut ==
  /\ Step("sleep", "giveup")
  /\ UNCHANGED <<shared, posted, dataLen, fullData>>

\* The read of a worker that gives up is empty.
GiveUp ==
  /\ Step("giveup", "idle")
  /\ REQUEST_READY' = 0
  /\ UNCHANGED <<RESPONSE_READY, DATA_LENGTH, data, posted, dataLen, fullData>>

LoadLength ==
  /\ Step("length", "copy")
  /\ dataLen' = DATA_LENGTH
  /\ UNCHANGED <<shared, posted, fullData>>

CopyData ==
  /\ Step("copy", "clear")
  /\ fullData' = SubSeq(data, 1, dataLen)
  /\ UNCHANGED <<shared, posted, dataLen>>

\* Mutant: the flag is not reset.
ClearResponse_Forgotten == Step("clear", "release") /\ UNCHANGED <<shared, posted, dataLen, fullData>>

ClearResponse ==
  /\ Step("clear", "release")
  /\ RESPONSE_READY' = 0
  /\ UNCHANGED <<REQUEST_READY, DATA_LENGTH, data, posted, dataLen, fullData>>

\* The program gets up to maxLen bytes; the rest is kept for the next reads.
Release ==
  /\ wpc = "release"
  /\ REQUEST_READY' = 0
  /\ Return(First(fullData, maxLen), After(fullData, maxLen))
  /\ UNCHANGED <<RESPONSE_READY, DATA_LENGTH, data, page, posted, maxLen, dataLen, fullData, typed, harm>>

blockingReadStdin ==
  \/ ReadResidual \/ EndBatch \/ RequestInput \/ PostRequest \/ Compare \/ Woken \/ TimedOut
  \/ GiveUp \/ LoadLength \/ CopyData \/ ClearResponse \/ Release

-----------------------------------------------------------------------------

Next ==
  \/ \E size \in ChunkSizes : handleTerminalInput(size)
  \/ Page
  \/ blockingReadStdin

Spec == Init /\ [][Next]_vars

\* The page handles its messages and finishes its handlers; the program keeps
\* reading, as the shell's input loop does.  Nobody has to type, and nothing
\* is said of how a sleep ends.
Fairness == WF_vars(Page) /\ WF_vars(blockingReadStdin)

FairSpec == Spec /\ Fairness

-----------------------------------------------------------------------------
(* Properties *)

\* What the page has sent and the worker has not copied.
InTransit == IF RESPONSE_READY = 1 THEN ToSet(SubSeq(data, 1, DATA_LENGTH)) ELSE {}

\* What the worker has copied and not returned.
InHand == IF wpc \in {"clear", "release"} THEN ToSet(fullData) ELSE {}

\* The program reads the bytes in the order they were typed, none missing in
\* between, none twice.
TypedInOrder == \A i \in 1 .. Len(received) : received[i] = i

\* Every byte typed is still somewhere: kept by the page, on its way, kept by
\* the worker, or read.
NothingLost ==
  \A b \in 1 .. typed :
    \/ \E i \in DOMAIN stdinBuffer : b \in ToSet(stdinBuffer[i])
    \/ b \in ToSet(sending) \cup InTransit \cup InHand \cup ToSet(residualBuffer) \cup ToSet(received)

(***************************************************************************)
(* However keys, requests, late answers and timeouts interleave, the page  *)
(* breaks the stream in three places only: a key sent past kept ones, an   *)
(* answer stored on one that was not taken, a kept key cut to what was     *)
(* asked for.  Until one of them is met the program reads what was typed,  *)
(* in order and once; overtaking alone loses nothing.                      *)
(***************************************************************************)
StreamIntact == /\ harm = {} => TypedInOrder
                /\ harm \subseteq {"overtaken"} => NothingLost

(***************************************************************************)
(* A key is read in the end, however many reads give up before, unless     *)
(* bytes were overwritten or cut.                                          *)
(***************************************************************************)
EveryKeyIsRead ==
  \A b \in Bytes :
    (typed >= b) ~> (b \in ToSet(received) \/ ~(harm \subseteq {"overtaken"}))

=============================================================================

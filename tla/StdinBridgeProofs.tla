-------------------------- MODULE StdinBridgeProofs --------------------------
(***************************************************************************)
(* Theorems about StdinBridge for any keys, reads, sizes and bounds: the   *)
(* types of both sides, and that the stream of bytes is in order and whole *)
(* but where the page overtakes, overwrites or cuts.                       *)
(***************************************************************************)
EXTENDS StdinBridge, SequenceTheorems, TLAPS

-----------------------------------------------------------------------------
(* Types *)

LEMMA ConstantTypes ==
  /\ BufferSize \in Nat /\ MaxTyped \in Nat
  /\ \A c \in ChunkSizes : c \in Nat /\ c >= 1 /\ c <= BufferSize
  /\ \A n \in ReadSizes : n \in Nat /\ n >= 1
BY StdinBridgeAssumption

\* The bytes of a key, and the two parts a text is cut into.
LEMMA KeyTypes ==
  ASSUME NEW n \in Nat, NEW size \in Nat, n + size <= MaxTyped
  PROVE  /\ Key(n, size) \in Seq(Bytes) /\ Len(Key(n, size)) = size
         /\ \A i \in 1 .. size : Key(n, size)[i] = n + i
<1>1. \A i \in 1 .. size : n + i \in Bytes
  BY ConstantTypes DEF Bytes
<1>2. Key(n, size) \in [1 .. size -> Bytes]
  BY <1>1 DEF Key
<1>3. Key(n, size) \in Seq(Bytes)
  BY <1>2, SeqDef
<1>4. Len(Key(n, size)) = size
  BY <1>2, <1>3, LenProperties DEF Key
<1>5. QED BY <1>3, <1>4 DEF Key

LEMMA CutTypes ==
  ASSUME NEW S, NEW s \in Seq(S), NEW n \in Nat
  PROVE  /\ First(s, n) \in Seq(S) /\ After(s, n) \in Seq(S)
         /\ Len(First(s, n)) = IF n < Len(s) THEN n ELSE Len(s)
         /\ Len(After(s, n)) = IF n < Len(s) THEN Len(s) - n ELSE 0
         /\ \A i \in 1 .. Len(First(s, n)) : First(s, n)[i] = s[i]
         /\ \A i \in 1 .. Len(After(s, n)) : After(s, n)[i] = s[n + i]
<1> DEFINE m == IF n < Len(s) THEN n ELSE Len(s)
<1>1. Len(s) \in Nat /\ \A i \in 1 .. Len(s) : s[i] \in S
  BY LenProperties, ElementOfSeq
<1>2. m \in Nat /\ m <= Len(s)
  BY <1>1
<1>3. /\ First(s, n) = SubSeq(s, 1, m)
      /\ After(s, n) = SubSeq(s, n + 1, Len(s))
  BY DEF First, After
<1> HIDE DEF m
<1>4. /\ SubSeq(s, 1, m) \in Seq(S) /\ Len(SubSeq(s, 1, m)) = m
      /\ \A i \in 1 .. m : SubSeq(s, 1, m)[i] = s[i]
  <2>1. \A i \in 1 .. m : s[i] \in S
    BY <1>1, <1>2
  <2>2. /\ SubSeq(s, 1, m) \in Seq(S)
        /\ Len(SubSeq(s, 1, m)) = IF 1 <= m THEN m - 1 + 1 ELSE 0
        /\ \A i \in 1 .. m - 1 + 1 : SubSeq(s, 1, m)[i] = s[1 + i - 1]
    BY <1>2, <2>1, SubSeqProperties
  <2>3. QED BY <1>2, <2>2
<1>5. /\ SubSeq(s, n + 1, Len(s)) \in Seq(S)
      /\ Len(SubSeq(s, n + 1, Len(s))) = IF n < Len(s) THEN Len(s) - n ELSE 0
      /\ \A i \in 1 .. Len(s) - n : SubSeq(s, n + 1, Len(s))[i] = s[n + i]
  <2>1. \A i \in n + 1 .. Len(s) : s[i] \in S
    BY <1>1
  <2>2. /\ SubSeq(s, n + 1, Len(s)) \in Seq(S)
        /\ Len(SubSeq(s, n + 1, Len(s)))
             = IF n + 1 <= Len(s) THEN Len(s) - (n + 1) + 1 ELSE 0
        /\ \A i \in 1 .. Len(s) - (n + 1) + 1 : SubSeq(s, n + 1, Len(s))[i] = s[(n + 1) + i - 1]
    BY <1>1, <2>1, SubSeqProperties
  <2>3. QED BY <1>1, <2>2
<1>6. QED
  BY <1>1, <1>3, <1>4, <1>5 DEF m

\* What TypeOK leaves out: the counters stay within their bounds.
Bounds ==
  /\ typed <= MaxTyped
  /\ \A i \in DOMAIN stdinBuffer : Len(stdinBuffer[i]) <= BufferSize

LEMMA KeysKept ==
  ASSUME TypeOK, Bounds
  PROVE  /\ stdinBuffer # <<>> =>
              /\ Head(stdinBuffer) \in Seq(Bytes) /\ Len(Head(stdinBuffer)) <= BufferSize
              /\ Tail(stdinBuffer) \in Seq(Seq(Bytes))
              /\ \A i \in DOMAIN Tail(stdinBuffer) : Len(Tail(stdinBuffer)[i]) <= BufferSize
<1> SUFFICES ASSUME stdinBuffer # <<>>
             PROVE  /\ Head(stdinBuffer) \in Seq(Bytes) /\ Len(Head(stdinBuffer)) <= BufferSize
                    /\ Tail(stdinBuffer) \in Seq(Seq(Bytes))
                    /\ \A i \in DOMAIN Tail(stdinBuffer) : Len(Tail(stdinBuffer)[i]) <= BufferSize
  OBVIOUS
<1>1. stdinBuffer \in Seq(Seq(Bytes))
  BY DEF TypeOK
<1>2. /\ Head(stdinBuffer) \in Seq(Bytes) /\ Head(stdinBuffer) = stdinBuffer[1]
      /\ Tail(stdinBuffer) \in Seq(Seq(Bytes))
      /\ Len(Tail(stdinBuffer)) = Len(stdinBuffer) - 1
      /\ \A i \in 1 .. Len(Tail(stdinBuffer)) : Tail(stdinBuffer)[i] = stdinBuffer[i + 1]
  BY <1>1, HeadTailProperties
<1>3. /\ Len(stdinBuffer) \in Nat /\ Len(stdinBuffer) >= 1
      /\ DOMAIN stdinBuffer = 1 .. Len(stdinBuffer)
      /\ DOMAIN Tail(stdinBuffer) = 1 .. Len(stdinBuffer) - 1
  BY <1>1, <1>2, LenProperties, EmptySeq
<1>4. ASSUME NEW i \in DOMAIN Tail(stdinBuffer)
      PROVE  Len(Tail(stdinBuffer)[i]) <= BufferSize
  <2>1. i + 1 \in DOMAIN stdinBuffer
    BY <1>3
  <2>2. QED BY <1>2, <1>3, <2>1 DEF Bounds
<1>5. Len(Head(stdinBuffer)) <= BufferSize
  BY <1>2, <1>3 DEF Bounds
<1>6. QED BY <1>2, <1>4, <1>5

\* The page only adds to the harm done, nobody else touches it.
LEMMA HarmGrows ==
  ASSUME TypeOK, Next
  PROVE  harm \subseteq harm' /\ harm' \subseteq {"overtaken", "overwritten", "truncated"}
<1>1. ASSUME NEW size \in ChunkSizes, handleTerminalInput(size)
      PROVE  harm \subseteq harm' /\ harm' \subseteq {"overtaken", "overwritten", "truncated"}
  BY <1>1 DEF handleTerminalInput, Overtaken, Overwritten, TypeOK
<1>2. CASE Page
  BY <1>2 DEF Page, StoreData, StoreLength, Signal, handleStdinRequest, Overwritten,
              Truncated, TypeOK
<1>3. CASE blockingReadStdin
  BY <1>3
  DEF blockingReadStdin, ReadResidual, EndBatch, RequestInput, PostRequest, Compare, Woken,
      TimedOut, GiveUp, LoadLength, CopyData, ClearResponse, Release, Step, TypeOK
<1>4. QED BY <1>1, <1>2, <1>3 DEF Next

LEMMA TypingStep ==
  ASSUME TypeOK, Bounds, NEW size \in ChunkSizes, handleTerminalInput(size)
  PROVE  TypeOK' /\ Bounds'
<1> DEFINE k == Key(typed, size)
<1>0. harm' \subseteq {"overtaken", "overwritten", "truncated"}
  BY HarmGrows DEF Next
<1>1. /\ typed \in Nat /\ size \in Nat /\ size <= BufferSize
      /\ typed + size <= MaxTyped /\ typed' = typed + size
      /\ UNCHANGED <<shared, posted, worker, received>>
  BY ConstantTypes DEF handleTerminalInput, TypeOK
<1>2. k \in Seq(Bytes) /\ Len(k) = size
  BY <1>1, KeyTypes
<1> HIDE DEF k
<1>3. typed' \in Nat /\ typed' <= MaxTyped
  BY <1>1
<1>4. CASE ppc' = "data" /\ sending' = k /\ UNCHANGED stdinBuffer
  <2>1. ppc' \in PageSteps /\ sending' \in Seq(Bytes) /\ Len(sending') <= BufferSize
    BY <1>1, <1>2, <1>4 DEF PageSteps
  <2>2. QED BY <1>0, <1>1, <1>3, <1>4, <2>1 DEF TypeOK, Bounds, shared, worker
<1>5. CASE stdinBuffer' = Append(stdinBuffer, k) /\ UNCHANGED <<ppc, sending>>
  <2> DEFINE b == stdinBuffer'
  <2>1. /\ stdinBuffer \in Seq(Seq(Bytes)) /\ b \in Seq(Seq(Bytes))
        /\ Len(b) = Len(stdinBuffer) + 1 /\ Len(stdinBuffer) \in Nat
        /\ DOMAIN b = 1 .. Len(stdinBuffer) + 1 /\ DOMAIN stdinBuffer = 1 .. Len(stdinBuffer)
        /\ \A i \in 1 .. Len(stdinBuffer) : b[i] = stdinBuffer[i]
        /\ b[Len(stdinBuffer) + 1] = k
    BY <1>2, <1>5, AppendProperties, LenProperties DEF TypeOK
  <2> HIDE DEF b
  <2>2. ASSUME NEW i \in DOMAIN b
        PROVE  Len(b[i]) <= BufferSize
    <3>1. CASE i = Len(stdinBuffer) + 1
      BY <1>1, <1>2, <2>1, <3>1
    <3>2. CASE i # Len(stdinBuffer) + 1
      <4>1. i \in 1 .. Len(stdinBuffer)
        BY <2>1, <3>2
      <4>2. QED BY <2>1, <4>1 DEF Bounds
    <3>3. QED BY <3>1, <3>2
  <2>3. Bounds'
    BY <1>3, <2>2 DEF Bounds, b
  <2>4. QED BY <1>0, <1>1, <1>3, <1>5, <2>1, <2>3 DEF TypeOK, shared, worker, b
<1>6. QED
  BY <1>4, <1>5 DEF handleTerminalInput, sendStdinToWorker, k

LEMMA PageStep ==
  ASSUME TypeOK, Bounds, Page
  PROVE  TypeOK' /\ Bounds'
<1>1. CASE StoreData
  <2>1. data' \in [1 .. BufferSize -> Bytes \cup {Blank}]
    <3>1. sending \in Seq(Bytes) /\ Len(sending) \in Nat
      BY LenProperties DEF TypeOK
    <3>2. \A i \in 1 .. BufferSize : i <= Len(sending) => sending[i] \in Bytes
      BY <3>1, ConstantTypes, ElementOfSeq
    <3>3. QED BY <1>1, <3>2 DEF StoreData, TypeOK
  <2>2. QED BY <1>1, <2>1 DEF StoreData, TypeOK, Bounds, PageSteps, worker
<1>2. CASE StoreLength
  <2>1. DATA_LENGTH' \in 0 .. BufferSize
    BY <1>2, LenProperties, ConstantTypes DEF StoreLength, TypeOK
  <2>2. QED BY <1>2, <2>1 DEF StoreLength, TypeOK, Bounds, PageSteps, worker
<1>3. CASE Signal
  <2>1. sending' \in Seq(Bytes) /\ Len(sending') <= BufferSize
    BY <1>3, EmptySeq, ConstantTypes DEF Signal
  <2>2. QED BY <1>3, <2>1 DEF Signal, TypeOK, Bounds, PageSteps, worker
<1>4. CASE handleStdinRequest
  <2>0. harm' \subseteq {"overtaken", "overwritten", "truncated"}
    BY HarmGrows DEF Next
  <2>1. /\ posted # <<>> /\ posted' = Tail(posted) /\ posted \in Seq(ReadSizes)
        /\ UNCHANGED <<shared, worker, typed, received>>
    BY <1>4 DEF handleStdinRequest, TypeOK
  <2>2. posted' \in Seq(ReadSizes) /\ Head(posted) \in Nat
    BY <2>1, HeadTailProperties, ConstantTypes
  <2>3. CASE UNCHANGED page
    BY <2>0, <2>1, <2>2, <2>3 DEF TypeOK, Bounds, page, shared, worker
  <2>4. CASE /\ stdinBuffer # <<>> /\ stdinBuffer' = Tail(stdinBuffer)
             /\ sendStdinToWorker(First(Head(stdinBuffer), Head(posted)))
    <3>1. sending' \in Seq(Bytes) /\ Len(sending') <= BufferSize
      <4>1. Head(stdinBuffer) \in Seq(Bytes) /\ Len(Head(stdinBuffer)) <= BufferSize
        BY <2>4, KeysKept
      <4>2. Len(Head(stdinBuffer)) \in Nat
        BY <4>1, LenProperties
      <4>3. QED
        BY <2>2, <2>4, <4>1, <4>2, CutTypes, ConstantTypes DEF sendStdinToWorker
    <3>2. ppc' \in PageSteps
      BY <2>4 DEF sendStdinToWorker, PageSteps
    <3>3. stdinBuffer' \in Seq(Seq(Bytes)) /\ Bounds'
      BY <2>1, <2>4, KeysKept DEF Bounds
    <3>4. QED BY <2>0, <2>1, <2>2, <3>1, <3>2, <3>3 DEF TypeOK, shared, worker
  <2>5. QED BY <1>4, <2>3, <2>4 DEF handleStdinRequest
<1>5. QED BY <1>1, <1>2, <1>3, <1>4 DEF Page

LEMMA ReturnTypes ==
  ASSUME TypeOK, NEW s \in Seq(Bytes \cup {Blank}), NEW n \in ReadSizes,
         Return(First(s, n), After(s, n))
  PROVE  /\ received' \in Seq(Bytes \cup {Blank}) /\ residualBuffer' \in Seq(Bytes \cup {Blank})
         /\ hasDataBeenDelivered' \in BOOLEAN /\ wpc' \in WorkerSteps
<1>1. First(s, n) \in Seq(Bytes \cup {Blank}) /\ After(s, n) \in Seq(Bytes \cup {Blank})
  BY CutTypes, ConstantTypes
<1>2. QED
  BY <1>1, ConcatProperties DEF Return, TypeOK, WorkerSteps

\* The first bytes of the buffer, as many as a length says.
LEMMA PrefixTypes ==
  ASSUME TypeOK, NEW n \in 0 .. BufferSize
  PROVE  /\ SubSeq(data, 1, n) \in Seq(Bytes \cup {Blank})
         /\ Len(SubSeq(data, 1, n)) = n
         /\ \A i \in 1 .. n : SubSeq(data, 1, n)[i] = data[i]
<1> DEFINE T == Bytes \cup {Blank}
<1>1. n \in Nat /\ n <= BufferSize /\ data \in [1 .. BufferSize -> T]
  BY ConstantTypes DEF TypeOK
<1> HIDE DEF T
<1>2. \A i \in 1 .. n : data[i] \in T
  BY <1>1, ConstantTypes
<1>3. /\ SubSeq(data, 1, n) \in Seq(T)
      /\ Len(SubSeq(data, 1, n)) = IF 1 <= n THEN n - 1 + 1 ELSE 0
      /\ \A i \in 1 .. n - 1 + 1 : SubSeq(data, 1, n)[i] = data[1 + i - 1]
  BY <1>1, <1>2, SubSeqProperties
<1>4. Len(SubSeq(data, 1, n)) = n /\ \A i \in 1 .. n : SubSeq(data, 1, n)[i] = data[i]
  BY <1>1, <1>3
<1>5. QED BY <1>3, <1>4 DEF T

LEMMA WorkerBounds ==
  ASSUME Bounds, blockingReadStdin
  PROVE  Bounds'
BY DEF Bounds, blockingReadStdin, ReadResidual, EndBatch, RequestInput, PostRequest, Compare,
       Woken, TimedOut, GiveUp, LoadLength, CopyData, ClearResponse, Release, Step, Return, page

LEMMA WorkerStep ==
  ASSUME TypeOK, Bounds, blockingReadStdin
  PROVE  TypeOK' /\ Bounds'
<1>1. Bounds'
  BY WorkerBounds
<1>2. CASE ReadResidual
  <2>1. PICK n \in ReadSizes :
          Return(First(residualBuffer, n), After(residualBuffer, n)) /\ maxLen' = n
    BY <1>2 DEF ReadResidual
  <2>2. residualBuffer \in Seq(Bytes \cup {Blank})
    BY DEF TypeOK
  <2>3. /\ received' \in Seq(Bytes \cup {Blank}) /\ residualBuffer' \in Seq(Bytes \cup {Blank})
        /\ hasDataBeenDelivered' \in BOOLEAN /\ wpc' \in WorkerSteps
    BY <2>1, <2>2, ReturnTypes
  <2>4. QED BY <1>1, <1>2, <2>1, <2>3 DEF ReadResidual, TypeOK, shared, page
<1>3. CASE EndBatch
  BY <1>1, <1>3 DEF EndBatch, TypeOK, shared, page
<1>4. CASE RequestInput
  <2>1. maxLen' \in ReadSizes /\ REQUEST_READY' \in {0, 1} /\ wpc' \in WorkerSteps
    BY <1>4 DEF RequestInput, WorkerSteps
  <2>2. QED BY <1>1, <1>4, <2>1 DEF RequestInput, TypeOK, page
<1>5. CASE PostRequest
  <2>1. posted' \in Seq(ReadSizes)
    BY <1>5, AppendProperties DEF PostRequest, TypeOK
  <2>2. wpc' \in WorkerSteps
    BY <1>5 DEF PostRequest, Step, WorkerSteps
  <2>3. QED BY <1>1, <1>5, <2>1, <2>2 DEF PostRequest, Step, TypeOK, shared, page
<1>6. CASE Compare \/ Woken \/ TimedOut
  <2>1. wpc' \in WorkerSteps
    BY <1>6 DEF Compare, Woken, TimedOut, Step, WorkerSteps
  <2>2. QED BY <1>1, <1>6, <2>1 DEF Compare, Woken, TimedOut, Step, TypeOK, shared, page
<1>7. CASE GiveUp \/ LoadLength \/ ClearResponse
  <2>1. wpc' \in WorkerSteps /\ REQUEST_READY' \in {0, 1} /\ RESPONSE_READY' \in {0, 1}
        /\ dataLen' \in 0 .. BufferSize
    BY <1>7 DEF GiveUp, LoadLength, ClearResponse, Step, WorkerSteps, TypeOK, shared
  <2>2. QED
    BY <1>1, <1>7, <2>1 DEF GiveUp, LoadLength, ClearResponse, Step, TypeOK, shared, page
<1>8. CASE CopyData
  <2>1. fullData' \in Seq(Bytes \cup {Blank})
    BY <1>8, PrefixTypes DEF CopyData, TypeOK
  <2>2. wpc' \in WorkerSteps
    BY <1>8 DEF CopyData, Step, WorkerSteps
  <2>3. QED BY <1>1, <1>8, <2>1, <2>2 DEF CopyData, Step, TypeOK, shared, page
<1>9. CASE Release
  <2>1. fullData \in Seq(Bytes \cup {Blank}) /\ maxLen \in ReadSizes
    BY DEF TypeOK
  <2>2. /\ received' \in Seq(Bytes \cup {Blank}) /\ residualBuffer' \in Seq(Bytes \cup {Blank})
        /\ hasDataBeenDelivered' \in BOOLEAN /\ wpc' \in WorkerSteps
    BY <1>9, <2>1, ReturnTypes DEF Release
  <2>3. REQUEST_READY' \in {0, 1}
    BY <1>9 DEF Release
  <2>4. QED BY <1>1, <1>9, <2>2, <2>3 DEF Release, TypeOK, page
<1>10. QED
  BY <1>1, <1>2, <1>3, <1>4, <1>5, <1>6, <1>7, <1>8, <1>9 DEF blockingReadStdin

LEMMA InitTypes == Init => TypeOK /\ Bounds
<1> SUFFICES ASSUME Init
             PROVE  TypeOK /\ Bounds
  OBVIOUS
<1>1. /\ stdinBuffer \in Seq(Seq(Bytes)) /\ sending \in Seq(Bytes) /\ Len(sending) = 0
      /\ posted \in Seq(ReadSizes)
      /\ fullData \in Seq(Bytes \cup {Blank}) /\ residualBuffer \in Seq(Bytes \cup {Blank})
      /\ received \in Seq(Bytes \cup {Blank})
  BY EmptySeq DEF Init
<1>2. DATA_LENGTH \in 0 .. BufferSize /\ dataLen \in 0 .. BufferSize /\ typed \in Nat
      /\ typed <= MaxTyped /\ 0 <= BufferSize
  BY ConstantTypes DEF Init
<1>3. data \in [1 .. BufferSize -> Bytes \cup {Blank}]
  BY DEF Init
<1>4. Len(stdinBuffer) = 0 /\ DOMAIN stdinBuffer = {}
  BY EmptySeq DEF Init
<1>5. Bounds
  BY <1>2, <1>4 DEF Bounds
<1>6. ppc \in PageSteps /\ wpc \in WorkerSteps /\ maxLen \in ReadSizes
      /\ hasDataBeenDelivered \in BOOLEAN /\ REQUEST_READY \in {0, 1} /\ RESPONSE_READY \in {0, 1}
      /\ harm \subseteq {"overtaken", "overwritten", "truncated"}
  BY DEF Init, PageSteps, WorkerSteps
<1>7. TypeOK
  BY <1>1, <1>2, <1>3, <1>6 DEF TypeOK
<1>8. QED BY <1>5, <1>7

LEMMA TypesStep ==
  ASSUME TypeOK, Bounds, [Next]_vars
  PROVE  TypeOK' /\ Bounds'
<1>1. CASE UNCHANGED vars
  BY <1>1 DEF vars, shared, page, worker, TypeOK, Bounds
<1>2. QED
  BY <1>1, TypingStep, PageStep, WorkerStep DEF Next

LEMMA TypesCorrect == Spec => [](TypeOK /\ Bounds)
<1>1. TypeOK /\ Bounds /\ [Next]_vars => (TypeOK /\ Bounds)'
  BY TypesStep
<1>2. QED
  BY <1>1, InitTypes, PTL DEF Spec

\* No length is larger than the buffer and no text holds anything but bytes,
\* however the user types.
THEOREM TypeCorrect == Spec => []TypeOK
BY TypesCorrect, PTL

-----------------------------------------------------------------------------
(* The stream *)

(***************************************************************************)
(* StreamIntact is not inductive: it does not say which of the two sides   *)
(* may write the shared buffer, nor in which order the bytes on their way  *)
(* will be read.  Handover says the first, while no answer was stored on   *)
(* another, and Order the second, while there was no harm at all: behind   *)
(* what was read come the bytes the worker has, the answer in the buffer,  *)
(* the text the page sends and the keys it keeps, each from where the one  *)
(* before it ends.                                                         *)
(***************************************************************************)

Whole == harm \subseteq {"overtaken"}

Handover ==
  /\ ppc = "idle" => sending = <<>>
  /\ ppc # "idle" => RESPONSE_READY = 0
  /\ ppc \in {"length", "signal"} => \A i \in 1 .. Len(sending) : data[i] = sending[i]
  /\ ppc = "signal" => DATA_LENGTH = Len(sending)
  /\ wpc \in {"length", "copy", "clear"} => RESPONSE_READY = 1
  /\ wpc \in {"copy", "clear"} => dataLen = DATA_LENGTH
  /\ wpc = "clear" => /\ Len(fullData) = DATA_LENGTH
                      /\ \A i \in 1 .. DATA_LENGTH : fullData[i] = data[i]
  /\ wpc # "idle" => residualBuffer = <<>>

LEMMA NumberTypes ==
  ASSUME TypeOK
  PROVE  /\ typed \in Nat /\ Len(received) \in Nat /\ Len(sending) \in Nat
         /\ Len(fullData) \in Nat /\ Len(residualBuffer) \in Nat /\ Len(stdinBuffer) \in Nat
         /\ DATA_LENGTH \in Nat /\ DATA_LENGTH <= BufferSize /\ Len(sending) <= BufferSize
         /\ dataLen \in Nat /\ maxLen \in Nat /\ maxLen >= 1
BY ConstantTypes, LenProperties DEF TypeOK

\* What one step of a thread does to the other's flag: the page stores an answer
\* only on an empty buffer, the worker only takes it away.
LEMMA SentOnEmpty ==
  ASSUME TypeOK, Whole',
         (\E size \in ChunkSizes : handleTerminalInput(size)) \/ handleStdinRequest
  PROVE  /\ UNCHANGED <<shared, worker, received>>
         /\ \/ UNCHANGED <<ppc, sending>>
            \/ ppc' = "data" /\ RESPONSE_READY = 0
BY DEF handleTerminalInput, handleStdinRequest, sendStdinToWorker, Overwritten, Whole, TypeOK, page

LEMMA HandoverStep ==
  ASSUME TypeOK, Handover, Next, Whole'
  PROVE  Handover'
<1>1. CASE (\E size \in ChunkSizes : handleTerminalInput(size)) \/ handleStdinRequest
  <2>1. UNCHANGED <<shared, worker>>
        /\ (UNCHANGED <<ppc, sending>> \/ (ppc' = "data" /\ RESPONSE_READY = 0))
    BY <1>1, SentOnEmpty
  <2>2. CASE UNCHANGED <<ppc, sending>>
    BY <2>1, <2>2 DEF Handover, shared, worker
  <2>3. CASE ppc' = "data" /\ RESPONSE_READY = 0
    BY <2>1, <2>3 DEF Handover, shared, worker
  <2>4. QED BY <2>1, <2>2, <2>3
<1>2. CASE StoreData
  <2>1. \A i \in 1 .. Len(sending) : data'[i] = sending[i]
    BY <1>2, NumberTypes, ConstantTypes DEF StoreData
  <2>2. QED BY <1>2, <2>1 DEF StoreData, Handover, worker
<1>3. CASE StoreLength
  BY <1>3 DEF StoreLength, Handover, worker
<1>4. CASE Signal
  BY <1>4 DEF Signal, Handover, worker
<1>5. CASE ReadResidual \/ EndBatch \/ RequestInput
  BY <1>5 DEF ReadResidual, EndBatch, RequestInput, Return, Handover, shared, page
<1>6. CASE PostRequest \/ Compare \/ Woken \/ TimedOut \/ GiveUp
  BY <1>6 DEF PostRequest, Compare, Woken, TimedOut, GiveUp, Step, Handover, TypeOK, shared, page
<1>7. CASE LoadLength \/ ClearResponse
  BY <1>7 DEF LoadLength, ClearResponse, Step, Handover, shared, page
<1>8. CASE CopyData
  <2>1. Len(fullData') = dataLen /\ \A i \in 1 .. dataLen : fullData'[i] = data[i]
    BY <1>8, PrefixTypes DEF CopyData, TypeOK
  <2>2. QED BY <1>8, <2>1 DEF CopyData, Step, Handover, shared, page
<1>9. CASE Release
  BY <1>9 DEF Release, Return, Handover, page
<1>10. QED
  BY <1>1, <1>2, <1>3, <1>4, <1>5, <1>6, <1>7, <1>8, <1>9 DEF Next, Page, blockingReadStdin

-----------------------------------------------------------------------------
(* Nothing is lost *)

LEMMA SetOf ==
  ASSUME NEW S, NEW s \in Seq(S), NEW b
  PROVE  b \in ToSet(s) <=> \E i \in 1 .. Len(s) : s[i] = b
BY LenProperties DEF ToSet

\* Where a byte may be: NothingLost says that each one that was typed is there.
Kept(b) == \E i \in DOMAIN stdinBuffer : b \in ToSet(stdinBuffer[i])
Somewhere(b) ==
  \/ Kept(b)
  \/ b \in ToSet(sending) \/ b \in InTransit \/ b \in InHand
  \/ b \in ToSet(residualBuffer) \/ b \in ToSet(received)

LEMMA NothingLostMeans == NothingLost <=> \A b \in 1 .. typed : Somewhere(b)
BY DEF NothingLost, Somewhere, Kept

LEMMA NothingInEmpty == ToSet(<<>>) = {}
BY EmptySeq DEF ToSet

LEMMA TypingKeeps ==
  ASSUME TypeOK, Handover, Whole', NothingLost,
         NEW size \in ChunkSizes, handleTerminalInput(size)
  PROVE  NothingLost'
<1> DEFINE k == Key(typed, size)
           Q == stdinBuffer'
<1>1. /\ typed \in Nat /\ size \in Nat /\ typed + size <= MaxTyped
      /\ typed' = typed + size /\ ppc = "idle"
      /\ UNCHANGED <<shared, worker, received>>
  BY ConstantTypes DEF handleTerminalInput, TypeOK
<1>2. k \in Seq(Bytes) /\ Len(k) = size /\ \A i \in 1 .. size : k[i] = typed + i
  BY <1>1, KeyTypes
<1>3. \/ sending' = k /\ UNCHANGED stdinBuffer
      \/ Q = Append(stdinBuffer, k) /\ UNCHANGED sending
  BY DEF handleTerminalInput, sendStdinToWorker
<1> HIDE DEF k
<1>4. ASSUME NEW b \in 1 .. typed'
      PROVE  b \in 1 .. typed \/ b \in ToSet(k)
  <2>1. CASE b <= typed
    BY <1>1, <2>1
  <2>2. CASE b > typed
    <3>1. b - typed \in 1 .. size /\ typed + (b - typed) = b
      BY <1>1, <2>2
    <3>2. k[b - typed] = b
      BY <1>2, <3>1
    <3>3. QED BY <1>2, <3>1, <3>2, SetOf
  <2>3. QED BY <1>1, <2>1, <2>2
<1>5. sending = <<>> /\ ToSet(sending) = {}
  BY <1>1, NothingInEmpty DEF Handover
<1>6. InTransit' = InTransit /\ InHand' = InHand
  BY <1>1 DEF InTransit, InHand, shared, worker
<1>7. /\ ToSet(sending') = ToSet(k) \/ (Q = Append(stdinBuffer, k) /\ UNCHANGED sending)
      /\ \A b : Kept(b) => Kept(b)'
      /\ \A b \in ToSet(k) : b \in ToSet(sending') \/ Kept(b)'
  <2>1. CASE sending' = k /\ UNCHANGED stdinBuffer
    BY <2>1 DEF Kept
  <2>2. CASE Q = Append(stdinBuffer, k) /\ UNCHANGED sending
    <3>1. /\ stdinBuffer \in Seq(Seq(Bytes)) /\ Q \in Seq(Seq(Bytes))
          /\ Len(stdinBuffer) \in Nat
          /\ DOMAIN Q = 1 .. Len(stdinBuffer) + 1 /\ DOMAIN stdinBuffer = 1 .. Len(stdinBuffer)
          /\ \A i \in 1 .. Len(stdinBuffer) : Q[i] = stdinBuffer[i]
          /\ Q[Len(stdinBuffer) + 1] = k
      BY <1>2, <2>2, AppendProperties, LenProperties DEF TypeOK
    <3> HIDE DEF Q
    <3>2. \A b : Kept(b) => Kept(b)'
      BY <3>1 DEF Kept, Q
    <3>3. \A b \in ToSet(k) : Kept(b)'
      <4>1. Len(stdinBuffer) + 1 \in DOMAIN Q
        BY <3>1
      <4>2. QED BY <3>1, <4>1 DEF Kept, Q
    <3>4. QED BY <2>2, <3>2, <3>3
  <2>3. QED BY <1>3, <2>1, <2>2
<1>8. \A b \in 1 .. typed : Somewhere(b) => Somewhere(b)'
  BY <1>1, <1>5, <1>6, <1>7 DEF Somewhere, worker
<1>9. QED
  BY <1>4, <1>7, <1>8, NothingLostMeans DEF NothingLost, Somewhere, Kept

\* A key that is not cut is sent whole.
LEMMA RequestKeeps ==
  ASSUME TypeOK, Handover, Whole', NothingLost, handleStdinRequest
  PROVE  NothingLost'
<1>1. ppc = "idle" /\ UNCHANGED <<shared, worker, typed, received>>
  BY DEF handleStdinRequest
<1>2. sending = <<>> /\ ToSet(sending) = {}
  BY <1>1, NothingInEmpty DEF Handover
<1>3. InTransit' = InTransit /\ InHand' = InHand
  BY <1>1 DEF InTransit, InHand, shared, worker
<1>4. CASE UNCHANGED page
  BY <1>1, <1>3, <1>4 DEF NothingLost, page, worker
<1>5. CASE stdinBuffer # <<>>
  <2> DEFINE h == Head(stdinBuffer)
             n == Head(posted)
             q == stdinBuffer
             T == stdinBuffer'
  <2>1. /\ T = Tail(q) /\ sending' = First(h, n)
        /\ harm' = harm \cup Overwritten \cup Truncated(h, n)
    BY <1>5 DEF handleStdinRequest, sendStdinToWorker
  <2>2. Len(h) <= n
    BY <2>1 DEF Truncated, Whole
  <2>3. n \in Nat
    BY HeadTailProperties, ConstantTypes DEF handleStdinRequest, TypeOK
  <2>4. /\ q \in Seq(Seq(Bytes)) /\ h \in Seq(Bytes) /\ h = q[1]
        /\ T \in Seq(Seq(Bytes)) /\ Len(q) \in Nat
        /\ DOMAIN q = 1 .. Len(q) /\ DOMAIN T = 1 .. Len(q) - 1
        /\ \A i \in 1 .. Len(q) - 1 : T[i] = q[i + 1]
    BY <1>5, <2>1, HeadTailProperties, LenProperties DEF TypeOK
  <2>5. ToSet(h) \subseteq ToSet(sending')
    <3>1. /\ First(h, n) \in Seq(Bytes) /\ Len(First(h, n)) = Len(h)
          /\ \A i \in 1 .. Len(h) : First(h, n)[i] = h[i]
      <4> HIDE DEF h, n
      <4>1. Len(h) \in Nat
        BY <2>4, LenProperties
      <4>2. /\ First(h, n) \in Seq(Bytes)
            /\ Len(First(h, n)) = IF n < Len(h) THEN n ELSE Len(h)
            /\ \A i \in 1 .. Len(First(h, n)) : First(h, n)[i] = h[i]
        BY <2>3, <2>4, CutTypes
      <4>3. Len(First(h, n)) = Len(h)
        BY <2>2, <2>3, <4>1, <4>2
      <4>4. QED BY <4>2, <4>3
    <3> HIDE DEF h, n
    <3>2. QED BY <2>1, <2>4, <3>1, SetOf
  <2> HIDE DEF h, n, q, T
  <2>6. \A b : Kept(b) => Kept(b)' \/ b \in ToSet(sending')
    <3> SUFFICES ASSUME NEW b, NEW i \in DOMAIN q, b \in ToSet(q[i])
                 PROVE  Kept(b)' \/ b \in ToSet(sending')
      BY DEF Kept, q
    <3>1. CASE i = 1
      BY <2>4, <2>5, <3>1
    <3>2. CASE i # 1
      <4>1. i - 1 \in DOMAIN T /\ T[i - 1] = q[i]
        BY <2>4, <3>2
      <4>2. QED BY <4>1 DEF Kept, T
    <3>3. QED BY <3>1, <3>2
  <2>7. \A b : Somewhere(b) => Somewhere(b)'
    BY <1>1, <1>2, <1>3, <2>6 DEF Somewhere, worker
  <2>8. QED BY <1>1, <2>7, NothingLostMeans DEF NothingLost, Somewhere, Kept
<1>6. QED BY <1>4, <1>5 DEF handleStdinRequest

\* A step that moves no byte.
LEMMA NothingMoves ==
  ASSUME NothingLost, InTransit \subseteq InTransit', InHand \subseteq InHand',
         UNCHANGED <<stdinBuffer, sending, residualBuffer, typed, received>>
  PROVE  NothingLost'
<1>1. \A b : Somewhere(b) => Somewhere(b)'
  BY DEF Somewhere, Kept
<1>2. QED BY <1>1, NothingLostMeans DEF NothingLost, Somewhere, Kept

LEMMA SendingKeeps ==
  ASSUME TypeOK, Handover, NothingLost, StoreData \/ StoreLength \/ Signal
  PROVE  NothingLost'
<1>1. RESPONSE_READY = 0 /\ InTransit = {}
  BY DEF StoreData, StoreLength, Signal, Handover, InTransit
<1>2. CASE StoreData \/ StoreLength
  BY <1>1, <1>2, NothingMoves DEF StoreData, StoreLength, InHand, worker
<1>3. CASE Signal
  <2> DEFINE s == SubSeq(data, 1, DATA_LENGTH)
  <2>1. /\ DATA_LENGTH = Len(sending) /\ \A i \in 1 .. Len(sending) : data[i] = sending[i]
        /\ UNCHANGED <<DATA_LENGTH, data, stdinBuffer, worker, typed, received>>
        /\ RESPONSE_READY' = 1
    BY <1>3 DEF Signal, Handover
  <2>2. s \in Seq(Bytes \cup {Blank}) /\ Len(s) = DATA_LENGTH
        /\ \A i \in 1 .. DATA_LENGTH : s[i] = data[i]
    BY PrefixTypes DEF TypeOK
  <2>3. InTransit' = ToSet(s)
    BY <2>1 DEF InTransit
  <2>4. sending \in Seq(Bytes)
    BY DEF TypeOK
  <2> HIDE DEF s
  <2>5. ToSet(sending) \subseteq InTransit'
    BY <2>1, <2>2, <2>3, <2>4, SetOf
  <2>6. InHand' = InHand
    BY <2>1 DEF InHand, worker
  <2>7. \A b : Somewhere(b) => Somewhere(b)'
    BY <1>1, <2>1, <2>5, <2>6 DEF Somewhere, Kept, worker
  <2>8. QED BY <2>1, <2>7, NothingLostMeans DEF NothingLost, Somewhere, Kept
<1>4. QED BY <1>2, <1>3

\* What is cut is returned or left over.
LEMMA ReturnKeeps ==
  ASSUME TypeOK, NEW s \in Seq(Bytes \cup {Blank}), NEW n \in ReadSizes,
         Return(First(s, n), After(s, n))
  PROVE  ToSet(s) \cup ToSet(received) \subseteq ToSet(received') \cup ToSet(residualBuffer')
<1> DEFINE T == Bytes \cup {Blank}
           f == First(s, n)
           a == After(s, n)
           r == received
<1>1. Len(r) \in Nat /\ Len(s) \in Nat /\ n \in Nat /\ n >= 1
  BY NumberTypes, ConstantTypes, LenProperties
<1>2. received' = r \o f /\ residualBuffer' = a /\ r \in Seq(T)
  BY DEF Return, TypeOK
<1>3. /\ f \in Seq(T) /\ a \in Seq(T)
      /\ Len(f) = (IF n < Len(s) THEN n ELSE Len(s))
      /\ Len(a) = (IF n < Len(s) THEN Len(s) - n ELSE 0)
      /\ \A i \in 1 .. Len(f) : f[i] = s[i]
      /\ \A i \in 1 .. Len(a) : a[i] = s[n + i]
  BY <1>1, CutTypes
<1> HIDE DEF T, f, a, r
<1>4. /\ r \o f \in Seq(T) /\ Len(r \o f) = Len(r) + Len(f)
      /\ \A i \in 1 .. Len(r) + Len(f) :
           (r \o f)[i] = IF i <= Len(r) THEN r[i] ELSE f[i - Len(r)]
  <2>1. r \in Seq(T) /\ f \in Seq(T)
    BY <1>2, <1>3
  <2>2. QED BY ONLY <2>1, ConcatProperties
<1>5. Len(f) \in Nat /\ Len(a) \in Nat
  BY <1>1, <1>3
<1>6. ASSUME NEW b \in ToSet(r)
      PROVE  b \in ToSet(received')
  <2>1. PICK i \in 1 .. Len(r) : r[i] = b
    BY <1>2, SetOf
  <2>2. i \in 1 .. Len(r \o f) /\ (r \o f)[i] = b
    BY <1>1, <1>4, <1>5, <2>1
  <2>3. QED BY <1>2, <1>4, <2>2, SetOf
<1>7. ASSUME NEW b \in ToSet(s)
      PROVE  b \in ToSet(received') \cup ToSet(residualBuffer')
  <2>1. PICK i \in 1 .. Len(s) : s[i] = b
    BY SetOf
  <2>2. CASE i <= n
    <3>1. i \in 1 .. Len(f) /\ f[i] = b
      BY <1>1, <1>3, <2>1, <2>2
    <3>2. Len(r) + i \in 1 .. Len(r \o f) /\ Len(r) + i > Len(r) /\ (Len(r) + i) - Len(r) = i
      BY <1>1, <1>4, <1>5, <3>1
    <3>3. (r \o f)[Len(r) + i] = b
      <4> DEFINE m == Len(r) + i
      <4>1. m \in 1 .. Len(r) + Len(f) /\ ~(m <= Len(r)) /\ m - Len(r) = i
        BY <1>1, <1>4, <3>2
      <4> HIDE DEF m
      <4>2. (r \o f)[m] = f[m - Len(r)]
        BY <1>4, <4>1
      <4>3. QED BY <3>1, <4>1, <4>2 DEF m
    <3>4. QED BY <1>2, <1>4, <3>2, <3>3, SetOf
  <2>3. CASE i > n
    <3>1. i - n \in 1 .. Len(a) /\ n + (i - n) = i
      BY <1>1, <1>3, <2>1, <2>3
    <3>2. a[i - n] = b
      BY <1>3, <2>1, <3>1
    <3>3. QED BY <1>2, <1>3, <3>1, <3>2, SetOf
  <2>4. QED BY <1>1, <2>1, <2>2, <2>3
<1>8. QED BY <1>6, <1>7 DEF r

LEMMA WorkerKeeps ==
  ASSUME TypeOK, Handover, NothingLost, blockingReadStdin
  PROVE  NothingLost'
<1>1. CASE ReadResidual
  <2>1. PICK n \in ReadSizes :
          Return(First(residualBuffer, n), After(residualBuffer, n)) /\ maxLen' = n
    BY <1>1 DEF ReadResidual
  <2>2. ToSet(residualBuffer) \cup ToSet(received)
          \subseteq ToSet(received') \cup ToSet(residualBuffer')
    BY <2>1, ReturnKeeps DEF TypeOK
  <2>3. InTransit' = InTransit /\ InHand = {}
    BY <1>1 DEF ReadResidual, InTransit, InHand, shared
  <2>4. \A b : Somewhere(b) => Somewhere(b)'
    BY <1>1, <2>2, <2>3 DEF ReadResidual, Somewhere, Kept, page
  <2>5. QED
    BY <1>1, <2>4, NothingLostMeans DEF ReadResidual, NothingLost, Somewhere, Kept
<1>2. CASE EndBatch \/ RequestInput
  BY <1>2, NothingMoves DEF EndBatch, RequestInput, InTransit, InHand, shared, page
<1>3. CASE PostRequest \/ Compare \/ Woken \/ TimedOut \/ GiveUp \/ LoadLength
  <2>1. InHand = {} /\ InTransit' = InTransit
        /\ UNCHANGED <<stdinBuffer, sending, residualBuffer, typed, received>>
    BY <1>3 DEF PostRequest, Compare, Woken, TimedOut, GiveUp, LoadLength, Step, InTransit,
                InHand, shared, page
  <2>2. QED BY <2>1, NothingMoves
<1>4. CASE CopyData
  <2>1. InHand = {} /\ InTransit' = InTransit
        /\ UNCHANGED <<stdinBuffer, sending, residualBuffer, typed, received>>
    BY <1>4 DEF CopyData, Step, InTransit, InHand, shared, page
  <2>2. QED BY <2>1, NothingMoves
<1>5. CASE ClearResponse
  <2> DEFINE s == SubSeq(data, 1, DATA_LENGTH)
  <2>1. /\ Len(fullData) = DATA_LENGTH /\ \A i \in 1 .. DATA_LENGTH : fullData[i] = data[i]
        /\ InHand = ToSet(fullData) /\ InHand' = ToSet(fullData) /\ InTransit' = {}
        /\ UNCHANGED <<stdinBuffer, sending, residualBuffer, typed, received>>
    BY <1>5 DEF ClearResponse, Step, Handover, InHand, InTransit, page
  <2>2. s \in Seq(Bytes \cup {Blank}) /\ Len(s) = DATA_LENGTH
        /\ \A i \in 1 .. DATA_LENGTH : s[i] = data[i]
    BY PrefixTypes DEF TypeOK
  <2>3. InTransit \subseteq ToSet(s)
    BY DEF InTransit
  <2>4. fullData \in Seq(Bytes \cup {Blank})
    BY DEF TypeOK
  <2> HIDE DEF s
  <2>5. InTransit \subseteq InHand'
    BY <2>1, <2>2, <2>3, <2>4, SetOf
  <2>6. \A b : Somewhere(b) => Somewhere(b)'
    BY <2>1, <2>5 DEF Somewhere, Kept
  <2>7. QED BY <2>1, <2>6, NothingLostMeans DEF NothingLost, Somewhere, Kept
<1>6. CASE Release
  <2>1. Return(First(fullData, maxLen), After(fullData, maxLen)) /\ residualBuffer = <<>>
    BY <1>6 DEF Release, Handover
  <2>2. ToSet(fullData) \cup ToSet(received)
          \subseteq ToSet(received') \cup ToSet(residualBuffer')
    BY <2>1, ReturnKeeps DEF TypeOK
  <2>3. InTransit' = InTransit /\ InHand = ToSet(fullData)
    BY <1>6 DEF Release, InTransit, InHand
  <2>4. ToSet(residualBuffer) = {}
    BY <2>1, NothingInEmpty
  <2>5. \A b : Somewhere(b) => Somewhere(b)'
    BY <1>6, <2>2, <2>3, <2>4 DEF Release, Somewhere, Kept, page
  <2>6. QED BY <1>6, <2>5, NothingLostMeans DEF Release, NothingLost, Somewhere, Kept
<1>7. QED
  BY <1>1, <1>2, <1>3, <1>4, <1>5, <1>6 DEF blockingReadStdin

LEMMA LossStep ==
  ASSUME TypeOK, Handover, NothingLost, Next, Whole'
  PROVE  NothingLost'
BY TypingKeeps, RequestKeeps, SendingKeeps, WorkerKeeps DEF Next, Page

-----------------------------------------------------------------------------
(* The order *)

\* f[1] .. f[n] are the n bytes behind the first `from' ones.
Follow(f, n, from) == \A i \in 1 .. n : f[i] = from + i

\* The key behind the k-th one starts where that ends.
Adjacent(q, k) == q[k + 1][1] = q[k][1] + Len(q[k])

\* Keys one behind the other, from the byte behind `from' up to `to'.
InLine(q, from, to) ==
  /\ \A k \in 1 .. Len(q) : Len(q[k]) >= 1 /\ Follow(q[k], Len(q[k]), q[k][1] - 1)
  /\ \A k \in 1 .. Len(q) - 1 : Adjacent(q, k)
  /\ q = <<>> => from = to
  /\ q # <<>> => q[1][1] = from + 1 /\ to + 1 = q[Len(q)][1] + Len(q[Len(q)])

\* The last byte the worker has taken out of the buffer, the last one in it, and
\* the last one the page has sent or is sending.
AtWorker == Len(received) + Len(residualBuffer)
              + (IF wpc = "release" THEN Len(fullData) ELSE 0)
AtBuffer == AtWorker + (IF RESPONSE_READY = 1 THEN DATA_LENGTH ELSE 0)
AtPage   == AtBuffer + Len(sending)

Order ==
  /\ TypedInOrder
  /\ Follow(residualBuffer, Len(residualBuffer), Len(received))
  /\ wpc = "release" => Follow(fullData, Len(fullData), Len(received))
  /\ RESPONSE_READY = 1 => Follow(data, DATA_LENGTH, AtWorker)
  /\ Follow(sending, Len(sending), AtBuffer)
  /\ InLine(stdinBuffer, AtPage, typed)

LEMMA AtTypes ==
  ASSUME TypeOK
  PROVE  AtWorker \in Nat /\ AtBuffer \in Nat /\ AtPage \in Nat
<1> DEFINE inHand == IF wpc = "release" THEN Len(fullData) ELSE 0
           inBuffer == IF RESPONSE_READY = 1 THEN DATA_LENGTH ELSE 0
           r == Len(received)
           l == Len(residualBuffer)
           s == Len(sending)
<1>1. inHand \in Nat /\ inBuffer \in Nat /\ r \in Nat /\ l \in Nat /\ s \in Nat
  BY NumberTypes
<1>2. /\ AtWorker = r + l + inHand
      /\ AtBuffer = r + l + inHand + inBuffer
      /\ AtPage = r + l + inHand + inBuffer + s
  BY DEF AtWorker, AtBuffer, AtPage
<1> HIDE DEF inHand, inBuffer, r, l, s
<1>3. QED BY <1>1, <1>2

\* A key joins the end of the line,
LEMMA InLineAppend ==
  ASSUME NEW S, NEW q \in Seq(Seq(S)), NEW from \in Nat, NEW to \in Nat, InLine(q, from, to),
         NEW key \in Seq(S), NEW size \in Nat, size >= 1, Len(key) = size,
         Follow(key, size, to)
  PROVE  InLine(Append(q, key), from, to + size)
<1> DEFINE Q == Append(q, key)
           m == Len(q)
<1>1. /\ Q \in Seq(Seq(S)) /\ Len(Q) = m + 1 /\ m \in Nat
      /\ \A k \in 1 .. m : Q[k] = q[k]
      /\ Q[m + 1] = key
  BY AppendProperties, LenProperties
<1>2. Q # <<>> /\ (q = <<>> <=> m = 0)
  BY <1>1, EmptySeq
<1> HIDE DEF Q, m
<1>3. key[1] = to + 1 /\ Follow(key, size, key[1] - 1)
  BY DEF Follow
<1>4. ASSUME NEW k \in 1 .. Len(Q)
      PROVE  Len(Q[k]) >= 1 /\ Follow(Q[k], Len(Q[k]), Q[k][1] - 1)
  <2>1. CASE k = m + 1
    BY <1>1, <1>3, <2>1
  <2>2. CASE k \in 1 .. m
    BY <1>1, <2>2 DEF InLine, m
  <2>3. QED BY <1>1, <2>1, <2>2
<1>5. ASSUME NEW k \in 1 .. Len(Q) - 1
      PROVE  Adjacent(Q, k)
  <2>1. k \in 1 .. m /\ Q[k] = q[k]
    BY <1>1
  <2>2. CASE k = m
    <3>1. Q[k + 1][1] = to + 1
      BY <1>1, <1>3, <2>2
    <3>2. to + 1 = q[m][1] + Len(q[m])
      BY <1>1, <1>2, <2>1, <2>2 DEF InLine, m
    <3>3. QED BY <2>1, <2>2, <3>1, <3>2 DEF Adjacent
  <2>3. CASE k # m
    <3>1. k \in 1 .. m - 1 /\ k + 1 \in 1 .. m
      BY <1>1, <2>1, <2>3
    <3>2. Adjacent(q, k)
      BY <3>1 DEF InLine, m
    <3>3. Q[k + 1] = q[k + 1]
      BY <1>1, <3>1
    <3>4. QED BY <2>1, <3>2, <3>3 DEF Adjacent
  <2>4. QED BY <2>2, <2>3
<1>6. Q[1][1] = from + 1
  <2>1. CASE m = 0
    <3>1. from = to
      BY <1>2, <2>1 DEF InLine
    <3>2. Q[1] = key
      BY <1>1, <2>1
    <3>3. QED BY <1>3, <3>1, <3>2
  <2>2. CASE m # 0
    <3>1. q[1][1] = from + 1
      BY <1>2, <2>2 DEF InLine
    <3>2. Q[1] = q[1]
      BY <1>1, <2>2
    <3>3. QED BY <3>1, <3>2
  <2>3. QED BY <2>1, <2>2
<1>7. (to + size) + 1 = Q[Len(Q)][1] + Len(Q[Len(Q)])
  <2>1. Q[Len(Q)] = key
    BY <1>1
  <2>2. (to + size) + 1 = (to + 1) + size
    OBVIOUS
  <2>3. QED BY <1>3, <2>1, <2>2
<1>8. QED BY <1>2, <1>4, <1>5, <1>6, <1>7 DEF InLine, Q

\* and leaves it at its head.
LEMMA InLineTail ==
  ASSUME NEW S, NEW q \in Seq(Seq(S)), q # <<>>, NEW from \in Nat, NEW to \in Nat,
         InLine(q, from, to)
  PROVE  /\ Follow(Head(q), Len(Head(q)), from)
         /\ InLine(Tail(q), from + Len(Head(q)), to)
<1> DEFINE h == q[1]
           Q == Tail(q)
           m == Len(q)
           n == Len(h)
           next == from + n
<1>1. /\ Head(q) = h /\ h \in Seq(S) /\ Q \in Seq(Seq(S)) /\ m \in Nat /\ m >= 1
      /\ Len(Q) = m - 1 /\ \A k \in 1 .. m - 1 : Q[k] = q[k + 1]
  BY HeadTailProperties, LenProperties, EmptySeq
<1>2. (Q = <<>> <=> m = 1) /\ n \in Nat
  <2>1. n \in Nat
    BY <1>1, LenProperties
  <2>2. Q = <<>> <=> Len(Q) = 0
    BY <1>1, EmptySeq
  <2> HIDE DEF Q, m, n
  <2>3. QED BY <1>1, <2>1, <2>2
<1>3. /\ h[1] = from + 1 /\ Follow(h, n, h[1] - 1)
      /\ to + 1 = q[m][1] + Len(q[m])
      /\ \A k \in 1 .. m : Len(q[k]) >= 1 /\ Follow(q[k], Len(q[k]), q[k][1] - 1)
      /\ \A k \in 1 .. m - 1 : Adjacent(q, k)
  BY <1>1 DEF InLine
<1> HIDE DEF Q, m, h, n
<1>4. Follow(h, n, from)
  <2>1. h[1] - 1 = from
    BY <1>3
  <2>2. QED BY <1>3, <2>1
<1>5. ASSUME NEW k \in 1 .. Len(Q)
      PROVE  /\ Len(Q[k]) >= 1 /\ Follow(Q[k], Len(Q[k]), Q[k][1] - 1)
             /\ k \in 1 .. Len(Q) - 1 => Adjacent(Q, k)
  <2>1. k \in 1 .. m - 1 /\ k + 1 \in 1 .. m /\ Q[k] = q[k + 1]
    BY <1>1
  <2>2. Len(Q[k]) >= 1 /\ Follow(Q[k], Len(Q[k]), Q[k][1] - 1)
    BY <1>3, <2>1
  <2>3. ASSUME k \in 1 .. Len(Q) - 1
        PROVE  Adjacent(Q, k)
    <3>1. k + 1 \in 1 .. m - 1 /\ Q[k + 1] = q[(k + 1) + 1]
      BY <1>1, <2>3
    <3>2. Adjacent(q, k + 1)
      <4> DEFINE j == k + 1
      <4>1. j \in 1 .. m - 1
        BY <3>1
      <4> HIDE DEF j
      <4>2. Adjacent(q, j)
        BY <1>3, <4>1
      <4>3. QED BY <4>2 DEF j
    <3>3. QED BY <2>1, <3>1, <3>2 DEF Adjacent
  <2>4. QED BY <2>2, <2>3
<1>6. CASE m = 1
  <2>1. q[m] = h /\ to + 1 = h[1] + n
    BY <1>3, <1>6 DEF h, n
  <2>2. next = to
    BY <1>2, <1>3, <2>1
  <2>3. Q = <<>>
    BY <1>2, <1>6
  <2>4. \A k \in 1 .. Len(Q) - 1 : Adjacent(Q, k)
    BY <1>1, <1>6
  <2> HIDE DEF next
  <2>5. InLine(Q, next, to)
    BY <1>5, <2>2, <2>3, <2>4 DEF InLine
  <2>6. QED BY <1>1, <1>4, <2>5 DEF next, Q, n
<1>7. CASE m # 1
  <2>1. q[2][1] = h[1] + n
    <3>1. 1 \in 1 .. m - 1
      BY <1>1, <1>7
    <3>2. Adjacent(q, 1)
      BY <1>3, <3>1
    <3>3. 1 + 1 = 2
      OBVIOUS
    <3>4. QED BY <3>2, <3>3 DEF Adjacent, h, n
  <2>2. Q[1] = q[2] /\ Q[1][1] = next + 1
    <3>1. Q[1] = q[2]
      <4>1. 1 \in 1 .. m - 1
        BY <1>1, <1>7
      <4>2. Q[1] = q[1 + 1]
        BY <1>1, <4>1
      <4>3. QED BY <4>2
    <3>2. (from + 1) + n = (from + n) + 1
      BY <1>2
    <3>3. QED BY <1>3, <2>1, <3>1, <3>2
  <2>3. Q[Len(Q)] = q[m]
    <3>1. m - 1 \in 1 .. m - 1 /\ (m - 1) + 1 = m
      BY <1>1, <1>7
    <3>2. Q[m - 1] = q[(m - 1) + 1]
      BY <1>1, <3>1
    <3>3. QED BY <1>1, <3>1, <3>2
  <2>4. to + 1 = Q[Len(Q)][1] + Len(Q[Len(Q)])
    BY <1>3, <2>3
  <2>5. \A k \in 1 .. Len(Q) - 1 : Adjacent(Q, k)
    <3> SUFFICES ASSUME NEW k \in 1 .. Len(Q) - 1
                 PROVE  Adjacent(Q, k)
      OBVIOUS
    <3>1. k \in 1 .. Len(Q)
      BY <1>1
    <3>2. QED BY <1>5, <3>1
  <2>6. Q # <<>>
    BY <1>2, <1>7
  <2> HIDE DEF next
  <2>7. InLine(Q, next, to)
    BY <1>5, <2>2, <2>4, <2>5, <2>6 DEF InLine
  <2>8. QED BY <1>1, <1>4, <2>7 DEF next, Q, n
<1>8. QED BY <1>6, <1>7

\* A step that moves no byte from one place to the next.
LEMMA OrderStays ==
  ASSUME Order,
         UNCHANGED <<RESPONSE_READY, stdinBuffer, sending, residualBuffer, typed, received>>,
         RESPONSE_READY = 1 => UNCHANGED <<data, DATA_LENGTH>>,
         wpc = "release" <=> wpc' = "release",
         wpc = "release" => UNCHANGED fullData
  PROVE  Order'
<1>1. AtWorker' = AtWorker
  BY DEF AtWorker
<1>2. AtBuffer' = AtBuffer
  BY <1>1 DEF AtBuffer
<1>3. AtPage' = AtPage
  BY <1>2 DEF AtPage
<1>4. QED
  BY <1>1, <1>2, <1>3 DEF Order, TypedInOrder, Follow

LEMMA TypingOrder ==
  ASSUME TypeOK, Handover, Order, harm' = {},
         NEW size \in ChunkSizes, handleTerminalInput(size)
  PROVE  Order'
<1> DEFINE k == Key(typed, size)
<1>1. /\ typed \in Nat /\ size \in Nat /\ size >= 1 /\ typed + size <= MaxTyped
      /\ typed' = typed + size /\ ppc = "idle"
      /\ UNCHANGED <<shared, worker, received>>
  BY ConstantTypes DEF handleTerminalInput, TypeOK
<1>2. k \in Seq(Bytes) /\ Len(k) = size /\ Follow(k, size, typed)
  BY <1>1, KeyTypes DEF Follow
<1>3. sending = <<>> /\ AtPage = AtBuffer /\ AtPage \in Nat
  <2>1. sending = <<>> /\ Len(sending) = 0
    BY <1>1, EmptySeq DEF Handover
  <2>2. AtPage = AtBuffer + Len(sending) /\ AtBuffer \in Nat
    BY AtTypes DEF AtPage
  <2>3. QED BY <2>1, <2>2
<1>4. AtWorker' = AtWorker
  BY <1>1 DEF AtWorker, worker
<1>5. AtBuffer' = AtBuffer
  BY <1>1, <1>4 DEF AtBuffer, shared
<1>6. /\ TypedInOrder'
      /\ Follow(residualBuffer, Len(residualBuffer), Len(received))'
      /\ wpc' = "release" => Follow(fullData, Len(fullData), Len(received))'
      /\ RESPONSE_READY' = 1 => Follow(data, DATA_LENGTH, AtWorker)'
  BY <1>1, <1>4 DEF Order, TypedInOrder, Follow, shared, worker
<1> HIDE DEF k
<1>7. CASE sending' = k /\ stdinBuffer = <<>> /\ UNCHANGED stdinBuffer
  <2>1. typed = AtPage
    BY <1>7 DEF Order, InLine
  <2>2. Len(sending') = size /\ AtPage' = AtBuffer' + Len(sending')
    BY <1>2, <1>7 DEF AtPage
  <2>3. AtPage' = typed'
    BY <1>1, <1>3, <1>5, <2>1, <2>2
  <2>4. Follow(sending, Len(sending), AtBuffer)'
    BY <1>2, <1>3, <1>5, <1>7, <2>1, <2>2
  <2>5. InLine(stdinBuffer, AtPage, typed)'
    <3>1. stdinBuffer' = <<>> /\ Len(stdinBuffer') = 0
      BY <1>7, EmptySeq
    <3>2. QED BY <2>3, <3>1 DEF InLine
  <2>6. QED BY <1>6, <2>4, <2>5 DEF Order
<1>8. CASE stdinBuffer' = Append(stdinBuffer, k) /\ UNCHANGED sending
  <2>1. AtPage' = AtPage
    BY <1>5, <1>8 DEF AtPage
  <2>2. Follow(sending, Len(sending), AtBuffer)'
    BY <1>5, <1>8 DEF Order
  <2>3. stdinBuffer \in Seq(Seq(Bytes)) /\ InLine(stdinBuffer, AtPage, typed)
    BY DEF TypeOK, Order
  <2>4. InLine(Append(stdinBuffer, k), AtPage, typed + size)
    BY <1>1, <1>2, <1>3, <2>3, InLineAppend
  <2>5. InLine(stdinBuffer, AtPage, typed)'
    BY <1>1, <1>8, <2>1, <2>4
  <2>6. QED BY <1>6, <2>2, <2>5 DEF Order
<1>9. \/ sending' = k /\ stdinBuffer = <<>> /\ UNCHANGED stdinBuffer
      \/ stdinBuffer' = Append(stdinBuffer, k) /\ UNCHANGED sending
  BY DEF handleTerminalInput, sendStdinToWorker, Overtaken, k
<1>10. QED BY <1>7, <1>8, <1>9

LEMMA RequestOrder ==
  ASSUME TypeOK, Handover, Order, harm' = {}, handleStdinRequest
  PROVE  Order'
<1>1. ppc = "idle" /\ UNCHANGED <<shared, worker, typed, received>>
  BY DEF handleStdinRequest
<1>2. CASE UNCHANGED page
  BY <1>1, <1>2, OrderStays DEF page, shared, worker
<1>3. CASE stdinBuffer # <<>>
  <2> DEFINE h == Head(stdinBuffer)
             n == Head(posted)
             f == First(h, n)
  <2>1. /\ stdinBuffer' = Tail(stdinBuffer) /\ sending' = f
        /\ harm' = harm \cup Overwritten \cup Truncated(h, n)
    BY <1>3 DEF handleStdinRequest, sendStdinToWorker
  <2>2. Len(h) <= n
    BY <2>1 DEF Truncated
  <2>3. n \in Nat
    BY HeadTailProperties, ConstantTypes DEF handleStdinRequest, TypeOK
  <2>4. stdinBuffer \in Seq(Seq(Bytes)) /\ h \in Seq(Bytes) /\ Len(h) \in Nat
    BY <1>3, HeadTailProperties, LenProperties DEF TypeOK
  <2>5. AtPage = AtBuffer /\ AtPage \in Nat
    <3>1. Len(sending) = 0
      BY <1>1, EmptySeq DEF Handover
    <3>2. AtPage = AtBuffer + Len(sending) /\ AtBuffer \in Nat
      BY AtTypes DEF AtPage
    <3>3. QED BY <3>1, <3>2
  <2>6. /\ Follow(h, Len(h), AtPage)
        /\ InLine(Tail(stdinBuffer), AtPage + Len(h), typed)
    <3>1. InLine(stdinBuffer, AtPage, typed) /\ typed \in Nat
      BY DEF Order, TypeOK
    <3>2. QED BY <1>3, <2>4, <2>5, <3>1, InLineTail
  <2>7. Len(f) = Len(h) /\ \A i \in 1 .. Len(h) : f[i] = h[i]
    <3> HIDE DEF h, n
    <3>1. /\ Len(f) = IF n < Len(h) THEN n ELSE Len(h)
          /\ \A i \in 1 .. Len(f) : f[i] = h[i]
      BY <2>3, <2>4, CutTypes
    <3> HIDE DEF f
    <3>2. Len(f) = Len(h)
      BY <2>2, <2>3, <2>4, <3>1
    <3>3. QED BY <3>1, <3>2
  <2> HIDE DEF h, n, f
  <2>8. AtWorker' = AtWorker
    BY <1>1 DEF AtWorker, worker
  <2>9. AtBuffer' = AtBuffer
    BY <1>1, <2>8 DEF AtBuffer, shared
  <2>10. Follow(sending, Len(sending), AtBuffer)'
    BY <2>1, <2>5, <2>6, <2>7, <2>9 DEF Follow
  <2>11. AtPage' = AtPage + Len(h)
    BY <2>1, <2>5, <2>7, <2>9 DEF AtPage
  <2>12. InLine(stdinBuffer, AtPage, typed)'
    BY <1>1, <2>1, <2>6, <2>11
  <2>13. /\ TypedInOrder'
         /\ Follow(residualBuffer, Len(residualBuffer), Len(received))'
         /\ wpc' = "release" => Follow(fullData, Len(fullData), Len(received))'
         /\ RESPONSE_READY' = 1 => Follow(data, DATA_LENGTH, AtWorker)'
    BY <1>1, <2>8 DEF Order, TypedInOrder, Follow, shared, worker
  <2>14. QED BY <2>10, <2>12, <2>13 DEF Order
<1>4. QED BY <1>2, <1>3 DEF handleStdinRequest

LEMMA SendingOrder ==
  ASSUME TypeOK, Handover, Order, StoreData \/ StoreLength \/ Signal
  PROVE  Order'
<1>1. RESPONSE_READY = 0
  BY DEF StoreData, StoreLength, Signal, Handover
<1>2. CASE StoreData \/ StoreLength
  BY <1>1, <1>2, OrderStays DEF StoreData, StoreLength, worker
<1>3. CASE Signal
  <2> DEFINE n == Len(sending)
  <2>1. /\ DATA_LENGTH = n /\ \A i \in 1 .. n : data[i] = sending[i]
        /\ UNCHANGED <<DATA_LENGTH, data, stdinBuffer, worker, typed, received>>
        /\ RESPONSE_READY' = 1 /\ sending' = <<>> /\ Len(sending') = 0
    BY <1>3, EmptySeq DEF Signal, Handover
  <2>2. n \in Nat /\ AtWorker \in Nat
    BY NumberTypes, AtTypes
  <2>3. AtWorker' = AtWorker
    BY <2>1 DEF AtWorker, worker
  <2>4. AtBuffer = AtWorker /\ AtPage = AtWorker + n
    <3>1. AtBuffer = AtWorker + 0
      BY <1>1 DEF AtBuffer
    <3>2. AtPage = AtBuffer + n
      BY DEF AtPage
    <3> HIDE DEF n
    <3>3. QED BY <2>2, <3>1, <3>2
  <2>5. AtBuffer' = AtWorker + n /\ AtPage' = AtWorker + n
    <3>1. AtBuffer' = AtWorker' + n
      BY <2>1 DEF AtBuffer
    <3>2. AtPage' = AtBuffer' + 0
      BY <2>1 DEF AtPage
    <3> HIDE DEF n
    <3>3. QED BY <2>2, <2>3, <3>1, <3>2
  <2>6. Follow(sending, n, AtBuffer)
    BY DEF Order
  <2> HIDE DEF n
  <2>7. Follow(data, DATA_LENGTH, AtWorker)'
    BY <2>1, <2>3, <2>4, <2>6 DEF Follow
  <2>8. Follow(sending, Len(sending), AtBuffer)'
    BY <2>1 DEF Follow
  <2>9. InLine(stdinBuffer, AtPage, typed)'
    BY <2>1, <2>4, <2>5 DEF Order
  <2>10. /\ TypedInOrder'
         /\ Follow(residualBuffer, Len(residualBuffer), Len(received))'
         /\ wpc' = "release" => Follow(fullData, Len(fullData), Len(received))'
    BY <2>1 DEF Order, TypedInOrder, Follow, worker
  <2>11. QED BY <2>7, <2>8, <2>9, <2>10 DEF Order
<1>4. QED BY <1>2, <1>3

\* The program gets the first bytes of a text that follows what it has read;
\* what is left follows that.
LEMMA ReturnOrder ==
  ASSUME TypeOK, TypedInOrder, NEW s \in Seq(Bytes \cup {Blank}), NEW n \in ReadSizes,
         Follow(s, Len(s), Len(received)), Return(First(s, n), After(s, n))
  PROVE  /\ TypedInOrder'
         /\ Follow(residualBuffer, Len(residualBuffer), Len(received))'
         /\ Len(received') + Len(residualBuffer') = Len(received) + Len(s)
<1> DEFINE T == Bytes \cup {Blank}
           f == First(s, n)
           a == After(s, n)
           p == Len(received)
           l == Len(s)
           c == received \o f
<1>1. p \in Nat /\ l \in Nat /\ n \in Nat /\ n >= 1
  BY NumberTypes, ConstantTypes, LenProperties
<1>2. /\ \A i \in 1 .. l : s[i] = p + i
      /\ \A i \in 1 .. p : received[i] = i
      /\ received' = c /\ residualBuffer' = a /\ received \in Seq(T)
  BY DEF Follow, TypedInOrder, Return, TypeOK
<1> DEFINE q == Len(f)
           m == Len(a)
<1>3. /\ f \in Seq(T) /\ a \in Seq(T)
      /\ q = (IF n < l THEN n ELSE l)
      /\ m = (IF n < l THEN l - n ELSE 0)
      /\ \A i \in 1 .. q : f[i] = s[i]
      /\ \A i \in 1 .. m : a[i] = s[n + i]
  BY <1>1, CutTypes
<1>4. /\ Len(c) = p + q
      /\ \A i \in 1 .. p + q : c[i] = IF i <= p THEN received[i] ELSE f[i - p]
  <2> HIDE DEF T, f
  <2>1. QED BY <1>2, <1>3, ConcatProperties
<1> HIDE DEF T, f, a, p, l, c, q, m
<1>5. q \in Nat /\ m \in Nat /\ q <= l /\ q + m = l /\ (m > 0 => q = n)
  BY <1>1, <1>3
<1>6. ASSUME NEW i \in 1 .. p + q
      PROVE  c[i] = i
  <2>1. CASE i <= p
    BY <1>1, <1>2, <1>4, <2>1
  <2>2. CASE ~(i <= p)
    <3>1. i - p \in 1 .. q /\ i - p \in 1 .. l /\ p + (i - p) = i
      BY <1>1, <1>5, <2>2
    <3>2. c[i] = f[i - p]
      BY <1>4, <2>2
    <3>3. f[i - p] = s[i - p] /\ s[i - p] = p + (i - p)
      BY <1>2, <1>3, <3>1
    <3>4. QED BY <3>1, <3>2, <3>3
  <2>3. QED BY <2>1, <2>2
<1>7. TypedInOrder'
  BY <1>2, <1>4, <1>6 DEF TypedInOrder
<1>8. Len(received') = p + q /\ Len(residualBuffer') = m
  BY <1>2, <1>4 DEF m
<1>9. ASSUME NEW i \in 1 .. m
      PROVE  a[i] = (p + q) + i
  <2>1. m > 0 /\ q = n /\ n + i \in 1 .. l /\ p + (n + i) = (p + n) + i
    BY <1>1, <1>5
  <2>2. a[i] = s[n + i] /\ s[n + i] = p + (n + i)
    BY <1>2, <1>3, <2>1
  <2>3. QED BY <2>1, <2>2
<1>10. Follow(residualBuffer, Len(residualBuffer), Len(received))'
  BY <1>2, <1>8, <1>9 DEF Follow
<1>11. (p + q) + m = p + l
  BY <1>1, <1>5
<1>12. QED BY <1>7, <1>8, <1>10, <1>11 DEF p, l

\* The worker has the same bytes after as before.
LEMMA WorkerHas ==
  ASSUME Order, AtWorker' = AtWorker, TypedInOrder', wpc' # "release",
         Follow(residualBuffer, Len(residualBuffer), Len(received))',
         UNCHANGED <<RESPONSE_READY, DATA_LENGTH, data, stdinBuffer, sending, typed>>
  PROVE  Order'
<1>1. AtBuffer' = AtBuffer
  BY DEF AtBuffer
<1>2. AtPage' = AtPage
  BY <1>1 DEF AtPage
<1>3. QED BY <1>1, <1>2 DEF Order

LEMMA WorkerOrder ==
  ASSUME TypeOK, Handover, Order, blockingReadStdin
  PROVE  Order'
<1>1. CASE ReadResidual
  <2>1. PICK n \in ReadSizes :
          Return(First(residualBuffer, n), After(residualBuffer, n)) /\ maxLen' = n
    BY <1>1 DEF ReadResidual
  <2>2. /\ residualBuffer \in Seq(Bytes \cup {Blank}) /\ TypedInOrder
        /\ Follow(residualBuffer, Len(residualBuffer), Len(received))
    BY DEF TypeOK, Order
  <2>3. /\ TypedInOrder'
        /\ Follow(residualBuffer, Len(residualBuffer), Len(received))'
        /\ Len(received') + Len(residualBuffer') = Len(received) + Len(residualBuffer)
    BY <2>1, <2>2, ReturnOrder
  <2>4. wpc # "release" /\ wpc' # "release"
    BY <1>1, <2>1 DEF ReadResidual, Return
  <2>5. AtWorker' = AtWorker
    BY <2>3, <2>4 DEF AtWorker
  <2>6. QED BY <1>1, <2>3, <2>4, <2>5, WorkerHas DEF ReadResidual, shared, page
<1>2. CASE EndBatch \/ RequestInput
  BY <1>2, OrderStays DEF EndBatch, RequestInput, shared, page
<1>3. CASE PostRequest \/ Compare \/ Woken \/ TimedOut \/ GiveUp \/ LoadLength \/ CopyData
  BY <1>3, OrderStays
  DEF PostRequest, Compare, Woken, TimedOut, GiveUp, LoadLength, CopyData, Step, shared, page
<1>4. CASE ClearResponse
  <2> DEFINE n == DATA_LENGTH
             p == Len(received)
  <2>1. /\ RESPONSE_READY = 1 /\ RESPONSE_READY' = 0 /\ wpc = "clear" /\ wpc' = "release"
        /\ Len(fullData) = n /\ \A i \in 1 .. n : fullData[i] = data[i]
        /\ residualBuffer = <<>> /\ Len(residualBuffer) = 0
        /\ UNCHANGED <<stdinBuffer, sending, fullData, residualBuffer, typed, received>>
    BY <1>4, EmptySeq DEF ClearResponse, Step, Handover, page
  <2>2. n \in Nat /\ p \in Nat
    BY NumberTypes
  <2>3. /\ AtWorker = p + 0 + 0 /\ AtBuffer = AtWorker + n
        /\ AtWorker' = p + 0 + n /\ AtBuffer' = AtWorker' + 0
    BY <2>1 DEF AtWorker, AtBuffer
  <2>4. Follow(data, n, AtWorker)
    BY <2>1 DEF Order
  <2> HIDE DEF n, p
  <2>5. AtWorker = p /\ AtBuffer' = AtBuffer
    BY <2>2, <2>3
  <2>6. AtPage' = AtPage
    BY <2>1, <2>5 DEF AtPage
  <2>7. Follow(fullData, Len(fullData), Len(received))'
    BY <2>1, <2>4, <2>5 DEF Follow, p
  <2>8. QED BY <2>1, <2>5, <2>6, <2>7 DEF Order, TypedInOrder, Follow
<1>5. CASE Release
  <2>1. /\ Return(First(fullData, maxLen), After(fullData, maxLen))
        /\ wpc = "release" /\ wpc' # "release"
        /\ residualBuffer = <<>> /\ Len(residualBuffer) = 0
    BY <1>5, EmptySeq DEF Release, Return, Handover
  <2>2. /\ fullData \in Seq(Bytes \cup {Blank}) /\ maxLen \in ReadSizes /\ TypedInOrder
        /\ Follow(fullData, Len(fullData), Len(received))
    BY <2>1 DEF TypeOK, Order
  <2>3. /\ TypedInOrder'
        /\ Follow(residualBuffer, Len(residualBuffer), Len(received))'
        /\ Len(received') + Len(residualBuffer') = Len(received) + Len(fullData)
    BY <2>1, <2>2, ReturnOrder
  <2>4. AtWorker' = AtWorker
    <3> DEFINE r == Len(received)
               d == Len(fullData)
               x == Len(received') + Len(residualBuffer')
    <3>1. AtWorker = r + 0 + d /\ AtWorker' = x + 0
      BY <2>1 DEF AtWorker
    <3>2. x = r + d /\ r \in Nat /\ d \in Nat
      BY <2>3, NumberTypes
    <3> HIDE DEF r, d, x
    <3>3. QED BY <3>1, <3>2
  <2>5. QED BY <1>5, <2>1, <2>3, <2>4, WorkerHas DEF Release, page
<1>6. QED
  BY <1>1, <1>2, <1>3, <1>4, <1>5 DEF blockingReadStdin

LEMMA OrderStep ==
  ASSUME TypeOK, Handover, Order, Next, harm' = {}
  PROVE  Order'
BY TypingOrder, RequestOrder, SendingOrder, WorkerOrder DEF Next, Page

-----------------------------------------------------------------------------

StreamInv == /\ Whole => Handover /\ NothingLost
             /\ harm = {} => Order

LEMMA StreamStep ==
  ASSUME TypeOK, StreamInv, [Next]_vars
  PROVE  StreamInv'
<1>1. CASE UNCHANGED vars
  <2>1. UNCHANGED <<shared, page, worker, typed, received, harm>>
    BY <1>1 DEF vars
  <2>2. Whole' = Whole
    BY <2>1 DEF Whole
  <2>3. Handover => Handover'
    BY <2>1 DEF Handover, shared, page, worker
  <2>4. NothingLost => NothingLost'
    <3>1. InTransit' = InTransit /\ InHand' = InHand
      BY <2>1 DEF InTransit, InHand, shared, worker
    <3>2. QED BY <2>1, <3>1, NothingMoves DEF page, worker
  <2>5. Order => Order'
    BY <2>1, OrderStays DEF shared, page, worker
  <2>6. QED BY <2>1, <2>2, <2>3, <2>4, <2>5 DEF StreamInv
<1>2. CASE Next
  <2>1. (Whole' => Whole) /\ (harm' = {} => harm = {} /\ Whole')
    BY <1>2, HarmGrows DEF Whole
  <2>2. Whole' => Handover' /\ NothingLost'
    BY <1>2, <2>1, HandoverStep, LossStep DEF StreamInv
  <2>3. harm' = {} => Order'
    BY <1>2, <2>1, OrderStep DEF StreamInv
  <2>4. QED BY <2>2, <2>3 DEF StreamInv
<1>3. QED BY <1>1, <1>2

LEMMA InitStream == Init => StreamInv
<1> SUFFICES ASSUME Init
             PROVE  StreamInv
  OBVIOUS
<1>1. Len(received) = 0 /\ Len(residualBuffer) = 0 /\ Len(sending) = 0
      /\ Len(stdinBuffer) = 0 /\ typed = 0
  BY EmptySeq DEF Init
<1>2. AtWorker = 0 /\ AtBuffer = 0 /\ AtPage = 0
  BY <1>1 DEF Init, AtWorker, AtBuffer, AtPage
<1>3. Handover
  BY <1>1 DEF Init, Handover
<1>4. NothingLost
  BY <1>1 DEF NothingLost
<1>5. Order
  BY <1>1, <1>2 DEF Init, Order, TypedInOrder, Follow, InLine
<1>6. QED BY <1>3, <1>4, <1>5 DEF StreamInv

\* However the user types and the reads time out, the page breaks the stream
\* only where it sends a key past kept ones, stores an answer on one that was
\* not taken, or cuts a kept key: before that the program reads what was typed,
\* in order and once, and overtaking alone loses nothing.
THEOREM TheStreamIsIntact == Spec => []StreamIntact
<1>1. (TypeOK /\ Bounds) /\ StreamInv /\ [Next]_vars => StreamInv'
  BY StreamStep
<1>2. StreamInv => StreamIntact
  BY DEF StreamInv, StreamIntact, Whole, Order
<1>3. QED
  BY <1>1, <1>2, InitStream, TypesCorrect, PTL DEF Spec

=============================================================================

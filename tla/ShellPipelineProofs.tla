------------------------- MODULE ShellPipelineProofs -------------------------
(***************************************************************************)
(* Theorems about ShellPipeline for any pipelines, inputs and sizes.       *)
(* First the types, then how often a substitution is executed, and then    *)
(* that the result is whole: lemmas about parts of texts, about what the   *)
(* commands give, about one stage between its two texts, about the pipes   *)
(* of a window, and about one window after the other.                      *)
(***************************************************************************)
EXTENDS ShellPipeline, SequenceTheorems, FiniteSetTheorems, WellFoundedInduction, TLAPS

-----------------------------------------------------------------------------
(* Texts *)

LEMMA ConstantTypes ==
  /\ MaxStages \in Nat /\ Capacity \in Nat /\ Capacity >= 1 /\ Chunk \in Nat /\ Chunk >= 1
  /\ Inputs \subseteq Seq(Line)
  /\ \A p \in Pipelines : /\ p \in Seq([does: Commands, n: Nat, kind: Kinds])
                          /\ Len(p) >= 1 /\ Len(p) <= MaxStages
<1>1. \A p \in Pipelines : Len(p) >= 1
  BY ConstantsAssumption, EmptySeq
<1>2. MaxStages \in Nat /\ Capacity \in Nat /\ Capacity >= 1 /\ Chunk \in Nat /\ Chunk >= 1
  BY ConstantsAssumption
<1>3. Inputs \subseteq Seq(Line)
  BY ConstantsAssumption DEF Line
<1>4. \A p \in Pipelines : p \in Seq([does: Commands, n: Nat, kind: Kinds]) /\ Len(p) <= MaxStages
  BY ConstantsAssumption
<1>5. QED BY <1>1, <1>2, <1>3, <1>4

\* A set of natural numbers that is not empty has a least one.
LEMMA MinOf ==
  ASSUME NEW T, T \subseteq Nat, T # {}
  PROVE  Min(T) \in T /\ \A y \in T : Min(T) <= y
<1> DEFINE R == {ss \in Nat \X Nat : ss[1] < ss[2]}
<1>1. IsWellFoundedOn(R, Nat)
  BY NatLessThanWellFounded DEF OpToRel
<1> HIDE DEF R
<1>2. PICK x \in T : \A y \in T : ~(<<y, x>> \in R)
  BY <1>1, WFMin
<1>3. \A y \in T : x <= y
  <2> SUFFICES ASSUME NEW y \in T, y < x
               PROVE  FALSE
    OBVIOUS
  <2>1. <<y, x>> \in Nat \X Nat /\ <<y, x>>[1] < <<y, x>>[2]
    OBVIOUS
  <2>2. <<y, x>> \in R
    BY <2>1 DEF R
  <2>3. QED BY <1>2, <2>2
<1>4. QED BY <1>3 DEF Min

LEMMA MinOfTwo ==
  ASSUME NEW a \in Nat, NEW b \in Nat
  PROVE  /\ Min({a, b}) \in Nat /\ Min({a, b}) <= a /\ Min({a, b}) <= b
         /\ Min({a, b}) = a \/ Min({a, b}) = b
BY MinOf

LEMMA LossyTypes ==
  ASSUME NEW s \in Seq(Line)
  PROVE  Lossy(s) \in Seq(Line) /\ Len(Lossy(s)) = Len(s)
<1>1. Len(s) \in Nat /\ DOMAIN s = 1 .. Len(s) /\ \A j \in 1 .. Len(s) : s[j] \in Line
  BY LenProperties, ElementOfSeq
<1>2. Lossy(s) \in [1 .. Len(s) -> Line]
  BY <1>1 DEF Lossy, Replaced, Line
<1>3. Lossy(s) \in Seq(Line)
  BY <1>1, <1>2, SeqDef
<1>4. QED BY <1>1, <1>2, <1>3, LenProperties

LEMMA DecodedTypes ==
  ASSUME NEW s \in Seq(Line)
  PROVE  /\ Decoded(s) \in Seq(Line) /\ Len(Decoded(s)) <= Len(s)
         /\ \A i \in 1 .. Len(Decoded(s)) : Decoded(s)[i] = s[i]
<1> DEFINE I == {i \in 1 .. Len(s) : s[i] = Raw}
           k == SelectInSeq(s, LAMBDA l : l = Raw)
<1>1. Len(s) \in Nat /\ \A j \in 1 .. Len(s) : s[j] \in Line
  BY LenProperties, ElementOfSeq
<1>2. k = IF I # {} THEN Min(I) ELSE 0
  BY DEF SelectInSeq
<1>3. k = 0 \/ k \in 1 .. Len(s)
  BY <1>1, <1>2, MinOf
<1>4. Decoded(s) = IF k = 0 THEN s ELSE SubSeq(s, 1, k - 1)
  BY DEF Decoded
<1> HIDE DEF I, k
<1>5. CASE k = 0
  BY <1>1, <1>4, <1>5
<1>6. CASE k \in 1 .. Len(s)
  <2> DEFINE m == k - 1
  <2>1. m \in Nat /\ m < Len(s) /\ k # 0
    BY <1>1, <1>6
  <2>2. Decoded(s) = SubSeq(s, 1, m)
    BY <1>4, <2>1
  <2> HIDE DEF m
  <2>3. \A i \in 1 .. m : s[i] \in Line
    BY <1>1, <2>1
  <2>4. /\ SubSeq(s, 1, m) \in Seq(Line)
        /\ Len(SubSeq(s, 1, m)) = IF 1 <= m THEN m - 1 + 1 ELSE 0
        /\ \A i \in 1 .. m - 1 + 1 : SubSeq(s, 1, m)[i] = s[1 + i - 1]
    BY <2>1, <2>3, SubSeqProperties
  <2>5. QED BY <1>1, <2>1, <2>2, <2>4
<1>7. QED BY <1>3, <1>5, <1>6

(***************************************************************************)
(* Sorted has a line for every rank: the ranks of n lines are n different  *)
(* numbers between 1 and n.                                                *)
(***************************************************************************)
LEMMA SortedTypes ==
  ASSUME NEW s \in Seq(Line)
  PROVE  Sorted(s) \in Seq(Line) /\ Len(Sorted(s)) = Len(s)
<1> DEFINE D == DOMAIN s
           n == Len(s)
           Upto(i) == {j \in D : s[j] < s[i] \/ (s[j] = s[i] /\ j <= i)}
           rk(i) == Cardinality(Upto(i))
           rank == [i \in D |-> rk(i)]
<1>1. n \in Nat /\ D = 1 .. n /\ \A j \in D : s[j] \in Int
  BY LenProperties, ElementOfSeq DEF Line
<1>2. Sorted(s) = [r \in D |-> s[CHOOSE i \in D : rk(i) = r]]
  BY DEF Sorted
<1>3. IsFiniteSet(D) /\ Cardinality(D) = n
  <2>1. IsFiniteSet(1 .. n) /\ Cardinality(1 .. n) = IF 1 > n THEN 0 ELSE n - 1 + 1
    <3>1. 1 \in Int /\ n \in Int
      BY <1>1
    <3> HIDE DEF n
    <3>2. QED BY ONLY <3>1, FS_Interval
  <2>2. (IF 1 > n THEN 0 ELSE n - 1 + 1) = n
    BY <1>1
  <2>3. QED BY <1>1, <2>1, <2>2
<1>4. ASSUME NEW i \in D
      PROVE  /\ IsFiniteSet(Upto(i)) /\ i \in Upto(i)
             /\ rank[i] = rk(i) /\ rk(i) \in D
  <2>1. IsFiniteSet(Upto(i)) /\ Cardinality(Upto(i)) <= n
    BY <1>3, FS_Subset
  <2>2. i \in Upto(i)
    BY <1>1
  <2>3. Cardinality(Upto(i)) \in Nat /\ Cardinality(Upto(i)) # 0
    BY <2>1, <2>2, FS_CardinalityType, FS_EmptySet
  <2>4. QED BY <1>1, <2>1, <2>2, <2>3
<1>5. ASSUME NEW i \in D, NEW k \in D, i # k, rank[i] = rank[k]
      PROVE  FALSE
  <2>1. CASE s[i] < s[k] \/ (s[i] = s[k] /\ i < k)
    <3>1. Upto(i) \subseteq Upto(k)
      BY <1>1, <2>1
    <3>2. k \in Upto(k) /\ k \notin Upto(i)
      BY <1>1, <2>1
    <3>3. IsFiniteSet(Upto(k)) /\ Upto(i) \in SUBSET Upto(k)
          /\ Cardinality(Upto(k)) = Cardinality(Upto(i))
      BY <1>4, <1>5, <3>1
    <3>4. Upto(k) = Upto(i)
      BY <3>3, FS_Subset
    <3>5. QED BY <3>2, <3>4
  <2>2. CASE s[k] < s[i] \/ (s[i] = s[k] /\ k < i)
    <3>1. Upto(k) \subseteq Upto(i)
      BY <1>1, <2>2
    <3>2. i \in Upto(i) /\ i \notin Upto(k)
      BY <1>1, <2>2
    <3>3. IsFiniteSet(Upto(i)) /\ Upto(k) \in SUBSET Upto(i)
          /\ Cardinality(Upto(i)) = Cardinality(Upto(k))
      BY <1>4, <1>5, <3>1
    <3>4. Upto(i) = Upto(k)
      BY <3>3, FS_Subset
    <3>5. QED BY <3>2, <3>4
  <2>3. QED BY <1>1, <1>5, <2>1, <2>2
<1>6. rank \in Injection(D, D)
  <2>1. rank \in [D -> D]
    BY <1>4
  <2>2. \A i, k \in D : rank[i] = rank[k] => i = k
    BY <1>5
  <2> HIDE DEF rank, D
  <2>3. QED BY <2>1, <2>2 DEF Injection, IsInjective
<1>7. rank \in Surjection(D, D)
  <2> HIDE DEF rank, D
  <2>1. QED BY <1>3, <1>6, FS_Injection
<1>8. ASSUME NEW r \in D
      PROVE  s[CHOOSE i \in D : rk(i) = r] \in Line
  <2>1. \E i \in D : rk(i) = r
    <3>1. \A i \in D : rank[i] = rk(i)
      OBVIOUS
    <3> HIDE DEF rank, rk, D
    <3>2. \E i \in D : rank[i] = r
      BY <1>7 DEF Surjection
    <3>3. QED BY <3>1, <3>2
  <2>2. (CHOOSE i \in D : rk(i) = r) \in D
    <3> HIDE DEF rk, D
    <3>1. QED BY <2>1
  <2>3. QED BY <1>1, <2>2, ElementOfSeq
<1>9. Sorted(s) \in [1 .. n -> Line]
  <2> DEFINE line(r) == s[CHOOSE i \in D : rk(i) = r]
  <2>1. Sorted(s) = [r \in D |-> line(r)] /\ \A r \in D : line(r) \in Line
    BY <1>2, <1>8
  <2> HIDE DEF line
  <2>2. QED BY <1>1, <2>1
<1>10. Sorted(s) \in Seq(Line)
  BY <1>1, <1>9, SeqDef
<1>11. QED BY <1>1, <1>9, <1>10, LenProperties

-----------------------------------------------------------------------------
(* Types *)

StageType == [pc: {"created", "reading", "writing", "ended"}, made: Nat, held: Seq(Line)]

\* The pipes between the stages.
PipesOK ==
  /\ pipe \in [0..N -> PipeType]
  /\ \A i \in 0..N : Len(pipe[i].lines) <= Capacity

LEMMA NewPipeTypes ==
  /\ NewPipe \in PipeType /\ NoPipe \in PipeType
  /\ Len(NewPipe.lines) = 0 /\ Len(NoPipe.lines) = 0
<1>1. <<>> \in Seq(Line) /\ Len(<<>>) = 0
  BY EmptySeq
<1>2. NewPipe.lines = <<>> /\ NoPipe.lines = <<>>
  BY DEF NewPipe, NoPipe
<1>3. QED
  BY <1>1, <1>2 DEF NewPipe, NoPipe, PipeType

\* What is done to a pipe: a line is put in or taken out, an end is dropped.
LEMMA PipeOps ==
  ASSUME NEW p \in PipeType
  PROVE  /\ p.lines \in Seq(Line) /\ Len(p.lines) \in Nat
         /\ [p EXCEPT !.reading = FALSE] \in PipeType
         /\ [p EXCEPT !.reading = FALSE].lines = p.lines
         /\ [p EXCEPT !.writing = FALSE] \in PipeType
         /\ [p EXCEPT !.writing = FALSE].lines = p.lines
         /\ \A s \in Seq(Line) : /\ [p EXCEPT !.lines = s] \in PipeType
                                 /\ [p EXCEPT !.lines = s].lines = s
<1>1. p.lines \in Seq(Line)
  BY DEF PipeType
<1>2. Len(p.lines) \in Nat
  BY <1>1, LenProperties
<1>3. QED BY <1>1, <1>2 DEF PipeType

LEMMA PutTypes ==
  ASSUME NEW p \in PipeType, NEW l \in Line
  PROVE  /\ Put(p, l) \in PipeType /\ Put(p, l).lines = Append(p.lines, l)
         /\ Len(Put(p, l).lines) = Len(p.lines) + 1
<1>1. Append(p.lines, l) \in Seq(Line) /\ Len(Append(p.lines, l)) = Len(p.lines) + 1
  <2>1. p.lines \in Seq(Line)
    BY PipeOps
  <2>2. QED BY <2>1, AppendProperties
<1>2. QED BY <1>1, PipeOps DEF Put

LEMMA TailTypes ==
  ASSUME NEW s \in Seq(Line), s # <<>>
  PROVE  Head(s) \in Line /\ Tail(s) \in Seq(Line) /\ Len(Tail(s)) = Len(s) - 1 /\ Len(s) \in Nat
BY HeadTailProperties, LenProperties

\* One pipe of several is replaced.
LEMMA PipeSet ==
  ASSUME NEW n \in Nat, NEW P \in [0..n -> PipeType], NEW i \in 0..n, NEW q \in PipeType,
         \A j \in 0..n : Len(P[j].lines) <= Capacity, Len(q.lines) <= Capacity
  PROVE  /\ [P EXCEPT ![i] = q] \in [0..n -> PipeType]
         /\ \A j \in 0..n : Len([P EXCEPT ![i] = q][j].lines) <= Capacity
OBVIOUS

LEMMA SizeTypes ==
  ASSUME TypeOK
  PROVE  /\ N \in Nat /\ N >= 1 /\ 0 \in 0..N
         /\ at \in Nat /\ at >= 1 /\ at <= N
         /\ FirstStage \in 1..N /\ LastStage \in 1..N
         /\ FirstStage - 1 \in 0..N /\ LastStage \in 0..N
         /\ Window \subseteq Stages
         /\ \A i \in Stages : i \in Nat /\ i \in 0..N /\ i - 1 \in 0..N /\ i # i - 1
<1>1. N \in Nat /\ N >= 1 /\ at \in 1..N
  BY ConstantTypes DEF TypeOK, Stages
<1>2. FirstStage \in 1..N /\ LastStage \in 1..N
  BY <1>1 DEF FirstStage, LastStage
<1>3. QED BY <1>1, <1>2 DEF Window, Stages

\* The actions of the stages leave the rest alone.
LEMMA OnlyStagesTypes ==
  ASSUME TypeOK, OnlyStages, PipesOK', err' \in [Stages -> PipeType],
         stage' \in [Stages -> StageType], code' \in [0..N -> Nat]
  PROVE  TypeOK'
<1>1. N' = N /\ Stages' = Stages
  BY DEF OnlyStages, N, Stages
<1>2. QED
  BY <1>1 DEF TypeOK, OnlyStages, PipesOK, StageType

LEMMA UnchangedPipes ==
  ASSUME TypeOK, pipeline' = pipeline, pipe' = pipe
  PROVE  PipesOK'
BY DEF TypeOK, PipesOK, N

LEMMA SetPipes ==
  ASSUME TypeOK, pipeline' = pipeline, NEW i \in 0..N, NEW q \in PipeType,
         Len(q.lines) <= Capacity, pipe' = [pipe EXCEPT ![i] = q]
  PROVE  PipesOK'
<1>1. N' = N
  BY DEF N
<1>2. /\ N \in Nat /\ pipe \in [0..N -> PipeType]
      /\ \A j \in 0..N : Len(pipe[j].lines) <= Capacity
  BY SizeTypes DEF TypeOK
<1>3. /\ [pipe EXCEPT ![i] = q] \in [0..N -> PipeType]
      /\ \A j \in 0..N : Len([pipe EXCEPT ![i] = q][j].lines) <= Capacity
  BY <1>2, PipeSet
<1>4. QED BY <1>1, <1>3 DEF PipesOK

LEMMA EndsTypes ==
  ASSUME TypeOK, NEW i \in Stages, NEW c \in Nat, Ends(i, c)
  PROVE  TypeOK'
<1> DEFINE p == [pipe EXCEPT ![i - 1].reading = FALSE]
           q == [pipe[i - 1] EXCEPT !.reading = FALSE]
           r == [pipe[i] EXCEPT !.writing = FALSE]
<1>1. /\ N \in Nat /\ i \in 0..N /\ i - 1 \in 0..N /\ i # i - 1
      /\ pipe \in [0..N -> PipeType] /\ \A j \in 0..N : Len(pipe[j].lines) <= Capacity
  BY SizeTypes DEF TypeOK
<1>2. /\ q \in PipeType /\ Len(q.lines) <= Capacity
      /\ r \in PipeType /\ Len(r.lines) <= Capacity
  BY <1>1, PipeOps
<1>3. pipe' = [[pipe EXCEPT ![i - 1] = q] EXCEPT ![i] = r]
  BY <1>1 DEF Ends
<1> HIDE DEF q, r
<1>4. N' = N
  BY DEF Ends, OnlyStages, N
<1>5. PipesOK'
  <2> DEFINE P == [pipe EXCEPT ![i - 1] = q]
  <2>1. P \in [0..N -> PipeType] /\ \A j \in 0..N : Len(P[j].lines) <= Capacity
    BY <1>1, <1>2, PipeSet
  <2>2. pipe' = [P EXCEPT ![i] = r]
    BY <1>3
  <2> HIDE DEF P
  <2>3. /\ [P EXCEPT ![i] = r] \in [0..N -> PipeType]
        /\ \A j \in 0..N : Len([P EXCEPT ![i] = r][j].lines) <= Capacity
    BY <1>1, <1>2, <2>1, PipeSet
  <2>4. QED BY <1>4, <2>2, <2>3 DEF PipesOK
<1>6. err' \in [Stages -> PipeType]
  BY PipeOps DEF Ends, TypeOK
<1>7. stage' \in [Stages -> StageType]
  BY EmptySeq DEF Ends, TypeOK, StageType
<1>8. code' \in [0..N -> Nat]
  BY DEF Ends, TypeOK
<1>9. OnlyStages
  BY DEF Ends
<1>10. QED BY <1>5, <1>6, <1>7, <1>8, <1>9, OnlyStagesTypes

LEMMA TakesTypes ==
  ASSUME TypeOK, NEW i \in Stages, Takes(i)
  PROVE  TypeOK'
<1> DEFINE in == pipe[i - 1]
           h  == stage[i].held
<1>1. PICK k \in 1..Min({Chunk, Len(in.lines)}) :
        /\ pipe' = [pipe EXCEPT ![i - 1].lines = SubSeq(@, k + 1, Len(@))]
        /\ stage' = [stage EXCEPT ![i].held = @ \o SubSeq(in.lines, 1, k)]
        /\ UNCHANGED <<err, code>> /\ OnlyStages
  BY DEF Takes
<1>2. /\ in \in PipeType /\ Len(in.lines) <= Capacity /\ i - 1 \in 0..N
      /\ h \in Seq(Line) /\ Len(in.lines) \in Nat /\ in.lines \in Seq(Line)
  BY SizeTypes, PipeOps DEF TypeOK
<1>3. k \in Nat /\ k >= 1 /\ k <= Len(in.lines)
  <2> DEFINE m == Min({Chunk, Len(in.lines)})
  <2>1. m \in Nat /\ m <= Len(in.lines)
    BY <1>2, MinOfTwo, ConstantTypes
  <2>2. k \in 1..m
    BY <1>1
  <2> HIDE DEF m
  <2>3. QED BY <1>2, <2>1, <2>2
<1> DEFINE a == SubSeq(in.lines, 1, k)
           b == SubSeq(in.lines, k + 1, Len(in.lines))
<1>4. /\ a \in Seq(Line) /\ b \in Seq(Line) /\ Len(b) <= Len(in.lines)
  <2>1. \A j \in 1..Len(in.lines) : in.lines[j] \in Line
    BY <1>2, ElementOfSeq
  <2>2. a \in Seq(Line)
    BY <1>2, <1>3, <2>1, SubSeqProperties
  <2>3. /\ b \in Seq(Line)
        /\ Len(b) = IF k + 1 <= Len(in.lines) THEN Len(in.lines) - (k + 1) + 1 ELSE 0
    BY <1>2, <1>3, <2>1, SubSeqProperties
  <2>4. QED BY <1>2, <1>3, <2>2, <2>3
<1>5. /\ pipe' = [pipe EXCEPT ![i - 1] = [in EXCEPT !.lines = b]]
      /\ stage' = [stage EXCEPT ![i].held = h \o a]
      /\ UNCHANGED <<err, code>> /\ OnlyStages
  BY <1>1, <1>2, SizeTypes DEF TypeOK
<1> HIDE DEF a, b
<1>6. h \o a \in Seq(Line)
  BY <1>2, <1>4, ConcatProperties
<1> HIDE DEF in, h
<1>7. /\ [in EXCEPT !.lines = b] \in PipeType
      /\ Len([in EXCEPT !.lines = b].lines) <= Capacity
  <2>1. [in EXCEPT !.lines = b].lines = b /\ [in EXCEPT !.lines = b] \in PipeType
    BY <1>2, <1>4, PipeOps
  <2>2. Len(b) \in Nat
    BY <1>4, LenProperties
  <2>3. QED BY <1>2, <1>4, <2>1, <2>2, ConstantTypes
<1>8. PipesOK'
  BY <1>2, <1>5, <1>7, SetPipes DEF OnlyStages
<1>9. stage' \in [Stages -> StageType]
  BY <1>5, <1>6 DEF TypeOK, StageType
<1>10. QED
  BY <1>5, <1>8, <1>9, OnlyStagesTypes DEF TypeOK

LEMMA PassesTypes ==
  ASSUME TypeOK, NEW i \in Stages, Passes(i), stage[i].held # <<>>
  PROVE  TypeOK'
<1> DEFINE h == stage[i].held
           q == Put(pipe[i], Head(h))
<1>1. /\ h \in Seq(Line) /\ Head(h) \in Line /\ Tail(h) \in Seq(Line)
  BY TailTypes DEF TypeOK
<1>2. pipe[i] \in PipeType /\ Len(pipe[i].lines) < Capacity /\ i \in 0..N
      /\ Len(pipe[i].lines) \in Nat
  BY SizeTypes, PipeOps DEF TypeOK, Passes, Room
<1>3. q \in PipeType /\ Len(q.lines) <= Capacity
  <2>1. q \in PipeType /\ Len(q.lines) = Len(pipe[i].lines) + 1
    BY <1>1, <1>2, PutTypes
  <2>2. QED BY <1>2, <2>1, ConstantTypes
<1>4. /\ pipe' = [pipe EXCEPT ![i] = q]
      /\ stage' = [stage EXCEPT ![i].held = Tail(h), ![i].made = stage[i].made + 1]
      /\ UNCHANGED <<err, code>> /\ OnlyStages
  BY <1>2 DEF Passes, TypeOK
<1> HIDE DEF q, h
<1>5. PipesOK'
  BY <1>2, <1>3, <1>4, SetPipes DEF OnlyStages
<1>6. stage' \in [Stages -> StageType]
  <2>1. /\ stage \in [Stages -> StageType] /\ stage[i].made + 1 \in Nat
    <3>1. stage \in [Stages -> StageType]
      BY DEF TypeOK, StageType
    <3>2. stage[i].made \in Nat
      BY <3>1 DEF StageType
    <3>3. QED BY <3>1, <3>2
  <2> DEFINE m == stage[i].made + 1
  <2>2. stage' = [stage EXCEPT ![i].held = Tail(h), ![i].made = m]
    BY <1>4
  <2> HIDE DEF m
  <2>3. QED BY <1>1, <2>1, <2>2 DEF StageType, m
<1>7. QED
  BY <1>4, <1>5, <1>6, OnlyStagesTypes DEF TypeOK

LEMMA InsistsTypes ==
  ASSUME TypeOK, NEW i \in Stages, Insists(i)
  PROVE  TypeOK'
<1>1. CASE Passes(i)
  BY <1>1, PassesTypes DEF Insists
<1>2. CASE /\ stage' = [stage EXCEPT ![i].held = Tail(@)]
           /\ UNCHANGED <<pipe, err, code>> /\ OnlyStages
  <2>1. Tail(stage[i].held) \in Seq(Line)
    BY TailTypes DEF TypeOK, Insists
  <2>2. stage' \in [Stages -> StageType]
    BY <1>2, <2>1 DEF TypeOK, StageType
  <2>3. PipesOK'
    BY <1>2, UnchangedPipes DEF OnlyStages
  <2>4. QED
    BY <1>2, <2>2, <2>3, OnlyStagesTypes DEF TypeOK
<1>3. QED BY <1>1, <1>2 DEF Insists

LEMMA StartsTypes ==
  ASSUME TypeOK, NEW i \in Stages, starts(i)
  PROVE  TypeOK'
<1>1. stage' \in [Stages -> StageType]
  <2>1. stage \in [Stages -> StageType]
    BY DEF TypeOK, StageType
  <2>2. PICK c \in {"reading", "writing"} : stage' = [stage EXCEPT ![i].pc = c]
    BY DEF starts
  <2> DEFINE z == [stage[i] EXCEPT !.pc = c]
  <2>3. z \in StageType
    BY <2>1 DEF StageType
  <2>4. stage' = [stage EXCEPT ![i] = z]
    BY <2>1, <2>2
  <2> HIDE DEF z
  <2>5. QED BY <2>1, <2>3, <2>4
<1>2. PipesOK'
  <2>1. CASE pipe' = [pipe EXCEPT ![i - 1].reading = FALSE]
    <3> DEFINE q == [pipe[i - 1] EXCEPT !.reading = FALSE]
    <3>1. i - 1 \in 0..N /\ pipe[i - 1] \in PipeType /\ Len(pipe[i - 1].lines) <= Capacity
      BY SizeTypes DEF TypeOK
    <3>2. q \in PipeType /\ Len(q.lines) <= Capacity
      BY <3>1, PipeOps
    <3>3. pipe' = [pipe EXCEPT ![i - 1] = q]
      BY <2>1
    <3> HIDE DEF q
    <3>4. QED BY <3>1, <3>2, <3>3, SetPipes DEF starts, OnlyStages
  <2>2. CASE pipe' = pipe
    BY <2>2, UnchangedPipes DEF starts, OnlyStages
  <2>3. QED BY <2>1, <2>2 DEF starts
<1>3. QED
  BY <1>1, <1>2, OnlyStagesTypes DEF starts, TypeOK

LEMMA SortTypes ==
  ASSUME TypeOK, NEW i \in Stages,
         stage' = [stage EXCEPT ![i].pc = "writing", ![i].held = Sorted(Decoded(stage[i].held))],
         pipe' = [pipe EXCEPT ![i - 1].reading = FALSE],
         UNCHANGED <<err, code>>, OnlyStages
  PROVE  TypeOK'
<1> DEFINE t == Sorted(Decoded(stage[i].held))
           q == [pipe[i - 1] EXCEPT !.reading = FALSE]
<1>1. t \in Seq(Line)
  <2>1. stage[i].held \in Seq(Line)
    BY DEF TypeOK
  <2>2. Decoded(stage[i].held) \in Seq(Line)
    BY <2>1, DecodedTypes
  <2>3. QED BY <2>2, SortedTypes
<1>2. stage' = [stage EXCEPT ![i].pc = "writing", ![i].held = t]
  OBVIOUS
<1> HIDE DEF t
<1>3. stage' \in [Stages -> StageType]
  <2> DEFINE z == [stage[i] EXCEPT !.pc = "writing", !.held = t]
  <2>1. stage \in [Stages -> StageType]
    BY DEF TypeOK, StageType
  <2>2. z \in StageType
    BY <1>1, <2>1 DEF StageType
  <2>3. stage' = [stage EXCEPT ![i] = z]
    BY <1>2, <2>1
  <2> HIDE DEF z
  <2>4. QED BY <2>1, <2>2, <2>3
<1>4. i - 1 \in 0..N /\ pipe[i - 1] \in PipeType /\ Len(pipe[i - 1].lines) <= Capacity
  BY SizeTypes DEF TypeOK
<1>5. q \in PipeType /\ Len(q.lines) <= Capacity
  BY <1>4, PipeOps
<1>6. pipe' = [pipe EXCEPT ![i - 1] = q]
  OBVIOUS
<1> HIDE DEF q
<1>7. PipesOK'
  BY <1>4, <1>5, <1>6, SetPipes DEF OnlyStages
<1>8. QED
  BY <1>3, <1>7, OnlyStagesTypes DEF TypeOK

LEMMA YesTypes ==
  ASSUME TypeOK, NEW i \in Stages, Room(pipe[i]),
         pipe' = [pipe EXCEPT ![i] = Put(@, Yes)],
         stage' = [stage EXCEPT ![i].made = @ + 1],
         UNCHANGED <<err, code>>, OnlyStages
  PROVE  TypeOK'
<1> DEFINE q == Put(pipe[i], Yes)
           m == stage[i].made + 1
<1>1. /\ i \in 0..N /\ pipe[i] \in PipeType /\ Yes \in Line
      /\ Len(pipe[i].lines) < Capacity /\ Len(pipe[i].lines) \in Nat
  <2>1. i \in 0..N /\ pipe[i] \in PipeType
    BY SizeTypes DEF TypeOK
  <2>2. Len(pipe[i].lines) \in Nat
    BY <2>1, PipeOps
  <2>3. QED BY <2>1, <2>2 DEF Room, Yes, Line
<1>2. q \in PipeType /\ Len(q.lines) <= Capacity
  <2>1. q \in PipeType /\ Len(q.lines) = Len(pipe[i].lines) + 1
    BY <1>1, PutTypes
  <2>2. QED BY <1>1, <2>1, ConstantTypes
<1>3. pipe' = [pipe EXCEPT ![i] = q] /\ stage' = [stage EXCEPT ![i].made = m]
  OBVIOUS
<1>4. m \in Nat
  <2>1. stage[i].made \in Nat
    BY DEF TypeOK
  <2>2. QED BY <2>1
<1> HIDE DEF q, m
<1>5. PipesOK'
  BY <1>1, <1>2, <1>3, SetPipes DEF OnlyStages
<1>6. stage' \in [Stages -> StageType]
  <2> DEFINE z == [stage[i] EXCEPT !.made = m]
  <2>1. stage \in [Stages -> StageType]
    BY DEF TypeOK, StageType
  <2>2. z \in StageType
    BY <1>4, <2>1 DEF StageType
  <2>3. stage' = [stage EXCEPT ![i] = z]
    BY <1>3, <2>1
  <2> HIDE DEF z
  <2>4. QED BY <2>1, <2>2, <2>3
<1>7. QED
  BY <1>5, <1>6, OnlyStagesTypes DEF TypeOK

LEMMA FailTypes ==
  ASSUME TypeOK, NEW i \in Stages,
         err' = [err EXCEPT ![i] = Put(@, Yes)],
         stage' = [stage EXCEPT ![i].made = 1],
         UNCHANGED <<pipe, code>>, OnlyStages
  PROVE  TypeOK'
<1>1. Yes \in Line /\ err[i] \in PipeType
  BY DEF TypeOK, Yes, Line
<1>2. Put(err[i], Yes) \in PipeType
  BY <1>1, PutTypes
<1>3. err' \in [Stages -> PipeType]
  BY <1>2 DEF TypeOK
<1>4. stage' \in [Stages -> StageType]
  BY DEF TypeOK, StageType
<1>5. PipesOK'
  BY UnchangedPipes DEF OnlyStages
<1>6. QED
  BY <1>3, <1>4, <1>5, OnlyStagesTypes DEF TypeOK

LEMMA StageTypes ==
  ASSUME TypeOK, NEW i, Stage(i)
  PROVE  TypeOK'
<1>1. i \in Stages
  BY DEF Stage
<1>2. CASE \E c \in Nat : Ends(i, c)
  BY <1>1, <1>2, EndsTypes
<1>3. CASE Takes(i)
  BY <1>1, <1>3, TakesTypes
<1>4. CASE Passes(i) /\ stage[i].held # <<>>
  BY <1>1, <1>4, PassesTypes
<1>5. CASE Insists(i)
  BY <1>1, <1>5, InsistsTypes
<1>6. CASE starts(i)
  BY <1>1, <1>6, StartsTypes
<1>7. ASSUME cmd_cat(i) \/ cmd_head(i)
      PROVE  (\E c \in Nat : Ends(i, c)) \/ Takes(i) \/ (Passes(i) /\ stage[i].held # <<>>)
  BY <1>7 DEF cmd_cat, cmd_head
<1>8. CASE cmd_sort(i)
  <2>1. ASSUME stage' = [stage EXCEPT ![i].pc = "writing",
                                      ![i].held = Sorted(Decoded(stage[i].held))],
               pipe' = [pipe EXCEPT ![i - 1].reading = FALSE],
               UNCHANGED <<err, code>>, OnlyStages
        PROVE  TypeOK'
    BY <1>1, <2>1, SortTypes
  <2>2. QED BY <1>2, <1>3, <1>5, <1>8, <2>1 DEF cmd_sort
<1>9. CASE cmd_yes(i)
  <2>1. ASSUME Room(pipe[i]), pipe' = [pipe EXCEPT ![i] = Put(@, Yes)],
               stage' = [stage EXCEPT ![i].made = @ + 1], UNCHANGED <<err, code>>, OnlyStages
        PROVE  TypeOK'
    BY <1>1, <2>1, YesTypes
  <2>2. QED BY <1>2, <1>9, <2>1 DEF cmd_yes
<1>10. CASE cmd_seq(i)
  BY <1>2, <1>5, <1>10 DEF cmd_seq
<1>11. CASE cmd_fail(i)
  <2>1. ASSUME err' = [err EXCEPT ![i] = Put(@, Yes)], stage' = [stage EXCEPT ![i].made = 1],
               UNCHANGED <<pipe, code>>, OnlyStages
        PROVE  TypeOK'
    BY <1>1, <2>1, FailTypes
  <2>2. QED BY <1>2, <1>11, <2>1 DEF cmd_fail
<1>12. QED
  BY <1>2, <1>3, <1>4, <1>6, <1>7, <1>8, <1>9, <1>10, <1>11 DEF Stage

LEMMA DrainTypes ==
  ASSUME TypeOK, drain_stdout \/ \E i \in Stages : drain_stderr(i)
  PROVE  TypeOK'
<1>1. CASE drain_stdout
  <2> DEFINE p == pipe[LastStage]
             q == [p EXCEPT !.lines = Tail(p.lines)]
  <2>1. /\ LastStage \in 0..N /\ p \in PipeType /\ p.lines \in Seq(Line) /\ p.lines # <<>>
        /\ Len(p.lines) <= Capacity
    BY <1>1, SizeTypes, PipeOps DEF drain_stdout, TypeOK
  <2>2. /\ Head(p.lines) \in Line /\ Tail(p.lines) \in Seq(Line)
        /\ Len(Tail(p.lines)) = Len(p.lines) - 1 /\ Len(p.lines) \in Nat
    BY <2>1, TailTypes
  <2>3. q \in PipeType /\ q.lines = Tail(p.lines)
    BY <2>1, <2>2, PipeOps
  <2>4. Len(q.lines) <= Capacity
    BY <2>1, <2>2, <2>3, ConstantTypes
  <2>5. out' \in Seq(Line)
    BY <1>1, <2>2, AppendProperties DEF drain_stdout, TypeOK
  <2>6. pipe' = [pipe EXCEPT ![LastStage] = q]
    BY <1>1 DEF drain_stdout
  <2> HIDE DEF q
  <2>7. PipesOK'
    BY <1>1, <2>1, <2>3, <2>4, <2>6, SetPipes DEF drain_stdout
  <2>8. N' = N /\ Stages' = Stages
    BY <1>1 DEF drain_stdout, N, Stages
  <2>9. QED BY <1>1, <2>5, <2>7, <2>8 DEF drain_stdout, TypeOK, PipesOK
<1>2. ASSUME NEW i \in Stages, drain_stderr(i)
      PROVE  TypeOK'
  <2> DEFINE p == err[i]
             q == [p EXCEPT !.lines = Tail(p.lines)]
  <2>1. p \in PipeType /\ p.lines \in Seq(Line) /\ p.lines # <<>>
    BY <1>2, PipeOps DEF drain_stderr, TypeOK
  <2>2. Tail(p.lines) \in Seq(Line)
    BY <2>1, TailTypes
  <2>3. q \in PipeType
    BY <2>1, <2>2, PipeOps
  <2>4. err' = [err EXCEPT ![i] = q]
    BY <1>2 DEF drain_stderr
  <2> HIDE DEF q
  <2>5. err' \in [Stages -> PipeType]
    BY <2>3, <2>4 DEF TypeOK
  <2> DEFINE k == said[i] + 1
  <2>6. k \in Nat /\ said' = [said EXCEPT ![i] = k]
    <3>1. said[i] \in Nat
      BY DEF TypeOK
    <3>2. said' = [said EXCEPT ![i] = said[i] + 1]
      BY <1>2 DEF drain_stderr
    <3>3. QED BY <3>1, <3>2
  <2> HIDE DEF k
  <2>7. said' \in [Stages -> Nat]
    BY <2>6 DEF TypeOK
  <2>8. N' = N /\ Stages' = Stages
    BY <1>2 DEF drain_stderr, N, Stages
  <2>9. QED BY <1>2, <2>5, <2>7, <2>8 DEF drain_stderr, TypeOK
<1>3. QED BY <1>1, <1>2

LEMMA OpenTypes ==
  ASSUME TypeOK, NEW first, NEW last, Open(first, last), pipeline' = pipeline
  PROVE  /\ PipesOK' /\ err' \in [Stages -> PipeType] /\ phase' = "feed"
         /\ UNCHANGED <<feed, stage, said, out, file, code>>
<1>1. N' = N /\ 0 <= Capacity
  BY ConstantTypes DEF N
<1>2. pipe' = [i \in 0..N |-> IF i \in (first - 1)..last THEN NewPipe ELSE pipe[i]]
  BY DEF Open
<1>3. PipesOK'
  BY <1>1, <1>2, NewPipeTypes DEF PipesOK, TypeOK
<1>4. QED BY <1>3, NewPipeTypes DEF Open, TypeOK

LEMMA ExpandedTypes ==
  ASSUME TypeOK, Expanded \/ UNCHANGED subs
  PROVE  subs' \in [Stages -> Nat]
<1>1. CASE Expanded
  <2>1. at \in Stages /\ subs[at] + 1 \in Nat /\ subs' = [subs EXCEPT ![at] = subs[at] + 1]
    BY <1>1 DEF Expanded, TypeOK
  <2> DEFINE m == subs[at] + 1
  <2>2. m \in Nat /\ subs' = [subs EXCEPT ![at] = m]
    BY <2>1
  <2> HIDE DEF m
  <2>3. QED BY <2>1, <2>2 DEF TypeOK
<1>2. QED BY <1>1 DEF TypeOK

LEMMA PrepareTypes ==
  ASSUME TypeOK, try_prepare_streaming_pipeline
  PROVE  TypeOK'
<1>1. N' = N /\ Stages' = Stages /\ pipeline' = pipeline
  BY DEF try_prepare_streaming_pipeline, N, Stages
<1>2. CASE Refused
  <2>1. subs' \in [Stages -> Nat]
    BY <1>2, ExpandedTypes DEF Refused
  <2>2. at' \in Stages /\ phase' \in {"prepare", "next", "feed", "run", "done"}
    BY <1>2, SizeTypes DEF Refused, FallBack, Stages
  <2>3. QED BY <1>1, <1>2, <2>1, <2>2 DEF Refused, FallBack, data, TypeOK
<1>3. CASE Aborted
  <2>1. code' \in [0..N -> Nat] /\ said' \in [Stages -> Nat]
    BY <1>3, SizeTypes DEF Aborted, TypeOK
  <2>2. QED BY <1>1, <1>3, <2>1 DEF Aborted, TypeOK
<1>4. CASE Prepared
  <2>1. subs' \in [Stages -> Nat]
    BY <1>4, ExpandedTypes DEF Prepared
  <2>2. CASE at < N
    <3>1. at' \in Stages
      BY <1>4, <2>2, SizeTypes DEF Prepared, Stages
    <3>2. QED BY <1>1, <1>4, <2>1, <2>2, <3>1 DEF Prepared, data, TypeOK
  <2>3. CASE ~(at < N)
    <3>1. streaming' = TRUE /\ Open(1, N) /\ UNCHANGED at
      BY <1>4, <2>3 DEF Prepared
    <3>2. /\ PipesOK' /\ err' \in [Stages -> PipeType] /\ phase' = "feed"
          /\ UNCHANGED <<feed, stage, said, out, file, code>>
      BY <1>1, <3>1, OpenTypes
    <3>3. QED BY <1>1, <2>1, <3>1, <3>2 DEF TypeOK, PipesOK
  <2>4. QED BY <2>2, <2>3
<1>5. QED BY <1>2, <1>3, <1>4 DEF try_prepare_streaming_pipeline

\* A stage run alone has given its text, and the next one takes it.
LEMMA GaveTypes ==
  ASSUME TypeOK, NEW text \in Seq(Line), NEW c \in Nat, Gave(text, c),
         said' \in [Stages -> Nat], file' \in [Stages -> Seq(Line)], subs' \in [Stages -> Nat]
  PROVE  TypeOK'
<1>1. N' = N /\ Stages' = Stages
  BY DEF Gave, N, Stages
<1>2. code' \in [0..N -> Nat]
  <2>1. code \in [0..N -> Nat]
    BY DEF TypeOK
  <2>2. code' = [code EXCEPT ![at] = c, ![0] = c]
    BY DEF Gave
  <2>3. QED BY <2>1, <2>2
<1>3. at' \in Stages
  <2>1. N \in Nat /\ at \in Nat /\ at >= 1 /\ at <= N
    BY SizeTypes
  <2>2. \/ at < N /\ at' = at + 1
        \/ at' = at
    BY DEF Gave
  <2>3. at' \in Nat /\ at' >= 1 /\ at' <= N
    BY <2>1, <2>2
  <2>4. QED BY <2>1, <2>3 DEF Stages
<1>4. /\ feed' \in Seq(Line) /\ out' \in Seq(Line)
      /\ phase' \in {"prepare", "next", "feed", "run", "done"}
  BY EmptySeq DEF Gave
<1>5. QED BY <1>1, <1>2, <1>3, <1>4 DEF Gave, TypeOK

LEMMA SimpleTypes ==
  ASSUME TypeOK, execute_simple
  PROVE  TypeOK'
<1>1. <<>> \in Seq(Line) /\ at \in Stages /\ 127 \in Nat /\ 1 \in Nat
  BY EmptySeq DEF TypeOK
<1>2. CASE said' = [said EXCEPT ![at] = 1] /\ Gave(<<>>, 1) /\ UNCHANGED <<file, subs>>
  <2>1. said' \in [Stages -> Nat] /\ file' \in [Stages -> Seq(Line)] /\ subs' \in [Stages -> Nat]
    BY <1>1, <1>2 DEF TypeOK
  <2>2. QED BY <1>1, <1>2, <2>1, GaveTypes
<1>3. CASE Expanded /\ said' = [said EXCEPT ![at] = 1] /\ Gave(<<>>, 127) /\ UNCHANGED file
  <2>1. said' \in [Stages -> Nat] /\ file' \in [Stages -> Seq(Line)]
    BY <1>1, <1>3 DEF TypeOK
  <2>2. subs' \in [Stages -> Nat]
    BY <1>3, ExpandedTypes
  <2>3. QED BY <1>1, <1>3, <2>1, <2>2, GaveTypes
<1>4. CASE Expanded /\ Open(at, at) /\ UNCHANGED <<pipeline, input, streaming, at>>
  <2>1. /\ PipesOK' /\ err' \in [Stages -> PipeType] /\ phase' = "feed"
        /\ UNCHANGED <<feed, stage, said, out, file, code>>
    BY <1>4, OpenTypes
  <2>2. subs' \in [Stages -> Nat]
    BY <1>4, ExpandedTypes
  <2>3. N' = N /\ Stages' = Stages
    BY <1>4 DEF N, Stages
  <2>4. QED BY <1>4, <2>1, <2>2, <2>3 DEF TypeOK, PipesOK
<1>5. QED BY <1>2, <1>3, <1>4 DEF execute_simple

LEMMA WriteTypes ==
  ASSUME TypeOK, write_stdin
  PROVE  TypeOK'
<1> DEFINE f == FirstStage - 1
           p == pipe[f]
<1>1. /\ f \in 0..N /\ p \in PipeType /\ Len(p.lines) <= Capacity
      /\ Len(p.lines) \in Nat
  BY SizeTypes, PipeOps DEF TypeOK
<1>2. N' = N /\ Stages' = Stages /\ pipeline' = pipeline
  BY DEF write_stdin, N, Stages
<1>3. ASSUME NEW q \in PipeType, Len(q.lines) <= Capacity, pipe' = [pipe EXCEPT ![f] = q],
             feed' \in Seq(Line), phase' \in {"feed", "run"}
      PROVE  TypeOK'
  <2>1. PipesOK'
    BY <1>1, <1>2, <1>3, SetPipes
  <2>2. QED BY <1>2, <1>3, <2>1 DEF write_stdin, TypeOK, PipesOK
<1>4. CASE /\ feed # <<>> /\ Len(p.lines) < Capacity
           /\ pipe' = [pipe EXCEPT ![f].lines = Append(@, Head(feed))]
           /\ feed' = Tail(feed) /\ UNCHANGED phase
  <2> DEFINE s == Append(p.lines, Head(feed))
             q == [p EXCEPT !.lines = s]
  <2>1. Head(feed) \in Line /\ Tail(feed) \in Seq(Line)
    BY <1>4, TailTypes DEF TypeOK
  <2>2. p.lines \in Seq(Line)
    BY <1>1, PipeOps
  <2>3. s \in Seq(Line) /\ Len(s) = Len(p.lines) + 1
    BY <2>1, <2>2, AppendProperties
  <2>4. pipe' = [pipe EXCEPT ![f] = q]
    BY <1>1, <1>4 DEF TypeOK
  <2> HIDE DEF s, f, p
  <2>5. q \in PipeType /\ q.lines = s
    BY <1>1, <2>3, PipeOps
  <2>6. Len(q.lines) <= Capacity
    BY <1>1, <1>4, <2>3, <2>5, ConstantTypes
  <2> HIDE DEF q
  <2>7. phase' \in {"feed", "run"}
    BY <1>4 DEF write_stdin
  <2>8. QED BY <1>3, <1>4, <2>1, <2>4, <2>5, <2>6, <2>7
<1>5. CASE /\ pipe' = [pipe EXCEPT ![f].writing = FALSE]
           /\ phase' = "run" /\ UNCHANGED feed
  <2> DEFINE q == [p EXCEPT !.writing = FALSE]
  <2>1. q \in PipeType /\ q.lines = p.lines
    BY <1>1, PipeOps
  <2>2. pipe' = [pipe EXCEPT ![f] = q]
    BY <1>5
  <2> HIDE DEF q, f, p
  <2>3. feed' \in Seq(Line)
    BY <1>5 DEF TypeOK
  <2>4. QED BY <1>1, <1>3, <1>5, <2>1, <2>2, <2>3
<1>6. QED BY <1>4, <1>5 DEF write_stdin

LEMMA ResultTypes ==
  ASSUME TypeOK, execute_pipeline
  PROVE  TypeOK'
<1>1. /\ Lossy(out) \in Seq(Line) /\ <<>> \in Seq(Line) /\ at \in Stages /\ code[at] \in Nat
      /\ code[N] \in Nat
  <2>1. out \in Seq(Line) /\ at \in Stages /\ code \in [0..N -> Nat]
    BY DEF TypeOK
  <2>2. Lossy(out) \in Seq(Line) /\ <<>> \in Seq(Line)
    BY <2>1, LossyTypes, EmptySeq
  <2>3. at \in 0..N /\ N \in 0..N
    BY <2>1, SizeTypes DEF Stages
  <2>4. QED BY <2>1, <2>2, <2>3
<1>2. /\ said' \in [Stages -> Nat] /\ subs' \in [Stages -> Nat]
  BY DEF execute_pipeline, TypeOK
<1>3. CASE /\ streaming /\ phase' = "done" /\ out' = Lossy(out)
           /\ code' = [code EXCEPT ![0] = code[N]]
           /\ UNCHANGED <<pipeline, input, streaming, at, feed, pipe, err, stage, file>>
  <2>1. N' = N /\ Stages' = Stages
    BY <1>3 DEF N, Stages
  <2>2. code' \in [0..N -> Nat]
    BY <1>1, <1>3 DEF TypeOK
  <2>3. QED BY <1>1, <1>2, <1>3, <2>1, <2>2 DEF TypeOK
<1>4. CASE file' = [file EXCEPT ![at] = Lossy(out)] /\ Gave(<<>>, code[at])
  <2>1. file' \in [Stages -> Seq(Line)]
    BY <1>1, <1>4 DEF TypeOK
  <2>2. QED BY <1>1, <1>2, <1>4, <2>1, GaveTypes
<1>5. CASE Gave(Lossy(out), code[at]) /\ UNCHANGED file
  <2>1. file' \in [Stages -> Seq(Line)]
    BY <1>5 DEF TypeOK
  <2>2. QED BY <1>1, <1>2, <1>5, <2>1, GaveTypes
<1>6. QED BY <1>3, <1>4, <1>5 DEF execute_pipeline

LEMMA TypesStep == TypeOK /\ [Next]_vars => TypeOK'
<1> SUFFICES ASSUME TypeOK, [Next]_vars
             PROVE  TypeOK'
  OBVIOUS
<1>1. CASE UNCHANGED vars
  BY <1>1 DEF vars, data, TypeOK, N, Stages
<1>2. CASE Main
  BY <1>2, PrepareTypes, SimpleTypes, WriteTypes, ResultTypes DEF Main
<1>3. CASE \E i \in Stages : Stage(i)
  BY <1>3, StageTypes
<1>4. CASE drain_stdout \/ \E i \in Stages : drain_stderr(i)
  BY <1>4, DrainTypes
<1>5. QED BY <1>1, <1>2, <1>3, <1>4 DEF Next

LEMMA InitTypes == Init => TypeOK
<1> SUFFICES ASSUME Init
             PROVE  TypeOK
  OBVIOUS
<1>1. /\ pipeline \in Seq([does: Commands, n: Nat, kind: Kinds])
      /\ N \in Nat /\ N >= 1 /\ N <= MaxStages
      /\ \A i \in Stages : pipeline[i] \in [does: Commands, n: Nat, kind: Kinds]
  <2>1. /\ pipeline \in Seq([does: Commands, n: Nat, kind: Kinds])
        /\ Len(pipeline) >= 1 /\ Len(pipeline) <= MaxStages
    BY ConstantTypes DEF Init
  <2>2. Len(pipeline) \in Nat
    BY <2>1, LenProperties
  <2>3. \A i \in 1..Len(pipeline) : pipeline[i] \in [does: Commands, n: Nat, kind: Kinds]
    BY <2>1, ElementOfSeq
  <2>4. QED BY <2>1, <2>2, <2>3 DEF N, Stages
<1>2. N \in 1..MaxStages /\ at \in Stages
  BY <1>1, ConstantTypes DEF Init, Stages
<1>3. input \in Seq(Line) /\ feed \in Seq(Line) /\ out \in Seq(Line) /\ <<>> \in Seq(Line)
  BY ConstantTypes, EmptySeq DEF Init
<1>4. /\ pipe \in [0..N -> PipeType] /\ err \in [Stages -> PipeType]
      /\ \A i \in 0..N : Len(pipe[i].lines) <= Capacity
  BY NewPipeTypes, ConstantTypes DEF Init
<1>5. ASSUME NEW i \in Stages
      PROVE  NewStage(pipeline[i]) \in StageType
  <2> DEFINE c == pipeline[i]
             h == IF c.does = "seq" THEN [j \in 1..c.n |-> j] ELSE <<>>
  <2>1. c.n \in Nat
    BY <1>1
  <2>2. [j \in 1..c.n |-> j] \in Seq(Line)
    <3>1. [j \in 1..c.n |-> j] \in [1..c.n -> Line]
      BY <2>1 DEF Line
    <3>2. QED BY <2>1, <3>1, SeqDef
  <2>3. h \in Seq(Line)
    BY <1>3, <2>2
  <2>4. NewStage(c) = [pc |-> "created", made |-> 0, held |-> h]
    BY DEF NewStage
  <2> HIDE DEF h, c
  <2>5. NewStage(c) \in StageType
    BY <2>3, <2>4 DEF StageType
  <2>6. QED BY <2>5 DEF c
<1>6. stage \in [Stages -> StageType]
  BY <1>5 DEF Init
<1>7. /\ said \in [Stages -> Nat] /\ subs \in [Stages -> Nat] /\ code \in [0..N -> Nat]
      /\ file \in [Stages -> Seq(Line)]
  BY <1>3 DEF Init
<1>8. phase \in {"prepare", "next", "feed", "run", "done"} /\ streaming \in BOOLEAN
  BY DEF Init
<1>9. QED
  BY <1>2, <1>3, <1>4, <1>6, <1>7, <1>8 DEF TypeOK, StageType

\* No pipe ever holds more than its capacity, whatever runs and however its
\* futures are polled.
THEOREM TypeCorrect == Spec => []TypeOK
<1>1. QED
  BY InitTypes, TypesStep, PTL DEF Spec

-----------------------------------------------------------------------------
(* Substitutions *)

\* Stage i may be executed twice: it is prepared before the first stage that
\* cannot run with the others, or is one that is refused after its expansion.
Twice(i) ==
  \E j \in i..N : /\ Kind(j) \in {"redirected", "unknown"}
                  /\ \A k \in i..(j - 1) : Kind(k) = "plain"
                  /\ j = i => Kind(j) = "unknown"

\* The stages that the sequential way has still to expand.
Pending(i) == i > at \/ (i = at /\ phase = "next")

(***************************************************************************)
(* TwiceOnlyBeforeFallBack is not inductive: it does not say how often a   *)
(* stage was expanded when the preparation gives up, nor that the          *)
(* sequential way passes every stage once.                                 *)
(***************************************************************************)
SubsInv ==
  /\ phase \in {"prepare", "next"} => ~streaming
  /\ phase = "prepare" =>
       \A i \in Stages : IF i < at THEN Kind(i) = "plain" /\ subs[i] = 1 ELSE subs[i] = 0
  /\ phase # "prepare" =>
       \A i \in Stages :
         /\ subs[i] <= 2
         /\ subs[i] = 2 => Twice(i)
         /\ ~streaming /\ phase # "done" /\ Pending(i) =>
              subs[i] = 0 \/ (subs[i] = 1 /\ Twice(i))

LEMMA InitSubs == Init => SubsInv
<1> SUFFICES ASSUME Init
             PROVE  SubsInv
  OBVIOUS
<1>1. \A i \in Stages : subs[i] = 0 /\ ~(i < at)
  <2>1. N \in Nat /\ N >= 1
    BY InitTypes, SizeTypes
  <2>2. QED BY <2>1 DEF Init, Stages
<1>2. QED BY <1>1 DEF Init, SubsInv

LEMMA SamePipeline ==
  ASSUME pipeline' = pipeline
  PROVE  /\ N' = N /\ Stages' = Stages
         /\ \A i : Kind(i)' = Kind(i) /\ (Twice(i)' <=> Twice(i))
BY DEF N, Stages, Kind, Twice

\* Once a pipeline is refused, every stage has been expanded at most once, and
\* will be expanded again.
LEMMA RefusedSubs ==
  ASSUME TypeOK, SubsInv, try_prepare_streaming_pipeline, Refused
  PROVE  SubsInv'
<1>1. /\ phase = "prepare" /\ phase' = "next" /\ at' = 1 /\ streaming' = streaming
      /\ ~streaming /\ pipeline' = pipeline
  BY DEF try_prepare_streaming_pipeline, Refused, FallBack, SubsInv
<1>2. /\ at \in Stages /\ Kind(at) \in {"redirected", "unknown"}
      /\ \A i \in Stages : IF i < at THEN Kind(i) = "plain" /\ subs[i] = 1 ELSE subs[i] = 0
      /\ \A i \in Stages : i \in Nat /\ i <= N
  <2>1. at \in Stages
    BY DEF TypeOK
  <2>2. Kind(at) \in {"redirected", "unknown"}
    BY DEF Refused
  <2>3. \A i \in Stages : IF i < at THEN Kind(i) = "plain" /\ subs[i] = 1 ELSE subs[i] = 0
    BY <1>1 DEF SubsInv
  <2>4. \A i \in Stages : i \in Nat /\ i <= N
    BY SizeTypes DEF Stages
  <2>5. QED BY <2>1, <2>2, <2>3, <2>4
<1>3. ASSUME NEW i \in Stages
      PROVE  subs'[i] = 0 \/ (subs'[i] = 1 /\ Twice(i))
  <2>1. CASE i < at
    <3>1. subs'[i] = subs[i]
      BY <1>2, <2>1 DEF Refused, Expanded, TypeOK
    <3>2. Twice(i)
      <4>1. at \in i..N /\ at # i
        BY <1>2, <2>1
      <4>2. \A k \in i..(at - 1) : Kind(k) = "plain"
        <5> SUFFICES ASSUME NEW k \in i..(at - 1)
                     PROVE  Kind(k) = "plain"
          OBVIOUS
        <5>1. k \in Stages /\ k < at
          BY <1>2, SizeTypes DEF Stages
        <5>2. QED BY <1>2, <5>1
      <4>3. QED BY <1>2, <4>1, <4>2 DEF Twice
    <3>3. QED BY <1>2, <2>1, <3>1, <3>2
  <2>2. CASE i = at
    <3>1. CASE Kind(at) = "redirected" /\ UNCHANGED subs
      BY <1>2, <2>2, <3>1
    <3>2. CASE Kind(at) = "unknown" /\ Expanded
      <4>1. subs'[i] = 1
        BY <1>2, <2>2, <3>2 DEF Expanded, TypeOK
      <4>2. at \in i..N /\ \A k \in i..(at - 1) : FALSE
        BY <1>2, <2>2
      <4>3. QED BY <2>2, <3>2, <4>1, <4>2 DEF Twice
    <3>3. QED BY <3>1, <3>2 DEF Refused
  <2>3. CASE i > at
    <3>1. subs'[i] = subs[i]
      BY <1>2, <2>3 DEF Refused, Expanded, TypeOK
    <3>2. QED BY <1>2, <2>3, <3>1
  <2>4. QED BY <1>2, <2>1, <2>2, <2>3
<1>4. QED
  BY <1>1, <1>3, SamePipeline DEF SubsInv

LEMMA PreparedSubs ==
  ASSUME TypeOK, SubsInv, try_prepare_streaming_pipeline, Aborted \/ Prepared
  PROVE  SubsInv'
<1>1. phase = "prepare" /\ ~streaming /\ pipeline' = pipeline
  BY DEF try_prepare_streaming_pipeline, SubsInv
<1>2. /\ at \in Stages /\ \A i \in Stages : i \in Nat
      /\ \A i \in Stages : IF i < at THEN Kind(i) = "plain" /\ subs[i] = 1 ELSE subs[i] = 0
  BY <1>1, SizeTypes DEF SubsInv, TypeOK
<1>3. CASE Aborted
  BY <1>1, <1>2, <1>3, SamePipeline DEF Aborted, SubsInv
<1>4. CASE Prepared
  <2>1. Kind(at) = "plain" /\ subs' = [subs EXCEPT ![at] = @ + 1]
    BY <1>4 DEF Prepared, Expanded
  <2>2. \A i \in Stages : subs'[i] = IF i <= at THEN 1 ELSE 0
    <3>1. subs \in [Stages -> Nat] /\ at \in Nat
      BY <1>2 DEF TypeOK
    <3>2. \A i \in Stages : subs'[i] = IF i = at THEN subs[i] + 1 ELSE subs[i]
      BY <2>1, <3>1
    <3>3. QED BY <1>2, <3>1, <3>2
  <2>3. CASE at < N
    <3>1. at' = at + 1 /\ phase' = phase /\ streaming' = streaming
      BY <1>4, <2>3 DEF Prepared
    <3>2. \A i \in Stages : IF i < at' THEN Kind(i) = "plain" /\ subs'[i] = 1 ELSE subs'[i] = 0
      BY <1>2, <2>1, <2>2, <3>1
    <3>3. QED BY <1>1, <3>1, <3>2, SamePipeline DEF SubsInv
  <2>4. CASE ~(at < N)
    <3>1. streaming' = TRUE /\ phase' = "feed"
      BY <1>4, <2>4 DEF Prepared, Open
    <3>2. \A i \in Stages : subs'[i] <= 2 /\ subs'[i] # 2
      BY <2>2
    <3>3. QED BY <1>1, <3>1, <3>2, SamePipeline DEF SubsInv
  <2>5. QED BY <2>3, <2>4
<1>5. QED BY <1>3, <1>4

\* The sequential way expands the stage it is at, or does not, and moves on.
LEMMA SimpleSubs ==
  ASSUME TypeOK, SubsInv, execute_simple
  PROVE  SubsInv'
<1>1. /\ phase = "next" /\ ~streaming /\ streaming' = streaming /\ pipeline' = pipeline
  BY DEF execute_simple, SubsInv, Gave
<1>2. /\ at \in Stages /\ \A i \in Stages : i \in Nat /\ subs[i] \in Nat
      /\ \A i \in Stages : /\ subs[i] <= 2
                           /\ subs[i] = 2 => Twice(i)
                           /\ Pending(i) => subs[i] = 0 \/ (subs[i] = 1 /\ Twice(i))
  BY <1>1, SizeTypes DEF SubsInv, TypeOK
<1>3. Expanded \/ UNCHANGED subs
  BY DEF execute_simple
<1>4. \/ phase' = "done"
      \/ phase' = "feed" /\ at' = at
      \/ phase' = "next" /\ at' = at + 1
  BY DEF execute_simple, Gave, Open
<1>5. ASSUME NEW i \in Stages
      PROVE  /\ subs'[i] <= 2
             /\ subs'[i] = 2 => Twice(i)
             /\ i > at => subs'[i] = 0 \/ (subs'[i] = 1 /\ Twice(i))
  <2>1. CASE i = at
    <3>1. Pending(i)
      BY <1>1, <2>1 DEF Pending
    <3>2. subs[i] = 0 \/ (subs[i] = 1 /\ Twice(i))
      BY <1>2, <3>1
    <3>3. subs'[i] = subs[i] \/ subs'[i] = subs[i] + 1
      BY <1>2, <1>3, <2>1 DEF Expanded, TypeOK
    <3>4. QED BY <1>2, <2>1, <3>2, <3>3
  <2>2. CASE i # at
    <3>1. subs'[i] = subs[i]
      BY <1>2, <1>3, <2>2 DEF Expanded, TypeOK
    <3>2. i > at => Pending(i)
      BY DEF Pending
    <3>3. QED BY <1>2, <3>1, <3>2
  <2>3. QED BY <2>1, <2>2
<1>6. ASSUME NEW i \in Stages, phase' # "done", Pending(i)'
      PROVE  i > at
  BY <1>2, <1>4, <1>6 DEF Pending
<1>7. QED
  BY <1>1, <1>4, <1>5, <1>6, SamePipeline DEF SubsInv

\* The other steps expand nothing, and leave no stage to expand that was not
\* left before.
LEMMA OtherSubs ==
  ASSUME TypeOK, SubsInv, UNCHANGED <<pipeline, streaming, subs>>,
         \/ UNCHANGED <<at, phase>>
         \/ /\ phase \in {"feed", "run"} /\ at' = at /\ phase' \in {"feed", "run", "done"}
         \/ /\ phase = "run" /\ ~streaming /\ at' = at + 1 /\ phase' = "next"
  PROVE  SubsInv'
<1>1. at \in Stages /\ \A i \in Stages : i \in Nat
  BY SizeTypes DEF TypeOK
<1>2. CASE UNCHANGED <<at, phase>>
  BY <1>2, SamePipeline DEF SubsInv, Pending
<1>3. CASE phase \in {"feed", "run"} /\ at' = at /\ phase' \in {"feed", "run", "done"}
  <2>1. \A i \in Stages : Pending(i)' => Pending(i)
    BY <1>3 DEF Pending
  <2>2. QED BY <1>3, <2>1, SamePipeline DEF SubsInv
<1>4. CASE phase = "run" /\ ~streaming /\ at' = at + 1 /\ phase' = "next"
  <2>1. \A i \in Stages : Pending(i)' => Pending(i)
    BY <1>1, <1>4 DEF Pending
  <2>2. QED BY <1>4, <2>1, SamePipeline DEF SubsInv
<1>5. QED BY <1>2, <1>3, <1>4

\* The step of a stage leaves alone all that the stages do not share.
LEMMA StageStepIsLocal ==
  ASSUME NEW i, Stage(i)
  PROVE  OnlyStages
<1>1. \A c : Ends(i, c) => OnlyStages
  BY DEF Ends
<1>2. Takes(i) => OnlyStages
  BY DEF Takes
<1>3. Passes(i) => OnlyStages
  BY DEF Passes
<1>4. Insists(i) => OnlyStages
  BY <1>3 DEF Insists
<1>5. CASE starts(i)
  BY <1>5 DEF starts
<1>6. CASE cmd_cat(i)
  BY <1>1, <1>2, <1>3, <1>6 DEF cmd_cat
<1>7. CASE cmd_head(i)
  BY <1>1, <1>2, <1>3, <1>7 DEF cmd_head
<1>8. CASE cmd_sort(i)
  BY <1>1, <1>2, <1>4, <1>8 DEF cmd_sort
<1>9. CASE cmd_yes(i)
  BY <1>1, <1>9 DEF cmd_yes
<1>10. CASE cmd_seq(i)
  BY <1>1, <1>4, <1>10 DEF cmd_seq
<1>11. CASE cmd_fail(i)
  BY <1>1, <1>11 DEF cmd_fail
<1>12. QED
  BY <1>5, <1>6, <1>7, <1>8, <1>9, <1>10, <1>11 DEF Stage

LEMMA SubsStep == TypeOK /\ SubsInv /\ [Next]_vars => SubsInv'
<1> SUFFICES ASSUME TypeOK, SubsInv, [Next]_vars
             PROVE  SubsInv'
  OBVIOUS
<1>1. CASE UNCHANGED vars
  BY <1>1, OtherSubs DEF vars, data
<1>2. CASE try_prepare_streaming_pipeline
  BY <1>2, RefusedSubs, PreparedSubs DEF try_prepare_streaming_pipeline
<1>3. CASE execute_simple
  BY <1>3, SimpleSubs
<1>4. CASE write_stdin
  BY <1>4, OtherSubs DEF write_stdin
<1>5. CASE execute_pipeline
  BY <1>5, OtherSubs DEF execute_pipeline, Gave
<1>6. CASE \E i \in Stages : Stage(i)
  <2>1. OnlyStages
    BY <1>6, StageStepIsLocal
  <2>2. QED BY <2>1, OtherSubs DEF OnlyStages
<1>7. CASE drain_stdout \/ \E i \in Stages : drain_stderr(i)
  BY <1>7, OtherSubs DEF drain_stdout, drain_stderr
<1>8. QED BY <1>1, <1>2, <1>3, <1>4, <1>5, <1>6, <1>7 DEF Next, Main

\* A substitution is executed at most twice, and twice only where the stages
\* were expanded before the pipeline was found not to run together.
THEOREM NothingElseIsExpandedTwice == Spec => []TwiceOnlyBeforeFallBack
<1>1. TypeOK /\ SubsInv => TwiceOnlyBeforeFallBack
  BY DEF SubsInv, TwiceOnlyBeforeFallBack, Twice
<1>2. QED
  BY <1>1, InitSubs, SubsStep, TypeCorrect, PTL DEF Spec

-----------------------------------------------------------------------------
(* Texts on their way *)

(***************************************************************************)
(* ResultIsWhole is not inductive: it speaks of what comes out, and says   *)
(* nothing of the lines in the pipes and in the hands of the stages.       *)
(* TextInv says it of every pipe of the window: what has been written to   *)
(* it is a beginning of the text that the stage before it means, and what  *)
(* is in it is the part of that text that was written and not yet taken.   *)
(* How much a stage has written is known from its future; M stands for     *)
(* Meaning, which no step changes.                                         *)
(***************************************************************************)

\* s is what follows the first a lines of t, as far as s goes.
Part(s, t, a) == a + Len(s) <= Len(t) /\ \A j \in 1..Len(s) : s[j] = t[a + j]

\* How many lines a command has written, from its future.
Lines(c, s) == IF c.does = "fail" THEN 0 ELSE s.made

(***************************************************************************)
(* The future s of command c, which reads x and has taken k lines of it; r *)
(* says whether what it writes is read.                                    *)
(***************************************************************************)
StageAt(c, x, s, k, r) ==
  LET y == Gives(c, x)
      w == Lines(c, s)
  IN /\ w <= Len(y.text)
     /\ s.pc = "created" => s = NewStage(c) /\ k = 0
     /\ s.pc = "reading" => /\ c.does \in {"cat", "head", "sort"}
                            /\ c.does = "sort" => w = 0
                            /\ Part(s.held, x.text, w) /\ w + Len(s.held) = k
     /\ s.pc = "writing" => /\ c.does \in {"sort", "yes", "seq", "fail"}
                            /\ c.does \in {"sort", "seq"} =>
                                 /\ y.ends
                                 /\ r => /\ Part(s.held, y.text, w)
                                         /\ w + Len(s.held) = Len(y.text)
     /\ s.pc = "ended" => /\ r => w = Len(y.text) /\ y.ends
                          /\ c.does = "fail" => s.made = 1

\* What stage i reads, and what goes through pipe i of the window.
In(M, i)       == Arrives(i, M[i - 1])
PipeText(M, i) == IF i < FirstStage THEN In(M, FirstStage).text ELSE M[i].text

Written(M, i) ==
  IF i < FirstStage THEN Len(PipeText(M, i)) - Len(feed) ELSE Lines(pipeline[i], stage[i])
Consumed(M, i) == Written(M, i) - Len(pipe[i].lines)

PipeAt(M, i) == Consumed(M, i) >= 0 /\ Part(pipe[i].lines, PipeText(M, i), Consumed(M, i))

Complaints(i) == IF Does(i) = "fail" THEN stage[i].made ELSE 0

\* Stage i of the window, its ends of pipes, and what it has complained of.
WindowAt(M, i) ==
  /\ Kind(i) \in {"plain", "redirected"}
  /\ StageAt(pipeline[i], In(M, i), stage[i], Consumed(M, i - 1), pipe[i].reading)
  /\ ~pipe[i].writing => stage[i].pc = "ended"
  /\ stage[i].pc \in {"created", "reading"} => pipe[i - 1].reading
  /\ said[i] + Len(err[i].lines) = Complaints(i)

RunInv(M) ==
  /\ In(M, FirstStage).ends
  /\ Written(M, FirstStage - 1) >= 0
  /\ Part(feed, PipeText(M, FirstStage - 1), Written(M, FirstStage - 1))
  /\ phase = "run" => feed = <<>>
  /\ \A i \in (FirstStage - 1)..LastStage : PipeAt(M, i)
  /\ \A i \in Window : WindowAt(M, i)
  /\ pipe[LastStage].reading
  /\ Part(out, M[LastStage].text, 0) /\ Len(out) = Consumed(M, LastStage)

\* The stages from k on have not been started; those before k are over.
Fresh(k) == \A i \in Stages : i >= k => stage[i] = NewStage(pipeline[i]) /\ said[i] = 0
Past(M, k) ==
  \A i \in Stages : i < k =>
    /\ said[i] = IF Complains(i) THEN 1 ELSE 0
    /\ Kind(i) = "redirected" => file[i] = Lossy(M[i].text)

Whole(M) ==
  /\ out = IF Kind(N) = "redirected" THEN <<>> ELSE Lossy(M[N].text)
  /\ M[N].ends
  /\ Past(M, N + 1)

TextInv(M) ==
  /\ phase = "prepare" =>
       /\ ~streaming /\ N > 1 /\ Fresh(1) /\ feed = input /\ out = <<>>
       /\ \A i \in Stages : i < at => Kind(i) = "plain"
  /\ phase = "next" =>
       /\ ~streaming /\ ~Together /\ Fresh(at) /\ Past(M, at) /\ out = <<>>
       /\ feed = In(M, at).text /\ In(M, at).ends
  /\ phase \in {"feed", "run"} =>
       /\ RunInv(M)
       /\ streaming => Together
       /\ ~streaming => ~Together /\ Fresh(at + 1) /\ Past(M, at)
  /\ phase = "done" /\ ~Fails => Whole(M)

-----------------------------------------------------------------------------
(* Parts of texts *)

LEMMA SeqFacts ==
  ASSUME NEW s \in Seq(Line)
  PROVE  Len(s) \in Nat /\ \A j \in 1..Len(s) : s[j] \in Line
BY LenProperties, ElementOfSeq

LEMMA PartSelf ==
  ASSUME NEW t \in Seq(Line)
  PROVE  Part(t, t, 0)
BY SeqFacts DEF Part

LEMMA PartEmpty ==
  ASSUME NEW t \in Seq(Line), NEW a \in 0..Len(t)
  PROVE  Part(<<>>, t, a) /\ Len(<<>>) = 0
BY SeqFacts, EmptySeq DEF Part

LEMMA PartWhole ==
  ASSUME NEW s \in Seq(Line), NEW t \in Seq(Line), Part(s, t, 0), Len(s) = Len(t)
  PROVE  s = t
<1>1. Len(s) \in Nat /\ \A j \in 1..Len(s) : s[j] = t[j]
  BY SeqFacts DEF Part
<1>2. QED BY <1>1, SeqEqual

LEMMA PartHead ==
  ASSUME NEW s \in Seq(Line), NEW t \in Seq(Line), NEW a \in Nat, Part(s, t, a), s # <<>>
  PROVE  /\ Head(s) = t[a + 1] /\ a + 1 <= Len(t)
         /\ Tail(s) \in Seq(Line) /\ Len(Tail(s)) = Len(s) - 1 /\ Len(s) \in Nat /\ Len(s) >= 1
         /\ Part(Tail(s), t, a + 1)
<1>1. /\ Len(s) \in Nat /\ Len(t) \in Nat /\ Len(s) >= 1
  BY SeqFacts, EmptySeq
<1>2. /\ Tail(s) \in Seq(Line) /\ Len(Tail(s)) = Len(s) - 1
      /\ \A i \in 1 .. Len(Tail(s)) : Tail(s)[i] = s[i + 1]
  BY HeadTailProperties
<1>3. Head(s) = s[1]
  OBVIOUS
<1>4. s[1] = t[a + 1] /\ a + 1 <= Len(t)
  BY <1>1 DEF Part
<1>5. \A i \in 1 .. Len(s) - 1 : Tail(s)[i] = t[a + 1 + i]
  <2> SUFFICES ASSUME NEW i \in 1 .. Len(s) - 1
               PROVE  Tail(s)[i] = t[a + 1 + i]
    OBVIOUS
  <2>1. i + 1 \in 1 .. Len(s) /\ a + (i + 1) = a + 1 + i
    BY <1>1
  <2>2. QED BY <1>2, <2>1 DEF Part
<1>6. QED BY <1>1, <1>2, <1>3, <1>4, <1>5 DEF Part

LEMMA PartAppend ==
  ASSUME NEW s \in Seq(Line), NEW t \in Seq(Line), NEW a \in Nat, Part(s, t, a),
         a + Len(s) + 1 <= Len(t)
  PROVE  /\ Append(s, t[a + Len(s) + 1]) \in Seq(Line)
         /\ Len(Append(s, t[a + Len(s) + 1])) = Len(s) + 1
         /\ Part(Append(s, t[a + Len(s) + 1]), t, a)
<1> DEFINE l == t[a + Len(s) + 1]
           u == Append(s, l)
<1>1. Len(s) \in Nat /\ Len(t) \in Nat /\ l \in Line
  BY SeqFacts
<1>2. l = t[a + (Len(s) + 1)]
  BY <1>1
<1> HIDE DEF l
<1>3. /\ u \in Seq(Line) /\ Len(u) = Len(s) + 1
      /\ \A i \in 1 .. Len(s) : u[i] = s[i]
      /\ u[Len(s) + 1] = l
  BY <1>1, AppendProperties
<1> HIDE DEF u
<1>4. Part(u, t, a)
  <2> SUFFICES ASSUME NEW i \in 1 .. Len(s) + 1
               PROVE  u[i] = t[a + i]
    BY <1>1, <1>3 DEF Part
  <2>1. CASE i \in 1 .. Len(s)
    BY <1>3, <2>1 DEF Part
  <2>2. CASE i = Len(s) + 1
    BY <1>2, <1>3, <2>2
  <2>3. QED BY <1>1, <2>1, <2>2
<1>5. QED BY <1>3, <1>4 DEF u, l

\* k lines are taken from the front.
LEMMA PartSplit ==
  ASSUME NEW s \in Seq(Line), NEW t \in Seq(Line), NEW a \in Nat, Part(s, t, a),
         NEW k \in 1..Len(s)
  PROVE  /\ SubSeq(s, 1, k) \in Seq(Line) /\ Len(SubSeq(s, 1, k)) = k
         /\ Part(SubSeq(s, 1, k), t, a)
         /\ SubSeq(s, k + 1, Len(s)) \in Seq(Line)
         /\ Len(SubSeq(s, k + 1, Len(s))) = Len(s) - k
         /\ Part(SubSeq(s, k + 1, Len(s)), t, a + k)
<1>1. Len(s) \in Nat /\ Len(t) \in Nat /\ \A j \in 1..Len(s) : s[j] \in Line
  BY SeqFacts
<1> DEFINE u == SubSeq(s, 1, k)
           v == SubSeq(s, k + 1, Len(s))
<1>2. /\ u \in Seq(Line) /\ Len(u) = k
      /\ \A i \in 1 .. k : u[i] = s[i]
  <2>1. /\ u \in Seq(Line) /\ Len(u) = IF 1 <= k THEN k - 1 + 1 ELSE 0
        /\ \A i \in 1 .. k - 1 + 1 : u[i] = s[1 + i - 1]
    BY <1>1, SubSeqProperties
  <2>2. QED BY <2>1
<1>3. /\ v \in Seq(Line) /\ Len(v) = Len(s) - k
      /\ \A i \in 1 .. Len(s) - k : v[i] = s[k + i]
  <2> DEFINE m == k + 1
  <2>1. m \in Int /\ Len(s) \in Int /\ \A i \in m .. Len(s) : s[i] \in Line
    BY <1>1
  <2>2. /\ SubSeq(s, m, Len(s)) \in Seq(Line)
        /\ Len(SubSeq(s, m, Len(s))) = IF m <= Len(s) THEN Len(s) - m + 1 ELSE 0
        /\ \A i \in 1 .. Len(s) - m + 1 : SubSeq(s, m, Len(s))[i] = s[m + i - 1]
    <3> HIDE DEF m
    <3>1. QED BY <2>1, SubSeqProperties
  <2>3. \A i \in 1 .. Len(s) - k : m + i - 1 = k + i
    BY <1>1
  <2>4. QED BY <1>1, <2>2, <2>3
<1> HIDE DEF u, v
<1>4. Part(u, t, a)
  <2>1. a + Len(s) <= Len(t) /\ \A j \in 1..Len(s) : s[j] = t[a + j]
    BY DEF Part
  <2>2. k \in Nat /\ k <= Len(s) /\ a + k <= Len(t)
    BY <1>1, <2>1
  <2>3. ASSUME NEW j \in 1..k
        PROVE  u[j] = t[a + j]
    <3>1. j \in 1..Len(s)
      BY <1>1, <2>2
    <3>2. QED BY <1>2, <2>1, <3>1
  <2>4. QED BY <1>2, <2>2, <2>3 DEF Part
<1>5. Part(v, t, a + k)
  <2> SUFFICES ASSUME NEW i \in 1 .. Len(s) - k
               PROVE  v[i] = t[a + k + i]
    BY <1>1, <1>3 DEF Part
  <2>1. k + i \in 1 .. Len(s) /\ a + (k + i) = a + k + i
    BY <1>1
  <2>2. QED BY <1>3, <2>1 DEF Part
<1>6. QED BY <1>2, <1>3, <1>4, <1>5 DEF u, v

LEMMA PartConcat ==
  ASSUME NEW s \in Seq(Line), NEW u \in Seq(Line), NEW t \in Seq(Line), NEW a \in Nat,
         Part(s, t, a), Part(u, t, a + Len(s))
  PROVE  /\ s \o u \in Seq(Line) /\ Len(s \o u) = Len(s) + Len(u)
         /\ Part(s \o u, t, a)
<1>1. Len(s) \in Nat /\ Len(t) \in Nat /\ Len(u) \in Nat
  BY SeqFacts
<1> DEFINE v == s \o u
<1>2. /\ v \in Seq(Line) /\ Len(v) = Len(s) + Len(u)
      /\ \A i \in 1 .. Len(s) + Len(u) : v[i] = IF i <= Len(s) THEN s[i] ELSE u[i - Len(s)]
  BY ConcatProperties
<1> HIDE DEF v
<1>3. Part(v, t, a)
  <2> SUFFICES ASSUME NEW i \in 1 .. Len(s) + Len(u)
               PROVE  v[i] = t[a + i]
    <3>1. a + (Len(s) + Len(u)) <= Len(t)
      BY <1>1 DEF Part
    <3>2. QED BY <1>2, <3>1 DEF Part
  <2>1. CASE i <= Len(s)
    <3>1. i \in 1 .. Len(s)
      BY <1>1, <2>1
    <3>2. QED BY <1>2, <2>1, <3>1 DEF Part
  <2>2. CASE ~(i <= Len(s))
    <3>1. i - Len(s) \in 1 .. Len(u) /\ a + Len(s) + (i - Len(s)) = a + i
      BY <1>1, <2>2
    <3>2. u[i - Len(s)] = t[a + Len(s) + (i - Len(s))]
      BY <3>1 DEF Part
    <3>3. v[i] = u[i - Len(s)]
      BY <1>2, <2>2
    <3>4. QED BY <3>1, <3>2, <3>3
  <2>3. QED BY <2>1, <2>2
<1>4. QED BY <1>2, <1>3 DEF v

LEMMA PartPrefix ==
  ASSUME NEW s \in Seq(Line), NEW t \in Seq(Line), Part(s, t, 0)
  PROVE  IsPrefix(s, t)
<1>1. Len(s) \in Nat /\ Len(t) \in Nat /\ Len(s) <= Len(t)
      /\ \A j \in 1..Len(s) : s[j] \in Line /\ t[j] \in Line /\ s[j] = t[j]
  BY SeqFacts DEF Part
<1> DEFINE n == Len(s)
           u == SubSeq(s, 1, n)
           v == SubSeq(t, 1, n)
<1>2. /\ u \in Seq(Line) /\ Len(u) = IF 1 <= n THEN n - 1 + 1 ELSE 0
      /\ \A i \in 1 .. n - 1 + 1 : u[i] = s[1 + i - 1]
  BY <1>1, SubSeqProperties
<1>3. /\ v \in Seq(Line) /\ Len(v) = IF 1 <= n THEN n - 1 + 1 ELSE 0
      /\ \A i \in 1 .. n - 1 + 1 : v[i] = t[1 + i - 1]
  BY <1>1, SubSeqProperties
<1> HIDE DEF u, v
<1>4. Len(u) = n /\ Len(v) = n /\ \A i \in 1 .. n : u[i] = v[i]
  BY <1>1, <1>2, <1>3
<1>5. u = v
  BY <1>2, <1>3, <1>4, SeqEqual
<1>6. QED BY <1>1, <1>5 DEF IsPrefix, u, v

-----------------------------------------------------------------------------
(* Lines that cannot be decoded *)

LEMMA DecodedFacts ==
  ASSUME NEW s \in Seq(Line)
  PROVE  /\ Decoded(s) \in Seq(Line) /\ Len(Decoded(s)) \in Nat /\ Len(s) \in Nat
         /\ Len(Decoded(s)) <= Len(s)
         /\ \A i \in 1 .. Len(Decoded(s)) : Decoded(s)[i] = s[i] /\ s[i] # Raw
         /\ Len(Decoded(s)) < Len(s) => s[Len(Decoded(s)) + 1] = Raw
         /\ Len(Decoded(s)) = Len(s) <=> Decoded(s) = s
<1> DEFINE I == {i \in 1 .. Len(s) : s[i] = Raw}
           k == SelectInSeq(s, LAMBDA l : l = Raw)
           d == Decoded(s)
<1>1. /\ d \in Seq(Line) /\ Len(d) \in Nat /\ Len(s) \in Nat /\ Len(d) <= Len(s)
      /\ \A i \in 1 .. Len(d) : d[i] = s[i]
  <2>1. /\ d \in Seq(Line) /\ Len(d) <= Len(s)
        /\ \A i \in 1 .. Len(d) : d[i] = s[i]
    BY DecodedTypes
  <2>2. Len(d) \in Nat /\ Len(s) \in Nat
    BY <2>1, SeqFacts
  <2>3. QED BY <2>1, <2>2
<1>2. k = IF I # {} THEN Min(I) ELSE 0
  BY DEF SelectInSeq
<1>3. I # {} => Min(I) \in I /\ \A y \in I : Min(I) <= y
  <2>1. I \subseteq Nat
    BY <1>1
  <2> HIDE DEF I
  <2>2. QED BY <2>1, MinOf
<1>4. d = IF k = 0 THEN s ELSE SubSeq(s, 1, k - 1)
  BY DEF Decoded
<1> HIDE DEF k, d
<1>5. CASE k = 0
  <2>1. I = {}
    BY <1>1, <1>2, <1>3, <1>5
  <2>2. d = s
    BY <1>4, <1>5
  <2>3. \A i \in 1 .. Len(s) : s[i] # Raw
    BY <2>1
  <2>4. QED BY <1>1, <2>2, <2>3 DEF d
<1>6. CASE k # 0
  <2>1. k \in 1 .. Len(s) /\ s[k] = Raw /\ \A i \in 1 .. k - 1 : s[i] # Raw
    <3>1. k \in I /\ \A y \in I : k <= y
      BY <1>2, <1>3, <1>6
    <3>2. QED BY <1>1, <3>1
  <2> DEFINE m == k - 1
  <2>2. m \in Nat /\ m < Len(s) /\ m + 1 = k
    BY <1>1, <2>1
  <2>3. Len(d) = m
    <3>1. \A i \in 1 .. m : s[i] \in Line
      BY <1>1, <2>2, SeqFacts
    <3>2. d = SubSeq(s, 1, m)
      BY <1>4, <1>6
    <3> HIDE DEF m
    <3>3. Len(SubSeq(s, 1, m)) = IF 1 <= m THEN m - 1 + 1 ELSE 0
      BY <2>2, <3>1, SubSeqProperties
    <3>4. QED BY <2>2, <3>2, <3>3
  <2>4. s[Len(d) + 1] = Raw /\ Len(d) < Len(s) /\ \A i \in 1 .. Len(d) : s[i] # Raw
    BY <2>1, <2>2, <2>3
  <2>5. d # s
    BY <1>1, <2>4
  <2>6. QED BY <1>1, <2>4, <2>5 DEF d
<1>7. QED BY <1>5, <1>6

\* The beginning of a text that has a line that cannot be decoded has all that
\* can be decoded of the text.
LEMMA DecodedOfPart ==
  ASSUME NEW h \in Seq(Line), NEW t \in Seq(Line), Part(h, t, 0), Decoded(h) # h
  PROVE  Decoded(h) = Decoded(t) /\ Decoded(t) # t
<1> DEFINE a == Len(Decoded(h))
           b == Len(Decoded(t))
<1>1. /\ Decoded(h) \in Seq(Line) /\ a \in Nat /\ Len(h) \in Nat /\ a < Len(h)
      /\ \A i \in 1 .. a : Decoded(h)[i] = h[i] /\ h[i] # Raw
      /\ h[a + 1] = Raw
  <2>1. /\ Decoded(h) \in Seq(Line) /\ a \in Nat /\ Len(h) \in Nat /\ a <= Len(h)
        /\ \A i \in 1 .. a : Decoded(h)[i] = h[i] /\ h[i] # Raw
        /\ a < Len(h) => h[a + 1] = Raw
        /\ a = Len(h) <=> Decoded(h) = h
    BY DecodedFacts
  <2> HIDE DEF a
  <2>2. QED BY <2>1
<1>2. /\ Decoded(t) \in Seq(Line) /\ b \in Nat /\ Len(t) \in Nat /\ b <= Len(t)
      /\ \A i \in 1 .. b : Decoded(t)[i] = t[i] /\ t[i] # Raw
      /\ b < Len(t) => t[b + 1] = Raw
      /\ b = Len(t) <=> Decoded(t) = t
  BY DecodedFacts
<1>3. Len(h) <= Len(t) /\ \A j \in 1 .. Len(h) : h[j] = t[j]
  BY <1>1, <1>2 DEF Part
<1> HIDE DEF a, b
<1>4. a < Len(t) /\ t[a + 1] = Raw /\ \A i \in 1 .. a : t[i] = h[i] /\ t[i] # Raw
  BY <1>1, <1>2, <1>3
<1>5. ~(a < b)
  <2> SUFFICES ASSUME a < b PROVE FALSE
    OBVIOUS
  <2>1. a + 1 \in 1 .. b
    BY <1>1, <1>2
  <2>2. QED BY <1>2, <1>4, <2>1
<1>6. ~(b < a)
  <2> SUFFICES ASSUME b < a PROVE FALSE
    OBVIOUS
  <2>1. b + 1 \in 1 .. a /\ b < Len(t)
    BY <1>1, <1>2, <1>4
  <2>2. QED BY <1>2, <1>4, <2>1
<1>7. a = b
  BY <1>1, <1>2, <1>5, <1>6
<1>8. \A i \in 1 .. a : Decoded(h)[i] = Decoded(t)[i]
  BY <1>1, <1>2, <1>4, <1>7
<1>9. Decoded(h) = Decoded(t)
  <2>1. Len(Decoded(h)) = Len(Decoded(t))
    BY <1>7 DEF a, b
  <2>2. QED BY <1>1, <1>2, <1>8, <2>1, SeqEqual DEF a
<1>10. QED BY <1>2, <1>4, <1>7, <1>9

\* The part of a text before a limit.
LEMMA PrefixFacts ==
  ASSUME NEW s \in Seq(Line), NEW m \in 0 .. Len(s)
  PROVE  /\ SubSeq(s, 1, m) \in Seq(Line) /\ Len(SubSeq(s, 1, m)) = m
         /\ \A i \in 1 .. m : SubSeq(s, 1, m)[i] = s[i]
<1>1. Len(s) \in Nat /\ \A j \in 1..Len(s) : s[j] \in Line
  BY SeqFacts
<1>2. \A j \in 1..m : s[j] \in Line
  BY <1>1
<1>3. /\ SubSeq(s, 1, m) \in Seq(Line)
      /\ Len(SubSeq(s, 1, m)) = IF 1 <= m THEN m - 1 + 1 ELSE 0
      /\ \A i \in 1 .. m - 1 + 1 : SubSeq(s, 1, m)[i] = s[1 + i - 1]
  BY <1>1, <1>2, SubSeqProperties
<1>4. QED BY <1>1, <1>3

-----------------------------------------------------------------------------
(* What commands give *)

CommandType == [does: Commands, n: Nat, kind: Kinds]
TextType    == [text: Seq(Line), ends: BOOLEAN]

\* The kinds of stages that get to run.
Runnable(c) == c.kind \in {"plain", "redirected"}

LEMMA EndedTypes ==
  ASSUME NEW t \in Seq(Line)
  PROVE  Ended(t) \in TextType /\ Ended(t).text = t /\ Ended(t).ends
BY DEF Ended, TextType

LEMMA NumberTypes ==
  ASSUME NEW n \in Nat
  PROVE  [j \in 1..n |-> j] \in Seq(Line) /\ Len([j \in 1..n |-> j]) = n
<1>1. [j \in 1..n |-> j] \in [1..n -> Line]
  BY DEF Line
<1>2. QED BY <1>1, SeqDef, LenProperties

LEMMA ForeverTypes ==
  Forever \in TextType /\ Len(Forever.text) = 2 * MaxYes /\ ~Forever.ends
  /\ \A i \in 1..(2 * MaxYes) : Forever.text[i] = Yes
<1> DEFINE n == 2 * MaxYes
           t == [j \in 1..n |-> Yes]
<1>1. n \in Nat
  BY ConstantsAssumption
<1> HIDE DEF n
<1>2. t \in [1..n -> Line]
  BY DEF Line, Yes
<1>3. t \in Seq(Line) /\ Len(t) = n
  BY <1>1, <1>2, SeqDef, LenProperties
<1>4. Forever = [text |-> t, ends |-> FALSE]
  BY DEF Forever, n
<1>5. \A i \in 1..n : t[i] = Yes
  OBVIOUS
<1> HIDE DEF t
<1>6. QED BY <1>3, <1>4, <1>5 DEF TextType, n

LEMMA GivesCat ==
  ASSUME NEW c \in CommandType, Runnable(c), c.does = "cat", NEW x \in TextType
  PROVE  Gives(c, x) = x
<1>1. ~(c.kind \in {"unknown", "bad"})
  BY DEF Runnable
<1>2. QED BY <1>1 DEF Gives

LEMMA GivesHead ==
  ASSUME NEW c \in CommandType, Runnable(c), c.does = "head", NEW x \in TextType
  PROVE  LET good == Decoded(x.text)
             upto == Min({c.n, Len(good)})
         IN Gives(c, x) = [text |-> SubSeq(good, 1, upto),
                           ends |-> x.ends \/ good # x.text \/ upto = c.n]
<1>1. ~(c.kind \in {"unknown", "bad"})
  BY DEF Runnable
<1>2. QED BY <1>1 DEF Gives

LEMMA GivesSort ==
  ASSUME NEW c \in CommandType, Runnable(c), c.does = "sort", NEW x \in TextType
  PROVE  Gives(c, x) = IF x.ends \/ Decoded(x.text) # x.text
                       THEN Ended(Sorted(Decoded(x.text)))
                       ELSE [text |-> <<>>, ends |-> FALSE]
<1>1. ~(c.kind \in {"unknown", "bad"})
  BY DEF Runnable
<1>2. QED BY <1>1 DEF Gives

LEMMA GivesOther ==
  ASSUME NEW c \in CommandType, Runnable(c), NEW x \in TextType
  PROVE  /\ c.does = "yes"  => Gives(c, x) = Forever
         /\ c.does = "seq"  => Gives(c, x) = Ended([j \in 1..c.n |-> j])
         /\ c.does = "fail" => Gives(c, x) = Ended(<<>>)
<1>1. ~(c.kind \in {"unknown", "bad"})
  BY DEF Runnable
<1>2. CASE c.does = "yes"
  BY <1>1, <1>2 DEF Gives
<1>3. CASE c.does = "seq"
  BY <1>1, <1>3 DEF Gives
<1>4. CASE c.does = "fail"
  BY <1>1, <1>4 DEF Gives
<1>5. QED BY <1>2, <1>3, <1>4

LEMMA HeadFacts ==
  ASSUME NEW c \in CommandType, Runnable(c), c.does = "head", NEW x \in TextType
  PROVE  LET y == Gives(c, x)
             good == Decoded(x.text)
         IN /\ y \in TextType
            /\ Len(y.text) \in Nat /\ Len(good) \in Nat
            /\ Len(y.text) <= c.n /\ Len(y.text) <= Len(good)
            /\ Len(y.text) = c.n \/ Len(y.text) = Len(good)
            /\ \A i \in 1..Len(y.text) : y.text[i] = x.text[i]
            /\ x.ends \/ good # x.text \/ Len(y.text) = c.n => y.ends
<1> DEFINE y == Gives(c, x)
           good == Decoded(x.text)
           upto == Min({c.n, Len(good)})
<1>1. x.text \in Seq(Line) /\ x.ends \in BOOLEAN /\ c.n \in Nat
  BY DEF TextType, CommandType
<1>2. /\ good \in Seq(Line) /\ Len(good) \in Nat
      /\ \A i \in 1 .. Len(good) : good[i] = x.text[i]
  BY <1>1, DecodedFacts
<1> HIDE DEF good
<1>3. /\ upto \in Nat /\ upto <= c.n /\ upto <= Len(good) /\ (upto = c.n \/ upto = Len(good))
  BY <1>1, <1>2, MinOfTwo
<1>4. y = [text |-> SubSeq(good, 1, upto), ends |-> x.ends \/ good # x.text \/ upto = c.n]
  BY GivesHead DEF good
<1> HIDE DEF upto
<1>5. /\ SubSeq(good, 1, upto) \in Seq(Line) /\ Len(SubSeq(good, 1, upto)) = upto
      /\ \A i \in 1 .. upto : SubSeq(good, 1, upto)[i] = good[i]
  BY <1>2, <1>3, PrefixFacts
<1> DEFINE t == SubSeq(good, 1, upto)
           e == x.ends \/ good # x.text \/ upto = c.n
<1>6. e \in BOOLEAN
  OBVIOUS
<1>7. t \in Seq(Line) /\ Len(t) = upto /\ \A i \in 1 .. upto : t[i] = x.text[i]
  BY <1>2, <1>3, <1>5
<1>8. y = [text |-> t, ends |-> e] /\ (x.ends \/ good # x.text \/ upto = c.n => e)
  BY <1>4
<1> HIDE DEF y, t, e
<1>9. y \in TextType /\ y.text = t /\ y.ends = e
  BY <1>6, <1>7, <1>8 DEF TextType
<1>10. QED BY <1>2, <1>3, <1>7, <1>8, <1>9 DEF y, good

LEMMA GivesTypes ==
  ASSUME NEW c \in CommandType, NEW x \in TextType
  PROVE  Gives(c, x) \in TextType
<1>1. /\ x.text \in Seq(Line) /\ c.n \in Nat /\ <<>> \in Seq(Line)
      /\ c.kind \in Kinds /\ c.does \in Commands
  BY EmptySeq DEF TextType, CommandType
<1>2. CASE c.kind \in {"unknown", "bad"}
  <2>1. Gives(c, x) = Ended(<<>>)
    BY <1>2 DEF Gives
  <2>2. QED BY <1>1, <2>1, EndedTypes
<1>3. CASE Runnable(c)
  <2>1. CASE c.does = "cat"
    BY <1>3, <2>1, GivesCat
  <2>2. CASE c.does = "head"
    BY <1>3, <2>2, HeadFacts
  <2>3. CASE c.does = "sort"
    <3>1. Ended(Sorted(Decoded(x.text))) \in TextType
      <4>1. Decoded(x.text) \in Seq(Line)
        BY <1>1, DecodedTypes
      <4>2. Sorted(Decoded(x.text)) \in Seq(Line)
        BY <4>1, SortedTypes
      <4>3. QED BY <4>2, EndedTypes
    <3>2. [text |-> <<>>, ends |-> FALSE] \in TextType
      BY <1>1 DEF TextType
    <3>3. QED BY <1>3, <2>3, <3>1, <3>2, GivesSort
  <2>4. CASE c.does \in {"yes", "seq", "fail"}
    BY <1>1, <1>3, <2>4, GivesOther, ForeverTypes, NumberTypes, EndedTypes
  <2>5. QED BY <1>1, <2>1, <2>2, <2>3, <2>4 DEF Commands
<1>4. QED BY <1>1, <1>2, <1>3 DEF Kinds, Runnable

LEMMA ArrivesTypes ==
  ASSUME NEW k, NEW x \in TextType
  PROVE  Arrives(k, x) \in TextType
<1>1. x.text \in Seq(Line) /\ <<>> \in Seq(Line) /\ x.ends \in BOOLEAN
  BY EmptySeq DEF TextType
<1>2. Lossy(x.text) \in Seq(Line)
  BY <1>1, LossyTypes
<1>3. [x EXCEPT !.text = Lossy(@)] \in TextType
  <2> DEFINE l == Lossy(x.text)
  <2>1. [x EXCEPT !.text = Lossy(@)] = [x EXCEPT !.text = l]
    OBVIOUS
  <2> HIDE DEF l
  <2>2. l \in Seq(Line)
    BY <1>2 DEF l
  <2>3. QED BY <2>1, <2>2 DEF TextType
<1>4. QED BY <1>1, <1>3, EndedTypes DEF Arrives

-----------------------------------------------------------------------------
(* The reference has one meaning *)

MeaningIs(M) ==
  M = [k \in 0..N |-> IF k = 0 THEN Ended(input) ELSE Gives(pipeline[k], Arrives(k, M[k - 1]))]

\* What was chosen at the start.
Parsed == pipeline \in Pipelines /\ input \in Inputs

LEMMA ParsedTypes ==
  ASSUME Parsed
  PROVE  /\ N \in Nat /\ N >= 1 /\ input \in Seq(Line)
         /\ \A i \in Stages : pipeline[i] \in CommandType
<1>1. /\ pipeline \in Seq(CommandType) /\ Len(pipeline) >= 1 /\ input \in Seq(Line)
  BY ConstantTypes DEF Parsed, CommandType
<1>2. Len(pipeline) \in Nat /\ \A i \in 1..Len(pipeline) : pipeline[i] \in CommandType
  BY <1>1, LenProperties, ElementOfSeq
<1>3. QED BY <1>1, <1>2 DEF N, Stages

LEMMA MeaningTypes ==
  ASSUME Parsed, NEW M, MeaningIs(M)
  PROVE  \A k \in 0..N : M[k] \in TextType
<1> DEFINE T == {k \in 0..N : M[k] \notin TextType}
<1> SUFFICES ASSUME T # {}
             PROVE  FALSE
  OBVIOUS
<1>1. N \in Nat /\ input \in Seq(Line) /\ \A i \in 1..N : pipeline[i] \in CommandType
  BY ParsedTypes DEF Stages
<1>2. T \subseteq Nat
  BY <1>1
<1> DEFINE k == Min(T)
<1>3. k \in T /\ \A j \in T : k <= j
  <2> HIDE DEF T
  <2>1. QED BY <1>2, MinOf
<1> HIDE DEF k
<1>4. CASE k = 0
  <2>1. M[0] = Ended(input)
    BY <1>1 DEF MeaningIs
  <2>2. QED BY <1>1, <1>3, <1>4, <2>1, EndedTypes
<1>5. CASE k # 0
  <2>1. k \in 1..N /\ k - 1 \in 0..N /\ ~(k <= k - 1)
    BY <1>1, <1>3, <1>5
  <2>2. M[k - 1] \in TextType
    BY <1>3, <2>1
  <2>3. M[k] = Gives(pipeline[k], Arrives(k, M[k - 1]))
    BY <1>5, <2>1 DEF MeaningIs
  <2>4. pipeline[k] \in CommandType
    BY <1>1, <2>1
  <2>5. M[k] \in TextType
    BY <2>2, <2>3, <2>4, ArrivesTypes, GivesTypes
  <2>6. QED BY <1>3, <2>5
<1>6. QED BY <1>4, <1>5

LEMMA MeaningUnique ==
  ASSUME Parsed, NEW L, NEW M, MeaningIs(L), MeaningIs(M)
  PROVE  L = M
<1> DEFINE T == {k \in 0..N : L[k] # M[k]}
<1>1. N \in Nat
  BY ParsedTypes
<1>2. ASSUME T # {}
      PROVE  FALSE
  <2>1. T \subseteq Nat
    BY <1>1
  <2> DEFINE k == Min(T)
  <2>2. k \in T /\ \A j \in T : k <= j
    <3> HIDE DEF T
    <3>1. QED BY <1>2, <2>1, MinOf
  <2> HIDE DEF k
  <2>3. CASE k = 0
    <3>1. L[0] = Ended(input) /\ M[0] = Ended(input)
      BY <1>1 DEF MeaningIs
    <3>2. QED BY <2>2, <2>3, <3>1
  <2>4. CASE k # 0
    <3>1. k \in 0..N /\ k - 1 \in 0..N /\ ~(k <= k - 1)
      BY <1>1, <2>2, <2>4
    <3>2. L[k - 1] = M[k - 1]
      BY <2>2, <3>1
    <3>3. /\ L[k] = Gives(pipeline[k], Arrives(k, L[k - 1]))
          /\ M[k] = Gives(pipeline[k], Arrives(k, M[k - 1]))
      BY <2>4, <3>1 DEF MeaningIs
    <3>4. QED BY <2>2, <3>2, <3>3
  <2>5. QED BY <2>3, <2>4
<1>3. \A k \in 0..N : L[k] = M[k]
  BY <1>2
<1>4. L = [k \in 0..N |-> L[k]] /\ M = [k \in 0..N |-> M[k]]
  BY DEF MeaningIs
<1>5. [k \in 0..N |-> L[k]] = [k \in 0..N |-> M[k]]
  BY <1>3
<1>6. QED BY <1>4, <1>5

\* The meanings of the first k stages.
FirstMeanings(k, g) ==
  g = [j \in 0..k |-> IF j = 0 THEN Ended(input) ELSE Gives(pipeline[j], Arrives(j, g[j - 1]))]

LEMMA MeaningExists ==
  ASSUME Parsed
  PROVE  MeaningIs(Meaning)
<1> DEFINE T == {k \in 0..N : ~(\E g : FirstMeanings(k, g))}
<1>1. N \in Nat
  BY ParsedTypes
<1>2. T = {}
  <2> SUFFICES ASSUME T # {}
               PROVE  FALSE
    OBVIOUS
  <2>1. T \subseteq Nat
    BY <1>1
  <2> DEFINE k == Min(T)
  <2>2. k \in T /\ \A j \in T : k <= j
    <3> HIDE DEF T
    <3>1. QED BY <2>1, MinOf
  <2> HIDE DEF k
  <2>3. CASE k = 0
    <3>1. FirstMeanings(0, [j \in 0..0 |-> Ended(input)])
      <4> DEFINE g == [j \in 0..0 |-> Ended(input)]
      <4>1. \A j \in 0..0 : j = 0
        OBVIOUS
      <4>2. g = [j \in 0..0 |-> IF j = 0 THEN Ended(input)
                                ELSE Gives(pipeline[j], Arrives(j, g[j - 1]))]
        BY <4>1
      <4>3. QED BY <4>2 DEF FirstMeanings
    <3>2. QED BY <2>2, <2>3, <3>1
  <2>4. CASE k # 0
    <3>1. k \in Nat /\ k - 1 \in 0..N /\ ~(k <= k - 1)
      BY <1>1, <2>2, <2>4
    <3>2. PICK g : FirstMeanings(k - 1, g)
      BY <2>2, <3>1
    <3> DEFINE G(j, f) == IF j = 0 THEN Ended(input)
                          ELSE Gives(pipeline[j], Arrives(j, f[j - 1]))
               h == [j \in 0..k |-> IF j = k THEN G(k, g) ELSE g[j]]
    <3>3. g = [j \in 0..(k - 1) |-> G(j, g)]
      BY <3>2 DEF FirstMeanings
    <3>4. \A j \in 0..k : G(j, h) = G(j, g)
      <4> SUFFICES ASSUME NEW j \in 0..k
                   PROVE  G(j, h) = G(j, g)
        OBVIOUS
      <4>1. CASE j = 0
        BY <4>1
      <4>2. CASE j # 0
        <5>1. j - 1 \in 0..k /\ j - 1 # k
          BY <3>1, <4>2
        <5>2. h[j - 1] = g[j - 1]
          BY <5>1
        <5> HIDE DEF h
        <5>3. QED BY <5>2
      <4>3. QED BY <4>1, <4>2
    <3>5. \A j \in 0..k : h[j] = G(j, g)
      <4> SUFFICES ASSUME NEW j \in 0..k
                   PROVE  h[j] = G(j, g)
        OBVIOUS
      <4> HIDE DEF G
      <4>1. CASE j = k
        BY <4>1
      <4>2. CASE j # k
        <5>1. j \in 0..(k - 1)
          BY <3>1, <4>2
        <5>2. g[j] = G(j, g)
          BY <3>3, <5>1
        <5>3. QED BY <4>2, <5>2
      <4>3. QED BY <4>1, <4>2
    <3>6. h = [j \in 0..k |-> G(j, h)]
      <4>1. \A j \in 0..k : h[j] = G(j, h)
        <5> HIDE DEF G, h
        <5>1. QED BY <3>4, <3>5
      <4>2. h = [j \in 0..k |-> h[j]]
        OBVIOUS
      <4> HIDE DEF G, h
      <4>3. [j \in 0..k |-> h[j]] = [j \in 0..k |-> G(j, h)]
        BY <4>1
      <4>4. QED BY <4>2, <4>3
    <3>7. FirstMeanings(k, h)
      <4> HIDE DEF h
      <4>1. QED BY <3>6 DEF FirstMeanings
    <3>8. QED BY <2>2, <3>7
  <2>5. QED BY <2>3, <2>4
<1>3. PICK g : FirstMeanings(N, g)
  BY <1>1, <1>2
<1>4. g = [k \in 0..N |-> IF k = 0 THEN Ended(input)
                          ELSE Gives(pipeline[k], Arrives(k, g[k - 1]))]
  BY <1>3 DEF FirstMeanings
<1>5. Meaning = [k \in 0..N |-> IF k = 0 THEN Ended(input)
                                ELSE Gives(pipeline[k], Arrives(k, Meaning[k - 1]))]
  BY <1>4 DEF Meaning
<1>6. QED BY <1>5 DEF MeaningIs

-----------------------------------------------------------------------------
(* The steps of one stage *)

LEMMA StageFields ==
  ASSUME NEW c \in CommandType, NEW s \in StageType
  PROVE  /\ s.held \in Seq(Line) /\ Len(s.held) \in Nat /\ s.made \in Nat
         /\ s.pc \in {"created", "reading", "writing", "ended"}
         /\ c.does \in Commands /\ c.n \in Nat
         /\ Lines(c, s) \in Nat
         /\ c.does # "fail" => Lines(c, s) = s.made
         /\ c.does = "fail" => Lines(c, s) = 0
<1>1. s.held \in Seq(Line) /\ s.made \in Nat /\ s.pc \in {"created", "reading", "writing", "ended"}
  BY DEF StageType
<1>2. Len(s.held) \in Nat
  BY <1>1, LenProperties
<1>3. c.does \in Commands /\ c.n \in Nat
  BY DEF CommandType
<1>4. QED BY <1>1, <1>2, <1>3 DEF Lines

LEMMA GivenFields ==
  ASSUME NEW c \in CommandType, NEW x \in TextType
  PROVE  /\ Gives(c, x).text \in Seq(Line) /\ Len(Gives(c, x).text) \in Nat
         /\ Gives(c, x).ends \in BOOLEAN
         /\ x.text \in Seq(Line) /\ Len(x.text) \in Nat /\ x.ends \in BOOLEAN
<1>1. Gives(c, x) \in TextType
  BY GivesTypes
<1>2. Gives(c, x).text \in Seq(Line) /\ Gives(c, x).ends \in BOOLEAN
      /\ x.text \in Seq(Line) /\ x.ends \in BOOLEAN
  BY <1>1 DEF TextType
<1>3. QED BY <1>2, SeqFacts

LEMMA LessRead ==
  ASSUME NEW c, NEW x, NEW s, NEW k, NEW r \in BOOLEAN, NEW q \in BOOLEAN,
         StageAt(c, x, s, k, r), q => r
  PROVE  StageAt(c, x, s, k, q)
BY DEF StageAt

LEMMA StageStarts ==
  ASSUME NEW c \in CommandType, Runnable(c), NEW x \in TextType, NEW s \in StageType,
         NEW k \in Nat, NEW r \in BOOLEAN, NEW z \in StageType,
         StageAt(c, x, s, k, r), s.pc = "created",
         z.pc = IF c.does \in {"cat", "head", "sort"} THEN "reading" ELSE "writing",
         z.held = s.held, z.made = s.made
  PROVE  StageAt(c, x, z, k, r)
<1> DEFINE y == Gives(c, x)
<1>1. /\ y.text \in Seq(Line) /\ Len(y.text) \in Nat /\ x.text \in Seq(Line) /\ Len(x.text) \in Nat
  BY GivenFields
<1>2. s = NewStage(c) /\ k = 0
  BY DEF StageAt
<1>3. s.made = 0 /\ s.held = IF c.does = "seq" THEN [j \in 1..c.n |-> j] ELSE <<>>
  BY <1>2 DEF NewStage
<1>4. Lines(c, z) = 0 /\ c.does \in Commands /\ c.n \in Nat
  BY <1>3, StageFields DEF Lines
<1>5. CASE c.does \in {"cat", "head", "sort"}
  <2>1. z.pc = "reading" /\ z.held = <<>>
    BY <1>3, <1>5
  <2>2. Part(<<>>, x.text, 0) /\ Len(<<>>) = 0
    BY <1>1, PartEmpty
  <2> HIDE DEF y
  <2>3. QED BY <1>1, <1>2, <1>4, <1>5, <2>1, <2>2 DEF StageAt, y
<1>6. CASE c.does = "seq"
  <2>1. z.pc = "writing" /\ z.held = [j \in 1..c.n |-> j]
    BY <1>3, <1>6
  <2>2. y.text = [j \in 1..c.n |-> j] /\ y.ends
    BY <1>4, <1>6, GivesOther, NumberTypes, EndedTypes
  <2>3. Part(z.held, y.text, 0) /\ 0 + Len(z.held) = Len(y.text)
    BY <1>1, <2>1, <2>2, PartSelf
  <2> HIDE DEF y
  <2>4. QED BY <1>1, <1>2, <1>4, <1>6, <2>1, <2>2, <2>3 DEF StageAt, y
<1>7. CASE c.does \in {"yes", "fail"}
  <2>1. z.pc = "writing"
    BY <1>7
  <2> HIDE DEF y
  <2>2. QED BY <1>1, <1>2, <1>4, <1>7, <2>1 DEF StageAt, y
<1>8. QED BY <1>4, <1>5, <1>6, <1>7 DEF Commands

LEMMA StageTakes ==
  ASSUME NEW c \in CommandType, NEW x \in TextType, NEW s \in StageType,
         NEW k \in Nat, NEW r \in BOOLEAN, NEW z \in StageType, NEW u \in Seq(Line),
         StageAt(c, x, s, k, r), s.pc = "reading", Part(u, x.text, k),
         z.pc = "reading", z.held = s.held \o u, z.made = s.made
  PROVE  StageAt(c, x, z, k + Len(u), r)
<1>1. /\ s.held \in Seq(Line) /\ Len(s.held) \in Nat /\ Lines(c, s) \in Nat
      /\ Lines(c, z) = Lines(c, s) /\ x.text \in Seq(Line) /\ Len(u) \in Nat
  BY StageFields, GivenFields, SeqFacts DEF Lines
<1>2. /\ Part(s.held, x.text, Lines(c, s)) /\ Lines(c, s) + Len(s.held) = k
      /\ c.does \in {"cat", "head", "sort"} /\ (c.does = "sort" => Lines(c, s) = 0)
      /\ Lines(c, s) <= Len(Gives(c, x).text)
  BY DEF StageAt
<1>3. /\ Len(z.held) = Len(s.held) + Len(u) /\ Part(z.held, x.text, Lines(c, s))
  BY <1>1, <1>2, PartConcat
<1>4. Lines(c, s) + Len(z.held) = k + Len(u)
  <2> DEFINE w == Lines(c, s)
             a == Len(s.held)
             b == Len(u)
  <2>1. w \in Nat /\ a \in Nat /\ b \in Nat /\ w + a = k /\ Len(z.held) = a + b
    BY <1>1, <1>2, <1>3
  <2> HIDE DEF w, a, b
  <2>2. w + Len(z.held) = k + b
    BY <2>1
  <2>3. QED BY <2>2 DEF w, b
<1>5. QED BY <1>1, <1>2, <1>3, <1>4 DEF StageAt

\* cat and head pass on the next line of what they read.
LEMMA StagePasses ==
  ASSUME NEW c \in CommandType, Runnable(c), NEW x \in TextType, NEW s \in StageType,
         NEW k \in Nat, NEW r \in BOOLEAN, NEW z \in StageType,
         StageAt(c, x, s, k, r), s.pc = "reading", c.does \in {"cat", "head"},
         s.held # <<>>, c.does = "head" => s.made # c.n /\ Head(s.held) # Raw,
         z.pc = "reading", z.held = Tail(s.held), z.made = s.made + 1
  PROVE  /\ StageAt(c, x, z, k, r)
         /\ s.made + 1 <= Len(Gives(c, x).text) /\ Head(s.held) = Gives(c, x).text[s.made + 1]
<1> DEFINE y == Gives(c, x)
           w == s.made
<1>1. /\ y.text \in Seq(Line) /\ Len(y.text) \in Nat /\ x.text \in Seq(Line) /\ Len(x.text) \in Nat
  BY GivenFields
<1>2. /\ Lines(c, s) = w /\ Lines(c, z) = w + 1 /\ w \in Nat /\ c.n \in Nat
      /\ s.held \in Seq(Line) /\ Len(s.held) \in Nat
  BY StageFields
<1>3. Part(s.held, x.text, w) /\ w + Len(s.held) = k /\ w <= Len(y.text)
  BY <1>2 DEF StageAt
<1>4. /\ Head(s.held) = x.text[w + 1] /\ w + 1 <= Len(x.text)
      /\ Len(z.held) = Len(s.held) - 1 /\ Part(z.held, x.text, w + 1)
  <2> DEFINE h == s.held
             t == x.text
  <2>1. h \in Seq(Line) /\ t \in Seq(Line) /\ w \in Nat /\ h # <<>> /\ Part(h, t, w)
    BY <1>1, <1>2, <1>3
  <2> HIDE DEF h, t, w
  <2>2. /\ Head(h) = t[w + 1] /\ w + 1 <= Len(t)
        /\ Len(Tail(h)) = Len(h) - 1 /\ Part(Tail(h), t, w + 1)
    BY <2>1, PartHead
  <2>3. QED BY <2>2 DEF h, t
<1>5. w + 1 <= Len(y.text) /\ Head(s.held) = y.text[w + 1]
  <2>1. CASE c.does = "cat"
    BY <1>4, <2>1, GivesCat
  <2>2. CASE c.does = "head"
    <3> DEFINE good == Decoded(x.text)
    <3>1. /\ Len(good) \in Nat /\ Len(y.text) <= c.n /\ Len(y.text) <= Len(good)
          /\ Len(y.text) = c.n \/ Len(y.text) = Len(good)
          /\ \A i \in 1..Len(y.text) : y.text[i] = x.text[i]
      BY <2>2, HeadFacts
    <3>2. Len(good) < Len(x.text) => x.text[Len(good) + 1] = Raw
      BY <1>1, DecodedFacts
    <3> HIDE DEF good, y
    <3>3. w # c.n /\ x.text[w + 1] # Raw
      BY <1>4, <2>2
    <3>4. w # Len(good)
      BY <1>1, <1>2, <1>4, <3>2, <3>3
    <3>5. w + 1 <= Len(y.text)
      BY <1>1, <1>2, <1>3, <3>1, <3>3, <3>4
    <3>6. w + 1 \in 1..Len(y.text)
      BY <1>1, <1>2, <3>5
    <3>7. QED BY <1>4, <3>1, <3>5, <3>6
  <2>3. QED BY <2>1, <2>2
<1>6. (w + 1) + Len(z.held) = k
  <2> DEFINE a == Len(s.held)
             b == Len(z.held)
  <2>1. w \in Nat /\ a \in Nat /\ w + a = k /\ b = a - 1
    BY <1>2, <1>3, <1>4
  <2> HIDE DEF w, a, b
  <2>2. (w + 1) + b = k
    BY <2>1
  <2>3. QED BY <2>2 DEF b
<1> HIDE DEF y, w
<1>7. StageAt(c, x, z, k, r)
  BY <1>2, <1>4, <1>5, <1>6 DEF StageAt, y
<1>8. QED BY <1>5, <1>7 DEF y, w

\* sort and seq write the next line of their text.
LEMMA StageWrites ==
  ASSUME NEW c \in CommandType, NEW x \in TextType, NEW s \in StageType,
         NEW k \in Nat, NEW z \in StageType,
         StageAt(c, x, s, k, TRUE), s.pc = "writing", c.does \in {"sort", "seq"},
         s.held # <<>>,
         z.pc = "writing", z.held = Tail(s.held), z.made = s.made + 1
  PROVE  /\ StageAt(c, x, z, k, TRUE)
         /\ s.made + 1 <= Len(Gives(c, x).text) /\ Head(s.held) = Gives(c, x).text[s.made + 1]
<1> DEFINE y == Gives(c, x)
           w == s.made
<1>1. /\ y.text \in Seq(Line) /\ Len(y.text) \in Nat
  BY GivenFields
<1>2. /\ Lines(c, s) = w /\ Lines(c, z) = w + 1 /\ w \in Nat
      /\ s.held \in Seq(Line) /\ Len(s.held) \in Nat
  BY StageFields
<1>3. Part(s.held, y.text, w) /\ w + Len(s.held) = Len(y.text) /\ y.ends
  BY <1>2 DEF StageAt
<1>4. /\ Head(s.held) = y.text[w + 1] /\ w + 1 <= Len(y.text)
      /\ Len(z.held) = Len(s.held) - 1 /\ Part(z.held, y.text, w + 1)
  BY <1>1, <1>2, <1>3, PartHead
<1>5. (w + 1) + Len(z.held) = Len(y.text)
  <2> DEFINE a == Len(s.held)
  <2>1. w \in Nat /\ a \in Nat /\ w + a = Len(y.text) /\ Len(z.held) = a - 1
    BY <1>1, <1>2, <1>3, <1>4
  <2> DEFINE b == Len(z.held)
             e == Len(y.text)
  <2>2. w \in Int /\ a \in Int /\ b \in Int /\ e \in Int /\ w + a = e /\ b = a - 1
    BY <1>1, <2>1
  <2> HIDE DEF w, a, b, e
  <2>3. (w + 1) + b = e
    BY <2>2
  <2>4. QED BY <2>3 DEF b, e
<1> HIDE DEF y, w
<1>6. StageAt(c, x, z, k, TRUE)
  BY <1>2, <1>3, <1>4, <1>5 DEF StageAt, y
<1>7. QED BY <1>4, <1>6 DEF y, w

\* Nobody reads any more: what is held does not matter.
LEMMA StageDrops ==
  ASSUME NEW c \in CommandType, NEW x \in TextType, NEW s \in StageType,
         NEW k \in Nat, NEW z \in StageType,
         StageAt(c, x, s, k, FALSE), s.pc = "writing", z.pc = "writing", z.made = s.made
  PROVE  StageAt(c, x, z, k, FALSE)
<1>1. Lines(c, z) = Lines(c, s)
  BY DEF Lines
<1>2. QED BY <1>1 DEF StageAt

LEMMA StageSorts ==
  ASSUME NEW c \in CommandType, Runnable(c), NEW x \in TextType, NEW s \in StageType,
         NEW k \in Nat, NEW r \in BOOLEAN, NEW z \in StageType,
         StageAt(c, x, s, k, r), s.pc = "reading", c.does = "sort",
         Decoded(s.held) # s.held \/ (k = Len(x.text) /\ x.ends),
         z.pc = "writing", z.held = Sorted(Decoded(s.held)), z.made = s.made
  PROVE  StageAt(c, x, z, k, r)
<1> DEFINE y == Gives(c, x)
<1>1. /\ y.text \in Seq(Line) /\ Len(y.text) \in Nat /\ x.text \in Seq(Line) /\ Len(x.text) \in Nat
  BY GivenFields
<1>2. /\ s.held \in Seq(Line) /\ Lines(c, s) = s.made /\ Lines(c, z) = s.made
      /\ Len(s.held) \in Nat
  BY StageFields
<1>3. s.made = 0 /\ Part(s.held, x.text, 0) /\ Len(s.held) = k
  BY <1>2 DEF StageAt
<1>4. y = Ended(Sorted(Decoded(s.held)))
  <2>1. CASE Decoded(s.held) # s.held
    <3>1. Decoded(s.held) = Decoded(x.text) /\ Decoded(x.text) # x.text
      BY <1>1, <1>2, <1>3, <2>1, DecodedOfPart
    <3>2. QED BY <3>1, GivesSort
  <2>2. CASE k = Len(x.text) /\ x.ends
    <3>1. s.held = x.text
      BY <1>1, <1>2, <1>3, <2>2, PartWhole
    <3>2. QED BY <2>2, <3>1, GivesSort
  <2>3. QED BY <2>1, <2>2
<1>5. Sorted(Decoded(s.held)) \in Seq(Line)
  <2>1. Decoded(s.held) \in Seq(Line)
    BY <1>2, DecodedTypes
  <2>2. QED BY <2>1, SortedTypes
<1>6. y.text = z.held /\ y.ends
  BY <1>4, <1>5, EndedTypes
<1>7. Part(z.held, y.text, 0) /\ 0 + Len(z.held) = Len(y.text)
  BY <1>1, <1>6, PartSelf
<1> HIDE DEF y
<1>8. QED BY <1>1, <1>2, <1>3, <1>6, <1>7 DEF StageAt, y

LEMMA StageRepeats ==
  ASSUME NEW c \in CommandType, Runnable(c), NEW x \in TextType, NEW s \in StageType,
         NEW k \in Nat, NEW r \in BOOLEAN, NEW z \in StageType,
         StageAt(c, x, s, k, r), s.pc = "writing", c.does = "yes", s.made < MaxYes,
         z.pc = "writing", z.held = s.held, z.made = s.made + 1
  PROVE  /\ StageAt(c, x, z, k, r)
         /\ s.made + 1 <= Len(Gives(c, x).text) /\ Yes = Gives(c, x).text[s.made + 1]
<1> DEFINE y == Gives(c, x)
           w == s.made
<1>1. y = Forever
  BY GivesOther
<1>2. Lines(c, z) = w + 1 /\ w \in Nat /\ MaxYes \in Nat
  BY StageFields, ConstantsAssumption
<1>3. w + 1 <= Len(y.text) /\ Yes = y.text[w + 1]
  <2>1. w + 1 \in 1..(2 * MaxYes)
    BY <1>2
  <2>2. QED BY <1>1, <2>1, ForeverTypes
<1> HIDE DEF y, w
<1>4. StageAt(c, x, z, k, r)
  BY <1>2, <1>3 DEF StageAt, y
<1>5. QED BY <1>3, <1>4 DEF y, w

LEMMA StageFails ==
  ASSUME NEW c \in CommandType, NEW x \in TextType, NEW s \in StageType,
         NEW k \in Nat, NEW r \in BOOLEAN, NEW z \in StageType,
         StageAt(c, x, s, k, r), s.pc = "writing", c.does = "fail", z.pc = "writing"
  PROVE  StageAt(c, x, z, k, r)
<1>1. Lines(c, z) = 0 /\ Lines(c, s) = 0
  BY StageFields
<1>2. QED BY <1>1 DEF StageAt

\* A stage ends when it has written its text, or nobody reads any more.
LEMMA StageEnds ==
  ASSUME NEW c \in CommandType, Runnable(c), NEW x \in TextType, NEW s \in StageType,
         NEW k \in Nat, NEW r \in BOOLEAN, NEW z \in StageType,
         StageAt(c, x, s, k, r),
         \/ ~r /\ c.does # "fail"
         \/ /\ s.pc = "reading" /\ c.does \in {"cat", "head"}
            /\ s.held = <<>> /\ k = Len(x.text) /\ x.ends
         \/ /\ s.pc = "reading" /\ c.does = "head"
            /\ s.made = c.n \/ (s.held # <<>> /\ Head(s.held) = Raw)
         \/ s.pc = "writing" /\ c.does \in {"sort", "seq"} /\ s.held = <<>>
         \/ s.pc = "writing" /\ c.does = "fail" /\ s.made = 1,
         z.pc = "ended", z.made = s.made
  PROVE  StageAt(c, x, z, k, r)
<1> DEFINE y == Gives(c, x)
           w == Lines(c, s)
<1>1. /\ y.text \in Seq(Line) /\ Len(y.text) \in Nat /\ x.text \in Seq(Line) /\ Len(x.text) \in Nat
  BY GivenFields
<1>2. /\ Lines(c, z) = w /\ w \in Nat /\ c.n \in Nat /\ s.held \in Seq(Line) /\ Len(s.held) \in Nat
      /\ c.does # "fail" => w = s.made
      /\ c.does = "fail" => w = 0
  BY StageFields DEF Lines
<1>3. w <= Len(y.text)
  BY DEF StageAt
<1>4. s.held = <<>> => Len(s.held) = 0
  BY EmptySeq
<1>5. ASSUME c.does = "fail" => s.made = 1, r => w = Len(y.text) /\ y.ends
      PROVE  StageAt(c, x, z, k, r)
  <2> HIDE DEF y, w
  <2>1. QED BY <1>2, <1>3, <1>5 DEF StageAt, y, w
<1>6. CASE ~r /\ c.does # "fail"
  BY <1>5, <1>6
<1>7. CASE /\ s.pc = "reading" /\ c.does \in {"cat", "head"}
           /\ s.held = <<>> /\ k = Len(x.text) /\ x.ends
  <2>1. w = Len(x.text)
    <3>1. w + Len(s.held) = k
      BY <1>7 DEF StageAt
    <3>2. QED BY <1>1, <1>2, <1>4, <1>7, <3>1
  <2>2. CASE c.does = "cat"
    BY <1>5, <1>7, <2>1, <2>2, GivesCat
  <2>3. CASE c.does = "head"
    <3>1. /\ Len(y.text) <= Len(Decoded(x.text)) /\ y.ends
          /\ Len(Decoded(x.text)) \in Nat
      BY <1>7, <2>3, HeadFacts
    <3>2. Len(Decoded(x.text)) <= Len(x.text)
      BY <1>1, DecodedFacts
    <3>3. w = Len(y.text)
      BY <1>1, <1>2, <1>3, <2>1, <3>1, <3>2
    <3>4. QED BY <1>5, <2>3, <3>1, <3>3
  <2>4. QED BY <1>7, <2>2, <2>3
<1>8. CASE /\ s.pc = "reading" /\ c.does = "head"
           /\ s.made = c.n \/ (s.held # <<>> /\ Head(s.held) = Raw)
  <2>1. /\ Len(y.text) <= Len(Decoded(x.text)) /\ Len(y.text) <= c.n
        /\ Len(Decoded(x.text)) \in Nat
        /\ x.ends \/ Decoded(x.text) # x.text \/ Len(y.text) = c.n => y.ends
    BY <1>8, HeadFacts
  <2>2. CASE s.made = c.n
    <3>1. Len(y.text) = c.n /\ w = c.n
      BY <1>1, <1>2, <1>3, <1>8, <2>1, <2>2
    <3>2. y.ends
      BY <2>1, <3>1
    <3>3. QED BY <1>5, <1>8, <3>1, <3>2
  <2>3. CASE s.held # <<>> /\ Head(s.held) = Raw
    <3>1. Part(s.held, x.text, w)
      BY <1>8 DEF StageAt
    <3>2. x.text[w + 1] = Raw /\ w + 1 <= Len(x.text)
      BY <1>1, <1>2, <2>3, <3>1, PartHead
    <3>3. /\ Len(Decoded(x.text)) <= Len(x.text)
          /\ \A i \in 1 .. Len(Decoded(x.text)) : x.text[i] # Raw
          /\ Len(Decoded(x.text)) = Len(x.text) <=> Decoded(x.text) = x.text
      BY <1>1, DecodedFacts
    <3>4. Len(Decoded(x.text)) <= w
      BY <1>1, <1>2, <2>1, <3>2, <3>3
    <3>5. w = Len(y.text) /\ Decoded(x.text) # x.text
      BY <1>1, <1>2, <1>3, <2>1, <3>2, <3>3, <3>4
    <3>6. QED BY <1>5, <1>8, <2>1, <3>5
  <2>4. QED BY <1>8, <2>2, <2>3
<1>9. CASE s.pc = "writing" /\ c.does \in {"sort", "seq"} /\ s.held = <<>>
  <2>1. y.ends /\ (r => w + Len(s.held) = Len(y.text))
    BY <1>9 DEF StageAt
  <2>2. r => w = Len(y.text)
    BY <1>1, <1>2, <1>4, <1>9, <2>1
  <2>3. QED BY <1>5, <1>9, <2>1, <2>2
<1>10. CASE s.pc = "writing" /\ c.does = "fail" /\ s.made = 1
  <2>1. y = Ended(<<>>) /\ <<>> \in Seq(Line) /\ Len(<<>>) = 0
    BY <1>10, GivesOther, EmptySeq
  <2>2. y.text = <<>> /\ y.ends
    BY <2>1, EndedTypes
  <2>3. QED BY <1>2, <1>5, <1>10, <2>1, <2>2
<1>11. QED BY <1>6, <1>7, <1>8, <1>9, <1>10

-----------------------------------------------------------------------------
(* One stage of the window *)

\* What a window is made of.
Running(M) == RunInv(M) /\ (streaming => Together)

LEMMA WindowSizes ==
  ASSUME TypeOK
  PROVE  /\ N \in Nat /\ FirstStage \in Nat /\ LastStage \in Nat
         /\ FirstStage >= 1 /\ LastStage <= N /\ FirstStage <= LastStage
         /\ \A i : i \in Window <=> i \in Nat /\ FirstStage <= i /\ i <= LastStage
         /\ ~streaming => FirstStage = at /\ LastStage = at
         /\ streaming => FirstStage = 1 /\ LastStage = N
         /\ at \in Nat /\ at >= 1 /\ at <= N
<1>1. N \in Nat /\ N >= 1 /\ at \in Nat /\ at >= 1 /\ at <= N
  BY SizeTypes
<1>2. /\ ~streaming => FirstStage = at /\ LastStage = at
      /\ streaming => FirstStage = 1 /\ LastStage = N
  BY DEF FirstStage, LastStage
<1>3. streaming \/ ~streaming
  OBVIOUS
<1> HIDE DEF FirstStage, LastStage
<1>4. /\ FirstStage \in Nat /\ LastStage \in Nat /\ FirstStage >= 1 /\ LastStage <= N
      /\ FirstStage <= LastStage
  BY <1>1, <1>2, <1>3
<1>5. QED BY <1>1, <1>2, <1>4 DEF Window

LEMMA PipeFields ==
  ASSUME TypeOK, NEW i \in 0..N
  PROVE  /\ pipe[i] \in PipeType /\ pipe[i].lines \in Seq(Line) /\ Len(pipe[i].lines) \in Nat
         /\ pipe[i].reading \in BOOLEAN /\ pipe[i].writing \in BOOLEAN
<1>1. pipe[i] \in PipeType
  BY DEF TypeOK
<1>2. QED BY <1>1, PipeOps DEF PipeType

\* The texts of a window do not change while its stages run.
LEMMA SameWindow ==
  ASSUME UNCHANGED <<pipeline, input, streaming, at>>
  PROVE  /\ N' = N /\ Stages' = Stages /\ FirstStage' = FirstStage /\ LastStage' = LastStage
         /\ Window' = Window /\ (Together' <=> Together) /\ (Fails' <=> Fails)
         /\ \A i : Kind(i)' = Kind(i) /\ Does(i)' = Does(i) /\ (Complains(i)' <=> Complains(i))
         /\ \A M : MeaningIs(M)' <=> MeaningIs(M)
         /\ \A M, i : In(M, i)' = In(M, i) /\ PipeText(M, i)' = PipeText(M, i)
<1>1. /\ N' = N /\ Stages' = Stages /\ FirstStage' = FirstStage /\ LastStage' = LastStage
      /\ Window' = Window
      /\ \A i : Kind(i)' = Kind(i) /\ Does(i)' = Does(i)
  BY DEF N, Stages, FirstStage, LastStage, Window, Kind, Does
<1>2. (Together' <=> Together) /\ (Fails' <=> Fails)
  BY <1>1 DEF Together, Fails
<1>3. \A i : Complains(i)' <=> Complains(i)
  BY <1>1 DEF Complains
<1>4. \A i, y : Arrives(i, y)' = Arrives(i, y)
  BY <1>1, <1>2 DEF Arrives
<1>5. \A M, i : In(M, i)' = In(M, i)
  BY <1>4 DEF In
<1>6. \A M, i : PipeText(M, i)' = PipeText(M, i)
  BY <1>1, <1>5 DEF PipeText
<1>7. \A M : MeaningIs(M)' <=> MeaningIs(M)
  BY <1>1, <1>4 DEF MeaningIs
<1>8. QED BY <1>1, <1>2, <1>3, <1>5, <1>6, <1>7

LEMMA TextTypes ==
  ASSUME TypeOK, Parsed, NEW M, MeaningIs(M), NEW i \in Stages
  PROVE  /\ pipeline[i] \in CommandType /\ In(M, i) \in TextType
         /\ M[i] = Gives(pipeline[i], In(M, i)) /\ M[i] \in TextType
         /\ stage[i] \in StageType
<1>1. N \in Nat /\ i \in 1..N /\ i - 1 \in 0..N /\ i \in 0..N /\ i # 0
  BY SizeTypes DEF Stages
<1>2. M[i] \in TextType /\ M[i - 1] \in TextType
  BY <1>1, MeaningTypes
<1>3. M[i] = Gives(pipeline[i], In(M, i))
  BY <1>1 DEF MeaningIs, In
<1>4. In(M, i) \in TextType
  BY <1>2, ArrivesTypes DEF In
<1>5. pipeline[i] \in CommandType
  BY ParsedTypes
<1>6. stage[i] \in StageType
  BY DEF TypeOK, StageType
<1>7. QED BY <1>2, <1>3, <1>4, <1>5, <1>6

\* The text a stage of the window reads comes through the pipe before it.
LEMMA TextsJoin ==
  ASSUME TypeOK, Parsed, NEW M, MeaningIs(M), streaming => Together, NEW i \in Window
  PROVE  /\ PipeText(M, i - 1) = In(M, i).text
         /\ i # FirstStage => In(M, i) = M[i - 1] /\ i - 1 \in Window
         /\ PipeText(M, i) = M[i].text
<1>1. /\ i \in Nat /\ FirstStage \in Nat /\ FirstStage <= i /\ i <= LastStage /\ LastStage \in Nat
      /\ ~streaming => FirstStage = at /\ LastStage = at
  BY WindowSizes
<1>2. PipeText(M, i) = M[i].text
  BY <1>1 DEF PipeText
<1>3. CASE i = FirstStage
  BY <1>1, <1>2, <1>3 DEF PipeText
<1>4. CASE i # FirstStage
  <2>1. streaming
    BY <1>1, <1>4
  <2>2. In(M, i) = M[i - 1]
    BY <2>1 DEF In, Arrives
  <2>3. ~(i - 1 < FirstStage) /\ i - 1 \in Window
    BY <1>1, <1>4, WindowSizes
  <2>4. QED BY <1>2, <2>2, <2>3 DEF PipeText
<1>5. QED BY <1>3, <1>4

LEMMA WrittenTypes ==
  ASSUME TypeOK, Parsed, NEW M, MeaningIs(M), RunInv(M), NEW i \in (FirstStage - 1)..LastStage
  PROVE  /\ Written(M, i) \in Nat /\ PipeText(M, i) \in Seq(Line) /\ Len(PipeText(M, i)) \in Nat
         /\ Written(M, i) <= Len(PipeText(M, i))
         /\ Consumed(M, i) \in Nat /\ Consumed(M, i) <= Written(M, i)
         /\ Consumed(M, i) = Written(M, i) - Len(pipe[i].lines)
<1>1. /\ FirstStage \in Nat /\ LastStage \in Nat /\ FirstStage <= LastStage /\ N \in Nat
      /\ FirstStage >= 1 /\ LastStage <= N /\ i \in Int
  BY WindowSizes
<1>2. i \in 0..N
  BY <1>1
<1>3. Len(pipe[i].lines) \in Nat
  BY <1>2, PipeFields
<1>4. /\ Written(M, i) \in Nat /\ PipeText(M, i) \in Seq(Line) /\ Len(PipeText(M, i)) \in Nat
      /\ Written(M, i) <= Len(PipeText(M, i))
  <2>1. CASE i < FirstStage
    <3>1. i = FirstStage - 1 /\ FirstStage \in Stages
      BY <1>1, <2>1 DEF Stages
    <3>2. In(M, FirstStage) \in TextType
      BY <3>1, TextTypes
    <3>3. PipeText(M, i) = In(M, FirstStage).text /\ Written(M, i) = Len(PipeText(M, i)) - Len(feed)
      BY <2>1 DEF PipeText, Written
    <3>4. PipeText(M, i) \in Seq(Line) /\ Len(PipeText(M, i)) \in Nat /\ Len(feed) \in Nat
      BY <3>2, <3>3, SeqFacts DEF TextType, TypeOK
    <3>5. Written(M, i) >= 0
      BY <3>1 DEF RunInv
    <3>6. QED BY <3>3, <3>4, <3>5
  <2>2. CASE ~(i < FirstStage)
    <3>1. i \in Window /\ i \in Stages
      BY <1>1, <2>2, WindowSizes DEF Stages
    <3>2. StageAt(pipeline[i], In(M, i), stage[i], Consumed(M, i - 1), pipe[i].reading)
      BY <3>1 DEF RunInv, WindowAt
    <3>3. M[i] = Gives(pipeline[i], In(M, i)) /\ M[i] \in TextType
          /\ pipeline[i] \in CommandType /\ stage[i] \in StageType
      BY <3>1, TextTypes
    <3>4. PipeText(M, i) = M[i].text /\ Written(M, i) = Lines(pipeline[i], stage[i])
      BY <2>2 DEF PipeText, Written
    <3>5. Lines(pipeline[i], stage[i]) <= Len(M[i].text)
      BY <3>2, <3>3 DEF StageAt
    <3>6. PipeText(M, i) \in Seq(Line) /\ Len(PipeText(M, i)) \in Nat
      BY <3>3, <3>4, SeqFacts DEF TextType
    <3>7. Lines(pipeline[i], stage[i]) \in Nat
      BY <3>3, StageFields
    <3>8. QED BY <3>4, <3>5, <3>6, <3>7
  <2>3. QED BY <2>1, <2>2
<1>5. Consumed(M, i) >= 0
  BY DEF RunInv, PipeAt
<1>6. Consumed(M, i) = Written(M, i) - Len(pipe[i].lines)
  BY DEF Consumed
<1>7. QED BY <1>3, <1>4, <1>5, <1>6

LEMMA StageContext ==
  ASSUME TypeOK, Parsed, NEW M, MeaningIs(M), Running(M), NEW i \in Window
  PROVE  /\ i \in Stages /\ i \in 0..N /\ i - 1 \in 0..N /\ i # i - 1
         /\ i \in (FirstStage - 1)..LastStage /\ i - 1 \in (FirstStage - 1)..LastStage
         /\ pipeline[i] \in CommandType /\ Runnable(pipeline[i])
         /\ In(M, i) \in TextType /\ stage[i] \in StageType
         /\ StageAt(pipeline[i], In(M, i), stage[i], Consumed(M, i - 1), pipe[i].reading)
         /\ PipeText(M, i - 1) = In(M, i).text
         /\ PipeText(M, i) = Gives(pipeline[i], In(M, i)).text
         /\ Written(M, i) = Lines(pipeline[i], stage[i])
<1>1. /\ i \in Nat /\ FirstStage \in Nat /\ FirstStage <= i /\ i <= LastStage /\ LastStage \in Nat
      /\ N \in Nat /\ FirstStage >= 1 /\ LastStage <= N
  BY WindowSizes
<1>2. /\ i \in Stages /\ i \in 0..N /\ i - 1 \in 0..N /\ i # i - 1
      /\ i \in (FirstStage - 1)..LastStage /\ i - 1 \in (FirstStage - 1)..LastStage
  BY <1>1 DEF Stages
<1>3. /\ pipeline[i] \in CommandType /\ In(M, i) \in TextType /\ stage[i] \in StageType
      /\ M[i] = Gives(pipeline[i], In(M, i))
  BY <1>2, TextTypes
<1>4. /\ Kind(i) \in {"plain", "redirected"}
      /\ StageAt(pipeline[i], In(M, i), stage[i], Consumed(M, i - 1), pipe[i].reading)
  BY DEF Running, RunInv, WindowAt
<1>5. Runnable(pipeline[i])
  BY <1>4 DEF Runnable, Kind
<1>6. PipeText(M, i - 1) = In(M, i).text /\ PipeText(M, i) = M[i].text
  BY TextsJoin DEF Running
<1>7. Written(M, i) = Lines(pipeline[i], stage[i])
  BY <1>1 DEF Written
<1>8. QED BY <1>2, <1>3, <1>4, <1>5, <1>6, <1>7

\* A stage that is told the end has read all there is.
LEMMA EndIsTheEnd ==
  ASSUME TypeOK, Parsed, NEW M, MeaningIs(M), Running(M), phase = "run", NEW i \in Window,
         stage[i].pc = "reading", AtEnd(i)
  PROVE  Consumed(M, i - 1) = Len(In(M, i).text) /\ In(M, i).ends
<1>1. /\ i - 1 \in (FirstStage - 1)..LastStage /\ PipeText(M, i - 1) = In(M, i).text
      /\ i - 1 \in 0..N /\ i \in Stages /\ In(M, i) \in TextType
  BY StageContext
<1>2. pipe[i - 1].lines = <<>> /\ ~pipe[i - 1].writing
  BY DEF AtEnd
<1>3. /\ Written(M, i - 1) \in Nat
      /\ Consumed(M, i - 1) = Written(M, i - 1) - Len(pipe[i - 1].lines)
  BY <1>1, WrittenTypes DEF Running
<1>4. Consumed(M, i - 1) = Written(M, i - 1)
  <2>1. Len(pipe[i - 1].lines) = 0
    BY <1>2, EmptySeq
  <2>2. QED BY <1>3, <2>1
<1>5. CASE i = FirstStage
  <2>1. feed = <<>> /\ In(M, FirstStage).ends
    BY DEF Running, RunInv
  <2>2. Written(M, i - 1) = Len(PipeText(M, i - 1)) - Len(feed)
    <3>1. i - 1 < FirstStage
      BY <1>5, WindowSizes
    <3>2. QED BY <3>1 DEF Written
  <2>3. Len(feed) = 0 /\ Len(PipeText(M, i - 1)) \in Nat
    BY <1>1, <2>1, EmptySeq, SeqFacts DEF TextType
  <2>4. QED BY <1>1, <1>4, <1>5, <2>1, <2>2, <2>3
<1>6. CASE i # FirstStage
  <2>1. In(M, i) = M[i - 1] /\ i - 1 \in Window
    BY <1>6, TextsJoin DEF Running
  <2> DEFINE j == i - 1
  <2>2. j \in Window /\ In(M, i) = M[j] /\ Consumed(M, j) = Written(M, j) /\ ~pipe[j].writing
    BY <1>2, <1>4, <2>1
  <2>3. pipe[j].reading
    BY DEF Running, RunInv, WindowAt
  <2> HIDE DEF j
  <2>4. stage[j].pc = "ended"
    BY <2>2 DEF Running, RunInv, WindowAt
  <2>5. /\ StageAt(pipeline[j], In(M, j), stage[j], Consumed(M, j - 1), pipe[j].reading)
        /\ Written(M, j) = Lines(pipeline[j], stage[j]) /\ j \in Stages
    BY <2>2, StageContext
  <2>6. M[j] = Gives(pipeline[j], In(M, j))
    BY <2>5, TextTypes
  <2>7. Lines(pipeline[j], stage[j]) = Len(M[j].text) /\ M[j].ends
    BY <2>3, <2>4, <2>5, <2>6 DEF StageAt
  <2>8. QED BY <2>2, <2>5, <2>7 DEF j
<1>7. QED BY <1>5, <1>6

(***************************************************************************)
(* A step of stage i changes its two pipes and itself: what it takes from  *)
(* the one is consumed, what it puts in the other is written.              *)
(***************************************************************************)
LEMMA StageStep ==
  ASSUME TypeOK, Parsed, NEW M, MeaningIs(M), Running(M), phase = "run", NEW i \in Window,
         OnlyStages,
         \A j \in Stages : j # i => stage'[j] = stage[j] /\ err'[j] = err[j],
         \A j \in 0..N : j # i - 1 /\ j # i => pipe'[j] = pipe[j],
         NEW k, k = Written(M, i - 1) - Len(pipe'[i - 1].lines),
         StageAt(pipeline[i], In(M, i), stage'[i], k, pipe[i].reading),
         ~pipe'[i].writing => stage'[i].pc = "ended",
         stage'[i].pc \in {"created", "reading"} => pipe'[i - 1].reading,
         said[i] + Len(err'[i].lines) = IF Does(i) = "fail" THEN stage'[i].made ELSE 0,
         pipe'[i - 1].writing = pipe[i - 1].writing,
         pipe'[i - 1].reading \in BOOLEAN,
         pipe'[i - 1].reading => pipe[i - 1].reading,
         k >= 0, Part(pipe'[i - 1].lines, In(M, i).text, k),
         pipe'[i].reading = pipe[i].reading,
         Lines(pipeline[i], stage'[i]) - Len(pipe'[i].lines) = Consumed(M, i),
         Part(pipe'[i].lines, Gives(pipeline[i], In(M, i)).text, Consumed(M, i))
  PROVE  RunInv(M)'
<1>1. /\ UNCHANGED <<pipeline, input, phase, streaming, at, feed, said, out, file>>
      /\ FirstStage' = FirstStage /\ LastStage' = LastStage /\ Window' = Window
      /\ \A j : Kind(j)' = Kind(j) /\ Does(j)' = Does(j)
      /\ \A j : In(M, j)' = In(M, j) /\ PipeText(M, j)' = PipeText(M, j)
  <2>1. UNCHANGED <<pipeline, input, phase, streaming, at, feed, said, out, file>>
    BY DEF OnlyStages
  <2>2. QED BY <2>1, SameWindow
<1>2. /\ i \in Nat /\ FirstStage \in Nat /\ FirstStage <= i /\ i <= LastStage /\ LastStage \in Nat
      /\ N \in Nat /\ FirstStage >= 1 /\ LastStage <= N
      /\ \A j : j \in Window <=> j \in Nat /\ FirstStage <= j /\ j <= LastStage
  BY WindowSizes
<1>3. /\ PipeText(M, i - 1) = In(M, i).text
      /\ PipeText(M, i) = Gives(pipeline[i], In(M, i)).text
  BY StageContext
<1>4. ASSUME NEW j \in (FirstStage - 1)..LastStage, j # i
      PROVE  Written(M, j)' = Written(M, j)
  <2>1. CASE j < FirstStage
    BY <1>1, <2>1 DEF Written
  <2>2. CASE ~(j < FirstStage)
    <3>1. j \in Stages
      BY <1>2, <2>2 DEF Stages
    <3>2. stage'[j] = stage[j]
      BY <1>4, <3>1
    <3>3. QED BY <1>1, <2>2, <3>2 DEF Written
  <2>3. QED BY <2>1, <2>2
<1>5. Written(M, i)' = Lines(pipeline[i], stage'[i])
  BY <1>1, <1>2 DEF Written
<1>6. Consumed(M, i)' = Consumed(M, i)
  BY <1>5 DEF Consumed
<1>7. Consumed(M, i - 1)' = k
  <2>1. i - 1 \in (FirstStage - 1)..LastStage /\ i - 1 # i
    BY <1>2
  <2>2. Written(M, i - 1)' = Written(M, i - 1)
    BY <1>4, <2>1
  <2>3. QED BY <2>2 DEF Consumed
<1>8. ASSUME NEW j \in (FirstStage - 1)..LastStage, j # i, j # i - 1
      PROVE  Consumed(M, j)' = Consumed(M, j) /\ pipe'[j] = pipe[j]
  <2>1. j \in 0..N
    BY <1>2
  <2>2. pipe'[j] = pipe[j] /\ Written(M, j)' = Written(M, j)
    BY <1>4, <1>8, <2>1
  <2>3. QED BY <2>2 DEF Consumed
<1>9. ASSUME NEW j \in (FirstStage - 1)..LastStage
      PROVE  PipeAt(M, j)'
  <2>1. PipeAt(M, j)
    BY DEF Running, RunInv
  <2>2. CASE j = i
    <3>1. Consumed(M, i) >= 0
      BY <2>1, <2>2 DEF PipeAt
    <3>2. Part(pipe'[i].lines, PipeText(M, i)', Consumed(M, i)')
      BY <1>1, <1>3, <1>6
    <3>3. QED BY <1>6, <2>2, <3>1, <3>2 DEF PipeAt
  <2>3. CASE j = i - 1
    <3>1. Part(pipe'[i - 1].lines, PipeText(M, i - 1)', Consumed(M, i - 1)')
      BY <1>1, <1>3, <1>7
    <3>2. QED BY <1>7, <2>3, <3>1 DEF PipeAt
  <2>4. CASE j # i /\ j # i - 1
    BY <1>1, <1>8, <2>1, <2>4 DEF PipeAt
  <2>5. QED BY <2>2, <2>3, <2>4
<1>10. ASSUME NEW j \in Window
       PROVE  WindowAt(M, j)'
  <2>1. WindowAt(M, j) /\ j \in Nat /\ FirstStage <= j /\ j <= LastStage /\ j \in Stages
    BY <1>2 DEF Running, RunInv, Stages
  <2>2. CASE j = i
    <3>1. Kind(i)' \in {"plain", "redirected"}
      BY <1>1, <2>1, <2>2 DEF WindowAt
    <3>2. StageAt(pipeline[i], In(M, i), stage[i], k, pipe[i].reading)' <=>
            StageAt(pipeline[i], In(M, i), stage'[i], k, pipe[i].reading)
      <4>1. pipe'[i].reading = pipe[i].reading /\ pipeline' = pipeline /\ In(M, i)' = In(M, i)
        BY <1>1
      <4>2. QED BY <4>1
    <3>3. StageAt(pipeline[i], In(M, i), stage[i], Consumed(M, i - 1), pipe[i].reading)'
      BY <1>7, <3>2
    <3>4. (said[i] + Len(err[i].lines) = Complaints(i))'
      BY <1>1 DEF Complaints
    <3>5. QED BY <2>2, <3>1, <3>3, <3>4 DEF WindowAt
  <2>3. CASE j # i
    <3>1. stage'[j] = stage[j] /\ err'[j] = err[j]
      BY <2>1, <2>3
    <3>2. j - 1 \in (FirstStage - 1)..LastStage /\ j - 1 # i - 1 /\ j \in (FirstStage - 1)..LastStage
      BY <1>2, <2>1, <2>3
    <3>3. Consumed(M, j - 1)' = Consumed(M, j - 1) /\ pipe'[j - 1].reading = pipe[j - 1].reading
      <4>1. CASE j - 1 = i
        BY <1>6, <4>1
      <4>2. CASE j - 1 # i
        BY <1>8, <3>2, <4>2
      <4>3. QED BY <4>1, <4>2
    <3>4. /\ pipe'[j].writing = pipe[j].writing
          /\ pipe'[j].reading \in BOOLEAN /\ (pipe'[j].reading => pipe[j].reading)
      <4>1. j \in 0..N
        BY <1>2, <2>1
      <4>2. CASE j = i - 1
        BY <4>2
      <4>3. CASE j # i - 1
        <5>1. pipe'[j] = pipe[j]
          BY <2>3, <4>1, <4>3
        <5>2. QED BY <4>1, <5>1, PipeFields
      <4>4. QED BY <4>2, <4>3
    <3>5. StageAt(pipeline[j], In(M, j), stage[j], Consumed(M, j - 1), pipe'[j].reading)
      <4>1. pipe[j].reading \in BOOLEAN
        <5>1. j \in 0..N
          BY <1>2, <2>1
        <5>2. QED BY <5>1, PipeFields
      <4>2. StageAt(pipeline[j], In(M, j), stage[j], Consumed(M, j - 1), pipe[j].reading)
        BY <2>1 DEF WindowAt
      <4>3. QED BY <3>4, <4>1, <4>2, LessRead
    <3>6. StageAt(pipeline[j], In(M, j), stage[j], Consumed(M, j - 1), pipe[j].reading)'
      <4>1. pipeline' = pipeline /\ In(M, j)' = In(M, j)
        BY <1>1
      <4>2. QED BY <3>1, <3>3, <3>5, <4>1
    <3>7. (said[j] + Len(err[j].lines) = Complaints(j))'
      BY <1>1, <2>1, <3>1 DEF Complaints, WindowAt
    <3>8. /\ Kind(j)' \in {"plain", "redirected"}
          /\ ~pipe'[j].writing => stage'[j].pc = "ended"
          /\ stage'[j].pc \in {"created", "reading"} => pipe'[j - 1].reading
      BY <1>1, <2>1, <3>1, <3>3, <3>4 DEF WindowAt
    <3>9. QED BY <3>6, <3>7, <3>8 DEF WindowAt
  <2>4. QED BY <2>2, <2>3
<1>11. /\ In(M, FirstStage).ends /\ Written(M, FirstStage - 1) >= 0
       /\ Part(feed, PipeText(M, FirstStage - 1), Written(M, FirstStage - 1))
       /\ phase = "run" => feed = <<>>
       /\ pipe[LastStage].reading
       /\ Part(out, M[LastStage].text, 0) /\ Len(out) = Consumed(M, LastStage)
  BY DEF Running, RunInv
<1>12. /\ Written(M, FirstStage - 1)' = Written(M, FirstStage - 1)
       /\ Consumed(M, LastStage)' = Consumed(M, LastStage)
       /\ pipe'[LastStage].reading
  <2>1. /\ FirstStage - 1 \in (FirstStage - 1)..LastStage /\ FirstStage - 1 # i
        /\ LastStage \in (FirstStage - 1)..LastStage /\ LastStage # i - 1
    BY <1>2
  <2>2. PICK f : f = FirstStage - 1
    OBVIOUS
  <2>3. PICK l : l = LastStage
    OBVIOUS
  <2>4. /\ f \in (FirstStage - 1)..LastStage /\ f # i /\ f < FirstStage
        /\ l \in (FirstStage - 1)..LastStage /\ l # i - 1 /\ ~(l < FirstStage)
    BY <1>2, <2>1, <2>2, <2>3
  <2>5. Written(M, f)' = Written(M, f)
    BY <1>4, <2>4
  <2>6. Consumed(M, l)' = Consumed(M, l) /\ pipe'[l].reading = pipe[l].reading
    <3>1. CASE l = i
      BY <1>6, <3>1
    <3>2. CASE l # i
      BY <1>8, <2>4, <3>2
    <3>3. QED BY <3>1, <3>2
  <2>7. FirstStage' - 1 = f /\ LastStage' = l
    BY <1>1, <2>2, <2>3
  <2>8. Written(M, FirstStage - 1)' = Written(M, f)' /\ Written(M, FirstStage - 1) = Written(M, f)
    BY <2>2, <2>7 DEF Written, PipeText, In
  <2>9. Consumed(M, LastStage)' = Consumed(M, l)' /\ Consumed(M, LastStage) = Consumed(M, l)
    BY <2>3, <2>7 DEF Consumed, Written, PipeText, In
  <2>10. QED
    BY <1>11, <2>3, <2>5, <2>6, <2>8, <2>9
<1>13. /\ In(M, FirstStage)'.ends /\ Written(M, FirstStage - 1)' >= 0
       /\ Part(feed', PipeText(M, FirstStage - 1)', Written(M, FirstStage - 1)')
       /\ phase' = "run" => feed' = <<>>
       /\ Part(out', M[LastStage].text', 0) /\ Len(out)' = Consumed(M, LastStage)'
  <2>1. In(M, FirstStage)' = In(M, FirstStage) /\ PipeText(M, FirstStage - 1)' = PipeText(M, FirstStage - 1)
    BY <1>1 DEF In, PipeText
  <2>2. QED BY <1>1, <1>11, <1>12, <2>1
<1>14. /\ \A j \in (FirstStage' - 1)..LastStage' : PipeAt(M, j)'
       /\ \A j \in Window' : WindowAt(M, j)'
  BY <1>1, <1>9, <1>10
<1>15. QED
  BY <1>1, <1>12, <1>13, <1>14 DEF RunInv

-----------------------------------------------------------------------------
(* The commands *)

LEMMA StageAll ==
  ASSUME TypeOK, Parsed, NEW M, MeaningIs(M), Running(M), NEW i \in Window
  PROVE  /\ Consumed(M, i - 1) \in Nat
         /\ Consumed(M, i - 1) = Written(M, i - 1) - Len(pipe[i - 1].lines)
         /\ Written(M, i - 1) \in Nat
         /\ Part(pipe[i - 1].lines, In(M, i).text, Consumed(M, i - 1))
         /\ Consumed(M, i) \in Nat
         /\ Consumed(M, i) = Lines(pipeline[i], stage[i]) - Len(pipe[i].lines)
         /\ Part(pipe[i].lines, Gives(pipeline[i], In(M, i)).text, Consumed(M, i))
         /\ ~pipe[i].writing => stage[i].pc = "ended"
         /\ stage[i].pc \in {"created", "reading"} => pipe[i - 1].reading
         /\ said[i] + Len(err[i].lines) = IF Does(i) = "fail" THEN stage[i].made ELSE 0
<1>1. /\ i \in (FirstStage - 1)..LastStage /\ i - 1 \in (FirstStage - 1)..LastStage
      /\ PipeText(M, i - 1) = In(M, i).text
      /\ PipeText(M, i) = Gives(pipeline[i], In(M, i)).text
      /\ Written(M, i) = Lines(pipeline[i], stage[i])
  BY StageContext
<1>2. /\ Consumed(M, i - 1) \in Nat /\ Written(M, i - 1) \in Nat
      /\ Consumed(M, i - 1) = Written(M, i - 1) - Len(pipe[i - 1].lines)
      /\ Consumed(M, i) \in Nat /\ Consumed(M, i) = Written(M, i) - Len(pipe[i].lines)
  BY <1>1, WrittenTypes DEF Running
<1>3. PipeAt(M, i - 1) /\ PipeAt(M, i) /\ WindowAt(M, i)
  BY <1>1 DEF Running, RunInv
<1>4. QED BY <1>1, <1>2, <1>3 DEF PipeAt, WindowAt, Complaints

\* What a stage is left with when it ends.
LEMMA EndsFields ==
  ASSUME TypeOK, NEW i \in Stages, NEW c, Ends(i, c)
  PROVE  /\ OnlyStages
         /\ \A j \in Stages : j # i => stage'[j] = stage[j] /\ err'[j] = err[j]
         /\ \A j \in 0..N : j # i - 1 /\ j # i => pipe'[j] = pipe[j]
         /\ stage'[i].pc = "ended" /\ stage'[i].made = stage[i].made /\ stage'[i] \in StageType
         /\ pipe'[i - 1].lines = pipe[i - 1].lines /\ pipe'[i - 1].reading = FALSE
         /\ pipe'[i - 1].writing = pipe[i - 1].writing
         /\ pipe'[i].lines = pipe[i].lines /\ pipe'[i].reading = pipe[i].reading
         /\ err'[i].lines = err[i].lines
<1>1. /\ i \in 0..N /\ i - 1 \in 0..N /\ i # i - 1 /\ N \in Nat
      /\ pipe \in [0..N -> PipeType] /\ err \in [Stages -> PipeType]
      /\ stage \in [Stages -> StageType]
  BY SizeTypes DEF TypeOK, StageType
<1>2. pipe' = [pipe EXCEPT ![i - 1].reading = FALSE, ![i].writing = FALSE]
  BY DEF Ends
<1>3. /\ \A j \in 0..N : j # i - 1 /\ j # i => pipe'[j] = pipe[j]
      /\ pipe'[i - 1] = [pipe[i - 1] EXCEPT !.reading = FALSE]
      /\ pipe'[i] = [pipe[i] EXCEPT !.writing = FALSE]
  BY <1>1, <1>2
<1>4. /\ pipe'[i - 1].lines = pipe[i - 1].lines /\ pipe'[i - 1].reading = FALSE
      /\ pipe'[i - 1].writing = pipe[i - 1].writing
      /\ pipe'[i].lines = pipe[i].lines /\ pipe'[i].reading = pipe[i].reading
  BY <1>1, <1>3 DEF PipeType
<1>5. /\ \A j \in Stages : j # i => err'[j] = err[j]
      /\ err'[i].lines = err[i].lines
  BY <1>1 DEF Ends, PipeType
<1>6. stage' = [stage EXCEPT ![i].pc = "ended", ![i].held = <<>>]
  BY DEF Ends
<1>7. /\ \A j \in Stages : j # i => stage'[j] = stage[j]
      /\ stage'[i].pc = "ended" /\ stage'[i].made = stage[i].made /\ stage'[i] \in StageType
  BY <1>1, <1>6, EmptySeq DEF StageType
<1>8. OnlyStages
  BY DEF Ends
<1>9. QED BY <1>3, <1>4, <1>5, <1>7, <1>8

LEMMA EndsText ==
  ASSUME TypeOK, Parsed, NEW M, MeaningIs(M), Running(M), phase = "run", NEW i \in Window,
         NEW c, Ends(i, c),
         \/ ~pipe[i].reading /\ Does(i) # "fail"
         \/ /\ stage[i].pc = "reading" /\ Does(i) \in {"cat", "head"}
            /\ stage[i].held = <<>> /\ AtEnd(i)
         \/ /\ stage[i].pc = "reading" /\ Does(i) = "head"
            /\ EnoughWritten(i) \/ (stage[i].held # <<>> /\ Head(stage[i].held) = Raw)
         \/ stage[i].pc = "writing" /\ Does(i) \in {"sort", "seq"} /\ stage[i].held = <<>>
         \/ stage[i].pc = "writing" /\ Does(i) = "fail" /\ stage[i].made = 1
  PROVE  RunInv(M)'
<1> DEFINE b == pipeline[i]
           x == In(M, i)
           k == Consumed(M, i - 1)
<1>1. /\ i \in Stages /\ b \in CommandType /\ Runnable(b) /\ x \in TextType
      /\ stage[i] \in StageType /\ i - 1 \in 0..N /\ i \in 0..N
      /\ StageAt(b, x, stage[i], k, pipe[i].reading)
  BY StageContext
<1>2. /\ k \in Nat /\ k = Written(M, i - 1) - Len(pipe[i - 1].lines)
      /\ Part(pipe[i - 1].lines, x.text, k)
      /\ Consumed(M, i) = Lines(b, stage[i]) - Len(pipe[i].lines)
      /\ Part(pipe[i].lines, Gives(b, x).text, Consumed(M, i))
      /\ said[i] + Len(err[i].lines) = IF Does(i) = "fail" THEN stage[i].made ELSE 0
  BY StageAll
<1>3. /\ OnlyStages
      /\ \A j \in Stages : j # i => stage'[j] = stage[j] /\ err'[j] = err[j]
      /\ \A j \in 0..N : j # i - 1 /\ j # i => pipe'[j] = pipe[j]
      /\ stage'[i].pc = "ended" /\ stage'[i].made = stage[i].made /\ stage'[i] \in StageType
      /\ pipe'[i - 1].lines = pipe[i - 1].lines /\ pipe'[i - 1].reading = FALSE
      /\ pipe'[i - 1].writing = pipe[i - 1].writing
      /\ pipe'[i].lines = pipe[i].lines /\ pipe'[i].reading = pipe[i].reading
      /\ err'[i].lines = err[i].lines
  BY <1>1, EndsFields
<1>4. stage[i].pc = "reading" /\ AtEnd(i) => k = Len(x.text) /\ x.ends
  BY EndIsTheEnd
<1>5. pipe[i].reading \in BOOLEAN
  BY <1>1, PipeFields
<1>6. Lines(b, stage'[i]) = Lines(b, stage[i])
  BY <1>3 DEF Lines
<1> HIDE DEF b, x, k
<1>7. b.does = Does(i) /\ (EnoughWritten(i) => stage[i].made = b.n)
  BY DEF b, Does, EnoughWritten
<1>8. StageAt(b, x, stage'[i], k, pipe[i].reading)
  BY <1>1, <1>2, <1>3, <1>4, <1>5, <1>7, StageEnds
<1>9. /\ k = Written(M, i - 1) - Len(pipe'[i - 1].lines)
      /\ said[i] + Len(err'[i].lines) = IF Does(i) = "fail" THEN stage'[i].made ELSE 0
      /\ Part(pipe'[i - 1].lines, x.text, k)
      /\ Lines(b, stage'[i]) - Len(pipe'[i].lines) = Consumed(M, i)
      /\ Part(pipe'[i].lines, Gives(b, x).text, Consumed(M, i))
  BY <1>2, <1>3, <1>6
<1>10. k >= 0
  BY <1>2
<1>11. /\ ~pipe'[i].writing => stage'[i].pc = "ended"
       /\ ~(stage'[i].pc \in {"created", "reading"})
       /\ pipe'[i - 1].reading = FALSE
  BY <1>3
<1>12. QED
  BY <1>3, <1>8, <1>9, <1>10, <1>11, StageStep DEF b, x, k

LEMMA TakesText ==
  ASSUME TypeOK, Parsed, NEW M, MeaningIs(M), Running(M), phase = "run", NEW i \in Window,
         stage[i].pc = "reading", Takes(i)
  PROVE  RunInv(M)'
<1> DEFINE b == pipeline[i]
           x == In(M, i)
           k == Consumed(M, i - 1)
           s == pipe[i - 1].lines
<1>1. /\ i \in Stages /\ b \in CommandType /\ Runnable(b) /\ x \in TextType
      /\ stage[i] \in StageType /\ i - 1 \in 0..N /\ i \in 0..N /\ i # i - 1 /\ N \in Nat
      /\ StageAt(b, x, stage[i], k, pipe[i].reading)
      /\ stage \in [Stages -> StageType] /\ pipe \in [0..N -> PipeType]
  BY StageContext, WindowSizes DEF TypeOK, StageType
<1>2. /\ k \in Nat /\ k = Written(M, i - 1) - Len(s) /\ Written(M, i - 1) \in Nat
      /\ Part(s, x.text, k)
      /\ Consumed(M, i) = Lines(b, stage[i]) - Len(pipe[i].lines)
      /\ Part(pipe[i].lines, Gives(b, x).text, Consumed(M, i))
      /\ said[i] + Len(err[i].lines) = IF Does(i) = "fail" THEN stage[i].made ELSE 0
      /\ ~pipe[i].writing => stage[i].pc = "ended"
      /\ pipe[i - 1].reading
  BY StageAll
<1>3. /\ s \in Seq(Line) /\ Len(s) \in Nat /\ x.text \in Seq(Line)
      /\ pipe[i].reading \in BOOLEAN /\ pipe[i - 1].reading \in BOOLEAN
  BY <1>1, PipeFields DEF TextType
<1>4. PICK n \in 1..Min({Chunk, Len(s)}) :
        /\ pipe' = [pipe EXCEPT ![i - 1].lines = SubSeq(@, n + 1, Len(@))]
        /\ stage' = [stage EXCEPT ![i].held = @ \o SubSeq(s, 1, n)]
        /\ UNCHANGED <<err, code>> /\ OnlyStages
  BY DEF Takes
<1>5. n \in Nat /\ n >= 1 /\ n <= Len(s)
  <2> HIDE DEF s
  <2>1. Chunk \in Nat /\ Len(s) \in Nat
    BY <1>3, ConstantTypes
  <2>2. Min({Chunk, Len(s)}) \in Nat /\ Min({Chunk, Len(s)}) <= Len(s)
    BY <2>1, MinOfTwo
  <2>3. QED BY <2>1, <2>2
<1> DEFINE u == SubSeq(s, 1, n)
           v == SubSeq(s, n + 1, Len(s))
<1>6. /\ u \in Seq(Line) /\ Len(u) = n /\ Part(u, x.text, k)
      /\ v \in Seq(Line) /\ Len(v) = Len(s) - n /\ Part(v, x.text, k + n)
  <2> DEFINE t == x.text
  <2>1. /\ s \in Seq(Line) /\ t \in Seq(Line) /\ k \in Nat /\ Part(s, t, k)
        /\ n \in 1..Len(s)
    BY <1>2, <1>3, <1>5
  <2> HIDE DEF s, t, k
  <2>2. QED BY <2>1, PartSplit DEF t
<1>7. /\ pipe' = [pipe EXCEPT ![i - 1].lines = v]
      /\ stage' = [stage EXCEPT ![i].held = stage[i].held \o u]
  BY <1>1, <1>4
<1> HIDE DEF u, v
<1>8. /\ \A j \in Stages : j # i => stage'[j] = stage[j] /\ err'[j] = err[j]
      /\ \A j \in 0..N : j # i - 1 => pipe'[j] = pipe[j]
      /\ pipe'[i - 1].lines = v /\ pipe'[i - 1].reading = pipe[i - 1].reading
      /\ pipe'[i - 1].writing = pipe[i - 1].writing
      /\ pipe'[i] = pipe[i] /\ err'[i] = err[i]
  <2> DEFINE q == [pipe[i - 1] EXCEPT !.lines = v]
  <2>1. \A j \in Stages : j # i => stage'[j] = stage[j]
    BY <1>1, <1>7
  <2>2. err' = err
    BY <1>4
  <2>3. /\ \A j \in 0..N : j # i - 1 => pipe'[j] = pipe[j]
        /\ pipe'[i - 1] = q
    BY <1>1, <1>7
  <2>4. q.lines = v /\ q.reading = pipe[i - 1].reading /\ q.writing = pipe[i - 1].writing
    <3>1. pipe[i - 1] \in PipeType
      BY <1>1
    <3>2. QED BY <3>1 DEF PipeType
  <2> HIDE DEF q
  <2>5. pipe'[i] = pipe[i]
    BY <1>1, <2>3
  <2>6. QED BY <2>1, <2>2, <2>3, <2>4, <2>5
<1>9. /\ stage'[i].held = stage[i].held \o u /\ stage'[i].pc = "reading"
      /\ stage'[i].made = stage[i].made
  BY <1>1, <1>7 DEF StageType
<1>10. stage'[i] \in StageType
  <2>1. TypeOK' /\ Stages' = Stages
    BY <1>1, TakesTypes, <1>4 DEF OnlyStages, Stages, N
  <2>2. QED BY <1>1, <2>1 DEF TypeOK, StageType
<1>11. Lines(b, stage'[i]) = Lines(b, stage[i])
  BY <1>9 DEF Lines
<1> HIDE DEF b, x, k, s
<1> DEFINE m == k + n
<1>12. StageAt(b, x, stage'[i], m, pipe[i].reading)
  <2>1. StageAt(b, x, stage'[i], k + Len(u), pipe[i].reading)
    BY <1>1, <1>2, <1>3, <1>6, <1>9, <1>10, StageTakes
  <2>2. QED BY <1>6, <2>1
<1>13. m = Written(M, i - 1) - Len(pipe'[i - 1].lines) /\ m >= 0
  <2> DEFINE a == Len(s)
             c == Len(v)
             w == Written(M, i - 1)
  <2>1. a \in Nat /\ w \in Nat /\ k = w - a /\ c = a - n
    BY <1>2, <1>3, <1>6
  <2> HIDE DEF a, c, w
  <2>2. n \in Nat /\ k \in Nat
    BY <1>2, <1>5
  <2>3. k + n = w - c /\ k + n >= 0
    BY <2>1, <2>2
  <2>4. m = w - c /\ m >= 0
    BY <2>3
  <2>5. QED BY <1>8, <2>4 DEF c, w
<1>14. Part(pipe'[i - 1].lines, x.text, m)
  BY <1>6, <1>8
<1> HIDE DEF m
<1>15. /\ Lines(b, stage'[i]) - Len(pipe'[i].lines) = Consumed(M, i)
       /\ Part(pipe'[i].lines, Gives(b, x).text, Consumed(M, i))
       /\ said[i] + Len(err'[i].lines) = IF Does(i) = "fail" THEN stage'[i].made ELSE 0
  <2>1. pipe'[i] = pipe[i] /\ err'[i] = err[i]
    BY <1>1, <1>8
  <2>2. QED BY <1>2, <1>9, <1>11, <2>1
<1>16. /\ ~pipe'[i].writing => stage'[i].pc = "ended"
       /\ pipe'[i - 1].reading /\ pipe'[i - 1].reading \in BOOLEAN
       /\ pipe'[i].reading = pipe[i].reading
  BY <1>2, <1>3, <1>8
<1>17. \A j \in 0..N : j # i - 1 /\ j # i => pipe'[j] = pipe[j]
  BY <1>8
<1>18. \A j \in Stages : j # i => stage'[j] = stage[j] /\ err'[j] = err[j]
  BY <1>8
<1>19. /\ StageAt(pipeline[i], In(M, i), stage'[i], m, pipe[i].reading)
       /\ Part(pipe'[i - 1].lines, In(M, i).text, m)
       /\ Part(pipe'[i].lines, Gives(pipeline[i], In(M, i)).text, Consumed(M, i))
       /\ Lines(pipeline[i], stage'[i]) - Len(pipe'[i].lines) = Consumed(M, i)
  BY <1>12, <1>14, <1>15 DEF b, x
<1>20. /\ OnlyStages /\ pipe'[i - 1].writing = pipe[i - 1].writing
       /\ pipe'[i - 1].reading => pipe[i - 1].reading
       /\ stage'[i].pc \in {"created", "reading"} => pipe'[i - 1].reading
       /\ said[i] + Len(err'[i].lines) = IF Does(i) = "fail" THEN stage'[i].made ELSE 0
  BY <1>2, <1>4, <1>8, <1>15, <1>16
<1>21. QED
  BY <1>13, <1>16, <1>17, <1>18, <1>19, <1>20, StageStep

\* The next line of its text is put in the pipe after a stage.
LEMMA PutText ==
  ASSUME TypeOK, Parsed, NEW M, MeaningIs(M), Running(M), phase = "run", NEW i \in Window,
         Does(i) # "fail", stage[i].pc # "ended", NEW l,
         stage[i].made + 1 <= Len(Gives(pipeline[i], In(M, i)).text),
         l = Gives(pipeline[i], In(M, i)).text[stage[i].made + 1],
         pipe' = [pipe EXCEPT ![i] = Put(@, l)], err' = err, OnlyStages,
         \A j \in Stages : j # i => stage'[j] = stage[j],
         stage'[i] \in StageType,
         stage'[i].pc = stage[i].pc, stage'[i].made = stage[i].made + 1,
         StageAt(pipeline[i], In(M, i), stage'[i], Consumed(M, i - 1), pipe[i].reading)
  PROVE  RunInv(M)'
<1> DEFINE b == pipeline[i]
           x == In(M, i)
           y == Gives(b, x)
           k == Consumed(M, i - 1)
           s == pipe[i].lines
           W == Consumed(M, i)
           w == stage[i].made
<1>1. /\ i \in Stages /\ b \in CommandType /\ x \in TextType
      /\ stage[i] \in StageType /\ i - 1 \in 0..N /\ i \in 0..N /\ i # i - 1
      /\ pipe \in [0..N -> PipeType] /\ pipe[i] \in PipeType
  BY StageContext DEF TypeOK
<1>2. /\ k \in Nat /\ k = Written(M, i - 1) - Len(pipe[i - 1].lines)
      /\ Part(pipe[i - 1].lines, x.text, k)
      /\ W \in Nat /\ W = Lines(b, stage[i]) - Len(s)
      /\ Part(s, y.text, W)
      /\ said[i] + Len(err[i].lines) = IF Does(i) = "fail" THEN stage[i].made ELSE 0
      /\ ~pipe[i].writing => stage[i].pc = "ended"
      /\ stage[i].pc \in {"created", "reading"} => pipe[i - 1].reading
  BY StageAll
<1>3. /\ s \in Seq(Line) /\ Len(s) \in Nat /\ y.text \in Seq(Line) /\ w \in Nat
      /\ pipe[i].reading \in BOOLEAN /\ pipe[i - 1].reading \in BOOLEAN
  BY <1>1, PipeFields, GivenFields, StageFields
<1>4. Lines(b, stage[i]) = w /\ Lines(b, stage'[i]) = w + 1
  BY DEF Lines, Does
<1>5. W + Len(s) + 1 = w + 1
  <2> DEFINE a == Len(s)
  <2>1. a \in Nat /\ w \in Nat /\ W = w - a
    BY <1>2, <1>3, <1>4
  <2> HIDE DEF a, w, W
  <2>2. W + a + 1 = w + 1
    BY <2>1
  <2>3. QED BY <2>2 DEF a
<1>6. l = y.text[W + Len(s) + 1] /\ W + Len(s) + 1 <= Len(y.text)
  BY <1>5
<1> HIDE DEF W, s, y, x, k, b, w
<1>7. /\ Append(s, l) \in Seq(Line) /\ Len(Append(s, l)) = Len(s) + 1
      /\ Part(Append(s, l), y.text, W)
  BY <1>2, <1>3, <1>6, PartAppend
<1>8. /\ \A j \in 0..N : j # i => pipe'[j] = pipe[j]
      /\ pipe'[i] = Put(pipe[i], l)
      /\ pipe'[i - 1] = pipe[i - 1]
  BY <1>1
<1>9. /\ pipe'[i].lines = Append(s, l) /\ pipe'[i].reading = pipe[i].reading
      /\ pipe'[i].writing = pipe[i].writing
  BY <1>1, <1>8 DEF Put, PipeType, s
<1>10. Lines(b, stage'[i]) - Len(pipe'[i].lines) = W
  <2> DEFINE a == Len(s)
             c == Len(Append(s, l))
  <2>1. a \in Nat /\ w \in Nat /\ W = w - a /\ c = a + 1
    BY <1>2, <1>3, <1>4, <1>7
  <2> HIDE DEF a, c
  <2>2. (w + 1) - c = W
    BY <2>1
  <2>3. QED BY <1>4, <1>9, <2>2 DEF c
<1>11. Part(pipe'[i].lines, y.text, W)
  BY <1>7, <1>9
<1>12. /\ ~pipe'[i].writing => stage'[i].pc = "ended"
       /\ stage'[i].pc \in {"created", "reading"} => pipe'[i - 1].reading
       /\ pipe'[i - 1].reading \in BOOLEAN
  BY <1>2, <1>3, <1>8, <1>9
<1>13. said[i] + Len(err'[i].lines) = IF Does(i) = "fail" THEN stage'[i].made ELSE 0
  BY <1>2
<1>14. /\ k = Written(M, i - 1) - Len(pipe'[i - 1].lines) /\ k >= 0
       /\ Part(pipe'[i - 1].lines, x.text, k)
  BY <1>2, <1>8
<1>15. StageAt(b, x, stage'[i], k, pipe[i].reading)
  BY DEF b, x, k
<1>16. QED
  BY <1>8, <1>9, <1>10, <1>11, <1>12, <1>13, <1>14, <1>15, StageStep DEF b, x, k, y, W

\* A step that puts nothing in a pipe and takes nothing out.
LEMMA QuietText ==
  ASSUME TypeOK, Parsed, NEW M, MeaningIs(M), Running(M), phase = "run", NEW i \in Window,
         stage[i].pc # "ended", OnlyStages,
         \A j \in Stages : j # i => stage'[j] = stage[j] /\ err'[j] = err[j],
         stage'[i] \in StageType,
         stage'[i].pc = "reading" => stage[i].pc = "created" /\ pipe' = pipe,
         stage'[i].pc # "created",
         \/ pipe' = pipe
         \/ pipe' = [pipe EXCEPT ![i - 1].reading = FALSE],
         Lines(pipeline[i], stage'[i]) = Lines(pipeline[i], stage[i]),
         said[i] + Len(err'[i].lines) = IF Does(i) = "fail" THEN stage'[i].made ELSE 0,
         StageAt(pipeline[i], In(M, i), stage'[i], Consumed(M, i - 1), pipe[i].reading)
  PROVE  RunInv(M)'
<1> DEFINE b == pipeline[i]
           x == In(M, i)
           k == Consumed(M, i - 1)
<1>1. /\ i \in Stages /\ i - 1 \in 0..N /\ i \in 0..N /\ i # i - 1
      /\ pipe \in [0..N -> PipeType]
  BY StageContext DEF TypeOK
<1>2. /\ k \in Nat /\ k = Written(M, i - 1) - Len(pipe[i - 1].lines)
      /\ Part(pipe[i - 1].lines, x.text, k)
      /\ Consumed(M, i) = Lines(b, stage[i]) - Len(pipe[i].lines)
      /\ Part(pipe[i].lines, Gives(b, x).text, Consumed(M, i))
      /\ ~pipe[i].writing => stage[i].pc = "ended"
      /\ stage[i].pc \in {"created", "reading"} => pipe[i - 1].reading
  BY StageAll
<1>3. /\ pipe[i].reading \in BOOLEAN /\ pipe[i - 1].reading \in BOOLEAN
  BY <1>1, PipeFields
<1>4. /\ \A j \in 0..N : j # i - 1 => pipe'[j] = pipe[j]
      /\ pipe'[i - 1].lines = pipe[i - 1].lines /\ pipe'[i - 1].writing = pipe[i - 1].writing
      /\ pipe'[i - 1].reading \in {FALSE, pipe[i - 1].reading}
      /\ pipe'[i] = pipe[i]
  BY <1>1 DEF PipeType
<1> HIDE DEF b, x, k
<1>5. /\ k = Written(M, i - 1) - Len(pipe'[i - 1].lines)
      /\ Part(pipe'[i - 1].lines, x.text, k)
      /\ Lines(b, stage'[i]) - Len(pipe'[i].lines) = Consumed(M, i)
      /\ Part(pipe'[i].lines, Gives(b, x).text, Consumed(M, i))
  BY <1>2, <1>4 DEF b
<1>6. k >= 0
  BY <1>2
<1>7. /\ ~pipe'[i].writing => stage'[i].pc = "ended"
      /\ stage'[i].pc \in {"created", "reading"} => pipe'[i - 1].reading
      /\ pipe'[i - 1].reading \in BOOLEAN /\ (pipe'[i - 1].reading => pipe[i - 1].reading)
      /\ pipe'[i].reading = pipe[i].reading
  BY <1>2, <1>3, <1>4
<1>8. StageAt(b, x, stage'[i], k, pipe[i].reading)
  BY DEF b, x, k
<1>9. QED
  BY <1>4, <1>5, <1>6, <1>7, <1>8, StageStep DEF b, x, k

LEMMA PassesFields ==
  ASSUME TypeOK, NEW i \in Stages, Passes(i), stage[i].held # <<>>
  PROVE  /\ pipe' = [pipe EXCEPT ![i] = Put(@, Head(stage[i].held))] /\ err' = err /\ OnlyStages
         /\ \A j \in Stages : j # i => stage'[j] = stage[j]
         /\ stage'[i] \in StageType /\ stage'[i].pc = stage[i].pc
         /\ stage'[i].held = Tail(stage[i].held) /\ stage'[i].made = stage[i].made + 1
         /\ pipe[i].reading
<1>1. stage \in [Stages -> StageType] /\ stage[i] \in StageType
  BY DEF TypeOK, StageType
<1>2. TypeOK' /\ Stages' = Stages
  BY PassesTypes DEF Passes, OnlyStages, Stages, N
<1>3. stage'[i] \in StageType
  BY <1>2 DEF TypeOK, StageType
<1>4. stage' = [stage EXCEPT ![i].held = Tail(@), ![i].made = @ + 1]
  BY DEF Passes
<1>5. /\ \A j \in Stages : j # i => stage'[j] = stage[j]
      /\ stage'[i].pc = stage[i].pc
      /\ stage'[i].held = Tail(stage[i].held) /\ stage'[i].made = stage[i].made + 1
  BY <1>1, <1>4 DEF StageType
<1>6. QED BY <1>3, <1>5 DEF Passes, Room

\* cat and head pass a line on.
LEMMA PassesText ==
  ASSUME TypeOK, Parsed, NEW M, MeaningIs(M), Running(M), phase = "run", NEW i \in Window,
         stage[i].pc = "reading", Does(i) \in {"cat", "head"}, stage[i].held # <<>>,
         Does(i) = "head" => ~EnoughWritten(i) /\ Head(stage[i].held) # Raw,
         Passes(i)
  PROVE  RunInv(M)'
<1> DEFINE b == pipeline[i]
           x == In(M, i)
           k == Consumed(M, i - 1)
           z == stage'[i]
<1>1. /\ i \in Stages /\ b \in CommandType /\ Runnable(b) /\ x \in TextType
      /\ stage[i] \in StageType /\ i \in 0..N
      /\ StageAt(b, x, stage[i], k, pipe[i].reading)
  BY StageContext
<1>2. k \in Nat /\ pipe[i].reading \in BOOLEAN
  BY <1>1, StageAll, PipeFields
<1>3. /\ pipe' = [pipe EXCEPT ![i] = Put(@, Head(stage[i].held))] /\ err' = err /\ OnlyStages
      /\ \A j \in Stages : j # i => stage'[j] = stage[j]
      /\ z \in StageType /\ z.pc = stage[i].pc
      /\ z.held = Tail(stage[i].held) /\ z.made = stage[i].made + 1
  BY <1>1, PassesFields
<1>4. b.does = Does(i) /\ (~EnoughWritten(i) => stage[i].made # b.n)
  BY DEF Does, EnoughWritten
<1> HIDE DEF b, x, k, z
<1>5. /\ StageAt(b, x, z, k, pipe[i].reading)
      /\ stage[i].made + 1 <= Len(Gives(b, x).text)
      /\ Head(stage[i].held) = Gives(b, x).text[stage[i].made + 1]
  BY <1>1, <1>2, <1>3, <1>4, StagePasses
<1>6. Does(i) # "fail"
  OBVIOUS
<1>7. QED
  BY <1>3, <1>5, <1>6, PutText DEF b, x, k, z

\* sort and seq write on, whether or not somebody reads.
LEMMA InsistsText ==
  ASSUME TypeOK, Parsed, NEW M, MeaningIs(M), Running(M), phase = "run", NEW i \in Window,
         stage[i].pc = "writing", Does(i) \in {"sort", "seq"}, Insists(i)
  PROVE  RunInv(M)'
<1> DEFINE b == pipeline[i]
           x == In(M, i)
           k == Consumed(M, i - 1)
           z == stage'[i]
<1>1. /\ i \in Stages /\ b \in CommandType /\ x \in TextType
      /\ stage[i] \in StageType /\ i \in 0..N
      /\ StageAt(b, x, stage[i], k, pipe[i].reading)
  BY StageContext
<1>2. k \in Nat /\ pipe[i].reading \in BOOLEAN
  BY <1>1, StageAll, PipeFields
<1>3. b.does = Does(i) /\ stage[i].held # <<>> /\ Does(i) # "fail"
  BY DEF Does, Insists
<1>4. CASE pipe[i].reading
  <2>1. Passes(i)
    BY <1>4 DEF Insists
  <2>2. /\ pipe' = [pipe EXCEPT ![i] = Put(@, Head(stage[i].held))] /\ err' = err /\ OnlyStages
        /\ \A j \in Stages : j # i => stage'[j] = stage[j]
        /\ z \in StageType /\ z.pc = stage[i].pc
        /\ z.held = Tail(stage[i].held) /\ z.made = stage[i].made + 1
    BY <1>1, <1>3, <2>1, PassesFields
  <2> HIDE DEF b, x, k, z
  <2>3. /\ StageAt(b, x, stage[i], k, TRUE)
        /\ b.does \in {"sort", "seq"} /\ z.pc = "writing" /\ stage[i].pc = "writing"
    BY <1>1, <1>2, <1>3, <1>4, <2>2
  <2>4. /\ StageAt(b, x, z, k, TRUE)
        /\ stage[i].made + 1 <= Len(Gives(b, x).text)
        /\ Head(stage[i].held) = Gives(b, x).text[stage[i].made + 1]
    BY <1>1, <1>2, <1>3, <2>2, <2>3, StageWrites
  <2>5. StageAt(b, x, z, k, pipe[i].reading)
    BY <1>2, <1>4, <2>4
  <2>6. QED
    BY <1>3, <2>2, <2>4, <2>5, PutText DEF b, x, k, z
<1>5. CASE ~pipe[i].reading
  <2>1. /\ stage' = [stage EXCEPT ![i].held = Tail(@)]
        /\ UNCHANGED <<pipe, err>> /\ OnlyStages
    BY <1>5 DEF Insists
  <2>2. TypeOK' /\ Stages' = Stages
    BY <1>1, <2>1, InsistsTypes DEF OnlyStages, Stages, N
  <2>3. z \in StageType
    BY <1>1, <2>2 DEF TypeOK, StageType
  <2>4. stage \in [Stages -> StageType]
    BY DEF TypeOK, StageType
  <2>5. /\ \A j \in Stages : j # i => stage'[j] = stage[j] /\ err'[j] = err[j]
        /\ z.pc = "writing" /\ z.made = stage[i].made
    BY <1>1, <2>1, <2>4 DEF StageType
  <2> HIDE DEF b, x, k, z
  <2>6. StageAt(b, x, stage[i], k, FALSE)
    BY <1>1, <1>2, <1>5
  <2>7. StageAt(b, x, z, k, FALSE)
    BY <1>1, <1>2, <2>3, <2>5, <2>6, StageDrops
  <2>8. StageAt(b, x, z, k, pipe[i].reading)
    BY <1>2, <1>5, <2>7
  <2>9. Lines(b, z) = Lines(b, stage[i])
    BY <2>5 DEF Lines
  <2>10. said[i] + Len(err'[i].lines) = IF Does(i) = "fail" THEN stage'[i].made ELSE 0
    BY <2>1, StageAll, <1>3
  <2>11. /\ z.pc # "reading" /\ z.pc # "created" /\ stage[i].pc # "ended" /\ pipe' = pipe
    BY <2>1, <2>5
  <2>12. QED
    BY <2>1, <2>3, <2>5, <2>8, <2>9, <2>10, <2>11, QuietText DEF b, x, k, z
<1>6. QED BY <1>2, <1>4, <1>5

LEMMA StartsText ==
  ASSUME TypeOK, Parsed, NEW M, MeaningIs(M), Running(M), NEW i \in Window, starts(i)
  PROVE  RunInv(M)'
<1> DEFINE b == pipeline[i]
           x == In(M, i)
           k == Consumed(M, i - 1)
           z == stage'[i]
           pc == IF Does(i) \in {"cat", "head", "sort"} THEN "reading" ELSE "writing"
<1>1. /\ i \in Stages /\ b \in CommandType /\ Runnable(b) /\ x \in TextType
      /\ stage[i] \in StageType /\ i \in 0..N /\ stage \in [Stages -> StageType]
      /\ StageAt(b, x, stage[i], k, pipe[i].reading)
  BY StageContext DEF TypeOK, StageType
<1>2. k \in Nat /\ pipe[i].reading \in BOOLEAN
  BY <1>1, StageAll, PipeFields
<1>3. /\ phase = "run" /\ stage[i].pc = "created" /\ err' = err /\ OnlyStages
      /\ stage' = [stage EXCEPT ![i].pc = pc]
      /\ pipe' = IF Does(i) \in {"yes", "seq"} THEN [pipe EXCEPT ![i - 1].reading = FALSE]
                 ELSE pipe
  BY DEF starts, Runs
<1>4. TypeOK' /\ Stages' = Stages
  BY <1>1, <1>3, StartsTypes DEF OnlyStages, Stages, N
<1>5. z \in StageType
  BY <1>1, <1>4 DEF TypeOK, StageType
<1>6. b.does = Does(i)
  BY DEF Does
<1>7. pc = IF b.does \in {"cat", "head", "sort"} THEN "reading" ELSE "writing"
  BY <1>6
<1> HIDE DEF pc
<1>8. /\ \A j \in Stages : j # i => stage'[j] = stage[j] /\ err'[j] = err[j]
      /\ z.pc = pc /\ z.made = stage[i].made /\ z.held = stage[i].held
  BY <1>1, <1>3 DEF StageType
<1> HIDE DEF b, x, k, z
<1>9. StageAt(b, x, z, k, pipe[i].reading)
  BY <1>1, <1>2, <1>3, <1>5, <1>7, <1>8, StageStarts
<1>10. Lines(b, z) = Lines(b, stage[i])
  BY <1>8 DEF Lines
<1>11. said[i] + Len(err'[i].lines) = IF Does(i) = "fail" THEN stage'[i].made ELSE 0
  BY <1>3, <1>8, StageAll DEF z
<1>12. /\ z.pc # "created" /\ (z.pc = "reading" => stage[i].pc = "created" /\ pipe' = pipe)
       /\ pipe' = pipe \/ pipe' = [pipe EXCEPT ![i - 1].reading = FALSE]
       /\ stage[i].pc # "ended"
  BY <1>3, <1>6, <1>7, <1>8
<1>13. QED
  BY <1>3, <1>5, <1>8, <1>9, <1>10, <1>11, <1>12, QuietText DEF b, x, k, z

LEMMA SortText ==
  ASSUME TypeOK, Parsed, NEW M, MeaningIs(M), Running(M), phase = "run", NEW i \in Window,
         stage[i].pc = "reading", Does(i) = "sort",
         Decoded(stage[i].held) # stage[i].held \/ AtEnd(i),
         stage' = [stage EXCEPT ![i].pc = "writing", ![i].held = Sorted(Decoded(stage[i].held))],
         pipe' = [pipe EXCEPT ![i - 1].reading = FALSE],
         UNCHANGED <<err, code>>, OnlyStages
  PROVE  RunInv(M)'
<1> DEFINE b == pipeline[i]
           x == In(M, i)
           k == Consumed(M, i - 1)
           z == stage'[i]
           t == Sorted(Decoded(stage[i].held))
<1>1. /\ i \in Stages /\ b \in CommandType /\ Runnable(b) /\ x \in TextType
      /\ stage[i] \in StageType /\ i \in 0..N /\ stage \in [Stages -> StageType]
      /\ StageAt(b, x, stage[i], k, pipe[i].reading)
  BY StageContext DEF TypeOK, StageType
<1>2. k \in Nat /\ pipe[i].reading \in BOOLEAN
  BY <1>1, StageAll, PipeFields
<1>3. TypeOK' /\ Stages' = Stages
  BY <1>1, SortTypes DEF OnlyStages, Stages, N
<1>4. z \in StageType
  BY <1>1, <1>3 DEF TypeOK, StageType
<1>5. stage' = [stage EXCEPT ![i].pc = "writing", ![i].held = t]
  OBVIOUS
<1> HIDE DEF t
<1>6. /\ \A j \in Stages : j # i => stage'[j] = stage[j] /\ err'[j] = err[j]
      /\ z.pc = "writing" /\ z.made = stage[i].made /\ z.held = t
  BY <1>1, <1>5 DEF StageType
<1>7. AtEnd(i) => k = Len(x.text) /\ x.ends
  BY EndIsTheEnd
<1>8. b.does = "sort"
  BY DEF Does
<1> HIDE DEF b, x, k, z
<1>9. StageAt(b, x, z, k, pipe[i].reading)
  BY <1>1, <1>2, <1>4, <1>6, <1>7, <1>8, StageSorts DEF t
<1>10. Lines(b, z) = Lines(b, stage[i])
  BY <1>6 DEF Lines
<1>11. said[i] + Len(err'[i].lines) = IF Does(i) = "fail" THEN stage'[i].made ELSE 0
  BY StageAll
<1>12. z.pc # "created" /\ z.pc # "reading" /\ stage[i].pc # "ended"
  BY <1>6
<1>13. QED
  BY <1>4, <1>6, <1>9, <1>10, <1>11, <1>12, QuietText DEF b, x, k, z

LEMMA YesText ==
  ASSUME TypeOK, Parsed, NEW M, MeaningIs(M), Running(M), phase = "run", NEW i \in Window,
         stage[i].pc = "writing", Does(i) = "yes", stage[i].made < MaxYes, Room(pipe[i]),
         pipe' = [pipe EXCEPT ![i] = Put(@, Yes)],
         stage' = [stage EXCEPT ![i].made = @ + 1],
         UNCHANGED <<err, code>>, OnlyStages
  PROVE  RunInv(M)'
<1> DEFINE b == pipeline[i]
           x == In(M, i)
           k == Consumed(M, i - 1)
           z == stage'[i]
           m == stage[i].made + 1
<1>1. /\ i \in Stages /\ b \in CommandType /\ Runnable(b) /\ x \in TextType
      /\ stage[i] \in StageType /\ i \in 0..N /\ stage \in [Stages -> StageType]
      /\ StageAt(b, x, stage[i], k, pipe[i].reading)
  <2>1. stage \in [Stages -> StageType]
    BY DEF TypeOK, StageType
  <2>2. QED BY <2>1, StageContext
<1>2. k \in Nat /\ pipe[i].reading \in BOOLEAN /\ m \in Nat
  <2>1. k \in Nat
    BY StageAll
  <2>2. pipe[i].reading \in BOOLEAN
    BY <1>1, PipeFields
  <2>3. stage[i].made \in Nat
    BY <1>1, StageFields
  <2>4. QED BY <2>1, <2>2, <2>3
<1>3. stage' = [stage EXCEPT ![i].made = m]
  OBVIOUS
<1> HIDE DEF m
<1>4. /\ \A j \in Stages : j # i => stage'[j] = stage[j]
      /\ z.pc = "writing" /\ z.made = m /\ z.held = stage[i].held /\ z \in StageType
  <2>1. \A j \in Stages : j # i => stage'[j] = stage[j]
    BY <1>1, <1>3
  <2>2. z = [stage[i] EXCEPT !.made = m]
    BY <1>1, <1>3
  <2>3. /\ z.pc = stage[i].pc /\ z.made = m /\ z.held = stage[i].held /\ z \in StageType
    BY <1>1, <1>2, <2>2 DEF StageType
  <2>4. QED BY <2>1, <2>3
<1>5. b.does = "yes" /\ Does(i) # "fail"
  BY DEF Does
<1> HIDE DEF b, x, k, z
<1>6. /\ StageAt(b, x, z, k, pipe[i].reading)
      /\ stage[i].made + 1 <= Len(Gives(b, x).text)
      /\ Yes = Gives(b, x).text[stage[i].made + 1]
  BY <1>1, <1>2, <1>4, <1>5, StageRepeats DEF m
<1>7. /\ z.pc = stage[i].pc /\ stage[i].pc # "ended" /\ z.made = stage[i].made + 1
  BY <1>4 DEF m
<1>8. QED
  BY <1>4, <1>5, <1>6, <1>7, PutText DEF b, x, k, z

LEMMA FailText ==
  ASSUME TypeOK, Parsed, NEW M, MeaningIs(M), Running(M), phase = "run", NEW i \in Window,
         stage[i].pc = "writing", Does(i) = "fail", stage[i].made = 0,
         err' = [err EXCEPT ![i] = Put(@, Yes)],
         stage' = [stage EXCEPT ![i].made = 1],
         UNCHANGED <<pipe, code>>, OnlyStages
  PROVE  RunInv(M)'
<1> DEFINE b == pipeline[i]
           x == In(M, i)
           k == Consumed(M, i - 1)
           z == stage'[i]
<1>1. /\ i \in Stages /\ b \in CommandType /\ x \in TextType
      /\ stage[i] \in StageType /\ i \in 0..N /\ stage \in [Stages -> StageType]
      /\ err \in [Stages -> PipeType] /\ said[i] \in Nat
      /\ StageAt(b, x, stage[i], k, pipe[i].reading)
  BY StageContext DEF TypeOK, StageType
<1>2. k \in Nat /\ pipe[i].reading \in BOOLEAN
  BY <1>1, StageAll, PipeFields
<1>3. /\ \A j \in Stages : j # i => stage'[j] = stage[j] /\ err'[j] = err[j]
      /\ z.pc = "writing" /\ z.made = 1 /\ z \in StageType
  BY <1>1 DEF StageType
<1>4. b.does = "fail"
  BY DEF Does
<1>5. said[i] + Len(err'[i].lines) = 1
  <2> DEFINE a == Len(err[i].lines)
  <2>1. err[i] \in PipeType /\ Yes \in Line
    BY <1>1 DEF Yes, Line
  <2>2. a \in Nat /\ Len(err'[i].lines) = a + 1
    BY <1>1, <2>1, PutTypes, PipeOps
  <2>3. said[i] + a = 0
    BY StageAll
  <2> HIDE DEF a
  <2>4. QED BY <1>1, <2>2, <2>3
<1> HIDE DEF b, x, k, z
<1>6. StageAt(b, x, z, k, pipe[i].reading)
  BY <1>1, <1>2, <1>3, <1>4, StageFails
<1>7. Lines(b, z) = Lines(b, stage[i])
  BY <1>4 DEF Lines
<1>8. z.pc # "created" /\ z.pc # "reading" /\ stage[i].pc # "ended" /\ pipe' = pipe
      /\ said[i] + Len(err'[i].lines) = IF Does(i) = "fail" THEN stage'[i].made ELSE 0
  BY <1>3, <1>5 DEF z
<1>9. QED
  BY <1>3, <1>6, <1>7, <1>8, QuietText DEF b, x, k, z

LEMMA StageText ==
  ASSUME TypeOK, Parsed, NEW M, MeaningIs(M), Running(M), NEW i \in Stages, Stage(i)
  PROVE  RunInv(M)' /\ phase = "run" /\ OnlyStages /\ i \in Window
         /\ \A j \in Stages : j # i => stage'[j] = stage[j]
<1>1. phase = "run" /\ i \in Window
  BY DEF Stage, starts, cmd_cat, cmd_head, cmd_sort, cmd_yes, cmd_seq, cmd_fail, Runs
<1>2. /\ OnlyStages
      /\ \A j \in Stages : j # i => stage'[j] = stage[j]
  <2>1. stage \in [Stages -> StageType]
    BY DEF TypeOK, StageType
  <2>2. \A c : Ends(i, c) => OnlyStages /\ \A j \in Stages : j # i => stage'[j] = stage[j]
    BY <2>1 DEF Ends
  <2>3. Takes(i) \/ Passes(i) \/ Insists(i) =>
          OnlyStages /\ \A j \in Stages : j # i => stage'[j] = stage[j]
    BY <2>1 DEF Takes, Passes, Insists
  <2>4. CASE starts(i)
    BY <2>1, <2>4 DEF starts
  <2>5. CASE cmd_cat(i) \/ cmd_head(i)
    BY <2>2, <2>3, <2>5 DEF cmd_cat, cmd_head
  <2>6. CASE cmd_sort(i)
    BY <2>1, <2>2, <2>3, <2>6 DEF cmd_sort
  <2>7. CASE cmd_yes(i) \/ cmd_seq(i) \/ cmd_fail(i)
    BY <2>1, <2>2, <2>3, <2>7 DEF cmd_yes, cmd_seq, cmd_fail
  <2>8. QED BY <2>4, <2>5, <2>6, <2>7 DEF Stage
<1>3. RunInv(M)'
  <2>1. CASE starts(i)
    BY <1>1, <2>1, StartsText
  <2>2. CASE cmd_cat(i)
    <3>1. Does(i) = "cat" /\ stage[i].pc = "reading"
      BY <2>2 DEF cmd_cat, Runs
    <3>2. QED
      BY <1>1, <2>2, <3>1, TakesText, EndsText, PassesText DEF cmd_cat
  <2>3. CASE cmd_head(i)
    <3>1. Does(i) = "head" /\ stage[i].pc = "reading"
      BY <2>3 DEF cmd_head, Runs
    <3>2. QED
      BY <1>1, <2>3, <3>1, TakesText, EndsText, PassesText DEF cmd_head
  <2>4. CASE cmd_sort(i)
    <3>1. Does(i) = "sort"
      BY <2>4 DEF cmd_sort
    <3>2. CASE Runs(i, {"reading"}) /\ Takes(i)
      BY <1>1, <3>1, <3>2, TakesText DEF Runs
    <3>3. CASE /\ Runs(i, {"reading"})
               /\ Decoded(stage[i].held) # stage[i].held \/ AtEnd(i)
               /\ stage' = [stage EXCEPT ![i].pc = "writing",
                                         ![i].held = Sorted(Decoded(stage[i].held))]
               /\ pipe' = [pipe EXCEPT ![i - 1].reading = FALSE]
               /\ UNCHANGED <<err, code>> /\ OnlyStages
      BY <1>1, <3>1, <3>3, SortText DEF Runs
    <3>4. CASE Runs(i, {"writing"}) /\ Insists(i)
      BY <1>1, <3>1, <3>4, InsistsText DEF Runs
    <3>5. CASE Runs(i, {"writing"}) /\ stage[i].held = <<>> /\ Ends(i, 0)
      BY <1>1, <3>1, <3>5, EndsText DEF Runs
    <3>6. QED BY <2>4, <3>2, <3>3, <3>4, <3>5 DEF cmd_sort
  <2>5. CASE cmd_yes(i)
    <3>1. Does(i) = "yes" /\ stage[i].pc = "writing"
      BY <2>5 DEF cmd_yes, Runs
    <3>2. QED
      BY <1>1, <2>5, <3>1, YesText, EndsText DEF cmd_yes
  <2>6. CASE cmd_seq(i)
    <3>1. Does(i) = "seq" /\ stage[i].pc = "writing"
      BY <2>6 DEF cmd_seq, Runs
    <3>2. QED
      BY <1>1, <2>6, <3>1, InsistsText, EndsText DEF cmd_seq
  <2>7. CASE cmd_fail(i)
    <3>1. Does(i) = "fail" /\ stage[i].pc = "writing"
      BY <2>7 DEF cmd_fail, Runs
    <3>2. QED
      BY <1>1, <2>7, <3>1, FailText, EndsText DEF cmd_fail
  <2>8. QED
    BY <2>1, <2>2, <2>3, <2>4, <2>5, <2>6, <2>7 DEF Stage
<1>4. QED BY <1>1, <1>2, <1>3

-----------------------------------------------------------------------------
(* The drains and the writer of stdin. *)

\* The stages of the window, when none of them takes a step.
LEMMA WindowKept ==
  ASSUME TypeOK, NEW M, RunInv(M), UNCHANGED <<pipeline, input, streaming, at, stage>>,
         \A i \in Window :
           /\ Consumed(M, i - 1)' = Consumed(M, i - 1)
           /\ pipe'[i].reading = pipe[i].reading /\ pipe'[i].writing = pipe[i].writing
           /\ pipe'[i - 1].reading = pipe[i - 1].reading
           /\ said'[i] + Len(err'[i].lines) = said[i] + Len(err[i].lines)
  PROVE  \A i \in Window' : WindowAt(M, i)'
<1>1. /\ Window' = Window /\ \A j : Kind(j)' = Kind(j) /\ Does(j)' = Does(j)
      /\ \A j : In(M, j)' = In(M, j)
  BY SameWindow
<1>2. ASSUME NEW i \in Window
      PROVE  WindowAt(M, i)'
  <2>1. WindowAt(M, i)
    BY DEF RunInv
  <2>2. StageAt(pipeline[i], In(M, i), stage[i], Consumed(M, i - 1), pipe[i].reading)'
    <3>1. /\ pipeline' = pipeline /\ In(M, i)' = In(M, i) /\ stage' = stage
          /\ Consumed(M, i - 1)' = Consumed(M, i - 1) /\ pipe'[i].reading = pipe[i].reading
      BY <1>1
    <3>2. StageAt(pipeline[i], In(M, i), stage[i], Consumed(M, i - 1), pipe[i].reading)
      BY <2>1 DEF WindowAt
    <3>3. QED BY <3>1, <3>2
  <2>3. (said[i] + Len(err[i].lines) = Complaints(i))'
    BY <1>1, <2>1 DEF WindowAt, Complaints
  <2>4. QED BY <1>1, <2>1, <2>2, <2>3 DEF WindowAt
<1>3. QED BY <1>1, <1>2

LEMMA DrainText ==
  ASSUME TypeOK, Parsed, NEW M, MeaningIs(M), Running(M), drain_stdout
  PROVE  RunInv(M)'
<1>1. /\ UNCHANGED <<pipeline, input, phase, streaming, at, feed, err, stage, said, file>>
      /\ out' = Append(out, Head(pipe[LastStage].lines))
      /\ pipe' = [pipe EXCEPT ![LastStage].lines = Tail(@)]
      /\ pipe[LastStage].lines # <<>> /\ phase = "run"
  BY DEF drain_stdout
<1>2. /\ FirstStage' = FirstStage /\ LastStage' = LastStage /\ Window' = Window
      /\ \A j : In(M, j)' = In(M, j) /\ PipeText(M, j)' = PipeText(M, j)
  BY <1>1, SameWindow
<1>3. PICK l : l = LastStage
  OBVIOUS
<1>4. PICK f : f = FirstStage - 1
  OBVIOUS
<1>5. /\ l \in Nat /\ f \in Nat /\ f < l /\ f < FirstStage /\ ~(l < FirstStage) /\ l <= N
      /\ FirstStage \in Nat /\ N \in Nat
      /\ \A i : i \in Window <=> i \in Nat /\ FirstStage <= i /\ i <= l
      /\ l \in Window /\ l \in 0..N /\ l \in (FirstStage - 1)..LastStage
  BY <1>3, <1>4, WindowSizes
<1>6. pipe \in [0..N -> PipeType] /\ pipe[l] \in PipeType /\ out \in Seq(Line)
  BY <1>5 DEF TypeOK
<1> DEFINE s == pipe[l].lines
           t == PipeText(M, l)
           c == Consumed(M, l)
<1>7. s \in Seq(Line) /\ s # <<>> /\ t \in Seq(Line) /\ c \in Nat /\ Part(s, t, c)
  <2>1. PipeAt(M, l)
    BY <1>5 DEF Running, RunInv
  <2>2. c \in Nat /\ t \in Seq(Line)
    BY <1>5, WrittenTypes DEF Running
  <2>3. QED BY <1>1, <1>3, <1>6, <2>1, <2>2, PipeOps DEF PipeAt
<1>8. /\ Head(s) = t[c + 1] /\ c + 1 <= Len(t)
      /\ Tail(s) \in Seq(Line) /\ Len(Tail(s)) = Len(s) - 1 /\ Len(s) \in Nat
      /\ Part(Tail(s), t, c + 1)
  <2> HIDE DEF s, t, c
  <2>1. QED BY <1>7, PartHead
<1>9. \A j : Written(M, j)' = Written(M, j)
  BY <1>1, <1>2 DEF Written
<1>10. /\ pipe'[l].lines = Tail(s) /\ pipe'[l].reading = pipe[l].reading
       /\ pipe'[l].writing = pipe[l].writing
       /\ \A j \in 0..N : j # l => pipe'[j] = pipe[j]
  BY <1>1, <1>3, <1>5, <1>6 DEF PipeType
<1>11. Consumed(M, l)' = c + 1
  <2> DEFINE w == Written(M, l)
             a == Len(s)
             b == Len(Tail(s))
  <2>1. w \in Nat /\ a \in Nat /\ b = a - 1 /\ c = w - a
    BY <1>5, <1>8, WrittenTypes DEF Running
  <2>2. Consumed(M, l)' = w - b
    BY <1>9, <1>10 DEF Consumed
  <2> HIDE DEF w, a, b, c
  <2>3. w - b = c + 1
    BY <2>1
  <2>4. QED BY <2>2, <2>3
<1>12. ASSUME NEW j \in (FirstStage - 1)..LastStage, j # l
       PROVE  Consumed(M, j)' = Consumed(M, j) /\ pipe'[j] = pipe[j]
  <2>1. j \in 0..N
    BY <1>3, <1>4, <1>5
  <2>2. pipe'[j] = pipe[j]
    BY <1>10, <1>12, <2>1
  <2>3. QED BY <1>9, <2>2 DEF Consumed
<1>13. ASSUME NEW j \in (FirstStage - 1)..LastStage
       PROVE  PipeAt(M, j)'
  <2>1. CASE j = l
    <3>1. Consumed(M, l)' >= 0
      BY <1>7, <1>11
    <3>2. Part(pipe'[l].lines, PipeText(M, l)', Consumed(M, l)')
      BY <1>2, <1>8, <1>10, <1>11
    <3>3. QED BY <2>1, <3>1, <3>2 DEF PipeAt
  <2>2. CASE j # l
    <3>1. PipeAt(M, j)
      BY DEF Running, RunInv
    <3>2. QED BY <1>2, <1>12, <2>2, <3>1 DEF PipeAt
  <2>3. QED BY <2>1, <2>2
<1>14. \A i \in Window' : WindowAt(M, i)'
  <2>1. ASSUME NEW i \in Window
        PROVE  /\ Consumed(M, i - 1)' = Consumed(M, i - 1)
               /\ pipe'[i].reading = pipe[i].reading /\ pipe'[i].writing = pipe[i].writing
               /\ pipe'[i - 1].reading = pipe[i - 1].reading
               /\ said'[i] + Len(err'[i].lines) = said[i] + Len(err[i].lines)
    <3>1. /\ i - 1 \in (FirstStage - 1)..LastStage /\ i - 1 # l
          /\ i \in (FirstStage - 1)..LastStage
      BY <1>3, <1>5
    <3>2. Consumed(M, i - 1)' = Consumed(M, i - 1) /\ pipe'[i - 1] = pipe[i - 1]
      BY <1>12, <3>1
    <3>3. pipe'[i].reading = pipe[i].reading /\ pipe'[i].writing = pipe[i].writing
      <4>1. CASE i = l
        BY <1>10, <4>1
      <4>2. CASE i # l
        BY <1>12, <3>1, <4>2
      <4>3. QED BY <4>1, <4>2
    <3>4. QED BY <1>1, <3>2, <3>3
  <2>2. UNCHANGED <<pipeline, input, streaming, at, stage>> /\ RunInv(M)
    BY <1>1 DEF Running
  <2>3. QED BY <2>1, <2>2, WindowKept
<1>15. /\ In(M, FirstStage).ends /\ Written(M, FirstStage - 1) >= 0
       /\ Part(feed, PipeText(M, FirstStage - 1), Written(M, FirstStage - 1))
       /\ feed = <<>>
       /\ pipe[LastStage].reading
       /\ Part(out, M[LastStage].text, 0) /\ Len(out) = Consumed(M, LastStage)
  BY <1>1 DEF Running, RunInv
<1>16. Part(out', M[l].text, 0) /\ Len(out') = Consumed(M, l)'
  <2>1. t = M[l].text
    BY <1>5, TextsJoin DEF Running
  <2>2. out' = Append(out, t[c + 1]) /\ Part(out, t, 0) /\ Len(out) = c
    BY <1>1, <1>3, <1>8, <1>15, <2>1
  <2> HIDE DEF t, c
  <2>3. /\ Part(Append(out, t[0 + Len(out) + 1]), t, 0) /\ 0 + Len(out) + 1 = c + 1
        /\ Len(Append(out, t[0 + Len(out) + 1])) = Len(out) + 1
    <3>1. 0 + Len(out) + 1 = c + 1
      BY <1>7, <2>2
    <3>2. 0 + Len(out) + 1 <= Len(t)
      BY <1>8, <3>1
    <3>3. 0 \in Nat
      OBVIOUS
    <3>4. QED BY <1>6, <1>7, <2>2, <3>1, <3>2, <3>3, PartAppend
  <2>4. QED BY <1>11, <2>1, <2>2, <2>3
<1>17. /\ In(M, FirstStage)'.ends /\ Written(M, FirstStage - 1)' >= 0
       /\ Part(feed', PipeText(M, FirstStage - 1)', Written(M, FirstStage - 1)')
  <2>1. FirstStage' - 1 = f
    BY <1>2, <1>4
  <2>2. /\ In(M, FirstStage)' = In(M, FirstStage)
        /\ PipeText(M, FirstStage - 1)' = PipeText(M, f)'
        /\ PipeText(M, FirstStage - 1) = PipeText(M, f)
    BY <1>2, <1>4, <2>1 DEF In, PipeText
  <2>3. /\ Written(M, FirstStage - 1)' = Written(M, f)'
        /\ Written(M, FirstStage - 1) = Written(M, f)
    BY <1>4, <2>1 DEF Written, PipeText, In
  <2>4. QED BY <1>1, <1>2, <1>9, <1>15, <2>2, <2>3
<1>18. /\ Part(out', M[LastStage'].text, 0) /\ Len(out') = Consumed(M, LastStage)'
       /\ pipe'[LastStage'].reading
  <2>1. LastStage' = l
    BY <1>2, <1>3
  <2>2. Consumed(M, LastStage)' = Consumed(M, l)'
    BY <2>1 DEF Consumed, Written, PipeText, In
  <2>3. QED BY <1>3, <1>10, <1>15, <1>16, <2>1, <2>2
<1>19. \A j \in (FirstStage' - 1)..LastStage' : PipeAt(M, j)'
  BY <1>2, <1>13
<1>20. QED
  BY <1>1, <1>14, <1>15, <1>17, <1>18, <1>19 DEF RunInv

LEMMA ComplaintText ==
  ASSUME TypeOK, Parsed, NEW M, MeaningIs(M), Running(M), NEW k, drain_stderr(k)
  PROVE  RunInv(M)'
<1>1. /\ UNCHANGED <<pipeline, input, phase, streaming, at, feed, pipe, stage, out, file>>
      /\ said' = [said EXCEPT ![k] = @ + 1]
      /\ err' = [err EXCEPT ![k].lines = Tail(@)]
      /\ err[k].lines # <<>> /\ k \in Window
  BY DEF drain_stderr
<1>2. /\ FirstStage' = FirstStage /\ LastStage' = LastStage /\ Window' = Window
      /\ \A j : In(M, j)' = In(M, j) /\ PipeText(M, j)' = PipeText(M, j)
  BY <1>1, SameWindow
<1>3. \A j : /\ Written(M, j)' = Written(M, j) /\ Consumed(M, j)' = Consumed(M, j)
             /\ PipeAt(M, j)' = PipeAt(M, j)
  <2>1. \A j : Written(M, j)' = Written(M, j)
    BY <1>1, <1>2 DEF Written
  <2>2. QED BY <1>1, <1>2, <2>1 DEF Consumed, PipeAt
<1>4. \A i \in Window : said'[i] + Len(err'[i].lines) = said[i] + Len(err[i].lines)
  <2> DEFINE a == said[k]
             b == Len(err[k].lines)
             c == Len(Tail(err[k].lines))
  <2>1. /\ Window \subseteq Stages /\ err \in [Stages -> PipeType] /\ said \in [Stages -> Nat]
    BY SizeTypes DEF TypeOK
  <2>2. err[k] \in PipeType /\ a \in Nat
    BY <1>1, <2>1
  <2>3. b \in Nat /\ c = b - 1
    BY <1>1, <2>2, PipeOps, TailTypes
  <2>4. said'[k] = a + 1 /\ err'[k].lines = Tail(err[k].lines)
    BY <1>1, <2>1, <2>2 DEF PipeType
  <2>5. \A i \in Window : i # k => said'[i] = said[i] /\ err'[i] = err[i]
    BY <1>1, <2>1
  <2> HIDE DEF a, b, c
  <2>6. (a + 1) + c = a + b
    BY <2>2, <2>3
  <2>7. said'[k] + Len(err'[k].lines) = said[k] + Len(err[k].lines)
    BY <2>4, <2>6 DEF a, b, c
  <2>8. QED BY <2>5, <2>7
<1>5. \A i \in Window' : WindowAt(M, i)'
  <2>1. UNCHANGED <<pipeline, input, streaming, at, stage>> /\ RunInv(M)
    BY <1>1 DEF Running
  <2>2. \A i \in Window :
           /\ Consumed(M, i - 1)' = Consumed(M, i - 1)
           /\ pipe'[i].reading = pipe[i].reading /\ pipe'[i].writing = pipe[i].writing
           /\ pipe'[i - 1].reading = pipe[i - 1].reading
           /\ said'[i] + Len(err'[i].lines) = said[i] + Len(err[i].lines)
    BY <1>1, <1>3, <1>4
  <2>3. QED BY <2>1, <2>2, WindowKept
<1>6. PICK f : f = FirstStage - 1
  OBVIOUS
<1>7. PICK l : l = LastStage
  OBVIOUS
<1>8. FirstStage' - 1 = f /\ LastStage' = l
  BY <1>2, <1>6, <1>7
<1>9. /\ Written(M, FirstStage - 1)' = Written(M, FirstStage - 1)
      /\ Consumed(M, LastStage)' = Consumed(M, LastStage)
      /\ In(M, FirstStage)' = In(M, FirstStage)
      /\ PipeText(M, FirstStage - 1)' = PipeText(M, FirstStage - 1)
  <2>1. Written(M, FirstStage - 1)' = Written(M, f)' /\ Written(M, FirstStage - 1) = Written(M, f)
    BY <1>6, <1>8 DEF Written, PipeText, In
  <2>2. Consumed(M, LastStage)' = Consumed(M, l)' /\ Consumed(M, LastStage) = Consumed(M, l)
    BY <1>7, <1>8 DEF Consumed, Written, PipeText, In
  <2>3. In(M, FirstStage)' = In(M, FirstStage)
    BY <1>1, <1>2 DEF In
  <2>4. PipeText(M, FirstStage - 1)' = PipeText(M, f)' /\ PipeText(M, FirstStage - 1) = PipeText(M, f)
    BY <1>6, <1>8 DEF PipeText, In
  <2>5. QED BY <1>2, <1>3, <2>1, <2>2, <2>3, <2>4
<1>10. QED
  BY <1>1, <1>2, <1>3, <1>5, <1>9 DEF Running, RunInv

LEMMA WriteText ==
  ASSUME TypeOK, Parsed, NEW M, MeaningIs(M), Running(M), write_stdin
  PROVE  RunInv(M)'
<1>1. UNCHANGED <<pipeline, input, streaming, at, err, stage, said, out, file>> /\ phase = "feed"
  BY DEF write_stdin
<1>2. /\ FirstStage' = FirstStage /\ LastStage' = LastStage /\ Window' = Window
      /\ \A j : In(M, j)' = In(M, j) /\ PipeText(M, j)' = PipeText(M, j)
  BY <1>1, SameWindow
<1>3. PICK l : l = LastStage
  OBVIOUS
<1>4. PICK f : f = FirstStage - 1
  OBVIOUS
<1>5. /\ l \in Nat /\ f \in Nat /\ f < l /\ f < FirstStage /\ ~(l < FirstStage) /\ l <= N
      /\ FirstStage \in Nat /\ N \in Nat
      /\ \A i : i \in Window <=> i \in Nat /\ FirstStage <= i /\ i <= l
      /\ f \in 0..N /\ f \in (FirstStage - 1)..LastStage /\ l \in (FirstStage - 1)..LastStage
  BY <1>3, <1>4, WindowSizes
<1>6. /\ pipe \in [0..N -> PipeType] /\ pipe[f] \in PipeType /\ feed \in Seq(Line)
      /\ FirstStage' - 1 = f /\ LastStage' = l
  BY <1>2, <1>3, <1>4, <1>5 DEF TypeOK
<1> DEFINE s == pipe[f].lines
           t == PipeText(M, f)
           c == Consumed(M, f)
           w == Written(M, f)
<1>7. /\ s \in Seq(Line) /\ t \in Seq(Line) /\ w \in Nat /\ c \in Nat /\ Part(s, t, c)
      /\ Part(feed, t, w) /\ w <= Len(t) /\ Len(t) \in Nat /\ Len(s) \in Nat
      /\ w = Len(t) - Len(feed) /\ c = w - Len(s)
  <2>1. PipeAt(M, f)
    BY <1>5 DEF Running, RunInv
  <2>2. Part(feed, PipeText(M, FirstStage - 1), Written(M, FirstStage - 1))
    BY DEF Running, RunInv
  <2>3. Written(M, FirstStage - 1) = w /\ PipeText(M, FirstStage - 1) = t
    BY <1>4
  <2>4. w \in Nat /\ c \in Nat /\ t \in Seq(Line) /\ w <= Len(t) /\ Len(t) \in Nat /\ c = w - Len(s)
    BY <1>5, WrittenTypes DEF Running
  <2>5. w = Len(t) - Len(feed)
    BY <1>5 DEF Written
  <2>6. QED BY <1>6, <2>1, <2>2, <2>3, <2>4, <2>5, PipeOps DEF PipeAt
<1>8. /\ \A j \in 0..N : j # f => pipe'[j] = pipe[j]
      /\ pipe'[f].reading = pipe[f].reading
      /\ Consumed(M, f)' = c /\ Written(M, f)' \in Nat
      /\ Part(pipe'[f].lines, t, c) /\ Part(feed', t, Written(M, f)')
      /\ phase' = "run" => feed' = <<>>
  <2>1. CASE /\ feed # <<>> /\ feed' = Tail(feed) /\ phase' = phase
             /\ pipe' = [pipe EXCEPT ![FirstStage - 1].lines = Append(@, Head(feed))]
    <3>1. /\ Head(feed) = t[w + 1] /\ w + 1 <= Len(t)
          /\ Tail(feed) \in Seq(Line) /\ Len(Tail(feed)) = Len(feed) - 1 /\ Len(feed) \in Nat
          /\ Part(Tail(feed), t, w + 1)
      <4> HIDE DEF t, w
      <4>1. QED BY <1>6, <1>7, <2>1, PartHead
    <3>2. c + Len(s) + 1 = w + 1
      <4> DEFINE a == Len(s)
      <4>1. w \in Nat /\ a \in Nat /\ c = w - a
        BY <1>7
      <4> HIDE DEF a, w, c
      <4>2. c + a + 1 = w + 1
        BY <4>1
      <4>3. QED BY <4>2 DEF a
    <3>3. /\ Append(s, Head(feed)) \in Seq(Line) /\ Len(Append(s, Head(feed))) = Len(s) + 1
          /\ Part(Append(s, Head(feed)), t, c)
      <4>1. Head(feed) = t[c + Len(s) + 1] /\ c + Len(s) + 1 <= Len(t)
        BY <3>1, <3>2
      <4>2. s \in Seq(Line) /\ t \in Seq(Line) /\ c \in Nat /\ Part(s, t, c)
        BY <1>7
      <4> HIDE DEF s, t, c
      <4>3. /\ Append(s, t[c + Len(s) + 1]) \in Seq(Line)
            /\ Len(Append(s, t[c + Len(s) + 1])) = Len(s) + 1
            /\ Part(Append(s, t[c + Len(s) + 1]), t, c)
        BY <4>1, <4>2, PartAppend
      <4>4. QED BY <4>1, <4>3
    <3>4. /\ \A j \in 0..N : j # f => pipe'[j] = pipe[j]
          /\ pipe'[f].lines = Append(s, Head(feed)) /\ pipe'[f].reading = pipe[f].reading
      BY <1>4, <1>5, <1>6, <2>1 DEF PipeType
    <3>5. Written(M, f)' = w + 1
      <4> DEFINE a == Len(feed)
                 b == Len(Tail(feed))
                 e == Len(t)
      <4>1. a \in Nat /\ b = a - 1 /\ e \in Nat /\ w = e - a
        BY <1>7, <3>1
      <4>2. Written(M, f)' = e - b
        BY <1>2, <1>5, <2>1 DEF Written
      <4> HIDE DEF a, b, e, w
      <4>3. e - b = w + 1
        BY <4>1
      <4>4. QED BY <4>2, <4>3
    <3>6. Consumed(M, f)' = c
      <4> DEFINE a == Len(s)
                 b == Len(Append(s, Head(feed)))
      <4>1. w \in Nat /\ a \in Nat /\ b = a + 1 /\ c = w - a
        BY <1>7, <3>3
      <4>2. Consumed(M, f)' = (w + 1) - b
        BY <3>4, <3>5 DEF Consumed
      <4> HIDE DEF a, b, c, w
      <4>3. (w + 1) - b = c
        BY <4>1
      <4>4. QED BY <4>2, <4>3
    <3>7. phase' # "run"
      BY <1>1, <2>1
    <3>8. w + 1 \in Nat
      BY <1>7
    <3>9. QED
      BY <2>1, <3>1, <3>3, <3>4, <3>5, <3>6, <3>7, <3>8
  <2>2. CASE /\ feed = <<>> /\ feed' = feed
             /\ pipe' = [pipe EXCEPT ![FirstStage - 1].writing = FALSE]
    <3>1. /\ \A j \in 0..N : j # f => pipe'[j] = pipe[j]
          /\ pipe'[f].lines = s /\ pipe'[f].reading = pipe[f].reading
      BY <1>4, <1>5, <1>6, <2>2 DEF PipeType
    <3>2. Written(M, f)' = w
      BY <1>2, <1>5, <2>2 DEF Written
    <3>3. Consumed(M, f)' = c
      BY <3>1, <3>2 DEF Consumed
    <3>4. QED BY <1>7, <2>2, <3>1, <3>2, <3>3
  <2>3. QED BY <2>1, <2>2 DEF write_stdin
<1>9. ASSUME NEW j \in (FirstStage - 1)..LastStage, j # f
      PROVE  Consumed(M, j)' = Consumed(M, j) /\ pipe'[j] = pipe[j]
  <2>1. j \in 0..N /\ ~(j < FirstStage)
    BY <1>3, <1>4, <1>5, <1>9
  <2>2. pipe'[j] = pipe[j]
    BY <1>8, <1>9, <2>1
  <2>3. Written(M, j)' = Written(M, j)
    BY <1>1, <1>2, <2>1 DEF Written
  <2>4. QED BY <2>2, <2>3 DEF Consumed
<1>10. ASSUME NEW j \in (FirstStage - 1)..LastStage
       PROVE  PipeAt(M, j)'
  <2>1. CASE j = f
    <3>1. Consumed(M, f)' >= 0
      BY <1>7, <1>8
    <3>2. Part(pipe'[f].lines, PipeText(M, f)', Consumed(M, f)')
      BY <1>2, <1>8
    <3>3. QED BY <2>1, <3>1, <3>2 DEF PipeAt
  <2>2. CASE j # f
    <3>1. PipeAt(M, j)
      BY DEF Running, RunInv
    <3>2. QED BY <1>2, <1>9, <2>2, <3>1 DEF PipeAt
  <2>3. QED BY <2>1, <2>2
<1>11. \A i \in Window' : WindowAt(M, i)'
  <2>1. ASSUME NEW i \in Window
        PROVE  /\ Consumed(M, i - 1)' = Consumed(M, i - 1)
               /\ pipe'[i].reading = pipe[i].reading /\ pipe'[i].writing = pipe[i].writing
               /\ pipe'[i - 1].reading = pipe[i - 1].reading
               /\ said'[i] + Len(err'[i].lines) = said[i] + Len(err[i].lines)
    <3>1. /\ i - 1 \in (FirstStage - 1)..LastStage
          /\ i \in (FirstStage - 1)..LastStage /\ i # f
      BY <1>3, <1>4, <1>5
    <3>2. pipe'[i].reading = pipe[i].reading /\ pipe'[i].writing = pipe[i].writing
      BY <1>9, <3>1
    <3>3. Consumed(M, i - 1)' = Consumed(M, i - 1) /\ pipe'[i - 1].reading = pipe[i - 1].reading
      <4>1. CASE i - 1 = f
        BY <1>8, <4>1
      <4>2. CASE i - 1 # f
        BY <1>9, <3>1, <4>2
      <4>3. QED BY <4>1, <4>2
    <3>4. QED BY <1>1, <3>2, <3>3
  <2>2. UNCHANGED <<pipeline, input, streaming, at, stage>> /\ RunInv(M)
    BY <1>1 DEF Running
  <2>3. QED BY <2>1, <2>2, WindowKept
<1>12. /\ In(M, FirstStage).ends /\ pipe[LastStage].reading
       /\ Part(out, M[LastStage].text, 0) /\ Len(out) = Consumed(M, LastStage)
  BY DEF Running, RunInv
<1>13. /\ In(M, FirstStage)'.ends /\ Written(M, FirstStage - 1)' >= 0
       /\ Part(feed', PipeText(M, FirstStage - 1)', Written(M, FirstStage - 1)')
  <2>1. /\ In(M, FirstStage)' = In(M, FirstStage)
        /\ PipeText(M, FirstStage - 1)' = t
    BY <1>1, <1>2, <1>4, <1>6 DEF In, PipeText
  <2>2. Written(M, FirstStage - 1)' = Written(M, f)'
    BY <1>6 DEF Written, PipeText, In
  <2>3. QED BY <1>8, <1>12, <2>1, <2>2
<1>14. /\ pipe'[LastStage'].reading
       /\ Part(out', M[LastStage'].text, 0) /\ Len(out') = Consumed(M, LastStage)'
  <2>1. Consumed(M, LastStage)' = Consumed(M, l)' /\ Consumed(M, LastStage) = Consumed(M, l)
    BY <1>3, <1>6 DEF Consumed, Written, PipeText, In
  <2>2. l # f
    BY <1>5
  <2>3. QED BY <1>1, <1>3, <1>5, <1>6, <1>9, <1>12, <2>1, <2>2
<1>15. QED
  BY <1>2, <1>8, <1>10, <1>11, <1>13, <1>14 DEF RunInv

-----------------------------------------------------------------------------
(* One window after the other. *)

LEMMA SameTexts ==
  ASSUME UNCHANGED <<pipeline, input>>
  PROVE  /\ N' = N /\ Stages' = Stages /\ (Together' <=> Together) /\ (Fails' <=> Fails)
         /\ \A i : Kind(i)' = Kind(i) /\ Does(i)' = Does(i) /\ (Complains(i)' <=> Complains(i))
         /\ \A M : MeaningIs(M)' <=> MeaningIs(M)
         /\ \A M, i : In(M, i)' = In(M, i)
         /\ Parsed' <=> Parsed
<1>1. N' = N /\ Stages' = Stages /\ \A i : Kind(i)' = Kind(i) /\ Does(i)' = Does(i)
  BY DEF N, Stages, Kind, Does
<1>2. (Together' <=> Together) /\ (Fails' <=> Fails)
  BY <1>1 DEF Together, Fails
<1>3. \A i : Complains(i)' <=> Complains(i)
  BY <1>1 DEF Complains
<1>4. \A i, y : Arrives(i, y)' = Arrives(i, y)
  BY <1>1, <1>2 DEF Arrives
<1>5. \A M, i : In(M, i)' = In(M, i)
  BY <1>4 DEF In
<1>6. \A M : MeaningIs(M)' <=> MeaningIs(M)
  BY <1>1, <1>4 DEF MeaningIs
<1>7. Parsed' <=> Parsed
  BY DEF Parsed
<1>8. QED BY <1>1, <1>2, <1>3, <1>5, <1>6, <1>7

\* The pipes of a window are empty when it opens, and its stages are new.
LEMMA OpenText ==
  ASSUME TypeOK, Parsed, NEW M, MeaningIs(M), NEW first \in Nat, NEW last \in Nat,
         1 <= first, first <= last, last <= N, Open(first, last),
         UNCHANGED <<pipeline, input>>, FirstStage' = first, LastStage' = last,
         In(M, first).ends, feed = In(M, first).text, out = <<>>,
         \A i \in first..last : /\ stage[i] = NewStage(pipeline[i]) /\ said[i] = 0
                                /\ Kind(i) \in {"plain", "redirected"}
  PROVE  RunInv(M)'
<1>1. /\ UNCHANGED <<feed, stage, said, out>> /\ phase' = "feed"
      /\ pipe' = [i \in 0..N |-> IF i \in (first - 1)..last THEN NewPipe ELSE pipe[i]]
      /\ err' = [i \in Stages |-> IF i \in first..last THEN NewPipe ELSE err[i]]
  BY DEF Open
<1>2. /\ Stages' = Stages /\ \A i : Kind(i)' = Kind(i) /\ Does(i)' = Does(i)
      /\ \A i : In(M, i)' = In(M, i)
  BY SameTexts
<1>3. N \in Nat /\ \A i \in first..last : i \in Stages /\ i \in Nat /\ i - 1 \in (first - 1)..last
  BY WindowSizes DEF Stages
<1>4. /\ \A i \in (first - 1)..last : pipe'[i] = NewPipe
      /\ \A i \in first..last : err'[i] = NewPipe
  BY <1>1, <1>3
<1>5. NewPipe.lines = <<>> /\ NewPipe.reading /\ NewPipe.writing /\ Len(<<>>) = 0
  BY DEF NewPipe
<1>6. /\ \A i \in first..last : In(M, i) \in TextType /\ M[i] = Gives(pipeline[i], In(M, i))
      /\ \A i \in first..last : M[i].text \in Seq(Line) /\ In(M, i).text \in Seq(Line)
  BY <1>3, TextTypes DEF TextType
<1>7. /\ \A i \in first..last : PipeText(M, i)' = M[i].text
      /\ PipeText(M, first - 1)' = In(M, first).text
  BY <1>2, <1>3 DEF PipeText
<1>8. /\ \A i \in first..last : Written(M, i)' = 0
      /\ Written(M, first - 1)' = 0
  <2>1. \A i \in first..last : Written(M, i)' = 0
    <3>1. ASSUME NEW i \in first..last
          PROVE  Written(M, i)' = 0
      <4>1. ~(i < FirstStage') /\ stage'[i] = NewStage(pipeline[i]) /\ pipeline' = pipeline
        BY <1>1, <1>3
      <4>2. Written(M, i)' = Lines(pipeline[i], NewStage(pipeline[i]))
        BY <4>1 DEF Written
      <4>3. QED BY <4>2 DEF Lines, NewStage
    <3>2. QED BY <3>1
  <2>2. Written(M, first - 1)' = Len(In(M, first).text) - Len(feed)
    BY <1>1, <1>7 DEF Written
  <2>3. Len(feed) \in Nat /\ feed = In(M, first).text
    BY DEF TypeOK
  <2>4. QED BY <2>1, <2>2, <2>3
<1>9. \A i \in (first - 1)..last :
        /\ Written(M, i)' = 0 /\ Consumed(M, i)' = 0 /\ PipeText(M, i)' \in Seq(Line)
  <2>1. ASSUME NEW i \in (first - 1)..last
        PROVE  Written(M, i)' = 0 /\ Consumed(M, i)' = 0 /\ PipeText(M, i)' \in Seq(Line)
    <3>1. i = first - 1 \/ i \in first..last
      BY <2>1
    <3>2. Written(M, i)' = 0 /\ PipeText(M, i)' \in Seq(Line)
      BY <1>6, <1>7, <1>8, <3>1
    <3>3. QED BY <1>4, <1>5, <3>2 DEF Consumed
  <2>2. QED BY <2>1
<1>10. ASSUME NEW i \in (first - 1)..last
       PROVE  PipeAt(M, i)'
  <2>1. pipe'[i].lines = <<>> /\ Consumed(M, i)' = 0 /\ PipeText(M, i)' \in Seq(Line)
    BY <1>4, <1>5, <1>9
  <2>2. Part(<<>>, PipeText(M, i)', 0)
    BY <2>1, PartEmpty
  <2>3. QED BY <2>1, <2>2 DEF PipeAt
<1>11. ASSUME NEW i \in first..last
       PROVE  WindowAt(M, i)'
  <2> DEFINE b == pipeline[i]
             x == In(M, i)
  <2>1. /\ stage'[i] = NewStage(b) /\ said'[i] = 0 /\ pipe'[i] = NewPipe /\ pipe'[i - 1] = NewPipe
        /\ err'[i] = NewPipe /\ Consumed(M, i - 1)' = 0
        /\ Kind(i)' \in {"plain", "redirected"}
    <3>1. i \in (first - 1)..last /\ i - 1 \in (first - 1)..last
      BY <1>3
    <3>2. QED BY <1>1, <1>2, <1>4, <1>9, <3>1
  <2>2. NewStage(b).pc = "created" /\ NewStage(b).made = 0 /\ Lines(b, NewStage(b)) = 0
    BY DEF NewStage, Lines
  <2>3. Gives(b, x).text \in Seq(Line)
    BY <1>6
  <2>4. StageAt(b, x, NewStage(b), 0, TRUE)
    BY <2>2, <2>3 DEF StageAt
  <2>5. StageAt(pipeline[i], In(M, i), stage[i], Consumed(M, i - 1), pipe[i].reading)'
    <3>1. /\ pipeline'[i] = b /\ In(M, i)' = x /\ stage'[i] = NewStage(b)
          /\ Consumed(M, i - 1)' = 0 /\ pipe'[i].reading = TRUE
      BY <1>2, <1>5, <2>1 DEF NewPipe
    <3>2. QED BY <2>4, <3>1
  <2>6. (said[i] + Len(err[i].lines) = Complaints(i))'
    BY <1>2, <1>5, <2>1, <2>2 DEF Complaints
  <2>7. QED BY <1>5, <2>1, <2>2, <2>5, <2>6 DEF WindowAt
<1>12. /\ In(M, FirstStage)' = In(M, first)
       /\ Written(M, FirstStage - 1)' = 0
       /\ PipeText(M, FirstStage - 1)' = In(M, first).text
       /\ Consumed(M, LastStage)' = 0
  <2>1. In(M, FirstStage)' = In(M, first)'
    BY DEF In
  <2>2. Written(M, FirstStage - 1)' = Written(M, first - 1)'
    BY DEF Written, PipeText, In
  <2>3. PipeText(M, FirstStage - 1)' = PipeText(M, first - 1)'
    BY DEF PipeText, In
  <2>4. Consumed(M, LastStage)' = Consumed(M, last)'
    BY DEF Consumed, Written, PipeText, In
  <2>5. last \in (first - 1)..last
    OBVIOUS
  <2>6. QED BY <1>2, <1>7, <1>8, <1>9, <2>1, <2>2, <2>3, <2>4, <2>5
<1>13. Part(feed', In(M, first).text, 0)
  <2>1. feed' = In(M, first).text /\ feed \in Seq(Line)
    BY <1>1 DEF TypeOK
  <2>2. QED BY <2>1, PartSelf
<1>14. Part(out', M[last].text, 0) /\ Len(out') = 0
  <2>1. last \in first..last
    OBVIOUS
  <2>2. QED BY <1>1, <1>5, <1>6, <2>1, PartEmpty
<1>15. pipe'[last].reading
  BY <1>4, <1>5
<1>16. /\ \A j \in (FirstStage' - 1)..LastStage' : PipeAt(M, j)'
       /\ \A i \in Window' : WindowAt(M, i)'
  BY <1>10, <1>11 DEF Window
<1>17. QED
  BY <1>1, <1>12, <1>13, <1>14, <1>15, <1>16 DEF RunInv

LEMMA PrepareText ==
  ASSUME TypeOK, Parsed, NEW M, MeaningIs(M), TextInv(M), try_prepare_streaming_pipeline
  PROVE  TextInv(M)'
<1>1. phase = "prepare" /\ UNCHANGED <<pipeline, input>>
  BY DEF try_prepare_streaming_pipeline
<1>2. /\ N' = N /\ Stages' = Stages /\ (Together' <=> Together) /\ (Fails' <=> Fails)
      /\ \A i : Kind(i)' = Kind(i)
      /\ \A i : In(M, i)' = In(M, i)
  BY <1>1, SameTexts
<1>3. /\ ~streaming /\ N > 1 /\ Fresh(1) /\ feed = input /\ out = <<>>
      /\ \A i \in Stages : i < at => Kind(i) = "plain"
  BY <1>1 DEF TextInv
<1>4. N \in Nat /\ at \in Nat /\ at >= 1 /\ at <= N /\ 0 \in 0..N /\ \A i \in Stages : i \in Nat /\ i >= 1
  BY WindowSizes DEF Stages
<1>5. In(M, 1).text = input /\ In(M, 1).ends
  <2>1. M[0] = Ended(input)
    BY <1>4 DEF MeaningIs
  <2>2. QED BY <2>1 DEF In, Arrives, Ended
<1>6. CASE Refused
  <2>1. phase' = "next" /\ at' = 1 /\ UNCHANGED <<streaming, data>> /\ Kind(at) # "plain"
    BY <1>6 DEF Refused, FallBack
  <2>2. ~Together'
    BY <1>2, <1>4, <2>1 DEF Together, Stages
  <2>3. Fresh(1)'
    BY <1>1, <1>2, <1>3, <2>1 DEF Fresh, data
  <2>4. Past(M, 1)'
    BY <1>2, <1>4 DEF Past
  <2>5. feed' = In(M, 1)'.text /\ In(M, 1)'.ends /\ out' = <<>>
    BY <1>2, <1>3, <1>5, <2>1 DEF data
  <2>6. Fresh(at)' /\ Past(M, at)' /\ In(M, at)' = In(M, 1)'
    BY <2>1, <2>3, <2>4 DEF Fresh, Past, In
  <2>7. QED
    BY <1>3, <2>1, <2>2, <2>5, <2>6 DEF TextInv
<1>7. CASE Aborted
  <2>1. phase' = "done" /\ Kind(at) = "bad"
    BY <1>7 DEF Aborted
  <2>2. Fails
    <3>1. \A j \in 1..(at - 1) : Kind(j) = "plain"
      BY <1>3, <1>4 DEF Stages
    <3>2. QED BY <1>3, <1>4, <2>1, <3>1 DEF Fails, Stages
  <2>3. QED BY <1>2, <2>1, <2>2 DEF TextInv
<1>8. CASE Prepared /\ at < N
  <2>1. at' = at + 1 /\ UNCHANGED <<phase, streaming, data>> /\ Kind(at) = "plain"
    BY <1>8 DEF Prepared
  <2>2. \A i \in Stages : i < at + 1 => Kind(i) = "plain"
    BY <1>3, <1>4, <2>1
  <2>3. Fresh(1)'
    BY <1>1, <1>2, <1>3, <2>1 DEF Fresh, data
  <2>4. QED
    BY <1>1, <1>2, <1>3, <2>1, <2>2, <2>3 DEF TextInv, data
<1>9. CASE Prepared /\ ~(at < N)
  <2>1. at = N /\ streaming' = TRUE /\ Open(1, N) /\ UNCHANGED at /\ Kind(at) = "plain"
    BY <1>4, <1>9 DEF Prepared
  <2>2. Together
    BY <1>3, <1>4, <2>1 DEF Together, Stages
  <2>3. FirstStage' = 1 /\ LastStage' = N
    BY <1>2, <2>1 DEF FirstStage, LastStage
  <2>4. \A i \in 1..N : /\ stage[i] = NewStage(pipeline[i]) /\ said[i] = 0
                        /\ Kind(i) \in {"plain", "redirected"}
    BY <1>3, <2>2 DEF Fresh, Together, Stages
  <2>5. RunInv(M)'
    BY <1>1, <1>3, <1>4, <1>5, <2>1, <2>3, <2>4, OpenText
  <2>6. phase' = "feed"
    BY <2>1 DEF Open
  <2>7. QED
    BY <1>2, <2>1, <2>2, <2>5, <2>6 DEF TextInv
<1>10. QED
  BY <1>6, <1>7, <1>8, <1>9 DEF try_prepare_streaming_pipeline

LEMMA EmptyLossy == Lossy(<<>>) = <<>>
BY DEF Lossy

\* The sequential way goes on with what the stage meant to give.
LEMMA GaveText ==
  ASSUME TypeOK, Parsed, NEW M, MeaningIs(M), ~streaming, ~Together,
         Fresh(at + 1), Past(M, at), NEW text, NEW c, Gave(text, c), M[at].ends,
         text = IF Kind(at) = "redirected" THEN <<>> ELSE Lossy(M[at].text),
         \A i \in Stages : i # at => said'[i] = said[i] /\ file'[i] = file[i],
         said'[at] = IF Complains(at) THEN 1 ELSE 0,
         Kind(at) = "redirected" => file'[at] = Lossy(M[at].text)
  PROVE  TextInv(M)'
<1>1. UNCHANGED <<pipeline, input, streaming, stage>>
  BY DEF Gave
<1>2. /\ N' = N /\ Stages' = Stages /\ (Together' <=> Together)
      /\ \A i : Kind(i)' = Kind(i) /\ (Complains(i)' <=> Complains(i))
      /\ \A i : In(M, i)' = In(M, i)
  BY <1>1, SameTexts
<1>3. N \in Nat /\ at \in Nat /\ at >= 1 /\ at <= N /\ \A i \in Stages : i \in Nat /\ i >= 1 /\ i <= N
  BY WindowSizes DEF Stages
<1>4. PICK k : k = at + 1
  OBVIOUS
<1>5. Past(M, k)'
  <2>1. ASSUME NEW i \in Stages, i < k
        PROVE  /\ said'[i] = IF Complains(i) THEN 1 ELSE 0
               /\ Kind(i) = "redirected" => file'[i] = Lossy(M[i].text)
    <3>1. CASE i = at
      BY <3>1
    <3>2. CASE i # at
      <4>1. i < at /\ said'[i] = said[i] /\ file'[i] = file[i]
        BY <1>3, <1>4, <2>1, <3>2
      <4>2. QED BY <4>1 DEF Past
    <3>3. QED BY <3>1, <3>2
  <2>2. QED BY <1>2, <2>1 DEF Past
<1>6. Fresh(k)'
  <2>1. ASSUME NEW i \in Stages, i >= k
        PROVE  stage'[i] = NewStage(pipeline'[i]) /\ said'[i] = 0
    <3>1. i # at /\ i >= at + 1
      BY <1>3, <1>4, <2>1
    <3>2. QED BY <1>1, <3>1 DEF Fresh
  <2>2. QED BY <1>2, <2>1 DEF Fresh
<1>7. CASE at < N
  <2>1. phase' = "next" /\ at' = k /\ feed' = text /\ out' = <<>>
    BY <1>4, <1>7 DEF Gave
  <2>2. In(M, k).text = text /\ In(M, k).ends
    <3>1. M[at] \in TextType /\ k - 1 = at /\ k # 1
      BY <1>3, <1>4, TextTypes DEF Stages
    <3>2. In(M, k) = IF Kind(at) = "redirected" THEN Ended(<<>>)
                     ELSE [M[at] EXCEPT !.text = Lossy(@)]
      BY <3>1 DEF In, Arrives
    <3>3. QED BY <3>1, <3>2 DEF Ended, TextType
  <2>3. In(M, at)' = In(M, k)
    <3>1. In(M, at)' = In(M, k)'
      BY <2>1 DEF In
    <3>2. QED BY <1>2, <3>1
  <2>4. Fresh(at)' /\ Past(M, at)'
    BY <1>5, <1>6, <2>1 DEF Fresh, Past
  <2>5. feed' = In(M, at)'.text /\ In(M, at)'.ends
    BY <2>1, <2>2, <2>3
  <2>6. QED
    BY <1>1, <1>2, <2>1, <2>4, <2>5 DEF TextInv
<1>8. CASE ~(at < N)
  <2>1. phase' = "done" /\ out' = text /\ at = N /\ k = N' + 1
    BY <1>2, <1>3, <1>4, <1>8 DEF Gave
  <2>2. Past(M, N + 1)'
    BY <1>5, <2>1 DEF Past
  <2>3. out' = IF Kind(N)' = "redirected" THEN <<>> ELSE Lossy(M[N'].text)
    <3>1. Kind(N)' = Kind(at)
      BY <1>1, <1>2, <2>1 DEF Kind
    <3>2. QED BY <1>2, <2>1, <3>1
  <2>4. M[N'].ends
    BY <1>2, <2>1
  <2>5. QED
    BY <2>1, <2>2, <2>3, <2>4 DEF TextInv, Whole
<1>9. QED BY <1>7, <1>8

LEMMA SimpleText ==
  ASSUME TypeOK, Parsed, NEW M, MeaningIs(M), TextInv(M), execute_simple
  PROVE  TextInv(M)'
<1>1. phase = "next"
  BY DEF execute_simple
<1>2. /\ ~streaming /\ ~Together /\ Fresh(at) /\ Past(M, at) /\ out = <<>>
      /\ feed = In(M, at).text /\ In(M, at).ends
  BY <1>1 DEF TextInv
<1>3. /\ N \in Nat /\ at \in Nat /\ at >= 1 /\ at <= N /\ at \in Stages
      /\ \A i \in Stages : i \in Nat /\ i >= 1
  BY WindowSizes DEF Stages
<1>4. /\ pipeline[at] \in CommandType /\ In(M, at) \in TextType
      /\ M[at] = Gives(pipeline[at], In(M, at))
      /\ said \in [Stages -> Nat]
  BY <1>3, TextTypes DEF TypeOK
<1>5. \A i \in Stages : i >= at + 1 => stage[i] = NewStage(pipeline[i]) /\ said[i] = 0
  BY <1>2, <1>3 DEF Fresh
<1>6. CASE Kind(at) \in {"bad", "unknown"}
  <2>1. said' = [said EXCEPT ![at] = 1] /\ file' = file /\ \E c : Gave(<<>>, c)
    BY <1>6 DEF execute_simple
  <2>2. M[at] = Ended(<<>>)
    BY <1>4, <1>6 DEF Gives, Kind
  <2>3. M[at].ends /\ <<>> = Lossy(M[at].text) /\ Kind(at) # "redirected" /\ Complains(at)
    BY <1>6, <2>2, EmptyLossy DEF Ended, Complains
  <2>4. /\ \A i \in Stages : i # at => said'[i] = said[i] /\ file'[i] = file[i]
        /\ said'[at] = 1
    BY <1>3, <1>4, <2>1
  <2>5. PICK c : Gave(<<>>, c)
    BY <2>1
  <2>6. Fresh(at + 1)
    BY <1>5 DEF Fresh
  <2>7. QED
    BY <1>2, <2>3, <2>4, <2>5, <2>6, GaveText
<1>7. CASE Kind(at) \in {"plain", "redirected"}
  <2>1. Open(at, at) /\ UNCHANGED <<pipeline, input, streaming, at>>
    BY <1>7 DEF execute_simple
  <2>2. /\ N' = N /\ Stages' = Stages /\ (Together' <=> Together)
        /\ \A i : Kind(i)' = Kind(i) /\ (Complains(i)' <=> Complains(i))
    BY <2>1, SameTexts
  <2>3. FirstStage' = at /\ LastStage' = at
    BY <1>2, <2>1 DEF FirstStage, LastStage
  <2>4. \A i \in at..at : /\ stage[i] = NewStage(pipeline[i]) /\ said[i] = 0
                          /\ Kind(i) \in {"plain", "redirected"}
    BY <1>2, <1>3, <1>7 DEF Fresh
  <2>5. RunInv(M)'
    BY <1>2, <1>3, <2>1, <2>3, <2>4, OpenText
  <2>6. UNCHANGED <<stage, said, file>> /\ phase' = "feed"
    BY <2>1 DEF Open
  <2>7. Fresh(at + 1)' /\ Past(M, at)'
    BY <1>2, <1>5, <2>1, <2>2, <2>6 DEF Fresh, Past
  <2>8. QED
    BY <1>2, <2>1, <2>2, <2>5, <2>6, <2>7 DEF TextInv
<1>8. Kind(at) \in {"bad", "unknown", "plain", "redirected"}
  BY <1>4 DEF Kind, CommandType, Kinds
<1>9. QED BY <1>6, <1>7, <1>8

\* When all is joined, everything has come out.
LEMMA JoinedText ==
  ASSUME TypeOK, Parsed, NEW M, MeaningIs(M), Running(M), Joined
  PROVE  /\ out = M[LastStage].text /\ M[LastStage].ends
         /\ \A i \in Window : said[i] = IF Complains(i) THEN 1 ELSE 0
<1>1. PICK l : l = LastStage
  OBVIOUS
<1>2. l \in Window /\ l \in Stages /\ l \in (FirstStage - 1)..LastStage /\ out \in Seq(Line)
  BY <1>1, WindowSizes DEF Stages, TypeOK
<1>3. /\ stage[l].pc = "ended" /\ pipe[l].lines = <<>> /\ pipe[l].reading
      /\ Part(out, M[l].text, 0) /\ Len(out) = Consumed(M, l)
  <2>1. Len(out) = Consumed(M, LastStage) /\ Consumed(M, LastStage) = Consumed(M, l)
    BY <1>1 DEF Running, RunInv
  <2>2. QED
    BY <1>1, <1>2, <2>1 DEF Joined, Finished, Running, RunInv
<1> DEFINE b == pipeline[l]
           x == In(M, l)
<1>4. /\ StageAt(b, x, stage[l], Consumed(M, l - 1), pipe[l].reading)
      /\ b \in CommandType /\ x \in TextType /\ stage[l] \in StageType
  BY <1>2, StageContext
<1>5. M[l] = Gives(b, x) /\ M[l].text \in Seq(Line)
  BY <1>2, TextTypes DEF TextType
<1>6. Lines(b, stage[l]) = Len(M[l].text) /\ M[l].ends
  BY <1>3, <1>4, <1>5 DEF StageAt
<1>7. Len(out) = Len(M[l].text)
  <2>1. Consumed(M, l) = Lines(b, stage[l]) - Len(pipe[l].lines)
    BY <1>2, StageAll
  <2>2. Len(pipe[l].lines) = 0 /\ Lines(b, stage[l]) \in Nat
    BY <1>3, <1>4, StageFields
  <2>3. QED BY <1>3, <1>6, <2>1, <2>2
<1>8. out = M[l].text
  BY <1>2, <1>3, <1>5, <1>7, PartWhole
<1>9. ASSUME NEW i \in Window
      PROVE  said[i] = IF Complains(i) THEN 1 ELSE 0
  <2>1. stage[i].pc = "ended" /\ Len(err[i].lines) = 0
    BY DEF Joined, Finished
  <2>2. /\ Kind(i) \in {"plain", "redirected"}
        /\ said[i] + Len(err[i].lines) = Complaints(i)
        /\ StageAt(pipeline[i], In(M, i), stage[i], Consumed(M, i - 1), pipe[i].reading)
    BY DEF Running, RunInv, WindowAt
  <2>3. Does(i) = "fail" => stage[i].made = 1
    BY <2>1, <2>2 DEF StageAt, Does
  <2>4. said[i] \in Nat
    BY SizeTypes DEF TypeOK
  <2>5. said[i] = Complaints(i)
    BY <2>1, <2>2, <2>4
  <2>6. Complains(i) <=> Does(i) = "fail"
    BY <2>2 DEF Complains
  <2>7. QED BY <2>3, <2>5, <2>6 DEF Complaints
<1>10. QED BY <1>1, <1>6, <1>8, <1>9

LEMMA ResultText ==
  ASSUME TypeOK, Parsed, NEW M, MeaningIs(M), TextInv(M), execute_pipeline
  PROVE  TextInv(M)'
<1>1. phase = "run" /\ Joined /\ said' = said
  BY DEF execute_pipeline
<1>2. streaming => Together
  BY <1>1 DEF TextInv
<1>3. Running(M)
  BY <1>1, <1>2 DEF TextInv, Running
<1>4. /\ out = M[LastStage].text /\ M[LastStage].ends
      /\ \A i \in Window : said[i] = IF Complains(i) THEN 1 ELSE 0
  BY <1>1, <1>3, JoinedText
<1>5. N \in Nat /\ at \in Nat /\ at >= 1 /\ at <= N /\ at \in Stages /\ file \in [Stages -> Seq(Line)]
  BY WindowSizes DEF Stages, TypeOK
<1>6. CASE streaming
  <2>1. /\ phase' = "done" /\ out' = Lossy(out) /\ file' = file
        /\ UNCHANGED <<pipeline, input>>
    BY <1>6 DEF execute_pipeline
  <2>2. Together /\ LastStage = N /\ Window = Stages
    BY <1>2, <1>6 DEF LastStage, Window, FirstStage, Stages
  <2>3. /\ N' = N /\ Stages' = Stages
        /\ \A i : Kind(i)' = Kind(i) /\ (Complains(i)' <=> Complains(i))
    BY <2>1, SameTexts
  <2>4. \A i \in Stages : Kind(i) = "plain"
    BY <2>2 DEF Together
  <2>5. Past(M, N + 1)'
    BY <1>1, <1>4, <2>2, <2>3, <2>4 DEF Past
  <2>6. out' = Lossy(M[N].text) /\ M[N].ends
    BY <1>4, <2>1, <2>2
  <2>7. N \in Stages /\ Kind(N)' = Kind(N)
    BY <1>5, <2>1 DEF Stages, Kind, N
  <2>8. out' = IF Kind(N)' = "redirected" THEN <<>> ELSE Lossy(M[N'].text)
    BY <2>3, <2>4, <2>6, <2>7
  <2>9. QED
    BY <2>1, <2>3, <2>5, <2>6, <2>8 DEF TextInv, Whole
<1>7. CASE ~streaming
  <2>1. LastStage = at /\ at \in Window
    BY <1>7, WindowSizes
  <2>2. /\ ~Together /\ Fresh(at + 1) /\ Past(M, at) /\ M[at].ends
        /\ said'[at] = IF Complains(at) THEN 1 ELSE 0
    BY <1>1, <1>4, <1>7, <2>1 DEF TextInv
  <2>3. CASE Kind(at) = "redirected"
    <3>1. file' = [file EXCEPT ![at] = Lossy(out)] /\ Gave(<<>>, code[at])
      BY <1>7, <2>3 DEF execute_pipeline
    <3>2. file'[at] = Lossy(M[at].text)
      BY <1>4, <1>5, <2>1, <3>1
    <3>3. \A i \in Stages : i # at => said'[i] = said[i] /\ file'[i] = file[i]
      BY <1>1, <1>5, <3>1
    <3>4. QED
      BY <1>7, <2>2, <2>3, <3>1, <3>2, <3>3, GaveText
  <2>4. CASE Kind(at) # "redirected"
    <3>1. file' = file /\ Gave(Lossy(M[at].text), code[at])
      BY <1>4, <1>7, <2>1, <2>4 DEF execute_pipeline
    <3>2. \A i \in Stages : i # at => said'[i] = said[i] /\ file'[i] = file[i]
      BY <1>1, <3>1
    <3>3. QED
      BY <1>7, <2>2, <2>4, <3>1, <3>2, GaveText
  <2>5. QED BY <2>3, <2>4
<1>8. QED BY <1>6, <1>7

\* A step of a window leaves the other stages alone.
LEMMA WindowStep ==
  ASSUME TypeOK, Parsed, NEW M, MeaningIs(M), TextInv(M), phase \in {"feed", "run"},
         RunInv(M)', phase' \in {"feed", "run"},
         UNCHANGED <<pipeline, input, streaming, at, file>>,
         \A i \in Stages : i \notin Window => stage'[i] = stage[i] /\ said'[i] = said[i]
  PROVE  TextInv(M)'
<1>1. /\ N' = N /\ Stages' = Stages /\ (Together' <=> Together)
      /\ \A i : Kind(i)' = Kind(i) /\ (Complains(i)' <=> Complains(i))
  BY SameTexts
<1>2. ASSUME ~streaming
      PROVE  ~Together' /\ Fresh(at + 1)' /\ Past(M, at)'
  <2>1. ~Together /\ Fresh(at + 1) /\ Past(M, at)
    BY <1>2 DEF TextInv
  <2>2. at \in Nat /\ \A i : i \in Window => i \in Nat /\ i = at
    BY <1>2, WindowSizes
  <2>3. \A i \in Stages : i \in Nat
    BY WindowSizes DEF Stages
  <2>4. Fresh(at + 1)'
    <3>1. ASSUME NEW i \in Stages, i >= at + 1
          PROVE  stage'[i] = NewStage(pipeline[i]) /\ said'[i] = 0
      <4>1. i \notin Window
        BY <2>2, <2>3, <3>1
      <4>2. QED BY <2>1, <3>1, <4>1 DEF Fresh
    <3>2. QED BY <1>1, <3>1 DEF Fresh
  <2>5. Past(M, at)'
    <3>1. ASSUME NEW i \in Stages, i < at
          PROVE  /\ said'[i] = IF Complains(i) THEN 1 ELSE 0
                 /\ Kind(i) = "redirected" => file[i] = Lossy(M[i].text)
      <4>1. i \notin Window
        BY <2>2, <2>3, <3>1
      <4>2. QED BY <2>1, <3>1, <4>1 DEF Past
    <3>2. QED BY <1>1, <3>1 DEF Past
  <2>6. QED BY <1>1, <2>1, <2>4, <2>5
<1>3. streaming => Together'
  BY <1>1 DEF TextInv
<1>4. QED BY <1>2, <1>3 DEF TextInv

LEMMA SameText ==
  ASSUME UNCHANGED vars, NEW M, TextInv(M)
  PROVE  TextInv(M)'
<1>1. /\ UNCHANGED <<pipeline, input, phase, streaming, at>>
      /\ UNCHANGED <<feed, pipe, err, stage, said, out, file>>
  BY DEF vars, data
<1>2. /\ N' = N /\ Stages' = Stages /\ FirstStage' = FirstStage /\ LastStage' = LastStage
      /\ Window' = Window /\ (Together' <=> Together) /\ (Fails' <=> Fails)
      /\ \A i : Kind(i)' = Kind(i) /\ Does(i)' = Does(i) /\ (Complains(i)' <=> Complains(i))
      /\ \A i : In(M, i)' = In(M, i) /\ PipeText(M, i)' = PipeText(M, i)
  BY <1>1, SameWindow
<1>3. \A i : Written(M, i)' = Written(M, i) /\ Consumed(M, i)' = Consumed(M, i)
  BY <1>1, <1>2 DEF Written, Consumed
<1>4. \A i : (PipeAt(M, i)' <=> PipeAt(M, i)) /\ (WindowAt(M, i)' <=> WindowAt(M, i))
  <2>1. \A i : PipeAt(M, i)' <=> PipeAt(M, i)
    BY <1>1, <1>2, <1>3 DEF PipeAt
  <2>2. ASSUME NEW i
        PROVE  WindowAt(M, i)' <=> WindowAt(M, i)
    <3>1. /\ In(M, i)' = In(M, i) /\ Consumed(M, i - 1)' = Consumed(M, i - 1)
          /\ Kind(i)' = Kind(i)
      BY <1>2, <1>3
    <3>2. StageAt(pipeline[i], In(M, i), stage[i], Consumed(M, i - 1), pipe[i].reading)' <=>
          StageAt(pipeline[i], In(M, i), stage[i], Consumed(M, i - 1), pipe[i].reading)
      BY <1>1, <3>1
    <3>3. Complaints(i)' = Complaints(i)
      BY <1>1, <1>2 DEF Complaints
    <3>4. QED BY <1>1, <3>1, <3>2, <3>3 DEF WindowAt
  <2>3. QED BY <2>1, <2>2
<1>5. PICK f, l : f = FirstStage - 1 /\ l = LastStage
  OBVIOUS
<1>6. /\ Written(M, FirstStage - 1)' = Written(M, FirstStage - 1)
      /\ PipeText(M, FirstStage - 1)' = PipeText(M, FirstStage - 1)
      /\ In(M, FirstStage)' = In(M, FirstStage)
      /\ Consumed(M, LastStage)' = Consumed(M, LastStage)
  <2>1. FirstStage' - 1 = f /\ LastStage' = l
    BY <1>2, <1>5
  <2>2. Written(M, FirstStage - 1)' = Written(M, f)' /\ Written(M, FirstStage - 1) = Written(M, f)
    BY <1>5, <2>1 DEF Written, PipeText, In
  <2>3. PipeText(M, FirstStage - 1)' = PipeText(M, f)' /\ PipeText(M, FirstStage - 1) = PipeText(M, f)
    BY <1>5, <2>1 DEF PipeText, In
  <2>4. In(M, FirstStage)' = In(M, FirstStage)
    BY <1>1, <1>2 DEF In
  <2>5. Consumed(M, LastStage)' = Consumed(M, l)' /\ Consumed(M, LastStage) = Consumed(M, l)
    BY <1>5, <2>1 DEF Consumed, Written, PipeText, In
  <2>6. QED BY <1>2, <1>3, <2>2, <2>3, <2>4, <2>5
<1>7. RunInv(M) => RunInv(M)'
  BY <1>1, <1>2, <1>4, <1>6 DEF RunInv
<1>8. PICK k, n : k = at + 1 /\ n = N + 1
  OBVIOUS
<1>9. /\ \A j : (Fresh(j)' <=> Fresh(j)) /\ (Past(M, j)' <=> Past(M, j))
      /\ (Fresh(at)' <=> Fresh(at)) /\ (Past(M, at)' <=> Past(M, at))
      /\ (Fresh(at + 1)' <=> Fresh(at + 1)) /\ (Past(M, N + 1)' <=> Past(M, N + 1))
      /\ In(M, at)' = In(M, at) /\ Kind(N)' = Kind(N)
  BY <1>1, <1>2 DEF Fresh, Past, In, Kind
<1>10. Whole(M)' <=> Whole(M)
  BY <1>1, <1>2, <1>9 DEF Whole
<1>11. QED
  BY <1>1, <1>2, <1>7, <1>9, <1>10 DEF TextInv

LEMMA InitText ==
  ASSUME Init, NEW M, MeaningIs(M)
  PROVE  TextInv(M)
<1>1. TypeOK /\ Parsed
  BY InitTypes DEF Init, Parsed
<1>2. /\ phase = (IF N = 1 THEN "next" ELSE "prepare") /\ ~streaming /\ at = 1 /\ feed = input
      /\ out = <<>>
      /\ \A i \in Stages : stage[i] = NewStage(pipeline[i]) /\ said[i] = 0
  BY DEF Init
<1>3. N \in Nat /\ N >= 1 /\ 0 \in 0..N /\ \A i \in Stages : i \in Nat /\ i >= 1
  BY <1>1, ParsedTypes DEF Stages
<1>4. Fresh(1) /\ Past(M, 1) /\ Fresh(at) /\ Past(M, at)
  BY <1>2, <1>3 DEF Fresh, Past
<1>5. In(M, at).text = input /\ In(M, at).ends
  <2>1. M[0] = Ended(input)
    BY <1>3 DEF MeaningIs
  <2>2. QED BY <1>2, <2>1 DEF In, Arrives, Ended
<1>6. CASE N = 1
  <2>1. ~Together
    BY <1>6 DEF Together
  <2>2. QED BY <1>2, <1>4, <1>5, <1>6, <2>1 DEF TextInv
<1>7. CASE N # 1
  <2>1. N > 1 /\ phase = "prepare"
    BY <1>2, <1>3, <1>7
  <2>2. \A i \in Stages : i < at => Kind(i) = "plain"
    BY <1>2, <1>3
  <2>3. QED BY <1>2, <1>4, <2>1, <2>2 DEF TextInv
<1>8. QED BY <1>6, <1>7

LEMMA TextStep ==
  ASSUME TypeOK, Parsed, NEW M, MeaningIs(M), TextInv(M), [Next]_vars
  PROVE  Parsed' /\ MeaningIs(M)' /\ TextInv(M)'
<1>1. UNCHANGED <<pipeline, input>>
  <2>1. \A i : Stage(i) => UNCHANGED <<pipeline, input>>
    BY StageStepIsLocal DEF OnlyStages
  <2>2. Main => UNCHANGED <<pipeline, input>>
    BY DEF Main, try_prepare_streaming_pipeline, execute_simple, write_stdin,
           execute_pipeline, Gave
  <2>3. QED
    BY <2>1, <2>2 DEF Next, drain_stdout, drain_stderr, vars
<1>2. Parsed' /\ MeaningIs(M)'
  BY <1>1, SameTexts
<1>3. phase \in {"feed", "run"} => RunInv(M) /\ Running(M)
  BY DEF TextInv, Running
<1>4. TextInv(M)'
  <2>1. ASSUME NEW i \in Stages, Stage(i)
        PROVE  TextInv(M)'
    <3>1. phase = "run" /\ i \in Window
      BY <2>1 DEF Stage, starts, cmd_cat, cmd_head, cmd_sort, cmd_yes, cmd_seq, cmd_fail, Runs
    <3>2. /\ RunInv(M)' /\ OnlyStages
          /\ \A j \in Stages : j # i => stage'[j] = stage[j]
      BY <1>3, <2>1, <3>1, StageText
    <3>3. /\ UNCHANGED <<pipeline, input, streaming, at, file>> /\ phase' \in {"feed", "run"}
          /\ \A j \in Stages : j \notin Window => stage'[j] = stage[j] /\ said'[j] = said[j]
      BY <3>1, <3>2 DEF OnlyStages
    <3>4. phase \in {"feed", "run"}
      BY <3>1
    <3>5. QED BY <3>2, <3>3, <3>4, WindowStep
  <2>2. ASSUME NEW i \in Stages, drain_stderr(i)
        PROVE  TextInv(M)'
    <3>1. phase = "run" /\ i \in Window
      BY <2>2 DEF drain_stderr
    <3>2. RunInv(M)'
      BY <1>3, <2>2, <3>1, ComplaintText
    <3>3. /\ UNCHANGED <<pipeline, input, streaming, at, file>> /\ phase' \in {"feed", "run"}
          /\ \A j \in Stages : j \notin Window => stage'[j] = stage[j] /\ said'[j] = said[j]
      <4>1. said \in [Stages -> Nat]
        BY DEF TypeOK
      <4>2. QED BY <2>2, <3>1, <4>1 DEF drain_stderr
    <3>4. phase \in {"feed", "run"}
      BY <3>1
    <3>5. QED BY <3>2, <3>3, <3>4, WindowStep
  <2>3. CASE drain_stdout
    <3>1. /\ phase \in {"feed", "run"} /\ phase' \in {"feed", "run"}
          /\ UNCHANGED <<pipeline, input, streaming, at, file, stage, said>>
      BY <2>3 DEF drain_stdout
    <3>2. RunInv(M)'
      BY <1>3, <2>3, <3>1, DrainText
    <3>3. QED BY <3>1, <3>2, WindowStep
  <2>4. CASE write_stdin
    <3>1. /\ phase \in {"feed", "run"} /\ phase' \in {"feed", "run"}
          /\ UNCHANGED <<pipeline, input, streaming, at, file, stage, said>>
      BY <2>4 DEF write_stdin
    <3>2. RunInv(M)'
      BY <1>3, <2>4, <3>1, WriteText
    <3>3. QED BY <3>1, <3>2, WindowStep
  <2>5. CASE try_prepare_streaming_pipeline
    BY <2>5, PrepareText
  <2>6. CASE execute_simple
    BY <2>6, SimpleText
  <2>7. CASE execute_pipeline
    BY <2>7, ResultText
  <2>8. CASE UNCHANGED vars
    BY <2>8, SameText
  <2>9. QED
    BY <2>1, <2>2, <2>3, <2>4, <2>5, <2>6, <2>7, <2>8 DEF Next, Main
<1>5. QED BY <1>2, <1>4

LEMMA TextIsWhole ==
  ASSUME TypeOK, Parsed, TextInv(Meaning), MeaningIs(Meaning)
  PROVE  ResultIsWhole
<1> DEFINE M == Meaning
<1>1. TypeOK /\ Parsed /\ TextInv(M) /\ MeaningIs(M)
  OBVIOUS
<1>2. OutputInOrder
  <2>1. SUFFICES ASSUME phase = "run"
                 PROVE  IsPrefix(out \o pipe[LastStage].lines, M[LastStage].text)
    BY DEF OutputInOrder
  <2> HIDE DEF M
  <2>2. Running(M)
    BY <1>1, <2>1 DEF TextInv, Running
  <2>3. PICK l : l = LastStage
    OBVIOUS
  <2>4. l \in Window /\ l \in Stages /\ l \in 0..N /\ l \in (FirstStage - 1)..LastStage
    BY <2>3, WindowSizes DEF Stages
  <2>5. /\ Part(out, M[l].text, 0) /\ Len(out) = Consumed(M, l) /\ out \in Seq(Line)
    <3>1. Consumed(M, LastStage) = Consumed(M, l)
      BY <2>3
    <3>2. QED BY <2>2, <2>3, <3>1 DEF Running, RunInv, TypeOK
  <2>6. Part(pipe[l].lines, M[l].text, Consumed(M, l)) /\ pipe[l].lines \in Seq(Line)
    <3>1. PipeAt(M, l)
      BY <2>2, <2>4 DEF Running, RunInv
    <3>2. PipeText(M, l) = M[l].text
      BY <1>1, <2>2, <2>4, TextsJoin DEF Running
    <3>3. QED BY <2>4, <3>1, <3>2, PipeFields DEF PipeAt
  <2>7. M[l].text \in Seq(Line)
    BY <1>1, <2>4, TextTypes DEF TextType
  <2>8. Part(pipe[l].lines, M[l].text, 0 + Len(out)) /\ 0 \in Nat
    <3>1. Len(out) \in Nat
      BY <2>5
    <3>2. 0 + Len(out) = Consumed(M, l)
      BY <2>5, <3>1
    <3>3. QED BY <2>6, <3>2
  <2>9. /\ out \o pipe[l].lines \in Seq(Line)
        /\ Part(out \o pipe[l].lines, M[l].text, 0)
    BY <2>5, <2>6, <2>7, <2>8, PartConcat
  <2>10. IsPrefix(out \o pipe[l].lines, M[l].text)
    BY <2>7, <2>9, PartPrefix
  <2>11. QED BY <2>3, <2>10
<1>3. ASSUME phase = "done", ~Fails
      PROVE  /\ out = IF Kind(N) = "redirected" THEN <<>> ELSE Lossy(Meaning[N].text)
             /\ Meaning[N].ends
             /\ \A i \in Stages :
                  /\ said[i] = IF Complains(i) THEN 1 ELSE 0
                  /\ Kind(i) = "redirected" => file[i] = Lossy(Meaning[i].text)
  <2>1. Whole(Meaning)
    BY <1>3 DEF TextInv
  <2>2. \A i \in Stages : i < N + 1
    BY WindowSizes DEF Stages
  <2>3. QED BY <2>1, <2>2 DEF Whole, Past
<1>4. QED BY <1>2, <1>3 DEF ResultIsWhole

(***************************************************************************)
(* Whatever the pipeline, the input, the size of the pipes and of the      *)
(* buffers: through every interleaving of its stages and drains, what has  *)
(* come out of a pipeline is a beginning of the text it means, and in the  *)
(* end it is all of it, with every complaint of a stage and with what a    *)
(* redirection took away in its file.                                      *)
(***************************************************************************)
THEOREM TheResultIsWhole == Spec => []ResultIsWhole
<1> DEFINE Inv == TypeOK /\ Parsed /\ MeaningIs(Meaning) /\ TextInv(Meaning)
<1>1. Init => Inv
  BY InitTypes, InitText, MeaningExists DEF Init, Parsed
<1>2. Parsed => MeaningIs(Meaning) /\ \A M : MeaningIs(M) => M = Meaning
  BY MeaningExists, MeaningUnique
<1>3. (Parsed => MeaningIs(Meaning) /\ \A M : MeaningIs(M) => M = Meaning)'
  BY <1>2, PTL
<1>4. Inv /\ [Next]_vars => Inv'
  <2>1. SUFFICES ASSUME Inv, [Next]_vars
                 PROVE  Inv'
    OBVIOUS
  <2>2. PICK M : M = Meaning
    OBVIOUS
  <2>3. TypeOK' /\ Parsed' /\ MeaningIs(M)' /\ TextInv(M)'
    BY <2>1, <2>2, TypesStep, TextStep
  <2>4. MeaningIs(Meaning)' /\ M = Meaning'
    BY <1>3, <2>3
  <2>5. QED BY <2>3, <2>4
<1>5. Inv => ResultIsWhole
  BY TextIsWhole
<1>6. QED BY <1>1, <1>4, <1>5, PTL DEF Spec
=============================================================================

--------------------------- MODULE WasiTokioProofs ---------------------------
(***************************************************************************)
(* Theorems about WasiTokio for any number of tasks and messages and any   *)
(* select!: the stack of rounds keeps every task in one place, a channel   *)
(* gives what it promises, and what a body has settled stays.              *)
(***************************************************************************)
EXTENDS WasiTokio, SequenceTheorems, FiniteSetTheorems, TLAPS

-----------------------------------------------------------------------------
(***************************************************************************)
(* Sequences without repetition, and what they hold.                       *)
(***************************************************************************)

Entries(s)   == {s[i] : i \in DOMAIN s}
NoRepeats(s) == \A i, j \in DOMAIN s : s[i] = s[j] => i = j

LEMMA NothingIn ==
  Entries(<<>>) = {} /\ NoRepeats(<<>>)
BY DEF Entries, NoRepeats

LEMMA AppendEntries ==
  ASSUME NEW S, NEW s \in Seq(S), NEW e \in S
  PROVE  /\ Append(s, e) \in Seq(S)
         /\ Entries(Append(s, e)) = Entries(s) \cup {e}
         /\ NoRepeats(s) /\ e \notin Entries(s) => NoRepeats(Append(s, e))
<1> DEFINE a == Append(s, e)
<1>1. /\ a \in Seq(S) /\ DOMAIN a = 1 .. Len(s) + 1 /\ DOMAIN s = 1 .. Len(s)
      /\ Len(s) \in Nat
      /\ \A i \in 1 .. Len(s) : a[i] = s[i]
      /\ a[Len(s) + 1] = e
  BY AppendProperties, LenProperties
<1> HIDE DEF a
<1>2. Entries(a) = Entries(s) \cup {e}
  <2>1. ASSUME NEW x \in Entries(a)
        PROVE  x \in Entries(s) \cup {e}
    BY <1>1, <2>1 DEF Entries
  <2>2. ASSUME NEW x \in Entries(s)
        PROVE  x \in Entries(a)
    <3>1. PICK i \in 1 .. Len(s) : x = s[i]
      BY <1>1 DEF Entries
    <3>2. i \in DOMAIN a /\ a[i] = x
      BY <1>1, <3>1
    <3>3. QED BY <3>2 DEF Entries
  <2>3. e \in Entries(a)
    <3>1. Len(s) + 1 \in DOMAIN a
      BY <1>1
    <3>2. QED BY <1>1, <3>1 DEF Entries
  <2>4. QED BY <2>1, <2>2, <2>3
<1>3. NoRepeats(s) /\ e \notin Entries(s) => NoRepeats(a)
  BY <1>1 DEF NoRepeats, Entries
<1>4. QED BY <1>1, <1>2, <1>3 DEF a

LEMMA TailEntries ==
  ASSUME NEW S, NEW s \in Seq(S), s # <<>>, NoRepeats(s)
  PROVE  /\ Tail(s) \in Seq(S) /\ Head(s) \in S
         /\ Head(s) \in Entries(s)
         /\ Entries(Tail(s)) = Entries(s) \ {Head(s)}
         /\ NoRepeats(Tail(s))
<1> DEFINE t == Tail(s)
<1>1. /\ t \in Seq(S) /\ Head(s) \in S /\ Head(s) = s[1]
      /\ Len(s) \in Nat /\ Len(s) >= 1
      /\ DOMAIN t = 1 .. Len(s) - 1 /\ DOMAIN s = 1 .. Len(s)
      /\ \A i \in 1 .. Len(s) - 1 : t[i] = s[i + 1]
  BY HeadTailProperties, LenProperties, EmptySeq
<1> HIDE DEF t
<1>2. Entries(t) = Entries(s) \ {Head(s)}
  <2>1. ASSUME NEW x \in Entries(t)
        PROVE  x \in Entries(s) /\ x # Head(s)
    <3>1. PICK i \in 1 .. Len(s) - 1 : x = s[i + 1]
      BY <1>1 DEF Entries
    <3>2. i + 1 \in DOMAIN s /\ 1 \in DOMAIN s /\ i + 1 # 1
      BY <1>1
    <3>3. QED BY <1>1, <3>1, <3>2 DEF Entries, NoRepeats
  <2>2. ASSUME NEW x \in Entries(s), x # Head(s)
        PROVE  x \in Entries(t)
    <3>1. PICK i \in 1 .. Len(s) : x = s[i]
      BY <1>1 DEF Entries
    <3>2. i # 1
      BY <1>1, <2>2, <3>1
    <3>3. i - 1 \in DOMAIN t /\ t[i - 1] = x
      BY <1>1, <3>1, <3>2
    <3>4. QED BY <3>3 DEF Entries
  <2>3. QED BY <2>1, <2>2
<1>3. NoRepeats(t)
  <2>1. SUFFICES ASSUME NEW i \in 1 .. Len(s) - 1, NEW j \in 1 .. Len(s) - 1, t[i] = t[j]
                 PROVE  i = j
    BY <1>1 DEF NoRepeats
  <2>2. i + 1 \in DOMAIN s /\ j + 1 \in DOMAIN s /\ s[i + 1] = s[j + 1]
    BY <1>1, <2>1
  <2>3. QED BY <1>1, <2>2 DEF NoRepeats
<1>4. Head(s) \in Entries(s)
  BY <1>1 DEF Entries
<1>5. QED BY <1>1, <1>2, <1>3, <1>4 DEF t

LEMMA ConcatEntries ==
  ASSUME NEW S, NEW s \in Seq(S), NEW u \in Seq(S)
  PROVE  /\ s \o u \in Seq(S)
         /\ Entries(s \o u) = Entries(s) \cup Entries(u)
         /\ NoRepeats(s) /\ NoRepeats(u) /\ Entries(s) \cap Entries(u) = {} => NoRepeats(s \o u)
<1> DEFINE c == s \o u
<1>1. /\ c \in Seq(S) /\ Len(s) \in Nat /\ Len(u) \in Nat
      /\ DOMAIN c = 1 .. Len(s) + Len(u) /\ DOMAIN s = 1 .. Len(s) /\ DOMAIN u = 1 .. Len(u)
      /\ \A i \in 1 .. Len(s) + Len(u) : c[i] = IF i <= Len(s) THEN s[i] ELSE u[i - Len(s)]
  BY ConcatProperties, LenProperties
<1> HIDE DEF c
<1>2. Entries(c) = Entries(s) \cup Entries(u)
  <2>1. ASSUME NEW x \in Entries(c)
        PROVE  x \in Entries(s) \cup Entries(u)
    <3>1. PICK i \in 1 .. Len(s) + Len(u) : x = c[i]
      BY <1>1 DEF Entries
    <3>2. CASE i <= Len(s)
      <4>1. i \in DOMAIN s
        BY <1>1, <3>2
      <4>2. x = s[i]
        BY <1>1, <3>1, <3>2
      <4>3. QED BY <4>1, <4>2 DEF Entries
    <3>3. CASE ~(i <= Len(s))
      <4>1. x = u[i - Len(s)]
        BY <1>1, <3>1, <3>3
      <4>2. i - Len(s) \in DOMAIN u
        <5> DEFINE a == Len(s)
                   b == Len(u)
        <5>1. a \in Nat /\ b \in Nat /\ i \in 1 .. a + b /\ ~(i <= a) /\ DOMAIN u = 1 .. b
          BY <1>1, <3>3
        <5> HIDE DEF a, b
        <5>2. i - a \in 1 .. b
          BY <5>1
        <5>3. QED BY <5>1, <5>2 DEF a
      <4>3. QED BY <4>1, <4>2 DEF Entries
    <3>4. QED BY <3>2, <3>3
  <2>2. ASSUME NEW x \in Entries(s)
        PROVE  x \in Entries(c)
    <3>1. PICK i \in 1 .. Len(s) : x = s[i]
      BY <1>1 DEF Entries
    <3>2. i \in DOMAIN c /\ c[i] = x
      BY <1>1, <3>1
    <3>3. QED BY <3>2 DEF Entries
  <2>3. ASSUME NEW x \in Entries(u)
        PROVE  x \in Entries(c)
    <3>1. PICK i \in 1 .. Len(u) : x = u[i]
      BY <1>1 DEF Entries
    <3>2. /\ Len(s) + i \in 1 .. Len(s) + Len(u)
          /\ ~(Len(s) + i <= Len(s)) /\ (Len(s) + i) - Len(s) = i
      BY <1>1
    <3>3. c[Len(s) + i] = u[(Len(s) + i) - Len(s)]
      BY <1>1, <3>2
    <3>4. c[Len(s) + i] = x
      BY <3>1, <3>2, <3>3
    <3>5. QED BY <1>1, <3>2, <3>4 DEF Entries
  <2>4. QED BY <2>1, <2>2, <2>3
<1>3. ASSUME NoRepeats(s), NoRepeats(u), Entries(s) \cap Entries(u) = {}
      PROVE  NoRepeats(c)
  <2>1. SUFFICES ASSUME NEW i \in DOMAIN c, NEW j \in DOMAIN c, c[i] = c[j]
                 PROVE  i = j
    BY DEF NoRepeats
  <2>2. ASSUME NEW k \in DOMAIN c, k <= Len(s)
        PROVE  k \in DOMAIN s /\ c[k] = s[k] /\ c[k] \in Entries(s)
    BY <1>1, <2>2 DEF Entries
  <2>3. ASSUME NEW k \in DOMAIN c, ~(k <= Len(s))
        PROVE  k - Len(s) \in DOMAIN u /\ c[k] = u[k - Len(s)] /\ c[k] \in Entries(u)
    <3>1. k - Len(s) \in DOMAIN u /\ c[k] = u[k - Len(s)]
      BY <1>1, <2>3
    <3>2. u[k - Len(s)] \in Entries(u)
      BY <3>1 DEF Entries
    <3>3. QED BY <3>1, <3>2
  <2>4. i <= Len(s) <=> j <= Len(s)
    BY <1>3, <2>1, <2>2, <2>3
  <2>5. CASE i <= Len(s)
    BY <1>3, <2>1, <2>2, <2>4, <2>5 DEF NoRepeats
  <2>6. CASE ~(i <= Len(s))
    <3>1. i - Len(s) = j - Len(s)
      BY <1>3, <2>1, <2>3, <2>4, <2>6 DEF NoRepeats
    <3>2. QED BY <1>1, <3>1
  <2>7. QED BY <2>5, <2>6
<1>4. QED BY <1>1, <1>2, <1>3 DEF c

-----------------------------------------------------------------------------
(***************************************************************************)
(* The stack of rounds rs and the queue q hold the tasks of idle and of    *)
(* polled, each once.                                                      *)
(***************************************************************************)

\* The tasks of a round: those that wait for their poll or had it, and the one
\* that is polled.
Idle(r)   == Entries(r.rest) \cup Entries(r.pending)
Polled(r) == {r.current} \ {None}
Own(r)    == Idle(r) \cup Polled(r)

Neat(r) ==
  /\ NoRepeats(r.rest) /\ NoRepeats(r.pending)
  /\ Entries(r.rest) \cap Entries(r.pending) = {}
  /\ Polled(r) \cap Idle(r) = {}

Apart(rs, q) ==
  /\ \A k \in DOMAIN rs : Own(rs[k]) \cap Entries(q) = {}
  /\ \A k, l \in DOMAIN rs : k # l => Own(rs[k]) \cap Own(rs[l]) = {}

Placed(rs, q, idle, polled) ==
  /\ NoRepeats(q) /\ \A k \in DOMAIN rs : Neat(rs[k])
  /\ Apart(rs, q)
  /\ idle = Entries(q) \cup UNION {Idle(rs[k]) : k \in DOMAIN rs}
  /\ polled = UNION {Polled(rs[k]) : k \in DOMAIN rs}

LEMMA RoundFields ==
  ASSUME NEW r \in Round
  PROVE  /\ r.owner \in Bodies /\ r.loop \in BOOLEAN /\ r.current \in Tasks \cup {None}
         /\ r.rest \in Seq(Tasks) /\ r.pending \in Seq(Tasks)
         /\ Idle(r) \subseteq Tasks /\ Polled(r) \subseteq Tasks /\ None \notin Tasks
<1>1. /\ r.owner \in Bodies /\ r.loop \in BOOLEAN /\ r.current \in Tasks \cup {None}
      /\ r.rest \in Seq(Tasks) /\ r.pending \in Seq(Tasks)
  BY DEF Round
<1>2. \A s \in Seq(Tasks) : Entries(s) \subseteq Tasks
  BY DEF Entries
<1>3. None \notin Tasks
  BY ConstantsAssumption DEF None, Tasks
<1>4. QED BY <1>1, <1>2, <1>3 DEF Idle, Polled

LEMMA Pushed ==
  ASSUME NEW rs \in Seq(Round), NEW r \in Round
  PROVE  LET p == <<r>> \o rs IN
         /\ p \in Seq(Round) /\ p # <<>> /\ Len(p) = Len(rs) + 1 /\ p[1] = r
         /\ DOMAIN p = 1 .. Len(rs) + 1 /\ DOMAIN rs = 1 .. Len(rs) /\ Len(rs) \in Nat
         /\ \A k \in DOMAIN rs : k + 1 \in DOMAIN p /\ p[k + 1] = rs[k]
         /\ \A k \in DOMAIN p : k = 1 \/ (k - 1 \in DOMAIN rs /\ p[k] = rs[k - 1])
<1> DEFINE p == <<r>> \o rs
<1>1. <<r>> \in Seq(Round) /\ Len(<<r>>) = 1 /\ <<r>>[1] = r
  OBVIOUS
<1>2. /\ p \in Seq(Round) /\ Len(p) = 1 + Len(rs) /\ Len(rs) \in Nat
      /\ DOMAIN p = 1 .. 1 + Len(rs) /\ DOMAIN rs = 1 .. Len(rs)
      /\ \A i \in 1 .. 1 + Len(rs) : p[i] = IF i <= 1 THEN <<r>>[i] ELSE rs[i - 1]
  BY <1>1, ConcatProperties, LenProperties
<1> HIDE DEF p
<1>3. p[1] = r /\ p # <<>>
  BY <1>1, <1>2, EmptySeq
<1>4. ASSUME NEW k \in DOMAIN rs
      PROVE  k + 1 \in DOMAIN p /\ p[k + 1] = rs[k]
  BY <1>2
<1>5. ASSUME NEW k \in DOMAIN p, k # 1
      PROVE  k - 1 \in DOMAIN rs /\ p[k] = rs[k - 1]
  BY <1>2, <1>5
<1>6. QED BY <1>2, <1>3, <1>4, <1>5 DEF p

LEMMA Popped ==
  ASSUME NEW rs \in Seq(Round), rs # <<>>
  PROVE  /\ Tail(rs) \in Seq(Round) /\ Head(rs) = rs[1] /\ rs[1] \in Round
         /\ Len(rs) \in Nat /\ Len(rs) >= 1 /\ Len(Tail(rs)) = Len(rs) - 1
         /\ DOMAIN rs = 1 .. Len(rs) /\ DOMAIN Tail(rs) = 1 .. Len(rs) - 1 /\ 1 \in DOMAIN rs
         /\ \A k \in DOMAIN Tail(rs) : k + 1 \in DOMAIN rs /\ Tail(rs)[k] = rs[k + 1]
         /\ \A k \in DOMAIN rs : k = 1 \/ (k - 1 \in DOMAIN Tail(rs) /\ rs[k] = Tail(rs)[k - 1])
<1>1. /\ Tail(rs) \in Seq(Round) /\ Head(rs) = rs[1] /\ Head(rs) \in Round
      /\ Len(rs) \in Nat /\ Len(rs) >= 1 /\ Len(Tail(rs)) = Len(rs) - 1
      /\ DOMAIN rs = 1 .. Len(rs) /\ DOMAIN Tail(rs) = 1 .. Len(rs) - 1
      /\ \A k \in 1 .. Len(rs) - 1 : Tail(rs)[k] = rs[k + 1]
  BY HeadTailProperties, LenProperties, EmptySeq
<1> DEFINE t == Tail(rs)
<1> HIDE DEF t
<1>2. ASSUME NEW k \in DOMAIN t
      PROVE  k + 1 \in DOMAIN rs /\ t[k] = rs[k + 1]
  BY <1>1 DEF t
<1>3. ASSUME NEW k \in DOMAIN rs, k # 1
      PROVE  k - 1 \in DOMAIN t /\ rs[k] = t[k - 1]
  BY <1>1, <1>3 DEF t
<1>4. QED BY <1>1, <1>2, <1>3 DEF t

\* A round is begun: it takes the whole queue.
LEMMA PlacedPush ==
  ASSUME NEW rs \in Seq(Round), NEW q \in Seq(Tasks), NEW idle, NEW polled,
         Placed(rs, q, idle, polled),
         NEW r \in Round, r.rest = q, r.pending = <<>>, r.current = None
  PROVE  Placed(<<r>> \o rs, <<>>, idle, polled)
<1> DEFINE p == <<r>> \o rs
<1>1. /\ p[1] = r /\ 1 \in DOMAIN p
      /\ \A k \in DOMAIN rs : k + 1 \in DOMAIN p /\ p[k + 1] = rs[k]
      /\ \A k \in DOMAIN p : k = 1 \/ (k - 1 \in DOMAIN rs /\ p[k] = rs[k - 1])
      /\ \A k \in DOMAIN p : k \in Int
  BY Pushed
<1> HIDE DEF p
<1>2. Idle(r) = Entries(q) /\ Polled(r) = {} /\ Own(r) = Entries(q) /\ Neat(r)
  BY NothingIn DEF Idle, Polled, Own, Neat, Placed
<1>3. \A k \in DOMAIN p : Neat(p[k])
  BY <1>1, <1>2 DEF Placed
<1>4. Apart(p, <<>>)
  <2>1. SUFFICES ASSUME NEW k \in DOMAIN p, NEW l \in DOMAIN p, k # l
                 PROVE  Own(p[k]) \cap Own(p[l]) = {}
    BY NothingIn DEF Apart
  <2>2. CASE k = 1
    BY <1>1, <1>2, <2>1, <2>2 DEF Placed, Apart
  <2>3. CASE l = 1
    BY <1>1, <1>2, <2>1, <2>3 DEF Placed, Apart
  <2>4. CASE k # 1 /\ l # 1
    <3>1. k - 1 \in DOMAIN rs /\ l - 1 \in DOMAIN rs /\ k - 1 # l - 1
      BY <1>1, <2>1, <2>4
    <3>2. QED BY <1>1, <2>4, <3>1 DEF Placed, Apart
  <2>5. QED BY <2>2, <2>3, <2>4
<1>5. UNION {Idle(p[k]) : k \in DOMAIN p} = Entries(q) \cup UNION {Idle(rs[k]) : k \in DOMAIN rs}
  BY <1>1, <1>2
<1>6. UNION {Polled(p[k]) : k \in DOMAIN p} = UNION {Polled(rs[k]) : k \in DOMAIN rs}
  BY <1>1, <1>2
<1>7. QED
  BY <1>3, <1>4, <1>5, <1>6, NothingIn DEF Placed, p

\* A round is over: those of its tasks that wait come before the queue.
LEMMA PlacedPop ==
  ASSUME NEW rs \in Seq(Round), NEW q \in Seq(Tasks), NEW idle, NEW polled,
         Placed(rs, q, idle, polled),
         rs # <<>>, rs[1].rest = <<>>, rs[1].current = None
  PROVE  Placed(Tail(rs), rs[1].pending \o q, idle, polled)
<1> DEFINE t == Tail(rs)
           u == rs[1].pending \o q
<1>1. /\ 1 \in DOMAIN rs /\ rs[1] \in Round
      /\ \A k \in DOMAIN t : k + 1 \in DOMAIN rs /\ t[k] = rs[k + 1] /\ k \in Int /\ k + 1 # 1
      /\ \A k \in DOMAIN rs : k = 1 \/ (k - 1 \in DOMAIN t /\ rs[k] = t[k - 1])
  BY Popped
<1>2. Idle(rs[1]) = Entries(rs[1].pending) /\ Polled(rs[1]) = {}
      /\ Own(rs[1]) = Entries(rs[1].pending) /\ NoRepeats(rs[1].pending)
  BY <1>1, NothingIn DEF Idle, Polled, Own, Neat, Placed
<1>3. rs[1].pending \in Seq(Tasks)
  BY <1>1, RoundFields
<1>4. Entries(u) = Entries(rs[1].pending) \cup Entries(q) /\ NoRepeats(u)
  BY <1>1, <1>2, <1>3, ConcatEntries DEF Placed, Apart
<1> HIDE DEF t, u
<1>5. \A k \in DOMAIN t : Neat(t[k])
  BY <1>1 DEF Placed
<1>6. Apart(t, u)
  <2>1. ASSUME NEW k \in DOMAIN t, NEW l \in DOMAIN t, k # l
        PROVE  Own(t[k]) \cap Own(t[l]) = {}
    <3>1. k + 1 \in DOMAIN rs /\ l + 1 \in DOMAIN rs /\ k + 1 # l + 1
      BY <1>1, <2>1
    <3>2. QED BY <1>1, <3>1 DEF Placed, Apart
  <2>2. ASSUME NEW k \in DOMAIN t
        PROVE  Own(t[k]) \cap Entries(u) = {}
    BY <1>1, <1>2, <1>4 DEF Placed, Apart
  <2>3. QED BY <2>1, <2>2 DEF Apart
<1>7. UNION {Idle(rs[k]) : k \in DOMAIN rs}
        = Entries(rs[1].pending) \cup UNION {Idle(t[k]) : k \in DOMAIN t}
  <2>1. ASSUME NEW k \in DOMAIN rs
        PROVE  \/ Idle(rs[k]) = Entries(rs[1].pending)
               \/ \E l \in DOMAIN t : Idle(rs[k]) = Idle(t[l])
    <3>1. CASE k = 1
      BY <1>2, <3>1
    <3>2. CASE k # 1
      BY <1>1, <3>2
    <3>3. QED BY <3>1, <3>2
  <2>2. \A k \in DOMAIN t : \E l \in DOMAIN rs : Idle(t[k]) = Idle(rs[l])
    BY <1>1
  <2>3. \E l \in DOMAIN rs : Idle(rs[l]) = Entries(rs[1].pending)
    BY <1>1, <1>2
  <2>4. QED BY <2>1, <2>2, <2>3
<1>8. UNION {Polled(rs[k]) : k \in DOMAIN rs} = UNION {Polled(t[k]) : k \in DOMAIN t}
  <2>1. ASSUME NEW k \in DOMAIN rs
        PROVE  Polled(rs[k]) = {} \/ \E l \in DOMAIN t : Polled(rs[k]) = Polled(t[l])
    <3>1. CASE k = 1
      BY <1>2, <3>1
    <3>2. CASE k # 1
      BY <1>1, <3>2
    <3>3. QED BY <3>1, <3>2
  <2>2. \A k \in DOMAIN t : \E l \in DOMAIN rs : Polled(t[k]) = Polled(rs[l])
    BY <1>1
  <2>3. QED BY <2>1, <2>2
<1>9. QED
  BY <1>4, <1>5, <1>6, <1>7, <1>8 DEF Placed, t, u

\* The innermost round changes, and takes no task.
LEMMA PlacedReplace ==
  ASSUME NEW rs \in Seq(Round), NEW q \in Seq(Tasks), NEW idle, NEW polled,
         Placed(rs, q, idle, polled), rs # <<>>,
         NEW r \in Round, Neat(r), Own(r) \subseteq Own(rs[1])
  PROVE  Placed([rs EXCEPT ![1] = r], q,
                (idle \ Idle(rs[1])) \cup Idle(r), (polled \ Polled(rs[1])) \cup Polled(r))
<1> DEFINE p == [rs EXCEPT ![1] = r]
<1>1. /\ 1 \in DOMAIN rs /\ DOMAIN p = DOMAIN rs /\ p[1] = r
      /\ \A k \in DOMAIN rs : k # 1 => p[k] = rs[k]
  BY Popped
<1> HIDE DEF p
<1>2. \A k \in DOMAIN p : Neat(p[k])
  BY <1>1 DEF Placed
<1>3. Apart(p, q)
  <2>1. \A k \in DOMAIN p : Own(p[k]) \subseteq Own(rs[k])
    BY <1>1
  <2>2. QED BY <1>1, <2>1 DEF Placed, Apart
<1>4. \A k \in DOMAIN rs : k # 1 => Own(rs[k]) \cap Own(rs[1]) = {}
  BY <1>1 DEF Placed, Apart
<1>5. Own(rs[1]) \cap Entries(q) = {}
  BY <1>1 DEF Placed, Apart
<1>6. Entries(q) \cup UNION {Idle(p[k]) : k \in DOMAIN p} = (idle \ Idle(rs[1])) \cup Idle(r)
  BY <1>1, <1>4, <1>5 DEF Placed, Own
<1>7. UNION {Polled(p[k]) : k \in DOMAIN p} = (polled \ Polled(rs[1])) \cup Polled(r)
  BY <1>1, <1>4 DEF Placed, Own
<1>8. QED
  BY <1>2, <1>3, <1>6, <1>7 DEF Placed, p

\* A task that is nowhere is put at the end of the queue.
LEMMA PlacedSpawn ==
  ASSUME NEW rs \in Seq(Round), NEW q \in Seq(Tasks), NEW idle, NEW polled,
         Placed(rs, q, idle, polled),
         NEW t \in Tasks, t \notin idle \cup polled
  PROVE  Placed(rs, Append(q, t), idle \cup {t}, polled)
<1>1. Entries(Append(q, t)) = Entries(q) \cup {t} /\ NoRepeats(Append(q, t))
  BY AppendEntries DEF Placed
<1>2. \A k \in DOMAIN rs : t \notin Own(rs[k])
  BY DEF Placed, Own
<1>3. Apart(rs, Append(q, t))
  BY <1>1, <1>2 DEF Placed, Apart
<1>4. QED
  BY <1>1, <1>3 DEF Placed

-----------------------------------------------------------------------------
(***************************************************************************)
(* The channel.                                                            *)
(***************************************************************************)

ChannelTypes ==
  /\ sent \in Nat /\ received \in Nat /\ received <= sent
  /\ senders \subseteq Bodies

ChannelInv ==
  /\ ChannelTypes
  /\ ChannelContract
  /\ ended => closed

\* The only sender is dropped exactly when the counter says so.
LEMMA LastSender ==
  ASSUME senders \subseteq Bodies, NEW x
  PROVE  senders \ {x} = {} => Close(x) \/ senders = {}
<1>1. SUFFICES ASSUME senders \ {x} = {}, senders # {}
               PROVE  Close(x)
  OBVIOUS
<1>2. senders = {x}
  BY <1>1
<1>3. Cardinality(senders) = 1
  BY <1>2, FS_Singleton
<1>4. QED BY <1>2, <1>3 DEF Close

\* What is sent next, and what is received next.
LEMMA BufferSteps ==
  ASSUME ChannelTypes, InOrder
  PROVE  /\ buffer \in Seq(Nat)
         /\ Len(buffer) = sent - received
         /\ Append(buffer, sent + 1) = [i \in 1 .. (sent + 1) - received |-> received + i]
         /\ buffer = <<>> => sent = received
         /\ buffer # <<>> => /\ Head(buffer) = received + 1 /\ received + 1 <= sent
                             /\ Tail(buffer) = [i \in 1 .. sent - (received + 1) |-> (received + 1) + i]
<1> DEFINE n == sent - received
<1>1. n \in Nat /\ sent \in Nat /\ received \in Nat
  BY DEF ChannelTypes
<1>2. buffer \in Seq(Nat) /\ Len(buffer) = n /\ \A i \in 1 .. n : buffer[i] = received + i
  <2>1. buffer = [i \in 1 .. n |-> received + i]
    BY DEF InOrder
  <2>2. \A i \in 1 .. n : received + i \in Nat
    BY <1>1
  <2>3. buffer \in Seq(Nat)
    BY <1>1, <2>1, <2>2, IsASeq
  <2>4. QED BY <1>1, <2>1, <2>3, LenProperties
<1>3. Append(buffer, sent + 1) = [i \in 1 .. (sent + 1) - received |-> received + i]
  <2> DEFINE a == Append(buffer, sent + 1)
             b == [i \in 1 .. (sent + 1) - received |-> received + i]
  <2>1. /\ DOMAIN a = 1 .. n + 1 /\ a[n + 1] = sent + 1
        /\ \A i \in 1 .. n : a[i] = buffer[i]
        /\ a = [i \in DOMAIN a |-> a[i]]
    <3>1. buffer \in Seq(Nat) /\ sent + 1 \in Nat
      BY <1>1, <1>2
    <3>2. /\ a \in Seq(Nat) /\ Len(a) = Len(buffer) + 1 /\ a[Len(buffer) + 1] = sent + 1
          /\ \A i \in 1 .. Len(buffer) : a[i] = buffer[i]
      BY <3>1, AppendProperties
    <3> HIDE DEF a
    <3>3. DOMAIN a = 1 .. Len(a) /\ a = [i \in DOMAIN a |-> a[i]]
      BY <3>2, LenProperties
    <3>4. QED BY <1>2, <3>2, <3>3
  <2>2. DOMAIN b = 1 .. n + 1 /\ \A i \in 1 .. n + 1 : b[i] = received + i
    BY <1>1
  <2> HIDE DEF a
  <2>3. \A i \in 1 .. n + 1 : a[i] = received + i
    <3>1. sent + 1 = received + (n + 1)
      BY <1>1
    <3> HIDE DEF n
    <3>2. ASSUME NEW i \in 1 .. n + 1
          PROVE  a[i] = received + i
      <4>1. CASE i = n + 1
        BY <2>1, <3>1, <4>1
      <4>2. CASE i # n + 1
        <5>1. i \in 1 .. n
          BY <1>1, <4>2
        <5>2. QED BY <1>2, <2>1, <5>1
      <4>3. QED BY <4>1, <4>2
    <3>3. QED BY <3>2
  <2>4. QED BY <1>1, <2>1, <2>2, <2>3 DEF a
<1>4. ASSUME buffer = <<>>
      PROVE  sent = received
  BY <1>1, <1>2, <1>4, EmptySeq
<1>5. ASSUME buffer # <<>>
      PROVE  /\ Head(buffer) = received + 1 /\ received + 1 <= sent
             /\ Tail(buffer) = [i \in 1 .. sent - (received + 1) |-> (received + 1) + i]
  <2> DEFINE t == Tail(buffer)
             b == [i \in 1 .. sent - (received + 1) |-> (received + 1) + i]
  <2>1. n >= 1 /\ Head(buffer) = received + 1
    BY <1>1, <1>2, <1>5, EmptySeq
  <2>2. t \in Seq(Nat) /\ Len(t) = n - 1 /\ \A i \in 1 .. Len(t) : t[i] = buffer[i + 1]
    BY <1>2, <1>5, HeadTailProperties
  <2> HIDE DEF t
  <2>3. DOMAIN t = 1 .. n - 1 /\ t = [i \in DOMAIN t |-> t[i]]
    BY <2>2, LenProperties
  <2>4. ASSUME NEW i \in 1 .. n - 1
        PROVE  t[i] = (received + 1) + i
    <3>1. i + 1 \in 1 .. n
      BY <1>1
    <3>2. t[i] = received + (i + 1)
      BY <1>2, <2>2, <3>1
    <3>3. QED BY <1>1, <3>2
  <2>5. DOMAIN b = 1 .. n - 1 /\ \A i \in 1 .. n - 1 : b[i] = (received + 1) + i
    BY <1>1
  <2>6. t = b
    BY <2>3, <2>4, <2>5
  <2>7. QED BY <1>1, <2>1, <2>6 DEF t
<1>6. QED BY <1>2, <1>3, <1>4, <1>5

\* A sender is dropped.
LEMMA DropSender ==
  ASSUME ChannelInv, NEW x,
         Close(x) => closed', senders' = senders \ {x},
         UNCHANGED <<buffer, sent, received, ended>>
  PROVE  ChannelInv'
<1>1. closed => closed'
  BY DEF Close
<1>2. senders' = {} => closed'
  BY <1>1, LastSender DEF ChannelInv, ChannelTypes, ChannelContract, EndIsSeen
<1>3. QED
  BY <1>1, <1>2 DEF ChannelInv, ChannelTypes, ChannelContract, InOrder, EndIsTheEnd, EndIsSeen

\* A message is received, or the end.
LEMMA Receive ==
  ASSUME ChannelInv, buffer # <<>> \/ closed, poll_recv
  PROVE  ChannelInv'
<1> USE DEF ChannelInv, ChannelContract
<1>1. CASE buffer # <<>>
  <2>1. /\ buffer' = Tail(buffer) /\ received' = received + 1
        /\ UNCHANGED <<sent, senders, closed, ended>> /\ received + 1 <= sent
    BY <1>1, BufferSteps DEF poll_recv
  <2>2. InOrder'
    BY <1>1, <2>1, BufferSteps DEF InOrder
  <2>3. ~ended
    BY <2>1 DEF EndIsTheEnd, ChannelTypes
  <2>4. QED BY <2>1, <2>2, <2>3 DEF ChannelTypes, EndIsTheEnd, EndIsSeen
<1>2. CASE buffer = <<>>
  <2>1. sent = received /\ closed
    BY <1>2, BufferSteps
  <2>2. ended' = TRUE /\ UNCHANGED <<buffer, received, sent, senders, closed>>
    BY <1>2 DEF poll_recv
  <2>3. QED BY <2>1, <2>2 DEF ChannelTypes, InOrder, EndIsTheEnd, EndIsSeen
<1>3. QED BY <1>1, <1>2

LEMMA TakeChannel ==
  ASSUME ChannelInv, NEW x, NEW a, NEW fresh, Ready(a, fresh), take(x, a)
  PROVE  ChannelInv'
<1>1. CASE a.on = "recv"
  BY <1>1, Receive DEF take, Ready
<1>2. CASE a.on # "recv"
  BY <1>2 DEF take, chan, ChannelInv, ChannelTypes, ChannelContract, InOrder, EndIsTheEnd, EndIsSeen
<1>3. QED BY <1>1, <1>2

LEMMA SameChannel ==
  ASSUME ChannelInv, UNCHANGED chan
  PROVE  ChannelInv'
BY DEF chan, ChannelInv, ChannelTypes, ChannelContract, InOrder, EndIsTheEnd, EndIsSeen

LEMMA ChannelStep ==
  ASSUME ChannelInv, [Next]_vars
  PROVE  ChannelInv'
<1>1. ASSUME NEW x \in Bodies, NEW t \in Tasks, spawn(x, t)
      PROVE  ChannelInv'
  <2>1. UNCHANGED <<buffer, sent, received, closed, ended>>
    BY <1>1 DEF spawn
  <2>2. CASE senders' = senders
    BY <2>1, <2>2, SameChannel DEF chan
  <2>3. CASE x \in senders /\ senders' = senders \cup {t}
    BY <2>1, <2>3
    DEF ChannelInv, ChannelTypes, ChannelContract, InOrder, EndIsTheEnd, EndIsSeen, Bodies
  <2>4. QED BY <1>1, <2>2, <2>3 DEF spawn
<1>2. ASSUME NEW x \in Bodies, NEW t \in Tasks, abort(x, t)
      PROVE  ChannelInv'
  BY <1>2, SameChannel DEF abort
<1>3. ASSUME NEW x \in Bodies, send(x)
      PROVE  ChannelInv'
  <2>1. /\ x \in senders /\ ~closed /\ sent' = sent + 1 /\ buffer' = Append(buffer, sent + 1)
        /\ UNCHANGED <<received, senders, closed, ended>>
    BY <1>3 DEF send
  <2>2. InOrder'
    BY <2>1, BufferSteps DEF InOrder, ChannelInv, ChannelContract
  <2>3. QED
    BY <2>1, <2>2 DEF ChannelInv, ChannelTypes, ChannelContract, EndIsTheEnd, EndIsSeen
<1>4. ASSUME NEW x \in Bodies, drop_sender(x)
      PROVE  ChannelInv'
  BY <1>4, DropSender DEF drop_sender
<1>5. ASSUME NEW x \in Bodies, wait(x)
      PROVE  ChannelInv'
  BY <1>5, TakeChannel, SameChannel DEF wait, resume, give_way
<1>6. ASSUME NEW x \in Bodies, finish(x)
      PROVE  ChannelInv'
  BY <1>6, DropSender DEF finish
<1>7. CASE close
  BY <1>7 DEF close, ChannelInv, ChannelTypes, ChannelContract, InOrder, EndIsTheEnd, EndIsSeen
<1>8. ASSUME NEW x \in Bodies, check(x)
      PROVE  ChannelInv'
  BY <1>8, TakeChannel, SameChannel DEF check, resume, disable, give_way
<1>9. CASE next_task
  <2> DEFINE t == Head(Head(rounds).rest)
  <2>1. UNCHANGED <<buffer, sent, received, ended>>
    BY <1>9 DEF next_task
  <2>2. CASE Skip(t)
    BY <1>9, <2>1, <2>2, DropSender DEF next_task
  <2>3. CASE ~Skip(t)
    BY <1>9, <2>1, <2>3, SameChannel DEF next_task, chan
  <2>4. QED BY <2>2, <2>3
<1>10. CASE end_round \/ UNCHANGED vars
  BY <1>10, SameChannel DEF end_round, vars
<1>11. QED
  BY <1>1, <1>2, <1>3, <1>4, <1>5, <1>6, <1>7, <1>8, <1>9, <1>10 DEF Next, Program, Executor

LEMMA InitChannel == Init => ChannelInv
<1>1. Main \in Bodies
  BY DEF Bodies
<1>2. ASSUME Init
      PROVE  InOrder
  <2>1. buffer = <<>> /\ sent - received = 0
    BY <1>2 DEF Init
  <2>2. QED BY <2>1 DEF InOrder
<1>3. ASSUME Init
      PROVE  ChannelTypes /\ EndIsTheEnd /\ EndIsSeen /\ ~ended
  BY <1>1, <1>3 DEF Init, ChannelTypes, EndIsTheEnd, EndIsSeen
<1>4. QED
  BY <1>2, <1>3 DEF ChannelInv, ChannelContract

\* Every message is received, in order, and then the end, whoever drops the
\* senders and whatever a select! drops.
THEOREM ChannelsKeepTheirPromise == Spec => []ChannelContract
<1>1. ChannelInv => ChannelContract
  BY DEF ChannelInv
<1>2. ChannelInv /\ [Next]_vars => ChannelInv'
  BY ChannelStep
<1>3. QED
  BY <1>1, <1>2, InitChannel, PTL DEF Spec

-----------------------------------------------------------------------------
(***************************************************************************)
(* The chain of rounds: each was begun by the body that the round below it *)
(* polls, the outermost by Main.                                           *)
(***************************************************************************)

Chain(rs) ==
  \A k \in DOMAIN rs : rs[k].owner = IF k = Len(rs) THEN Main ELSE rs[k + 1].current

Owners(rs) == {rs[k].owner : k \in DOMAIN rs}

\* Who the innermost round polls.
Top(rs) == IF rs = <<>> THEN Main ELSE rs[1].current

LEMMA BodyFacts ==
  /\ Main \in Bodies /\ Main \notin Tasks /\ Main # None
  /\ Tasks \subseteq Bodies /\ None \notin Bodies
  /\ \A x \in Bodies : x = Main \/ x \in Tasks
BY ConstantsAssumption DEF Main, Bodies, Tasks, None

LEMMA ChainPush ==
  ASSUME NEW rs \in Seq(Round), Chain(rs), NEW r \in Round, r.owner = Top(rs)
  PROVE  LET p == <<r>> \o rs IN
         Chain(p) /\ Owners(p) = Owners(rs) \cup {r.owner} /\ Top(p) = r.current
<1> DEFINE p == <<r>> \o rs
<1>1. /\ p # <<>> /\ Len(p) = Len(rs) + 1 /\ p[1] = r
      /\ DOMAIN p = 1 .. Len(rs) + 1 /\ DOMAIN rs = 1 .. Len(rs) /\ Len(rs) \in Nat
      /\ \A k \in DOMAIN rs : k + 1 \in DOMAIN p /\ p[k + 1] = rs[k]
      /\ \A k \in DOMAIN p : k = 1 \/ (k - 1 \in DOMAIN rs /\ p[k] = rs[k - 1])
  BY Pushed
<1> HIDE DEF p
<1>2. Chain(p)
  <2>1. SUFFICES ASSUME NEW k \in DOMAIN p
                 PROVE  p[k].owner = IF k = Len(p) THEN Main ELSE p[k + 1].current
    BY DEF Chain
  <2>2. CASE k = 1 /\ rs = <<>>
    BY <1>1, <2>2, EmptySeq DEF Top
  <2>3. CASE k = 1 /\ rs # <<>>
    <3>1. 1 \in DOMAIN rs /\ Len(p) # 1
      BY <1>1, <2>3, EmptySeq
    <3>2. QED BY <1>1, <2>3, <3>1 DEF Top
  <2>4. CASE k # 1
    <3>1. k - 1 \in DOMAIN rs /\ p[k] = rs[k - 1] /\ (k = Len(p) <=> k - 1 = Len(rs))
      BY <1>1, <2>4
    <3>2. k # Len(p) => p[k + 1] = rs[(k - 1) + 1]
      <4>1. ASSUME k # Len(p)
            PROVE  p[k + 1] = rs[(k - 1) + 1]
        <5>1. k \in DOMAIN rs /\ (k - 1) + 1 = k
          BY <1>1, <4>1
        <5>2. QED BY <1>1, <5>1
      <4>2. QED BY <4>1
    <3>3. QED BY <3>1, <3>2 DEF Chain
  <2>5. QED BY <2>2, <2>3, <2>4
<1>3. Owners(p) = Owners(rs) \cup {r.owner}
  <2>1. 1 \in DOMAIN p
    BY <1>1
  <2>2. QED BY <1>1, <2>1 DEF Owners
<1>4. QED BY <1>1, <1>2, <1>3 DEF Top, p

LEMMA ChainPop ==
  ASSUME NEW rs \in Seq(Round), rs # <<>>, Chain(rs)
  PROVE  /\ Chain(Tail(rs)) /\ Top(Tail(rs)) = rs[1].owner
         /\ Owners(rs) = Owners(Tail(rs)) \cup {rs[1].owner}
<1> DEFINE t == Tail(rs)
<1>1. /\ t \in Seq(Round)
      /\ Len(rs) \in Nat /\ Len(rs) >= 1 /\ Len(t) = Len(rs) - 1
      /\ DOMAIN rs = 1 .. Len(rs) /\ DOMAIN t = 1 .. Len(rs) - 1 /\ 1 \in DOMAIN rs
      /\ \A k \in DOMAIN t : k + 1 \in DOMAIN rs /\ t[k] = rs[k + 1]
      /\ \A k \in DOMAIN rs : k = 1 \/ (k - 1 \in DOMAIN t /\ rs[k] = t[k - 1])
  BY Popped
<1> HIDE DEF t
<1>2. Chain(t)
  <2>1. SUFFICES ASSUME NEW k \in DOMAIN t
                 PROVE  t[k].owner = IF k = Len(t) THEN Main ELSE t[k + 1].current
    BY DEF Chain
  <2>2. k + 1 \in DOMAIN rs /\ t[k] = rs[k + 1] /\ (k = Len(t) <=> k + 1 = Len(rs))
    BY <1>1
  <2>3. ASSUME k # Len(t)
        PROVE  t[k + 1] = rs[(k + 1) + 1]
    <3>1. k + 1 \in DOMAIN t
      BY <1>1, <2>3
    <3>2. QED BY <1>1, <3>1
  <2>4. QED BY <2>2, <2>3 DEF Chain
<1>3. Top(t) = rs[1].owner
  <2>1. CASE t = <<>>
    <3>1. Len(rs) = 1
      BY <1>1, <2>1, EmptySeq
    <3>2. QED BY <1>1, <2>1, <3>1 DEF Chain, Top
  <2>2. CASE t # <<>>
    <3>1. 1 \in DOMAIN t /\ Len(rs) # 1 /\ 1 + 1 = 2
      BY <1>1, <2>2, EmptySeq
    <3>2. t[1] = rs[1 + 1]
      BY <1>1, <3>1
    <3>3. rs[1].owner = rs[1 + 1].current
      BY <1>1, <3>1 DEF Chain
    <3>4. QED BY <2>2, <3>2, <3>3 DEF Top
  <2>3. QED BY <2>1, <2>2
<1>4. Owners(rs) = Owners(t) \cup {rs[1].owner}
  BY <1>1 DEF Owners
<1>5. QED BY <1>2, <1>3, <1>4 DEF t

LEMMA ChainReplace ==
  ASSUME NEW rs \in Seq(Round), rs # <<>>, Chain(rs), NEW r, r.owner = rs[1].owner
  PROVE  LET p == [rs EXCEPT ![1] = r] IN
         Chain(p) /\ Owners(p) = Owners(rs) /\ Top(p) = r.current
<1> DEFINE p == [rs EXCEPT ![1] = r]
<1>1. /\ DOMAIN rs = 1 .. Len(rs) /\ Len(rs) \in Nat /\ 1 \in DOMAIN rs /\ DOMAIN p = DOMAIN rs
      /\ p[1] = r /\ \A k \in DOMAIN rs : k # 1 => p[k] = rs[k]
  BY Popped
<1>2. p # <<>> /\ Len(p) = Len(rs)
  BY <1>1
<1> HIDE DEF p
<1>3. \A k \in DOMAIN rs : p[k].owner = rs[k].owner
  BY <1>1
<1>4. Chain(p)
  <2>1. ASSUME NEW k \in DOMAIN rs, k # Len(rs)
        PROVE  p[k + 1] = rs[k + 1]
    <3>1. k + 1 \in DOMAIN rs /\ k + 1 # 1
      BY <1>1, <2>1
    <3>2. QED BY <1>1, <3>1
  <2>2. QED BY <1>1, <1>2, <1>3, <2>1 DEF Chain
<1>5. QED BY <1>1, <1>2, <1>3, <1>4 DEF Owners, Top, p

\* Nobody is in the middle of two polls.
LEMMA OwnersDiffer ==
  ASSUME NEW rs \in Seq(Round), rs # <<>>, Chain(rs),
         NEW q, NEW idle, NEW polled, Placed(rs, q, idle, polled)
  PROVE  rs[1].owner \notin Owners(Tail(rs))
<1>1. SUFFICES ASSUME NEW k \in DOMAIN Tail(rs), Tail(rs)[k].owner = rs[1].owner
               PROVE  FALSE
  BY DEF Owners
<1>2. /\ Len(rs) \in Nat /\ DOMAIN rs = 1 .. Len(rs) /\ k \in Int /\ k >= 1
      /\ 1 \in DOMAIN rs /\ k + 1 \in DOMAIN rs /\ Tail(rs)[k] = rs[k + 1]
  BY Popped
<1>3. \A j \in DOMAIN rs : rs[j].owner \in Bodies /\ rs[j].current \in Tasks \cup {None}
  <2>1. \A j \in DOMAIN rs : rs[j] \in Round
    BY <1>2, ElementOfSeq
  <2>2. QED BY <2>1, RoundFields
<1>4. 2 \in DOMAIN rs /\ rs[1].owner = rs[2].current
  <2>1. 1 # Len(rs) /\ 2 \in DOMAIN rs /\ 1 + 1 = 2
    BY <1>2
  <2>2. QED BY <1>2, <2>1 DEF Chain
<1>5. rs[2].current \in Tasks
  BY <1>2, <1>3, <1>4, BodyFacts
<1>6. CASE k + 1 = Len(rs)
  BY <1>1, <1>2, <1>4, <1>5, <1>6, BodyFacts DEF Chain
<1>7. CASE k + 1 # Len(rs)
  <2>1. (k + 1) + 1 \in DOMAIN rs /\ (k + 1) + 1 # 2
    <3>1. k + 1 \in 1 .. Len(rs) /\ Len(rs) \in Nat /\ k \in Int /\ k >= 1
      BY <1>2
    <3>2. (k + 1) + 1 \in 1 .. Len(rs) /\ (k + 1) + 1 # 2
      BY <1>7, <3>1
    <3>3. QED BY <1>2, <3>2
  <2>2. rs[(k + 1) + 1].current = rs[2].current
    BY <1>1, <1>2, <1>4, <1>7 DEF Chain
  <2>3. rs[2].current # None
    BY <1>5, BodyFacts
  <2>4. rs[2].current \in Own(rs[2]) \cap Own(rs[(k + 1) + 1])
    BY <2>2, <2>3 DEF Own, Polled
  <2>5. QED BY <1>4, <2>1, <2>4 DEF Placed, Apart
<1>8. QED BY <1>6, <1>7

-----------------------------------------------------------------------------
(***************************************************************************)
(* The inductive invariant of the executor: every task that is not over is *)
(* listed in one place, and its status says in which.                      *)
(***************************************************************************)

Statuses == {"unborn", "queued", "running", "check", "round", "pending", "done", "dropped"}

Types ==
  /\ queue \in Seq(Tasks)
  /\ rounds \in Seq(Round)
  /\ at \in [Bodies -> Statuses]
  /\ want \in [Bodies -> Want]
  /\ cancelled \subseteq Tasks
  /\ owner \in [Tasks -> Bodies \cup {None}]
  /\ cell \in Bodies \cup {None}

IdleTasks   == {t \in Tasks : at[t] \in {"queued", "pending"}}
PolledTasks == {t \in Tasks : at[t] \in {"running", "check", "round"}}

PlaceInv == Placed(rounds, queue, IdleTasks, PolledTasks)

\* Who is in the middle of a poll has begun a round, and nobody else.
InRound == {x \in Bodies : at[x] = "round"}

StackInv ==
  /\ Chain(rounds)
  /\ InRound = Owners(rounds)
  /\ Current # None => at[Current] \in {"running", "check", "done"}

\* Main waits in a block_on, and a task that has not run awaits nothing.
WantInv ==
  /\ at[Main] \in {"check", "round"} => want[Main].block
  /\ \A t \in Tasks : at[t] \in {"unborn", "queued"} => want[t] = NoWant

IInv == Types /\ PlaceInv /\ StackInv /\ WantInv

LEMMA WantTypes ==
  /\ NoWant \in Want
  /\ \A w \in Want : [w EXCEPT !.fresh = FALSE] \in Want
  /\ \A w \in Want : [w EXCEPT !.fresh = FALSE].block = w.block
  /\ \A w \in Want : \A a : /\ [w EXCEPT !.on = @ \ {a}] \in Want
                            /\ [w EXCEPT !.on = @ \ {a}].block = w.block
<1>1. NoWant \in Want
  BY DEF NoWant, Want
<1>2. ASSUME NEW w \in Want
      PROVE  [w EXCEPT !.fresh = FALSE] \in Want /\ [w EXCEPT !.fresh = FALSE].block = w.block
  BY DEF Want
<1>3. ASSUME NEW w \in Want, NEW a
      PROVE  /\ [w EXCEPT !.on = @ \ {a}] \in Want
             /\ [w EXCEPT !.on = @ \ {a}].block = w.block
  BY DEF Want
<1>4. QED BY <1>1, <1>2, <1>3

\* Whose code runs is Main, outside of all rounds, or the task of the innermost.
LEMMA CurrentFacts ==
  ASSUME IInv
  PROVE  /\ Current = Top(rounds)
         /\ \A x \in Bodies : Current = x =>
              \/ x = Main /\ rounds = <<>>
              \/ x \in Tasks /\ rounds # <<>> /\ rounds[1] \in Round /\ rounds[1].current = x
<1>1. Current = Top(rounds)
  BY Popped DEF IInv, Types, Current, Top
<1>2. ASSUME NEW x \in Bodies, Current = x, rounds # <<>>
      PROVE  x \in Tasks /\ rounds[1] \in Round /\ rounds[1].current = x
  <2>1. rounds[1] \in Round /\ rounds[1].current = x
    BY <1>1, <1>2, Popped DEF IInv, Types, Top
  <2>2. rounds[1].current \in Tasks \cup {None}
    BY <2>1, RoundFields
  <2>3. QED BY <1>2, <2>1, <2>2, BodyFacts
<1>3. ASSUME NEW x \in Bodies, Current = x, rounds = <<>>
      PROVE  x = Main
  BY <1>3 DEF Current
<1>4. QED BY <1>1, <1>2, <1>3

LEMMA InnermostFacts ==
  ASSUME IInv, rounds # <<>>
  PROVE  /\ rounds \in Seq(Round) /\ 1 \in DOMAIN rounds /\ rounds[1] \in Round
         /\ Head(rounds) = rounds[1]
         /\ Neat(rounds[1])
         /\ Idle(rounds[1]) \subseteq IdleTasks /\ Polled(rounds[1]) \subseteq PolledTasks
<1>1. rounds \in Seq(Round)
  BY DEF IInv, Types
<1>2. 1 \in DOMAIN rounds /\ rounds[1] \in Round /\ Head(rounds) = rounds[1]
  BY <1>1, Popped
<1>3. Neat(rounds[1])
  BY <1>2 DEF IInv, PlaceInv, Placed
<1>4. Idle(rounds[1]) \subseteq IdleTasks
  BY <1>2 DEF IInv, PlaceInv, Placed
<1>5. Polled(rounds[1]) \subseteq PolledTasks
  BY <1>2 DEF IInv, PlaceInv, Placed
<1>6. QED BY <1>1, <1>2, <1>3, <1>4, <1>5

\* The invariant does not look at the channel, nor at what else a body holds.
LEMMA SamePlaces ==
  ASSUME IInv, Types', UNCHANGED <<queue, rounds, at, want>>
  PROVE  IInv'
<1>1. Types' /\ Current' = Current
  BY DEF Current
<1>2. IdleTasks' = IdleTasks /\ PolledTasks' = PolledTasks /\ InRound' = InRound
  BY DEF IdleTasks, PolledTasks, InRound
<1>3. QED
  BY <1>1, <1>2 DEF IInv, PlaceInv, StackInv, WantInv

\* A body goes on.
LEMMA GoesOn ==
  ASSUME IInv, NEW x \in Bodies, Current = x, at[x] \in {"running", "check"},
         at' = [at EXCEPT ![x] = "running"], want' = [want EXCEPT ![x] = NoWant],
         owner' \in [Tasks -> Bodies \cup {None}], cell' \in Bodies \cup {None},
         UNCHANGED <<queue, rounds, cancelled>>
  PROVE  IInv'
<1>1. Types'
  BY WantTypes DEF IInv, Types, Statuses
<1>2. IdleTasks' = IdleTasks /\ PolledTasks' = PolledTasks /\ InRound' = InRound
  BY DEF IInv, Types, IdleTasks, PolledTasks, InRound
<1>3. StackInv'
  BY <1>2 DEF IInv, StackInv, Current, Types
<1>4. WantInv'
  BY BodyFacts DEF IInv, WantInv, Types
<1>5. QED BY <1>1, <1>2, <1>3, <1>4 DEF IInv, PlaceInv

\* A body begins a round in the middle of its poll.
LEMMA EntersRound ==
  ASSUME IInv, NEW x \in Bodies, Current = x, at[x] \in {"running", "check"},
         NEW loop \in BOOLEAN, begin(x, loop, rounds, queue),
         at' = [at EXCEPT ![x] = "round"],
         NEW w \in Want, want' = [want EXCEPT ![x] = w], x = Main => w.block,
         UNCHANGED <<cancelled, owner, cell>>
  PROVE  IInv'
<1> DEFINE r == [owner |-> x, loop |-> loop, current |-> None, rest |-> queue, pending |-> <<>>]
<1>1. r \in Round /\ rounds' = <<r>> \o rounds /\ queue' = <<>>
  BY DEF begin, Round, IInv, Types
<1>2. r.owner = Top(rounds) /\ r.current = None /\ r.rest = queue /\ r.pending = <<>>
  BY CurrentFacts
<1> HIDE DEF r
<1>3. rounds \in Seq(Round) /\ queue \in Seq(Tasks) /\ rounds' \in Seq(Round)
  BY <1>1, Pushed DEF IInv, Types
<1>4. Types'
  <2>1. queue' \in Seq(Tasks)
    BY <1>1, EmptySeq
  <2>2. at' \in [Bodies -> Statuses] /\ want' \in [Bodies -> Want]
    BY DEF IInv, Types, Statuses
  <2>3. QED BY <1>3, <2>1, <2>2 DEF IInv, Types
<1>5. IdleTasks' = IdleTasks /\ PolledTasks' = PolledTasks /\ InRound' = InRound \cup {x}
  BY DEF IInv, Types, IdleTasks, PolledTasks, InRound
<1>6. PlaceInv'
  BY <1>1, <1>2, <1>3, <1>5, PlacedPush DEF IInv, PlaceInv
<1>7. Chain(rounds') /\ Owners(rounds') = Owners(rounds) \cup {x} /\ Top(rounds') = None
  BY <1>1, <1>2, <1>3, ChainPush DEF IInv, StackInv, r
<1>8. Current' = None
  BY <1>1, <1>2, <1>3, Pushed, Popped DEF Current
<1>9. StackInv'
  BY <1>5, <1>7, <1>8 DEF IInv, StackInv
<1>10. WantInv'
  BY BodyFacts DEF IInv, WantInv, Types
<1>11. QED BY <1>4, <1>6, <1>9, <1>10 DEF IInv

\* The innermost round changes without a change of its owner.
LEMMA RoundChanges ==
  ASSUME IInv, rounds # <<>>,
         NEW r \in Round, r.owner = rounds[1].owner, Neat(r), Own(r) \subseteq Own(rounds[1]),
         NEW q, q = [rounds EXCEPT ![1] = r]
  PROVE  /\ q \in Seq(Round) /\ q # <<>> /\ q[1] = r
         /\ Chain(q) /\ Owners(q) = Owners(rounds) /\ Top(q) = r.current
         /\ Placed(q, queue, (IdleTasks \ Idle(rounds[1])) \cup Idle(r),
                   (PolledTasks \ Polled(rounds[1])) \cup Polled(r))
<1>1. rounds \in Seq(Round) /\ queue \in Seq(Tasks) /\ 1 \in DOMAIN rounds
  BY Popped DEF IInv, Types
<1>2. q \in Seq(Round) /\ q # <<>> /\ q[1] = r
  <2>1. 1 \in 1 .. Len(rounds)
    BY <1>1, LenProperties
  <2>2. q \in Seq(Round)
    BY <1>1, <2>1, ExceptSeq
  <2>3. QED BY <1>1, <2>2
<1>3. QED
  BY <1>1, <1>2, ChainReplace, PlacedReplace DEF IInv, PlaceInv, StackInv

-----------------------------------------------------------------------------
(***************************************************************************)
(* The steps.                                                              *)
(***************************************************************************)

LEMMA GiveWay ==
  ASSUME IInv, NEW x \in Bodies, Current = x, at[x] \in {"running", "check"},
         NEW w \in Want, x = Main => w.block, give_way(x, w)
  PROVE  IInv'
<1> DEFINE v == [w EXCEPT !.fresh = FALSE]
<1>1. v \in Want /\ v.block = w.block /\ want' = [want EXCEPT ![x] = v]
  BY WantTypes DEF give_way
<1> HIDE DEF v
<1>2. UNCHANGED <<cancelled, owner, cell>>
  BY DEF give_way, tasks
<1>3. CASE w.block
  BY <1>1, <1>2, <1>3, EntersRound DEF give_way
<1>4. CASE ~w.block
  <2> DEFINE r == Pended(rounds[1], x)
  <2>1. /\ at' = [at EXCEPT ![x] = "pending"] /\ queue' = queue
        /\ rounds' = [rounds EXCEPT ![1] = r]
    BY <1>4 DEF give_way
  <2>2. x \in Tasks /\ rounds # <<>> /\ rounds[1] \in Round /\ rounds[1].current = x
    BY <1>4, CurrentFacts
  <2>3. /\ r \in Round /\ r.owner = rounds[1].owner /\ r.current = None
        /\ r.rest = rounds[1].rest /\ r.pending = Append(rounds[1].pending, x)
    <3>1. rounds[1].pending \in Seq(Tasks) /\ Append(rounds[1].pending, x) \in Seq(Tasks)
      BY <2>2, RoundFields, AppendProperties
    <3>2. QED BY <2>2, <3>1 DEF Pended, Round
  <2> HIDE DEF r
  <2>4. /\ Neat(rounds[1]) /\ Polled(rounds[1]) = {x} /\ x \notin Idle(rounds[1])
        /\ Idle(rounds[1]) \subseteq IdleTasks
    <3>1. Polled(rounds[1]) = {x}
      BY <2>2, BodyFacts DEF Polled
    <3>2. QED BY <2>2, <3>1, InnermostFacts DEF Neat
  <2>5. Idle(r) = Idle(rounds[1]) \cup {x} /\ Polled(r) = {} /\ Neat(r)
    <3>1. /\ Entries(r.pending) = Entries(rounds[1].pending) \cup {x}
          /\ NoRepeats(r.pending)
      BY <2>2, <2>3, <2>4, RoundFields, AppendEntries DEF Neat, Idle
    <3>2. QED BY <2>3, <2>4, <3>1 DEF Idle, Polled, Neat
  <2>6. Own(r) \subseteq Own(rounds[1])
    BY <2>4, <2>5 DEF Own
  <2>7. /\ rounds' \in Seq(Round) /\ rounds' # <<>> /\ rounds'[1] = r
        /\ Chain(rounds') /\ Owners(rounds') = Owners(rounds)
        /\ Placed(rounds', queue, (IdleTasks \ Idle(rounds[1])) \cup Idle(r),
                  (PolledTasks \ Polled(rounds[1])) \cup Polled(r))
    BY <2>1, <2>2, <2>3, <2>5, <2>6, RoundChanges
  <2>8. /\ IdleTasks' = IdleTasks \cup {x} /\ PolledTasks' = PolledTasks \ {x}
        /\ InRound' = InRound
    BY <2>1, <2>2, BodyFacts DEF IInv, Types, IdleTasks, PolledTasks, InRound
  <2>9. PlaceInv'
    <3>1. (IdleTasks \ Idle(rounds[1])) \cup Idle(r) = IdleTasks'
      BY <2>4, <2>5, <2>8
    <3>2. (PolledTasks \ Polled(rounds[1])) \cup Polled(r) = PolledTasks'
      BY <2>4, <2>5, <2>8
    <3>3. QED BY <2>1, <2>7, <3>1, <3>2 DEF PlaceInv
  <2>10. Current' = None
    BY <2>3, <2>7, Popped DEF Current
  <2>11. Types'
    BY <1>1, <1>2, <2>1, <2>7 DEF IInv, Types, Statuses
  <2>12. WantInv'
    BY <1>1, <1>4, <2>1, <2>2, BodyFacts DEF IInv, WantInv, Types
  <2>13. QED BY <2>7, <2>8, <2>9, <2>10, <2>11, <2>12 DEF IInv, StackInv
<1>5. QED BY <1>3, <1>4

\* What a branch takes is of the right type.
LEMMA Take ==
  ASSUME IInv, NEW x \in Bodies, NEW a \in Await, take(x, a)
  PROVE  /\ owner' \in [Tasks -> Bodies \cup {None}] /\ cell' \in Bodies \cup {None}
         /\ UNCHANGED <<queue, rounds, cancelled>>
<1>1. owner' \in [Tasks -> Bodies \cup {None}]
  BY DEF take, IInv, Types
<1>2. cell' \in Bodies \cup {None}
  BY DEF take, set, IInv, Types
<1>3. QED BY <1>1, <1>2 DEF take

LEMMA Resume ==
  ASSUME IInv, NEW x \in Bodies, Current = x, at[x] \in {"running", "check"},
         NEW a \in Await, resume(x, a)
  PROVE  IInv'
<1>1. take(x, a)
  BY DEF resume
<1>2. QED BY <1>1, Take, GoesOn DEF resume

\* A branch is disabled: the body is still at its poll, in the same places.
LEMMA Disable ==
  ASSUME IInv, NEW x \in Bodies, at[x] = "check", NEW a \in Await, disable(x, a)
  PROVE  IInv'
<1> DEFINE v == [want[x] EXCEPT !.on = @ \ {a}]
<1>1. want[x] \in Want
  BY DEF IInv, Types
<1>2. v \in Want /\ v.block = want[x].block
  BY <1>1, WantTypes
<1>3. want' = [want EXCEPT ![x] = v] /\ UNCHANGED <<at, queue, rounds, cancelled>>
  BY DEF disable, take
<1> HIDE DEF v
<1>4. Types'
  <2>1. take(x, a)
    BY DEF disable
  <2>2. QED BY <1>2, <1>3, <2>1, Take DEF IInv, Types
<1>5. IdleTasks' = IdleTasks /\ PolledTasks' = PolledTasks /\ InRound' = InRound
  BY <1>3 DEF IdleTasks, PolledTasks, InRound
<1>6. StackInv'
  BY <1>3, <1>5 DEF IInv, StackInv, Current
<1>7. WantInv'
  BY <1>2, <1>3, BodyFacts DEF IInv, WantInv, Types
<1>8. QED BY <1>3, <1>4, <1>5, <1>6, <1>7 DEF IInv, PlaceInv

LEMMA SpawnStep ==
  ASSUME IInv, NEW x \in Bodies, NEW t \in Tasks, spawn(x, t)
  PROVE  IInv'
<1>1. /\ Current = x /\ at[x] = "running" /\ at[t] = "unborn" /\ x # t
      /\ queue' = Append(queue, t) /\ at' = [at EXCEPT ![t] = "queued"]
      /\ owner' = [owner EXCEPT ![t] = x]
      /\ UNCHANGED <<rounds, want, cancelled, cell>>
  BY DEF spawn, Runs
<1>2. /\ rounds \in Seq(Round) /\ queue \in Seq(Tasks) /\ queue' \in Seq(Tasks)
      /\ at \in [Bodies -> Statuses] /\ t \in Bodies
  BY <1>1, AppendProperties, BodyFacts DEF IInv, Types
<1>3. Types'
  BY <1>1, <1>2 DEF IInv, Types, Statuses
<1>4. /\ IdleTasks' = IdleTasks \cup {t} /\ PolledTasks' = PolledTasks /\ InRound' = InRound
      /\ t \notin IdleTasks \cup PolledTasks
  BY <1>1, <1>2, BodyFacts DEF IdleTasks, PolledTasks, InRound
<1>5. PlaceInv'
  BY <1>1, <1>2, <1>4, PlacedSpawn DEF IInv, PlaceInv
<1>6. StackInv'
  BY <1>1, <1>2, <1>4 DEF IInv, StackInv, Current
<1>7. WantInv'
  BY <1>1, <1>2, BodyFacts DEF IInv, WantInv
<1>8. QED BY <1>3, <1>5, <1>6, <1>7 DEF IInv

LEMMA FinishStep ==
  ASSUME IInv, NEW x \in Bodies, finish(x)
  PROVE  IInv'
<1>1. /\ Current = x /\ at[x] = "running" /\ at' = [at EXCEPT ![x] = "done"]
      /\ rounds' = IF x = Main THEN rounds ELSE [rounds EXCEPT ![1].current = None]
      /\ UNCHANGED <<queue, want, cancelled, owner, cell>>
  BY DEF finish, Runs, tasks
<1>2. at \in [Bodies -> Statuses] /\ at' \in [Bodies -> Statuses]
  BY <1>1 DEF IInv, Types, Statuses
<1>3. WantInv'
  BY <1>1, <1>2 DEF IInv, WantInv
<1>4. CASE x = Main
  <2>1. Types'
    BY <1>1, <1>2, <1>4 DEF IInv, Types
  <2>2. IdleTasks' = IdleTasks /\ PolledTasks' = PolledTasks /\ InRound' = InRound
    BY <1>1, <1>2, <1>4, BodyFacts DEF IdleTasks, PolledTasks, InRound
  <2>3. Current' = x /\ at'[x] = "done"
    BY <1>1, <1>2, <1>4 DEF Current
  <2>4. QED
    BY <1>1, <1>3, <1>4, <2>1, <2>2, <2>3 DEF IInv, PlaceInv, StackInv
<1>5. CASE x # Main
  <2> DEFINE r == [rounds[1] EXCEPT !.current = None]
  <2>1. x \in Tasks /\ rounds # <<>> /\ rounds[1] \in Round /\ rounds[1].current = x
    BY <1>1, <1>5, CurrentFacts
  <2>2. rounds' = [rounds EXCEPT ![1] = r]
    BY <1>1, <1>5
  <2>3. /\ r \in Round /\ r.owner = rounds[1].owner /\ r.current = None
        /\ r.rest = rounds[1].rest /\ r.pending = rounds[1].pending
    BY <2>1 DEF Round
  <2> HIDE DEF r
  <2>4. Neat(rounds[1]) /\ Polled(rounds[1]) = {x} /\ Idle(rounds[1]) \subseteq IdleTasks
    BY <2>1, BodyFacts, InnermostFacts DEF Polled
  <2>5. Idle(r) = Idle(rounds[1]) /\ Polled(r) = {} /\ Neat(r) /\ Own(r) \subseteq Own(rounds[1])
    BY <2>3, <2>4 DEF Idle, Polled, Neat, Own
  <2>6. /\ rounds' \in Seq(Round) /\ rounds' # <<>> /\ rounds'[1] = r
        /\ Chain(rounds') /\ Owners(rounds') = Owners(rounds)
        /\ Placed(rounds', queue, (IdleTasks \ Idle(rounds[1])) \cup Idle(r),
                  (PolledTasks \ Polled(rounds[1])) \cup Polled(r))
    BY <2>1, <2>2, <2>3, <2>5, RoundChanges
  <2>7. IdleTasks' = IdleTasks /\ PolledTasks' = PolledTasks \ {x} /\ InRound' = InRound
    BY <1>1, <1>2, <2>1, BodyFacts DEF IdleTasks, PolledTasks, InRound
  <2>8. PlaceInv'
    <3>1. (IdleTasks \ Idle(rounds[1])) \cup Idle(r) = IdleTasks'
      BY <2>4, <2>5, <2>7
    <3>2. (PolledTasks \ Polled(rounds[1])) \cup Polled(r) = PolledTasks'
      BY <2>4, <2>5, <2>7
    <3>3. QED BY <1>1, <2>6, <3>1, <3>2 DEF PlaceInv
  <2>9. Current' = None
    BY <2>3, <2>6, Popped DEF Current
  <2>10. Types'
    BY <1>1, <1>2, <2>6 DEF IInv, Types
  <2>11. QED BY <1>3, <2>6, <2>7, <2>8, <2>9, <2>10 DEF IInv, StackInv
<1>6. QED BY <1>4, <1>5

LEMMA WaitStep ==
  ASSUME IInv, NEW x \in Bodies, wait(x)
  PROVE  IInv'
<1>1. Current = x /\ at[x] = "running"
  BY DEF wait, Runs
<1>2. PICK on \in SUBSET Open(x), nested \in BOOLEAN :
        LET w == [on |-> on, select |-> Cardinality(on) = 2,
                  block |-> x = Main \/ nested, fresh |-> TRUE]
        IN \/ /\ Cardinality(on) = 1
              /\ \E a \in on : (Ready(a, TRUE) /\ resume(x, a))
                                 \/ (Missing(a) /\ give_way(x, w))
           \/ /\ want' = [want EXCEPT ![x] = w]
              /\ at' = [at EXCEPT ![x] = "round"]
              /\ begin(x, FALSE, rounds, queue)
              /\ UNCHANGED <<tasks, chan, cell>>
  BY DEF wait
<1> DEFINE w == [on |-> on, select |-> Cardinality(on) = 2,
                 block |-> x = Main \/ nested, fresh |-> TRUE]
<1>3. on \subseteq Await
  BY DEF Open
<1>4. w \in Want /\ (x = Main => w.block)
  <2>1. (x = Main \/ nested) \in BOOLEAN /\ (Cardinality(on) = 2) \in BOOLEAN
    OBVIOUS
  <2>2. QED BY <1>3, <2>1 DEF Want
<1> HIDE DEF w
<1>5. CASE \E a \in on : resume(x, a)
  BY <1>1, <1>3, <1>5, Resume
<1>6. CASE give_way(x, w)
  BY <1>1, <1>4, <1>6, GiveWay
<1>7. CASE /\ want' = [want EXCEPT ![x] = w]
           /\ at' = [at EXCEPT ![x] = "round"]
           /\ begin(x, FALSE, rounds, queue)
           /\ UNCHANGED <<tasks, chan, cell>>
  BY <1>1, <1>4, <1>7, EntersRound DEF tasks
<1>8. QED BY <1>2, <1>5, <1>6, <1>7 DEF w

LEMMA CheckStep ==
  ASSUME IInv, NEW x \in Bodies, check(x)
  PROVE  IInv'
<1>1. Current = x /\ at[x] = "check"
  BY DEF check
<1>2. want[x] \in Want /\ want[x].on \subseteq Await /\ (x = Main => want[x].block)
  BY <1>1 DEF IInv, Types, WantInv, Want
<1>3. CASE \E a \in want[x].on : resume(x, a)
  BY <1>1, <1>2, <1>3, Resume
<1>4. CASE \E a \in want[x].on : disable(x, a)
  BY <1>1, <1>2, <1>4, Disable
<1>5. CASE give_way(x, want[x])
  BY <1>1, <1>2, <1>5, GiveWay
<1>6. QED BY <1>3, <1>4, <1>5 DEF check

\* A task whose turn has come waits in a round, so it is in no other place.
LEMMA NextTaskStep ==
  ASSUME IInv, next_task
  PROVE  IInv'
<1> DEFINE t == Head(rounds[1].rest)
           d == [rounds[1] EXCEPT !.rest = Tail(rounds[1].rest)]
           r == [d EXCEPT !.current = t]
<1>1. /\ rounds # <<>> /\ rounds[1] \in Round /\ Head(rounds) = rounds[1]
      /\ rounds \in Seq(Round) /\ 1 \in DOMAIN rounds
      /\ Neat(rounds[1]) /\ Idle(rounds[1]) \subseteq IdleTasks
      /\ rounds[1].current = None /\ rounds[1].rest # <<>>
  BY InnermostFacts DEF next_task
<1>2. /\ rounds[1].rest \in Seq(Tasks) /\ Tail(rounds[1].rest) \in Seq(Tasks)
      /\ t \in Tasks /\ t \in Entries(rounds[1].rest)
      /\ Entries(Tail(rounds[1].rest)) = Entries(rounds[1].rest) \ {t}
      /\ NoRepeats(Tail(rounds[1].rest))
  BY <1>1, RoundFields, TailEntries DEF Neat
<1>3. /\ d \in Round /\ d.owner = rounds[1].owner /\ d.current = None
      /\ d.rest = Tail(rounds[1].rest) /\ d.pending = rounds[1].pending
  BY <1>1, <1>2 DEF Round
<1>4. /\ r \in Round /\ r.owner = rounds[1].owner /\ r.current = t
      /\ r.rest = Tail(rounds[1].rest) /\ r.pending = rounds[1].pending
  BY <1>2, <1>3 DEF Round
<1>5. /\ [rounds EXCEPT ![1].rest = Tail(@)] = [rounds EXCEPT ![1] = d]
      /\ [[rounds EXCEPT ![1] = d] EXCEPT ![1].current = t] = [rounds EXCEPT ![1] = r]
  BY <1>1
<1>6. /\ UNCHANGED <<cancelled, owner, cell>>
      /\ \/ /\ rounds' = [rounds EXCEPT ![1] = d]
            /\ at' = [at EXCEPT ![t] = "dropped"]
            /\ want' = [want EXCEPT ![t] = NoWant]
            /\ UNCHANGED queue
         \/ /\ IF Select(t) THEN begin(t, FALSE, [rounds EXCEPT ![1] = r], queue)
               ELSE rounds' = [rounds EXCEPT ![1] = r] /\ UNCHANGED queue
            /\ at' = [at EXCEPT ![t] = CASE @ = "queued" -> "running"
                                         [] Select(t)    -> "round"
                                         [] OTHER        -> "check"]
            /\ UNCHANGED want
  BY <1>1, <1>5 DEF next_task, tasks
<1> HIDE DEF d, r, t
<1>7. /\ t \in IdleTasks /\ t \in Idle(rounds[1]) /\ t \notin Entries(rounds[1].pending)
      /\ Polled(rounds[1]) = {}
  BY <1>1, <1>2 DEF Idle, Neat, Polled
<1>8. /\ Idle(d) = Idle(rounds[1]) \ {t} /\ Polled(d) = {} /\ Neat(d)
      /\ Own(d) \subseteq Own(rounds[1])
  BY <1>1, <1>2, <1>3, <1>7 DEF Idle, Polled, Neat, Own
<1>9. /\ Idle(r) = Idle(rounds[1]) \ {t} /\ Polled(r) = {t} /\ Neat(r)
      /\ Own(r) \subseteq Own(rounds[1])
  BY <1>1, <1>2, <1>4, <1>7, BodyFacts DEF Idle, Polled, Neat, Own
<1>10. /\ at \in [Bodies -> Statuses] /\ want \in [Bodies -> Want] /\ queue \in Seq(Tasks)
       /\ t \in Bodies /\ t # Main /\ at[t] \in {"queued", "pending"}
  BY <1>2, <1>7, BodyFacts DEF IInv, Types, IdleTasks
<1>11. CASE /\ rounds' = [rounds EXCEPT ![1] = d]
            /\ at' = [at EXCEPT ![t] = "dropped"]
            /\ want' = [want EXCEPT ![t] = NoWant]
            /\ UNCHANGED queue
  <2>1. /\ rounds' \in Seq(Round) /\ rounds' # <<>> /\ rounds'[1] = d
        /\ Chain(rounds') /\ Owners(rounds') = Owners(rounds)
        /\ Placed(rounds', queue, (IdleTasks \ Idle(rounds[1])) \cup Idle(d),
                  (PolledTasks \ Polled(rounds[1])) \cup Polled(d))
    BY <1>1, <1>3, <1>8, <1>11, RoundChanges
  <2>2. IdleTasks' = IdleTasks \ {t} /\ PolledTasks' = PolledTasks /\ InRound' = InRound
    BY <1>2, <1>10, <1>11, BodyFacts DEF IdleTasks, PolledTasks, InRound
  <2>3. (IdleTasks \ Idle(rounds[1])) \cup Idle(d) = IdleTasks'
    BY <1>1, <1>7, <1>8, <2>2
  <2>4. (PolledTasks \ Polled(rounds[1])) \cup Polled(d) = PolledTasks'
    BY <1>7, <1>8, <2>2
  <2>5. PlaceInv'
    BY <1>11, <2>1, <2>3, <2>4 DEF PlaceInv
  <2>6. Current' = None
    BY <1>3, <2>1, Popped DEF Current
  <2>7. Types'
    BY <1>6, <1>10, <1>11, <2>1, WantTypes DEF IInv, Types, Statuses
  <2>8. WantInv'
    BY <1>2, <1>10, <1>11, BodyFacts DEF IInv, WantInv
  <2>9. QED BY <2>1, <2>2, <2>5, <2>6, <2>7, <2>8 DEF IInv, StackInv
<1>12. CASE /\ IF Select(t) THEN begin(t, FALSE, [rounds EXCEPT ![1] = r], queue)
               ELSE rounds' = [rounds EXCEPT ![1] = r] /\ UNCHANGED queue
            /\ at' = [at EXCEPT ![t] = CASE @ = "queued" -> "running"
                                         [] Select(t)    -> "round"
                                         [] OTHER        -> "check"]
            /\ UNCHANGED want
  <2> DEFINE p == [rounds EXCEPT ![1] = r]
  <2>1. /\ p \in Seq(Round) /\ p # <<>> /\ p[1] = r
        /\ Chain(p) /\ Owners(p) = Owners(rounds) /\ Top(p) = t
        /\ Placed(p, queue, (IdleTasks \ Idle(rounds[1])) \cup Idle(r),
                  (PolledTasks \ Polled(rounds[1])) \cup Polled(r))
    BY <1>1, <1>4, <1>9, RoundChanges
  <2> HIDE DEF p
  <2>2. Placed(p, queue, IdleTasks \ {t}, PolledTasks \cup {t})
    <3>1. (IdleTasks \ Idle(rounds[1])) \cup Idle(r) = IdleTasks \ {t}
      BY <1>1, <1>7, <1>9
    <3>2. (PolledTasks \ Polled(rounds[1])) \cup Polled(r) = PolledTasks \cup {t}
      BY <1>7, <1>9
    <3>3. QED BY <2>1, <3>1, <3>2
  <2>3. ASSUME at[t] = "queued"
        PROVE  ~Select(t)
    BY <1>2, <1>10, <2>3 DEF IInv, WantInv, Select, NoWant
  <2>4. at'[t] \in {"running", "check", "round"} /\ (at'[t] = "round" <=> Select(t))
    BY <1>10, <1>12, <2>3
  <2>5. at' \in [Bodies -> Statuses] /\ \A x \in Bodies : x # t => at'[x] = at[x]
    <3>1. \A x \in Bodies : x # t => at'[x] = at[x]
      BY <1>10, <1>12
    <3>2. at' = [at EXCEPT ![t] = at'[t]]
      BY <1>10, <1>12
    <3>3. QED BY <1>10, <2>4, <3>1, <3>2 DEF Statuses
  <2>6. IdleTasks' = IdleTasks \ {t} /\ PolledTasks' = PolledTasks \cup {t}
    BY <1>2, <1>10, <2>4, <2>5, BodyFacts DEF IdleTasks, PolledTasks
  <2>7. WantInv'
    BY <1>2, <1>10, <1>12, <2>4, <2>5, BodyFacts DEF IInv, WantInv
  <2>8. CASE ~Select(t)
    <3>1. rounds' = p /\ queue' = queue
      BY <1>12, <2>8 DEF p
    <3>2. InRound' = InRound
      BY <1>10, <2>4, <2>5, <2>8 DEF InRound
    <3>3. Current' = t
      BY <2>1, <3>1, <1>4, Popped DEF Current
    <3>4. Types'
      BY <1>6, <1>10, <1>12, <2>1, <2>5, <3>1 DEF IInv, Types
    <3>5. PlaceInv'
      BY <2>2, <2>6, <3>1 DEF PlaceInv
    <3>6. StackInv'
      BY <2>1, <2>4, <2>8, <3>1, <3>2, <3>3 DEF IInv, StackInv
    <3>7. QED BY <2>7, <3>4, <3>5, <3>6 DEF IInv
  <2>9. CASE Select(t)
    <3> DEFINE n == [owner |-> t, loop |-> FALSE, current |-> None, rest |-> queue, pending |-> <<>>]
    <3>1. n \in Round /\ rounds' = <<n>> \o p /\ queue' = <<>>
      <4>1. n \in Round
        BY <1>10 DEF Round
      <4>2. begin(t, FALSE, p, queue)
        BY <1>12, <2>9 DEF p
      <4>3. QED BY <4>1, <4>2 DEF begin
    <3>2. n.owner = t /\ n.current = None /\ n.rest = queue /\ n.pending = <<>>
      OBVIOUS
    <3> HIDE DEF n
    <3>3. Placed(rounds', <<>>, IdleTasks \ {t}, PolledTasks \cup {t})
      BY <1>10, <2>1, <2>2, <3>1, <3>2, PlacedPush
    <3>4. Chain(rounds') /\ Owners(rounds') = Owners(rounds) \cup {t}
      BY <2>1, <3>1, <3>2, ChainPush
    <3>5. rounds' \in Seq(Round) /\ Current' = None
      BY <2>1, <3>1, <3>2, Pushed, Popped DEF Current
    <3>6. InRound' = InRound \cup {t}
      BY <1>10, <2>4, <2>5, <2>9 DEF InRound
    <3>7. Types'
      BY <1>6, <1>10, <1>12, <2>5, <3>1, <3>5, EmptySeq DEF IInv, Types
    <3>8. PlaceInv'
      BY <2>6, <3>1, <3>3 DEF PlaceInv
    <3>9. StackInv'
      BY <3>4, <3>5, <3>6 DEF IInv, StackInv
    <3>10. QED BY <2>7, <3>7, <3>8, <3>9 DEF IInv
  <2>10. QED BY <2>8, <2>9
<1>13. QED BY <1>6, <1>11, <1>12

\* A round gives back what it took, and its owner goes on, or begins another.
LEMMA EndRoundStep ==
  ASSUME IInv, end_round
  PROVE  IInv'
<1> DEFINE x == rounds[1].owner
           all == rounds[1].pending \o queue
           rest == Tail(rounds)
<1>1. /\ rounds # <<>> /\ rounds[1] \in Round /\ Head(rounds) = rounds[1]
      /\ rounds \in Seq(Round) /\ 1 \in DOMAIN rounds
      /\ rounds[1].current = None /\ rounds[1].rest = <<>>
  BY InnermostFacts DEF end_round
<1>2. /\ UNCHANGED <<want, cancelled, owner, cell>>
      /\ \/ begin(x, FALSE, rest, all) /\ UNCHANGED at
         \/ rounds' = rest /\ queue' = all /\ at' = [at EXCEPT ![x] = "check"]
  BY <1>1 DEF end_round, Requeued, tasks
<1>3. /\ at \in [Bodies -> Statuses] /\ queue \in Seq(Tasks) /\ x \in Bodies
      /\ rounds[1].pending \in Seq(Tasks) /\ all \in Seq(Tasks) /\ rest \in Seq(Round)
  BY <1>1, RoundFields, Popped, ConcatEntries DEF IInv, Types
<1>4. Placed(rest, all, IdleTasks, PolledTasks)
  BY <1>1, <1>3, PlacedPop DEF IInv, PlaceInv
<1>5. Chain(rest) /\ Top(rest) = x /\ Owners(rounds) = Owners(rest) \cup {x}
  BY <1>1, ChainPop DEF IInv, StackInv
<1>6. x \notin Owners(rest)
  BY <1>1, OwnersDiffer DEF IInv, StackInv, PlaceInv
<1>7. x \in InRound /\ at[x] = "round"
  BY <1>5 DEF IInv, StackInv, InRound
<1> HIDE DEF x, all, rest
<1>8. CASE begin(x, FALSE, rest, all) /\ UNCHANGED at
  <2> DEFINE n == [owner |-> x, loop |-> FALSE, current |-> None, rest |-> all, pending |-> <<>>]
  <2>1. n \in Round /\ rounds' = <<n>> \o rest /\ queue' = <<>>
    BY <1>3, <1>8 DEF begin, Round
  <2>2. n.owner = x /\ n.current = None /\ n.rest = all /\ n.pending = <<>>
    OBVIOUS
  <2> HIDE DEF n
  <2>3. Placed(rounds', <<>>, IdleTasks, PolledTasks)
    BY <1>3, <1>4, <2>1, <2>2, PlacedPush
  <2>4. Chain(rounds') /\ Owners(rounds') = Owners(rounds)
    BY <1>3, <1>5, <2>1, <2>2, ChainPush
  <2>5. rounds' \in Seq(Round) /\ Current' = None
    BY <1>3, <2>1, <2>2, Pushed, Popped DEF Current
  <2>6. IdleTasks' = IdleTasks /\ PolledTasks' = PolledTasks /\ InRound' = InRound
    BY <1>8 DEF IdleTasks, PolledTasks, InRound
  <2>7. Types'
    BY <1>2, <1>8, <2>1, <2>5, EmptySeq DEF IInv, Types
  <2>8. PlaceInv'
    BY <2>1, <2>3, <2>6 DEF PlaceInv
  <2>9. QED BY <1>2, <1>8, <2>4, <2>5, <2>6, <2>7, <2>8 DEF IInv, StackInv, WantInv
<1>9. CASE rounds' = rest /\ queue' = all /\ at' = [at EXCEPT ![x] = "check"]
  <2>1. IdleTasks' = IdleTasks /\ PolledTasks' = PolledTasks /\ InRound' = InRound \ {x}
    BY <1>3, <1>7, <1>9, BodyFacts DEF IdleTasks, PolledTasks, InRound
  <2>2. Current' = x
    BY <1>3, <1>5, <1>9, Popped DEF Current, Top
  <2>3. StackInv'
    BY <1>3, <1>5, <1>6, <1>9, <2>1, <2>2 DEF IInv, StackInv
  <2>4. PlaceInv'
    BY <1>4, <1>9, <2>1 DEF PlaceInv
  <2>5. WantInv'
    BY <1>2, <1>3, <1>7, <1>9, BodyFacts DEF IInv, WantInv
  <2>6. Types'
    BY <1>2, <1>3, <1>9 DEF IInv, Types, Statuses
  <2>7. QED BY <2>3, <2>4, <2>5, <2>6 DEF IInv
<1>10. QED BY <1>2, <1>8, <1>9

LEMMA IInvStep ==
  ASSUME IInv, [Next]_vars
  PROVE  IInv'
<1>1. ASSUME NEW x \in Bodies, NEW t \in Tasks, abort(x, t)
      PROVE  IInv'
  BY <1>1, SamePlaces DEF abort, IInv, Types
<1>2. ASSUME NEW x \in Bodies, send(x) \/ drop_sender(x) \/ close \/ UNCHANGED vars
      PROVE  IInv'
  BY <1>2, SamePlaces DEF send, drop_sender, close, vars, tasks, IInv, Types
<1>3. CASE close \/ UNCHANGED vars
  BY <1>2, <1>3, BodyFacts
<1>4. QED
  BY <1>1, <1>2, <1>3, SpawnStep, FinishStep, WaitStep, CheckStep, NextTaskStep, EndRoundStep
  DEF Next, Program, Executor

LEMMA InitIInv == Init => IInv
<1> SUFFICES ASSUME Init
             PROVE  IInv
  OBVIOUS
<1>1. Types
  <2>1. at \in [Bodies -> Statuses] /\ want \in [Bodies -> Want]
    BY WantTypes DEF Init, Statuses
  <2>2. queue \in Seq(Tasks) /\ rounds \in Seq(Round)
    BY EmptySeq DEF Init
  <2>3. cancelled \subseteq Tasks /\ owner \in [Tasks -> Bodies \cup {None}]
        /\ cell \in Bodies \cup {None}
    BY DEF Init
  <2>4. QED BY <2>1, <2>2, <2>3 DEF Types
<1>2. DOMAIN rounds = {} /\ IdleTasks = {} /\ PolledTasks = {} /\ InRound = {}
  BY BodyFacts DEF Init, IdleTasks, PolledTasks, InRound
<1>3. PlaceInv
  BY <1>2, NothingIn DEF Init, PlaceInv, Placed, Apart
<1>4. StackInv
  BY <1>2, BodyFacts DEF Init, StackInv, Chain, Owners, Current
<1>5. WantInv
  BY BodyFacts DEF Init, WantInv
<1>6. QED BY <1>1, <1>3, <1>4, <1>5 DEF IInv

-----------------------------------------------------------------------------
(* The theorems *)

LEMMA IInvCorrect == Spec => []IInv
<1>1. IInv /\ [Next]_vars => IInv'
  BY IInvStep
<1>2. QED
  BY <1>1, InitIInv, PTL DEF Spec

Bounds ==
  /\ sent <= MaxSends
  /\ closed \in BOOLEAN /\ ended \in BOOLEAN

LEMMA BoundsStep ==
  ASSUME Bounds, ChannelTypes, [Next]_vars
  PROVE  Bounds'
<1>1. \A x : Close(x) \in BOOLEAN
  BY DEF Close, Bounds
<1>2. ASSUME NEW x \in Bodies, NEW t \in Tasks, spawn(x, t) \/ abort(x, t)
      PROVE  Bounds'
  BY <1>2 DEF spawn, abort, chan, Bounds
<1>3. ASSUME NEW x \in Bodies, send(x)
      PROVE  Bounds'
  <2>1. sent < MaxSends /\ sent' = sent + 1 /\ UNCHANGED <<closed, ended>>
    BY <1>3 DEF send
  <2>2. sent' <= MaxSends
    BY <2>1, ConstantsAssumption DEF ChannelTypes
  <2>3. QED BY <2>1, <2>2 DEF Bounds
<1>4. ASSUME NEW x, closed' = Close(x) \/ closed' = (Close(x) \/ x = Main), UNCHANGED <<sent, ended>>
      PROVE  Bounds'
  <2>1. closed' \in BOOLEAN
    BY <1>1, <1>4
  <2>2. QED BY <1>4, <2>1 DEF Bounds
<1>5. ASSUME NEW x \in Bodies, drop_sender(x) \/ finish(x)
      PROVE  Bounds'
  BY <1>4, <1>5 DEF drop_sender, finish
<1>6. ASSUME NEW x, NEW a, resume(x, a) \/ disable(x, a)
      PROVE  Bounds'
  BY <1>6 DEF resume, disable, take, poll_recv, chan, Bounds
<1>7. ASSUME NEW x \in Bodies, wait(x) \/ check(x)
      PROVE  Bounds'
  BY <1>6, <1>7 DEF wait, check, give_way, chan, Bounds
<1>8. CASE next_task
  BY <1>4, <1>8 DEF next_task, Bounds
<1>9. CASE close \/ end_round \/ UNCHANGED vars
  BY <1>9 DEF close, end_round, vars, chan, Bounds
<1>10. QED
  BY <1>2, <1>3, <1>5, <1>7, <1>8, <1>9 DEF Next, Program, Executor

LEMMA TypeOKFollows ==
  ASSUME IInv, ChannelInv, Bounds, sent \in Nat
  PROVE  TypeOK
<1>1. buffer \in Seq(1..MaxSends)
  <2> DEFINE n == sent - received
  <2>1. n \in Nat /\ received \in Nat /\ received + n = sent /\ sent <= MaxSends /\ sent \in Nat
    BY DEF ChannelInv, ChannelTypes, Bounds
  <2>2. buffer = [i \in 1 .. n |-> received + i]
    BY DEF ChannelInv, ChannelContract, InOrder
  <2> HIDE DEF n
  <2>3. \A i \in 1 .. n : received + i \in 1 .. MaxSends
    BY <2>1, ConstantsAssumption
  <2>4. buffer \in [1 .. n -> 1 .. MaxSends]
    BY <2>2, <2>3
  <2>5. QED BY <2>1, <2>4, SeqDef
<1>2. sent \in 0..MaxSends /\ received \in 0..MaxSends /\ senders \subseteq Bodies
  BY ConstantsAssumption DEF ChannelInv, ChannelTypes, Bounds
<1>3. QED
  BY <1>1, <1>2 DEF TypeOK, IInv, Types, Statuses, StackInv, Chain, InRound, Owners, Bounds

\* Every variable has its type, and the stack of rounds its shape: whoever is
\* polled is not among those that wait.
THEOREM TypeCorrect == Spec => []TypeOK
<1>1. IInv /\ ChannelInv /\ Bounds => TypeOK
  BY TypeOKFollows DEF ChannelInv, ChannelTypes
<1>2. Spec => []ChannelInv
  <2>1. ChannelInv /\ [Next]_vars => ChannelInv'
    BY ChannelStep
  <2>2. QED BY <2>1, InitChannel, PTL DEF Spec
<1>3. Spec => []Bounds
  <2>1. Init => Bounds
    <3>1. 0 <= MaxSends
      BY ConstantsAssumption
    <3>2. QED BY <3>1 DEF Init, Bounds
  <2>2. Bounds /\ ChannelInv /\ [Next]_vars => Bounds'
    BY BoundsStep DEF ChannelInv
  <2>3. QED BY <1>2, <2>1, <2>2, PTL DEF Spec
<1>4. QED
  BY <1>1, <1>2, <1>3, IInvCorrect, PTL

\* A place in a round makes the task one of its own.
LEMMA PlacesInOwn ==
  ASSUME IInv, NEW k \in DOMAIN rounds, NEW t \in Tasks
  PROVE  /\ PlacesIn(k, t) # {} => t \in Own(rounds[k])
         /\ t \in Own(rounds[k]) => \E p : PlacesIn(k, t) = {p}
<1> DEFINE r == rounds[k]
<1>1. Neat(r) /\ t # None
  BY BodyFacts DEF IInv, PlaceInv, Placed
<1>2. PlacesIn(k, t) =
        {<<"rest", k, i>> : i \in {j \in DOMAIN r.rest : r.rest[j] = t}}
          \cup {<<"pending", k, i>> : i \in {j \in DOMAIN r.pending : r.pending[j] = t}}
          \cup {<<"current", k, 1>> : c \in {r.current} \cap {t}}
  BY DEF PlacesIn
<1> HIDE DEF r
<1>3. ASSUME PlacesIn(k, t) # {}
      PROVE  t \in Own(r)
  BY <1>1, <1>2, <1>3 DEF Own, Idle, Polled, Entries
<1>4. CASE t \in Entries(r.rest)
  <2>1. PICK i \in DOMAIN r.rest : r.rest[i] = t
    BY <1>4 DEF Entries
  <2>2. {j \in DOMAIN r.rest : r.rest[j] = t} = {i}
    BY <1>1, <2>1 DEF Neat, NoRepeats
  <2>3. t \notin Entries(r.pending) /\ r.current # t
    BY <1>1, <1>4 DEF Neat, Idle, Polled
  <2>4. {j \in DOMAIN r.pending : r.pending[j] = t} = {}
    BY <2>3 DEF Entries
  <2>5. PlacesIn(k, t) = {<<"rest", k, i>>}
    BY <1>2, <2>2, <2>3, <2>4
  <2>6. QED BY <1>3, <2>5 DEF r
<1>5. CASE t \in Entries(r.pending)
  <2>1. PICK i \in DOMAIN r.pending : r.pending[i] = t
    BY <1>5 DEF Entries
  <2>2. {j \in DOMAIN r.pending : r.pending[j] = t} = {i}
    BY <1>1, <2>1 DEF Neat, NoRepeats
  <2>3. t \notin Entries(r.rest) /\ r.current # t
    BY <1>1, <1>5 DEF Neat, Idle, Polled
  <2>4. {j \in DOMAIN r.rest : r.rest[j] = t} = {}
    BY <2>3 DEF Entries
  <2>5. PlacesIn(k, t) = {<<"pending", k, i>>}
    BY <1>2, <2>2, <2>3, <2>4
  <2>6. QED BY <1>3, <2>5 DEF r
<1>6. CASE t \in Polled(r)
  <2>1. r.current = t /\ t \notin Idle(r)
    BY <1>1, <1>6 DEF Neat, Polled
  <2>2. /\ {j \in DOMAIN r.rest : r.rest[j] = t} = {}
        /\ {j \in DOMAIN r.pending : r.pending[j] = t} = {}
    BY <2>1 DEF Idle, Entries
  <2>3. PlacesIn(k, t) = {<<"current", k, 1>>}
    BY <1>2, <2>1, <2>2
  <2>4. QED BY <1>3, <2>3 DEF r
<1>7. CASE t \notin Own(r)
  BY <1>3, <1>7 DEF r
<1>8. QED BY <1>4, <1>5, <1>6, <1>7 DEF Own, Idle

\* Whatever rounds run within polls of others, a task that is not over is in
\* one place, and one that is over in none.
THEOREM EveryTaskIsInOnePlace == Spec => []InOnePlace
<1>1. ASSUME IInv
      PROVE  InOnePlace
  <2>1. SUFFICES ASSUME NEW t \in Tasks
                 PROVE  Cardinality(Places(t)) = IF t \in Live THEN 1 ELSE 0
    BY DEF InOnePlace
  <2>2. t \in Live <=> \/ t \in Entries(queue)
                       \/ \E k \in DOMAIN rounds : t \in Own(rounds[k])
    <3>1. t \in Live <=> t \in IdleTasks \cup PolledTasks
      BY <1>1, BodyFacts DEF Live, IdleTasks, PolledTasks, IInv, Types, Statuses
    <3>2. QED BY <1>1, <3>1 DEF IInv, PlaceInv, Placed, Own
  <2>3. /\ \A k \in DOMAIN rounds : t \in Own(rounds[k]) => t \notin Entries(queue)
        /\ \A k, l \in DOMAIN rounds :
             t \in Own(rounds[k]) /\ t \in Own(rounds[l]) => k = l
    BY <1>1 DEF IInv, PlaceInv, Placed, Apart
  <2>4. t \notin Entries(queue) => {<<"queue", 0, i>> : i \in {j \in DOMAIN queue : queue[j] = t}} = {}
    BY DEF Entries
  <2>5. \A k \in DOMAIN rounds : t \notin Own(rounds[k]) => PlacesIn(k, t) = {}
    BY <1>1, PlacesInOwn
  <2>6. CASE t \in Entries(queue)
    <3>1. PICK i \in DOMAIN queue : queue[i] = t
      BY <2>6 DEF Entries
    <3>2. {j \in DOMAIN queue : queue[j] = t} = {i}
      BY <1>1, <3>1 DEF IInv, PlaceInv, Placed, NoRepeats
    <3>3. Places(t) = {<<"queue", 0, i>>}
      BY <2>3, <2>5, <2>6, <3>2 DEF Places
    <3>4. QED BY <2>2, <2>6, <3>3, FS_Singleton
  <2>7. CASE \E k \in DOMAIN rounds : t \in Own(rounds[k])
    <3>1. PICK k \in DOMAIN rounds : t \in Own(rounds[k])
      BY <2>7
    <3>2. PICK p : PlacesIn(k, t) = {p}
      BY <1>1, <3>1, PlacesInOwn
    <3>3. \A l \in DOMAIN rounds : l # k => PlacesIn(l, t) = {}
      BY <2>3, <2>5, <3>1
    <3>4. Places(t) = {p}
      BY <2>3, <2>4, <3>1, <3>2, <3>3 DEF Places
    <3>5. QED BY <2>2, <2>7, <3>4, FS_Singleton
  <2>8. CASE t \notin Live
    <3>1. Places(t) = {}
      BY <2>2, <2>4, <2>5, <2>8 DEF Places
    <3>2. QED BY <2>8, <3>1, FS_EmptySet
  <2>9. QED BY <2>2, <2>6, <2>7, <2>8
<1>2. QED
  BY <1>1, IInvCorrect, PTL

\* Who is polled has the status that says so.
PollInv == \A t \in Tasks : t \in InPoll <=> at[t] \in {"running", "check", "round"}

LEMMA InPollIsPolled == IInv => PollInv
<1> SUFFICES ASSUME IInv
             PROVE  PollInv
  OBVIOUS
<1>1. \A t \in Tasks : t \in InPoll <=> t \in UNION {Polled(rounds[k]) : k \in DOMAIN rounds}
  BY BodyFacts DEF InPoll, Polled
<1>2. QED
  BY <1>1 DEF IInv, PlaceInv, Placed, PolledTasks, PollInv

\* A task comes to be polled only by its turn in a round, which its flag forbids.
LEMMA NotPolledAgain ==
  ASSUME IInv, [Next]_vars,
         NEW t \in cancelled, at[t] \notin {"running", "check", "round"}
  PROVE  at'[t] \notin {"running", "check", "round"}
<1>1. t \in Bodies /\ at \in [Bodies -> Statuses]
  BY BodyFacts DEF IInv, Types
<1>2. ASSUME NEW x \in Bodies, NEW v, x # t \/ v \notin {"running", "check", "round"},
             at' = [at EXCEPT ![x] = v]
      PROVE  at'[t] \notin {"running", "check", "round"}
  BY <1>1, <1>2
<1>3. CASE at' = at
  BY <1>3
<1>4. ASSUME NEW x \in Bodies, NEW u \in Tasks, spawn(x, u) \/ abort(x, u)
      PROVE  at'[t] \notin {"running", "check", "round"}
  BY <1>2, <1>3, <1>4, BodyFacts DEF spawn, abort
<1>5. ASSUME NEW x \in Bodies, send(x) \/ drop_sender(x) \/ finish(x)
      PROVE  at'[t] \notin {"running", "check", "round"}
  BY <1>2, <1>3, <1>5 DEF send, drop_sender, finish
<1>6. ASSUME NEW x \in Bodies, wait(x) \/ check(x)
      PROVE  at'[t] \notin {"running", "check", "round"}
  <2>1. x # t
    BY <1>6 DEF wait, check, Runs
  <2>2. at' = at \/ \E v : at' = [at EXCEPT ![x] = v]
    BY <1>6 DEF wait, check, resume, disable, give_way
  <2>3. QED BY <1>2, <1>3, <2>1, <2>2
<1>7. CASE next_task
  <2>1. PICK u \in Tasks :
          \E v : at' = [at EXCEPT ![u] = v] /\ (u = t => v = "dropped")
    <3> DEFINE u == Head(Head(rounds).rest)
    <3>1. u \in Tasks
      BY <1>7, InnermostFacts, RoundFields, TailEntries DEF next_task, Neat
    <3>2. CASE u \in cancelled
      BY <1>7, <3>1, <3>2 DEF next_task, Skip
    <3>3. CASE u \notin cancelled
      <4>1. \E v : at' = [at EXCEPT ![u] = v]
        BY <1>7, <3>3 DEF next_task, Skip
      <4>2. u # t
        BY <3>3
      <4>3. QED BY <3>1, <4>1, <4>2
    <3>4. QED BY <3>2, <3>3
  <2>2. QED BY <1>2, <2>1, BodyFacts
<1>8. CASE end_round
  <2>1. CASE at' = [at EXCEPT ![Head(rounds).owner] = "check"]
    <3>1. Head(rounds).owner \in InRound
      BY <1>8, InnermostFacts DEF end_round, IInv, StackInv, Owners
    <3>2. QED BY <1>2, <2>1, <3>1 DEF InRound
  <2>2. QED BY <1>3, <1>8, <2>1 DEF end_round
<1>9. CASE close \/ UNCHANGED vars
  BY <1>3, <1>9 DEF close, vars
<1>10. QED
  BY <1>4, <1>5, <1>6, <1>7, <1>8, <1>9 DEF Next, Program, Executor

\* The value of a cell stays, and an aborted task that is not being polled is
\* never polled again.
THEOREM WhatIsSettledStays == Spec => SettledForGood
<1>1. ASSUME IInv, PollInv, PollInv', [Next]_vars
      PROVE  [OneValue /\ NoLifeAfterAbort]_vars
  <2>1. OneValue
    <3>1. \A x \in Bodies : \A t \in Tasks : spawn(x, t) \/ abort(x, t) => OneValue
      BY DEF OneValue, spawn, abort
    <3>2. \A x \in Bodies : send(x) \/ drop_sender(x) \/ finish(x) => OneValue
      BY DEF OneValue, send, drop_sender, finish
    <3>3. \A x : /\ \A a : resume(x, a) \/ disable(x, a) => OneValue
                 /\ \A w : give_way(x, w) => OneValue
      BY DEF OneValue, resume, disable, take, set, give_way
    <3>4. \A x \in Bodies : wait(x) => OneValue
      <4> SUFFICES ASSUME NEW x \in Bodies, wait(x)
                   PROVE  OneValue
        OBVIOUS
      <4>1. CASE UNCHANGED cell
        BY <4>1 DEF OneValue
      <4>2. QED BY <3>3, <4>1 DEF wait
    <3>5. \A x \in Bodies : check(x) => OneValue
      BY <3>3 DEF check
    <3>6. next_task \/ end_round \/ close \/ UNCHANGED vars => OneValue
      BY DEF OneValue, next_task, end_round, close, vars
    <3>7. QED
      BY <1>1, <3>1, <3>2, <3>4, <3>5, <3>6 DEF Next, Program, Executor
  <2>2. ASSUME NEW t \in cancelled, t \notin InPoll
        PROVE  t \notin InPoll'
    <3>1. t \in Tasks /\ at[t] \notin {"running", "check", "round"}
      BY <1>1, <2>2 DEF IInv, Types, PollInv
    <3>2. at'[t] \notin {"running", "check", "round"}
      BY <1>1, <3>1, NotPolledAgain
    <3>3. QED BY <1>1, <3>1, <3>2 DEF PollInv
  <2>3. QED BY <2>1, <2>2 DEF NoLifeAfterAbort
<1>2. IInv /\ PollInv /\ PollInv' /\ [Next]_vars => [OneValue /\ NoLifeAfterAbort]_vars
  BY <1>1
<1>3. QED
  BY <1>2, IInvCorrect, InPollIsPolled, PTL DEF Spec, SettledForGood

=============================================================================

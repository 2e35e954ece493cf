--------------------------- MODULE SectionProofs ---------------------------
(***************************************************************************)
(* What holds of a table builder behind a channel that loses and repeats   *)
(* packets, for tables and packets of every size and any number of faults. *)
(***************************************************************************)
EXTENDS SectionChannel, SequenceTheorems, FiniteSetTheorems, WellFoundedInduction, TLAPS

-----------------------------------------------------------------------------
(* Induction *)

LEMMA LessThanNat == IsWellFoundedOn({p \in Nat \X Nat : p[1] < p[2]}, Nat)
BY NatLessThanWellFounded DEF OpToRel

LEMMA InductionOverNat ==
  ASSUME NEW S, 0 \in S, \A n \in Nat : n \in S => n + 1 \in S
  PROVE  Nat \subseteq S
<1> DEFINE R == {p \in Nat \X Nat : p[1] < p[2]}
           T == Nat \ S
<1>1. SUFFICES ASSUME T # {} PROVE FALSE
  OBVIOUS
<1>2. \E x \in T : \A y \in T : ~ (<<y, x>> \in R)
  <2> HIDE DEF T
  <2>1. T \subseteq Nat
    BY DEF T
  <2> HIDE DEF R
  <2>2. IsWellFoundedOn(R, Nat)
    BY LessThanNat DEF R
  <2> QED
    BY <1>1, <2>1, <2>2, WFMin
<1>3. PICK x \in T : \A y \in T : ~ (<<y, x>> \in R)
  BY <1>2
<1>4. x \in Nat /\ x # 0 /\ x - 1 \in Nat /\ x - 1 < x /\ (x - 1) + 1 = x
  BY <1>3
<1>5. x - 1 \in T
  BY <1>3, <1>4
<1> QED
  BY <1>3, <1>4, <1>5

IsFlat(f, seqs) == f = [i \in 1 .. Len(seqs) |-> IF i = 1 THEN seqs[i] ELSE f[i-1] \o seqs[i]]

LEMMA FlattenDef ==
  ASSUME NEW seqs, Len(seqs) # 0
  PROVE  FlattenSeq(seqs) = (CHOOSE f : IsFlat(f, seqs))[Len(seqs)]
BY DEF FlattenSeq, IsFlat

FlattensTo(f, seqs, n) ==
  /\ f = [i \in 1 .. n |-> f[i]]
  /\ \A i \in 1 .. n : f[i] = IF i = 1 THEN seqs[i] ELSE f[i-1] \o seqs[i]

LEMMA FlattenGoesOn ==
  ASSUME NEW seqs, NEW n \in Nat, NEW f, FlattensTo(f, seqs, n)
  PROVE  \E g : FlattensTo(g, seqs, n + 1)
<1> DEFINE new == IF n = 0 THEN seqs[1] ELSE f[n] \o seqs[n + 1]
           g == [i \in 1 .. n + 1 |-> IF i \in 1 .. n THEN f[i] ELSE new]
<1>1. ASSUME NEW i \in 1 .. n + 1
      PROVE  g[i] = IF i = 1 THEN seqs[i] ELSE g[i-1] \o seqs[i]
  <2>1. CASE i \in 1 .. n
    <3>1. g[i] = f[i] /\ (i # 1 => i - 1 \in 1 .. n /\ g[i-1] = f[i-1])
      BY <2>1
    <3>2. f[i] = IF i = 1 THEN seqs[i] ELSE f[i-1] \o seqs[i]
      BY <2>1 DEF FlattensTo
    <3> QED
      BY <3>1, <3>2
  <2>2. CASE i = n + 1
    <3>1. g[i] = new /\ (n # 0 => n \in 1 .. n + 1 /\ g[n] = f[n]) /\ i - 1 = n
      BY <2>2
    <3> HIDE DEF g
    <3> QED
      BY <2>2, <3>1
  <2> QED
    BY <2>1, <2>2
<1>2. g = [i \in 1 .. n + 1 |-> g[i]]
  OBVIOUS
<1> HIDE DEF g
<1> QED
  BY <1>1, <1>2 DEF FlattensTo

LEMMA FlatExists ==
  ASSUME NEW seqs, Len(seqs) \in Nat
  PROVE  \E f : IsFlat(f, seqs)
<1> DEFINE T == {n \in Nat : \E f : FlattensTo(f, seqs, n)}
<1>1. 0 \in T
  <2>1. FlattensTo([i \in 1 .. 0 |-> i], seqs, 0)
    BY DEF FlattensTo
  <2> QED
    BY <2>1
<1>2. \A n \in Nat : n \in T => n + 1 \in T
  BY FlattenGoesOn
<1>3. Nat \subseteq T
  <2> HIDE DEF T
  <2> QED
    BY <1>1, <1>2, InductionOverNat
<1>4. PICK f : FlattensTo(f, seqs, Len(seqs))
  BY <1>3
<1>5. IsFlat(f, seqs)
  BY <1>4 DEF FlattensTo, IsFlat
<1> QED
  BY <1>5

\* Its elements are those of its parts.
LEMMA FlattenedType ==
  ASSUME NEW S, NEW seqs \in Seq(Seq(S))
  PROVE  FlattenSeq(seqs) \in Seq(S)
<1>1. CASE Len(seqs) = 0
  <2>1. FlattenSeq(seqs) = seqs /\ seqs = <<>>
    BY <1>1, EmptySeq DEF FlattenSeq
  <2> QED
    BY <2>1
<1>2. CASE Len(seqs) # 0
  <2> DEFINE f == CHOOSE f : IsFlat(f, seqs)
             IsSeqAt(n) == n \in 1 .. Len(seqs) => f[n] \in Seq(S)
             T == {n \in Nat : IsSeqAt(n)}
  <2> HIDE DEF f
  <2>1. FlattensTo(f, seqs, Len(seqs))
    <3>1. IsFlat(f, seqs)
      BY FlatExists DEF f
    <3> QED
      BY ONLY <3>1 DEF IsFlat, FlattensTo
  <2>2. ASSUME NEW n \in Nat, IsSeqAt(n), n + 1 \in 1 .. Len(seqs)
        PROVE  f[n + 1] \in Seq(S)
    <3>1. Len(seqs) \in Nat /\ seqs[n + 1] \in Seq(S)
      BY <2>2, ElementOfSeq, LenProperties
    <3>2. f[n + 1] = IF n = 0 THEN seqs[n + 1] ELSE f[n] \o seqs[n + 1]
      <4>1. PICK i \in 1 .. Len(seqs) : i = n + 1
        BY <2>2
      <4>2. f[i] = IF i = 1 THEN seqs[i] ELSE f[i-1] \o seqs[i]
        BY <2>1, <4>1 DEF FlattensTo
      <4>3. i - 1 = n /\ (i = 1 <=> n = 0)
        BY ONLY <4>1, n \in Nat
      <4> QED
        BY ONLY <4>1, <4>2, <4>3
    <3>3. n = 0 \/ f[n] \in Seq(S)
      BY ONLY <2>2, <3>1, n \in Nat
    <3> QED
      BY ONLY <3>1, <3>2, <3>3, ConcatProperties
  <2>3. 0 \in T
    OBVIOUS
  <2>6. \A n \in Nat : n \in T => n + 1 \in T
    <3>1. \A n \in Nat : IsSeqAt(n) => IsSeqAt(n + 1)
      BY <2>2
    <3> HIDE DEF IsSeqAt
    <3> QED
      BY <3>1
  <2>4. Nat \subseteq T
    <3> HIDE DEF T
    <3> QED
      BY <2>3, <2>6, InductionOverNat
  <2>5. f[Len(seqs)] \in Seq(S)
    BY <1>2, <2>4
  <2> QED
    BY <1>2, <2>5, FlattenDef DEF f
<1> QED
  BY <1>1, <1>2

-----------------------------------------------------------------------------
(* Folding *)

LEMMA MaxOfInterval ==
  ASSUME NEW n \in Nat \ {0}
  PROVE  Max(1 .. n) = n
BY DEF Max

Delivering(f, base, seq) ==
  f = [s \in SUBSET DOMAIN seq |->
         IF s = {} THEN base
         ELSE DeliverCompletedSection(f[s \ {Max(s)}], seq[Max(s)])]

LEMMA FoldDef ==
  ASSUME NEW base, NEW seq
  PROVE  FoldLeft(DeliverCompletedSection, base, seq)
           = (CHOOSE f : Delivering(f, base, seq))[DOMAIN seq]
BY DEF FoldLeft, MapThenFoldSet, Delivering

DeliversTo(f, base, seq, n) ==
  /\ f = [s \in SUBSET (1 .. n) |-> f[s]]
  /\ \A s \in SUBSET (1 .. n) :
        f[s] = IF s = {} THEN base
               ELSE DeliverCompletedSection(f[s \ {Max(s)}], seq[Max(s)])

\* The largest of some of the first numbers is one of them, or the last one that is there.
LEMMA MaxOfSome ==
  ASSUME NEW n \in Nat, NEW s \in SUBSET (1 .. n + 1)
  PROVE  /\ n + 1 \in s => Max(s) = n + 1 /\ s \ {Max(s)} \in SUBSET (1 .. n)
         /\ n + 1 \notin s => s \in SUBSET (1 .. n)
<1>1. ASSUME n + 1 \in s PROVE Max(s) = n + 1
  <2>1. \A y \in s : n + 1 >= y
    OBVIOUS
  <2>2. \A x \in s : (\A y \in s : x >= y) => x = n + 1
    BY <1>1
  <2> QED
    BY <1>1, <2>1, <2>2 DEF Max
<1>2. \A x \in s : x # n + 1 => x \in 1 .. n
  OBVIOUS
<1> QED
  BY <1>1, <1>2

LEMMA DeliveringGoesOn ==
  ASSUME NEW base, NEW seq, NEW n \in Nat, NEW f, DeliversTo(f, base, seq, n)
  PROVE  \E g : DeliversTo(g, base, seq, n + 1)
<1> DEFINE g == [s \in SUBSET (1 .. n + 1) |->
                   IF n + 1 \in s THEN DeliverCompletedSection(f[s \ {n + 1}], seq[n + 1])
                   ELSE f[s]]
<1>1. ASSUME NEW s \in SUBSET (1 .. n + 1)
      PROVE  g[s] = IF s = {} THEN base
                    ELSE DeliverCompletedSection(g[s \ {Max(s)}], seq[Max(s)])
  <2>1. CASE n + 1 \in s
    <3>1. Max(s) = n + 1 /\ s \ {n + 1} \in SUBSET (1 .. n + 1) /\ n + 1 \notin s \ {n + 1}
      BY <2>1, MaxOfSome
    <3>2. g[s] = DeliverCompletedSection(f[s \ {n + 1}], seq[n + 1])
      BY <2>1
    <3>3. g[s \ {n + 1}] = f[s \ {n + 1}]
      BY <3>1
    <3> HIDE DEF g
    <3> QED
      BY <2>1, <3>1, <3>2, <3>3
  <2>2. CASE n + 1 \notin s
    <3>1. s \in SUBSET (1 .. n) /\ g[s] = f[s]
      BY <2>2, MaxOfSome
    <3>2. s \ {Max(s)} \in SUBSET (1 .. n + 1) /\ n + 1 \notin s \ {Max(s)}
      BY <2>2
    <3>3. g[s \ {Max(s)}] = f[s \ {Max(s)}]
      BY <3>2
    <3>4. f[s] = IF s = {} THEN base
                 ELSE DeliverCompletedSection(f[s \ {Max(s)}], seq[Max(s)])
      BY <3>1 DEF DeliversTo
    <3> HIDE DEF g
    <3> QED
      BY <3>1, <3>3, <3>4
  <2> QED
    BY <2>1, <2>2
<1>2. g = [s \in SUBSET (1 .. n + 1) |-> g[s]]
  OBVIOUS
<1> HIDE DEF g
<1> QED
  BY <1>1, <1>2 DEF DeliversTo

LEMMA DeliveringExists ==
  ASSUME NEW base, NEW seq, NEW n \in Nat
  PROVE  \E f : DeliversTo(f, base, seq, n)
<1> DEFINE T == {k \in Nat : \E f : DeliversTo(f, base, seq, k)}
<1>1. 0 \in T
  <2> DEFINE f == [s \in SUBSET (1 .. 0) |-> base]
  <2>1. /\ f = [s \in SUBSET (1 .. 0) |-> f[s]]
        /\ \A s \in SUBSET (1 .. 0) : s = {} /\ f[s] = base
    OBVIOUS
  <2> HIDE DEF f
  <2>2. DeliversTo(f, base, seq, 0)
    BY <2>1 DEF DeliversTo
  <2> QED
    BY <2>2
<1>2. \A k \in Nat : k \in T => k + 1 \in T
  BY DeliveringGoesOn
<1> HIDE DEF T
<1>3. Nat \subseteq T
  BY <1>1, <1>2, InductionOverNat
<1> QED
  BY <1>3 DEF T

\* f has the states between base and the one after all of seq.
DeliveredOneByOne(f, base, seq) ==
  /\ f[0] = base
  /\ \A i \in 1 .. Len(seq) : f[i] = DeliverCompletedSection(f[i - 1], seq[i])
  /\ FoldLeft(DeliverCompletedSection, base, seq) = f[Len(seq)]

\* The sections that a packet completes are delivered one after the other.
LEMMA OneByOne ==
  ASSUME NEW base, NEW seq, DOMAIN seq = 1 .. Len(seq), Len(seq) \in Nat
  PROVE  \E f : DeliveredOneByOne(f, base, seq)
<1> DEFINE n == Len(seq)
           h == CHOOSE h : Delivering(h, base, seq)
           f == [i \in 0 .. n |-> h[1 .. i]]
<1>1. \E d : Delivering(d, base, seq)
  <2>1. PICK d : DeliversTo(d, base, seq, n)
    BY DeliveringExists
  <2>2. Delivering(d, base, seq)
    BY <2>1 DEF DeliversTo, Delivering
  <2> QED
    BY <2>2
<1> HIDE DEF h
<1>2. Delivering(h, base, seq)
  BY <1>1 DEF h
<1>3. f[0] = base
  BY <1>2 DEF Delivering
<1>4. ASSUME NEW i \in 1 .. n
      PROVE  f[i] = DeliverCompletedSection(f[i - 1], seq[i])
  <2>1. /\ 1 .. i \in SUBSET DOMAIN seq /\ 1 .. i # {}
        /\ i - 1 \in 0 .. n /\ i \in 0 .. n
    OBVIOUS
  <2>5. (1 .. i) \ {i} = 1 .. i - 1
    OBVIOUS
  <2>2. Max(1 .. i) = i
    BY MaxOfInterval
  <2>3. h[1 .. i] = DeliverCompletedSection(h[(1 .. i) \ {Max(1 .. i)}], seq[Max(1 .. i)])
    BY <1>2, <2>1 DEF Delivering
  <2>4. f[i] = h[1 .. i] /\ f[i - 1] = h[1 .. i - 1]
    BY <2>1
  <2> HIDE DEF f
  <2> QED
    BY <2>1, <2>2, <2>3, <2>4, <2>5
<1>5. FoldLeft(DeliverCompletedSection, base, seq) = f[n]
  BY FoldDef DEF h
<1> HIDE DEF f
<1>6. DeliveredOneByOne(f, base, seq)
  BY <1>3, <1>4, <1>5 DEF DeliveredOneByOne
<1> QED
  BY <1>6
-----------------------------------------------------------------------------
(* Sections and tables *)

\* One of the sections that the sender has.
IsSection(s) ==
  \E t \in Tables : \E n \in 0 .. Len(t.lengths) - 1 : s = SectionOf(t, n, s.id, s.pass)

\* A section with all of its bytes.
IsComplete(done) == IsSection(done.section) /\ IsAllOf(done.section, done.data)

\* What is pending are complete sections of one table and version, at their numbers.
PendingOK(pending) ==
  /\ DOMAIN pending \subseteq Nat /\ IsFiniteSet(DOMAIN pending)
  /\ \A n \in DOMAIN pending : IsComplete(pending[n]) /\ pending[n].section.number = n
  /\ \A m, n \in DOMAIN pending : IsSameTable(pending[m].section, pending[n].section)

TablesOK(seq) ==
  /\ seq \in Seq(Range(seq))
  /\ \A table \in Range(seq) : table = <<>> \/ IsOneVersion(table)

DeliveryOK(state) ==
  /\ state = [pending |-> state.pending, tables |-> state.tables]
  /\ PendingOK(state.pending) /\ TablesOK(state.tables)

LEMMA SectionFields ==
  ASSUME NEW s, IsSection(s)
  PROVE  /\ s.number \in 0 .. s.last /\ s.last \in Nat
         /\ s.length \in Nat /\ s.length >= kHeaderSize + PSI_CRC_LEN
         /\ Size(s) \in Nat /\ Size(s) = s.length + 3
<1>0. PICK t \in Tables : \E n \in 0 .. Len(t.lengths) - 1 : s = SectionOf(t, n, s.id, s.pass)
  BY DEF IsSection
<1>1. PICK n \in 0 .. Len(t.lengths) - 1 : s = SectionOf(t, n, s.id, s.pass)
  BY <1>0
<1>2. /\ Len(t.lengths) \in 1 .. 255 /\ MaxSectionLength \in Nat
      /\ t.lengths \in Seq(kHeaderSize + PSI_CRC_LEN .. MaxSectionLength)
  BY SectionAssumption DEF SectionAssumption
<1>3. t.lengths[n + 1] \in kHeaderSize + PSI_CRC_LEN .. MaxSectionLength
  <2> DEFINE S == kHeaderSize + PSI_CRC_LEN .. MaxSectionLength
  <2>1. t.lengths \in Seq(S) /\ n + 1 \in 1 .. Len(t.lengths)
    BY <1>2
  <2> HIDE DEF S
  <2>2. t.lengths[n + 1] \in S
    BY <2>1, ElementOfSeq
  <2> QED
    BY <2>2 DEF S
<1>4. s.number = n /\ s.last = Len(t.lengths) - 1 /\ s.length = t.lengths[n + 1]
  BY <1>1 DEF SectionOf
<1>5. s.length \in kHeaderSize + PSI_CRC_LEN .. MaxSectionLength
  BY <1>2, <1>3, <1>4
<1> QED
  BY <1>2, <1>4, <1>5 DEF Size, SectionHeaderLength, kHeaderSize, PSI_CRC_LEN

\* Where the sub-tables are alike, the sections of one table and version agree on the last one.
LEMMA AlikeSections ==
  ASSUME NEW s, NEW r, IsSection(s), IsSection(r), IsSameTable(s, r), AreAlike(s)
  PROVE  r.last = s.last
<1>1. PICK t \in Tables : t.table = s.table /\ t.version = s.version /\ s.last = Len(t.lengths) - 1
  BY DEF IsSection, SectionOf
<1>2. PICK u \in Tables : u.table = r.table /\ u.version = r.version /\ r.last = Len(u.lengths) - 1
  BY DEF IsSection, SectionOf
<1> QED
  BY <1>1, <1>2 DEF AreAlike, IsSameTable

LEMMA SameTable ==
  \A r, s, t : IsSameTable(r, s) => /\ IsSameTable(s, r)
                                    /\ IsSameTable(s, t) => IsSameTable(r, t)
                                    /\ AreAlike(r) => AreAlike(s)
BY DEF IsSameTable, AreAlike
\* The sections that are there up to the last one: all of them, at their places, if none is missing.
LEMMA InOrderOfSome ==
  ASSUME NEW sections, NEW L \in Nat
  PROVE  InOrder(sections, L) \in Seq({sections[n] : n \in DOMAIN sections})
<1> DEFINE S == {sections[n] : n \in DOMAIN sections}
           parts == [i \in 1 .. L + 1 |->
                       IF i - 1 \in DOMAIN sections THEN <<sections[i - 1]>> ELSE <<>>]
<1>1. ASSUME NEW i \in 1 .. L + 1
      PROVE  (IF i - 1 \in DOMAIN sections THEN <<sections[i - 1]>> ELSE <<>>) \in Seq(S)
  <2>1. CASE i - 1 \in DOMAIN sections
    <3>1. sections[i - 1] \in S
      BY <2>1
    <3> HIDE DEF S
    <3> QED
      BY <2>1, <3>1
  <2>2. CASE i - 1 \notin DOMAIN sections
    BY <2>2
  <2> QED
    BY <2>1, <2>2
<1> HIDE DEF S
<1>2. parts \in Seq(Seq(S))
  BY <1>1, L + 1 \in Nat
<1>3. FlattenSeq(parts) \in Seq(S)
  <2> HIDE DEF parts
  <2> QED
    BY <1>2, FlattenedType
<1> QED
  BY <1>3 DEF InOrder, S

LEMMA InOrderOfAll ==
  ASSUME NEW sections, NEW L \in Nat, 0 .. L \subseteq DOMAIN sections
  PROVE  InOrder(sections, L) = [i \in 1 .. L + 1 |-> sections[i - 1]]
<1> DEFINE parts == [i \in 1 .. L + 1 |->
                       IF i - 1 \in DOMAIN sections THEN <<sections[i - 1]>> ELSE <<>>]
           f == CHOOSE f : IsFlat(f, parts)
           Beginning(n) == [i \in 1 .. n |-> sections[i - 1]]
           T == {n \in Nat : n \in 1 .. L + 1 => f[n] = Beginning(n)}
<1>1. Len(parts) = L + 1 /\ \A i \in 1 .. L + 1 : parts[i] = <<sections[i - 1]>>
  OBVIOUS
<1> HIDE DEF parts, f
<1>2. FlattensTo(f, parts, L + 1)
  <2>1. IsFlat(f, parts)
    BY <1>1, FlatExists DEF f
  <2> QED
    BY ONLY <1>1, <2>1 DEF IsFlat, FlattensTo
<1>3. ASSUME NEW n \in Nat, n \in 1 .. L + 1 => f[n] = Beginning(n), n + 1 \in 1 .. L + 1
      PROVE  f[n + 1] = Beginning(n + 1)
  <2>1. PICK i \in 1 .. L + 1 : i = n + 1
    BY <1>3
  <2>2. f[i] = IF i = 1 THEN parts[i] ELSE f[i - 1] \o parts[i]
    BY <1>2, <2>1 DEF FlattensTo
  <2>3. i - 1 = n /\ (i = 1 <=> n = 0) /\ parts[i] = <<sections[n]>>
    BY <1>1, <2>1
  <2>4. CASE n = 0
    BY <2>1, <2>2, <2>3, <2>4
  <2>5. CASE n # 0
    <3>0. n \in 1 .. L + 1
      BY <1>3, <2>5
    <3>1. f[i] = Beginning(n) \o <<sections[n]>>
      <4> HIDE DEF Beginning
      <4> QED
        BY ONLY <1>3, <2>2, <2>3, <2>5, <3>0
    <3>2. Beginning(n) \o <<sections[n]>> = Beginning(n + 1)
      <4> DEFINE S == {sections[k - 1] : k \in 1 .. n + 1}
                 q == Beginning(n)
                 r == Beginning(n + 1)
                 one == <<sections[n]>>
      <4>0. ASSUME NEW k \in 1 .. n + 1
            PROVE  sections[k - 1] \in S
        OBVIOUS
      <4> HIDE DEF S
      <4>1. q \in Seq(S) /\ one \in Seq(S) /\ r \in Seq(S)
        <5>1. (n + 1) - 1 = n /\ n + 1 \in 1 .. n + 1
          OBVIOUS
        <5>2. sections[n] \in S
          BY <4>0, <5>1
        <5>3. q \in [1 .. n -> S] /\ r \in [1 .. n + 1 -> S]
          BY <4>0
        <5> QED
          BY <5>2, <5>3
      <4>2. /\ Len(q) = n /\ Len(one) = 1 /\ one[1] = r[n + 1]
            /\ Len(r) = n + 1 /\ \A k \in 1 .. n : q[k] = r[k]
        OBVIOUS
      <4> HIDE DEF q, r, one
      <4>6. /\ q \o one \in Seq(S) /\ Len(q \o one) = Len(q) + Len(one)
            /\ \A k \in 1 .. Len(q) + Len(one) :
                  (q \o one)[k] = IF k <= Len(q) THEN q[k] ELSE one[k - Len(q)]
        BY ONLY <4>1, ConcatProperties
      <4>3. /\ Len(q \o one) = n + 1 /\ q \o one \in Seq(S)
            /\ \A k \in 1 .. n + 1 : (q \o one)[k] = IF k <= n THEN q[k] ELSE one[k - n]
        BY <4>2, <4>6
      <4>4. \A k \in 1 .. n + 1 : (q \o one)[k] = r[k]
        BY <4>2, <4>3
      <4>5. q \o one = r
        BY <4>1, <4>2, <4>3, <4>4, SeqEqual
      <4> QED
        BY <4>5 DEF q, r, one
    <3> QED
      BY <2>1, <3>1, <3>2
  <2> QED
    BY <2>4, <2>5
<1>4. 0 \in T
  OBVIOUS
<1>5. \A n \in Nat : n \in T => n + 1 \in T
  BY <1>3
<1>6. Nat \subseteq T
  <2> HIDE DEF T
  <2> QED
    BY <1>4, <1>5, InductionOverNat
<1>7. f[L + 1] = Beginning(L + 1)
  BY <1>6
<1>8. FlattenSeq(parts) = f[L + 1]
  BY <1>1, FlattenDef DEF f
<1> QED
  BY <1>7, <1>8 DEF InOrder, parts

\* As many numbers up to L as there are, are all of them.
LEMMA AllNumbers ==
  ASSUME NEW L \in Nat, NEW D \in SUBSET (0 .. L), Cardinality(D) = L + 1
  PROVE  D = 0 .. L
<1>1. IsFiniteSet(0 .. L) /\ Cardinality(0 .. L) = L + 1
  BY FS_Interval
<1>2. D # 0 .. L => Cardinality(D) < Cardinality(0 .. L)
  BY <1>1, FS_Subset
<1> QED
  BY <1>1, <1>2
-----------------------------------------------------------------------------
(* deliverCompletedSection *)

\* The sections that are pending with s: those of another table or version are gone.
PendingWith(pending, s) ==
  LET kept == IF \A n \in DOMAIN pending : IsSameTable(s.section, pending[n].section)
              THEN pending ELSE NoSections
  IN  [n \in DOMAIN kept \cup {s.section.number} |-> IF n = s.section.number THEN s ELSE kept[n]]

LEMMA DeliverDef ==
  ASSUME NEW state, NEW s
  PROVE  DeliverCompletedSection(state, s) =
           IF s.section.number = 0 /\ s.section.last = 0
           THEN [state EXCEPT !.tables = Append(@, <<s>>)]
           ELSE IF Cardinality(DOMAIN PendingWith(state.pending, s)) = s.section.last + 1
           THEN [pending |-> NoSections,
                 tables  |-> Append(state.tables,
                                    AggregatePendingSections(PendingWith(state.pending, s)))]
           ELSE [state EXCEPT !.pending = PendingWith(state.pending, s)]
BY DEF DeliverCompletedSection, PendingWith

LEMMA NothingPending == PendingOK(NoSections) /\ DOMAIN NoSections = {}
<1>1. DOMAIN NoSections = {}
  BY DEF NoSections
<1> QED
  BY <1>1, FS_EmptySet DEF PendingOK

LEMMA PendingGrows ==
  ASSUME NEW pending, NEW s, PendingOK(pending), IsComplete(s)
  PROVE  /\ PendingOK(PendingWith(pending, s))
         /\ s.section.number \in DOMAIN PendingWith(pending, s)
         /\ PendingWith(pending, s)[s.section.number] = s
<1> DEFINE same == \A n \in DOMAIN pending : IsSameTable(s.section, pending[n].section)
           kept == IF same THEN pending ELSE NoSections
           number == s.section.number
           new == PendingWith(pending, s)
<1>1. PendingOK(kept) /\ \A n \in DOMAIN kept : IsSameTable(s.section, kept[n].section)
  BY NothingPending
<1>2. /\ DOMAIN new = DOMAIN kept \cup {number} /\ new[number] = s
      /\ \A n \in DOMAIN kept : n # number => new[n] = kept[n]
  BY DEF PendingWith
<1>3. number \in Nat
  BY SectionFields DEF IsComplete
<1> HIDE DEF kept, new
<1>4. DOMAIN new \subseteq Nat /\ IsFiniteSet(DOMAIN new)
  BY <1>1, <1>2, <1>3, FS_AddElement DEF PendingOK
<1>5. \A n \in DOMAIN new : IsComplete(new[n]) /\ new[n].section.number = n
  BY <1>1, <1>2 DEF PendingOK
<1>6. \A n \in DOMAIN new : IsSameTable(s.section, new[n].section)
  BY <1>1, <1>2 DEF IsSameTable
<1>7. \A m, n \in DOMAIN new : IsSameTable(new[m].section, new[n].section)
  BY <1>6, SameTable
<1>8. PendingOK(new)
  BY <1>4, <1>5, <1>7 DEF PendingOK
<1> QED
  BY <1>2, <1>8 DEF new

\* What the sections pending are put together to, when there are as many as s tells.
LEMMA AggregatedTable ==
  ASSUME NEW pending, NEW s, PendingOK(pending), IsSection(s),
         \A n \in DOMAIN pending : IsSameTable(s, pending[n].section),
         Cardinality(DOMAIN pending) = s.last + 1
  PROVE  \/ AggregatePendingSections(pending) = <<>>
         \/ IsOneVersion(AggregatePendingSections(pending))
<1> DEFINE L == pending[0].section.last
           table == InOrder(pending, L)
           S == {pending[n] : n \in DOMAIN pending}
<1> HIDE DEF table, L
<1>1. SUFFICES ASSUME AggregatePendingSections(pending) # <<>>
               PROVE  IsOneVersion(table)
  BY DEF AggregatePendingSections, table, L
<1>2. 0 \in DOMAIN pending /\ table # <<>>
  BY <1>1 DEF AggregatePendingSections, table, L
<1>3. IsSection(pending[0].section) /\ L \in Nat /\ s.last \in Nat
  BY <1>2, SectionFields DEF PendingOK, IsComplete, L
<1>4. table \in Seq(S)
  BY <1>3, InOrderOfSome DEF table
<1>5. /\ DOMAIN table = 1 .. Len(table) /\ 1 \in DOMAIN table
      /\ \A j \in DOMAIN table : \E n \in DOMAIN pending : table[j] = pending[n]
  <2>1. DOMAIN table = 1 .. Len(table) /\ Len(table) \in Nat /\ Len(table) # 0
    BY <1>2, <1>4, LenProperties, EmptySeq
  <2>2. \A j \in 1 .. Len(table) : table[j] \in S
    <3> HIDE DEF S
    <3> QED
      BY <1>4, ElementOfSeq
  <2> QED
    BY <2>1, <2>2
<1>6. ASSUME NEW j \in DOMAIN table
      PROVE  /\ IsSameTable(table[j].section, table[1].section)
             /\ IsAllOf(table[j].section, table[j].data)
             /\ IsSameTable(s, table[j].section)
  BY <1>5 DEF PendingOK, IsComplete
<1>7. ASSUME AreAlike(table[1].section)
      PROVE  /\ Len(table) = table[1].section.last + 1
             /\ \A j \in DOMAIN table : table[j].section.number = j - 1
  <2>1. AreAlike(s)
    BY <1>5, <1>6, <1>7, SameTable
  <2>2. \A n \in DOMAIN pending : pending[n].section.last = s.last /\ n \in 0 .. s.last
    <3>1. ASSUME NEW n \in DOMAIN pending
          PROVE  pending[n].section.last = s.last /\ n \in 0 .. s.last
      <4>1. IsSection(pending[n].section) /\ pending[n].section.number = n
        BY DEF PendingOK, IsComplete
      <4>2. pending[n].section.last = s.last
        BY <2>1, <4>1, AlikeSections
      <4> QED
        BY <4>1, <4>2, SectionFields
    <3> QED
      BY <3>1
  <2>3. DOMAIN pending = 0 .. L /\ L = s.last
    BY <1>2, <1>3, <2>2, AllNumbers DEF L
  <2>4. table = [i \in 1 .. L + 1 |-> pending[i - 1]]
    BY <1>3, <2>3, InOrderOfAll DEF table
  <2>5. Len(table) = L + 1 /\ DOMAIN table = 1 .. L + 1
    BY <1>3, <2>4
  <2>6. \A j \in DOMAIN table : table[j] = pending[j - 1] /\ j - 1 \in DOMAIN pending
    BY <1>3, <2>3, <2>4, <2>5
  <2>7. \A j \in DOMAIN table : table[j].section.number = j - 1
    BY <2>6 DEF PendingOK
  <2> QED
    BY <1>5, <2>2, <2>3, <2>5, <2>6, <2>7
<1> QED
  BY <1>6, <1>7 DEF IsOneVersion, IsSameTable
\* A table more.
LEMMA OneTableMore ==
  ASSUME NEW seq, NEW table, TablesOK(seq), table = <<>> \/ IsOneVersion(table)
  PROVE  TablesOK(Append(seq, table))
<1> DEFINE S == Range(seq) \cup {table}
           new == Append(seq, table)
<1>1. seq \in Seq(S) /\ table \in S
  BY DEF TablesOK
<1>2. \A t \in S : t = <<>> \/ IsOneVersion(t)
  BY DEF TablesOK
<1> HIDE DEF S
<1>3. /\ new \in Seq(S) /\ DOMAIN new = 1 .. Len(seq) + 1 /\ Len(seq) \in Nat
      /\ DOMAIN seq = 1 .. Len(seq)
      /\ \A i \in 1 .. Len(seq) : new[i] = seq[i]
      /\ new[Len(seq) + 1] = table
  BY <1>1, AppendProperties, LenProperties
<1> HIDE DEF new
<1>4. Range(new) = S
  BY <1>3 DEF Range, S
<1> QED
  BY <1>2, <1>3, <1>4 DEF TablesOK, new

LEMMA TableOfOneSection ==
  ASSUME NEW s, IsComplete(s), s.section.number = 0, s.section.last = 0
  PROVE  IsOneVersion(<<s>>)
BY DEF IsOneVersion, IsComplete

LEMMA DeliverStep ==
  ASSUME NEW state, NEW s, DeliveryOK(state), IsComplete(s)
  PROVE  DeliveryOK(DeliverCompletedSection(state, s))
<1> DEFINE pending == PendingWith(state.pending, s)
           next == DeliverCompletedSection(state, s)
<1> HIDE DEF pending
<1>1. PendingOK(pending) /\ s.section.number \in DOMAIN pending
      /\ pending[s.section.number] = s
  BY PendingGrows DEF DeliveryOK, pending
<1>2. CASE s.section.number = 0 /\ s.section.last = 0
  <2>1. next = [state EXCEPT !.tables = Append(@, <<s>>)]
    BY <1>2, DeliverDef
  <2>2. /\ next = [pending |-> next.pending, tables |-> next.tables]
        /\ next.pending = state.pending /\ next.tables = Append(state.tables, <<s>>)
    BY <2>1 DEF DeliveryOK
  <2> HIDE DEF next
  <2>3. TablesOK(next.tables)
    BY <1>2, <2>2, TableOfOneSection, OneTableMore DEF DeliveryOK
  <2> QED
    BY <2>2, <2>3 DEF DeliveryOK, next
<1>3. CASE /\ ~(s.section.number = 0 /\ s.section.last = 0)
           /\ Cardinality(DOMAIN pending) = s.section.last + 1
  <2>1. next = [pending |-> NoSections,
                tables  |-> Append(state.tables, AggregatePendingSections(pending))]
    BY <1>3, DeliverDef DEF pending
  <2>2. /\ next = [pending |-> next.pending, tables |-> next.tables]
        /\ next.pending = NoSections
        /\ next.tables = Append(state.tables, AggregatePendingSections(pending))
    BY <2>1
  <2> HIDE DEF next
  <2>3. \A n \in DOMAIN pending : IsSameTable(s.section, pending[n].section)
    BY <1>1 DEF PendingOK
  <2>4. AggregatePendingSections(pending) = <<>> \/ IsOneVersion(AggregatePendingSections(pending))
    BY <1>1, <1>3, <2>3, AggregatedTable DEF IsComplete
  <2>5. TablesOK(next.tables)
    BY <2>2, <2>4, OneTableMore DEF DeliveryOK
  <2> QED
    BY <2>2, <2>5, NothingPending DEF DeliveryOK, next
<1>4. CASE /\ ~(s.section.number = 0 /\ s.section.last = 0)
           /\ Cardinality(DOMAIN pending) # s.section.last + 1
  <2>1. next = [state EXCEPT !.pending = pending]
    BY <1>4, DeliverDef DEF pending
  <2>2. /\ next = [pending |-> next.pending, tables |-> next.tables]
        /\ next.pending = pending /\ next.tables = state.tables
    BY <2>1 DEF DeliveryOK
  <2> HIDE DEF next
  <2> QED
    BY <1>1, <2>2 DEF DeliveryOK, next
<1> QED
  BY <1>2, <1>3, <1>4

LEMMA DeliverSteps ==
  ASSUME NEW base, NEW seq, DeliveryOK(base), DOMAIN seq = 1 .. Len(seq), Len(seq) \in Nat,
         \A i \in 1 .. Len(seq) : IsComplete(seq[i])
  PROVE  DeliveryOK(FoldLeft(DeliverCompletedSection, base, seq))
<1>1. PICK f : DeliveredOneByOne(f, base, seq)
  BY OneByOne
<1> DEFINE T == {n \in Nat : n <= Len(seq) => DeliveryOK(f[n])}
<1>2. 0 \in T
  BY <1>1 DEF DeliveredOneByOne
<1>3. ASSUME NEW n \in Nat, n \in T, n + 1 <= Len(seq)
      PROVE  DeliveryOK(f[n + 1])
  <2>1. PICK i \in 1 .. Len(seq) : i = n + 1
    BY <1>3
  <2>2. f[i] = DeliverCompletedSection(f[i - 1], seq[i]) /\ i - 1 = n /\ IsComplete(seq[i])
    BY <1>1, <2>1 DEF DeliveredOneByOne
  <2>3. DeliveryOK(f[n])
    BY <1>3
  <2> QED
    BY <2>1, <2>2, <2>3, DeliverStep
<1>4. \A n \in Nat : n \in T => n + 1 \in T
  BY <1>3
<1> HIDE DEF T
<1>5. Nat \subseteq T
  BY <1>2, <1>4, InductionOverNat
<1> QED
  BY <1>1, <1>5 DEF T, DeliveredOneByOne
-----------------------------------------------------------------------------
(* The channel *)

\* The sections sent and suspended, and the counters.
ChannelTypeOK ==
  /\ \/ IsSection(section) /\ sent \in 1 .. Size(section)
     \/ section = NoSection /\ sent = Size(section)
  /\ suspended = <<>> \/ \E u : suspended = <<u>> /\ IsSection(u)
  /\ nextCc \in CC /\ burst \in 0 .. MaxBurst /\ ccChecker \in Checkers

\* The counter of the packet to be sent is as far ahead of the checker's as packets were lost.
CountersAgree ==
  ccChecker.hasLastCC => nextCc = (ccChecker.lastCC + 1 + burst) % 16

\* The packet that may come again is the last one that the checker has seen.
LastIsLast ==
  last # <<>> =>
    /\ burst = 0 /\ ccChecker.hasLastCC
    /\ last[1].cc = ccChecker.lastCC /\ last[1].disc = FALSE

\* The pieces are of section s, in order, up to byte n.
Collected(s, data, n) ==
  /\ data \in Seq(Range(data)) /\ data # <<>> /\ data[1].from = 0
  /\ \A i \in DOMAIN data :
        /\ data[i].section = s
        /\ i > 1 => data[i].from = data[i - 1].from + data[i - 1].bytes
  /\ data[Len(data)].from + data[Len(data)].bytes = n

IsMade(r, s, data, n) == r = [section |-> s, data |-> data, length |-> n]

\* begun has what was sent of the section, but not all of it.
IsBegun(begun, s, n) ==
  /\ IsMade(begun, s, begun.data, n - SectionHeaderLength)
  /\ Collected(s, begun.data, n) /\ n < Size(s)

\* What is in progress goes on where the channel goes on, while it loses nothing.
InProgressOK ==
  sectionInProgress # <<>> =>
    /\ ccChecker.hasLastCC
    /\ burst = 0 => \E begun : sectionInProgress = <<begun>> /\ IsBegun(begun, section, sent)

\* The inductive invariant.
ChannelInv ==
  /\ ChannelTypeOK /\ CountersAgree /\ LastIsLast /\ InProgressOK
  /\ PendingOK(pendingSections) /\ TablesOK(tables)

\* The rest of the section sent last.
RestOfIt == [section |-> section, from |-> sent, bytes |-> Size(section) - sent]

CarriesTheRest(p) == p.cont = IF sent = Size(section) THEN <<>> ELSE <<RestOfIt>>

\* The first n bytes of section s.
HeadOf(s, n) == [section |-> s, from |-> 0, bytes |-> n]

StartsOne(p) ==
  \E s \in SectionsAfter(section, suspended) : \E n \in 1 .. Size(s) : p.starts = <<HeadOf(s, n)>>

StartsTwo(p) ==
  \E s \in SectionsAfter(section, suspended) :
    \E t \in SectionsAfter(s, SuspendedAfter(section, suspended, s)) :
      \E n \in 1 .. Size(t) : p.starts = <<HeadOf(s, Size(s)), HeadOf(t, n)>>

\* p goes on with the section and starts none, or it has the rest and starts one or two.
GoesOn(p) ==
  /\ p.pusi = FALSE /\ p.starts = <<>> /\ sent # Size(section)
  /\ p.cont = <<Piece(section, sent, PayloadLength)>>

StartsSome(p) ==
  p.pusi = TRUE /\ CarriesTheRest(p) /\ (StartsOne(p) \/ StartsTwo(p))

HasNextCounter(p) == p.cc = nextCc /\ p.payload = TRUE /\ p.disc = FALSE

\* The sections that may come next.
LEMMA NextSections ==
  ASSUME NEW s, NEW u, IsSection(s) \/ IsLast(s),
         u = <<>> \/ \E v : u = <<v>> /\ IsSection(v)
  PROVE  \A t \in SectionsAfter(s, u) : IsSection(t)
<1>1. ASSUME NEW r, IsSection(r) \/ IsLast(r), NEW id, NEW t \in SectionBehind(r, id)
      PROVE  IsSection(t)
  <2>1. PICK a \in Tables : /\ ~IsLast(r) /\ IsSubTable(a, r) /\ a.version = r.version
                            /\ t = SectionOf(a, r.number + 1, id, r.pass)
    BY <1>1 DEF SectionBehind
  <2>2. PICK b \in Tables : \E n \in 0 .. Len(b.lengths) - 1 : r = SectionOf(b, n, r.id, r.pass)
    BY <1>1, <2>1 DEF IsSection
  <2>3. IsSubTable(a, b) /\ a.version = b.version
    BY <2>1, <2>2 DEF SectionOf, IsSubTable
  <2>4. a = b
    BY <2>3, SectionAssumption DEF SectionAssumption
  <2>5. /\ r.number \in 0 .. r.last /\ r.number # r.last /\ r.last = Len(a.lengths) - 1
        /\ Len(a.lengths) \in 1 .. 255
    <3>1. r.number \in 0 .. Len(a.lengths) - 1 /\ r.last = Len(a.lengths) - 1
      BY <2>2, <2>4 DEF SectionOf
    <3> QED
      BY <2>1, <3>1, SectionAssumption DEF IsLast, SectionAssumption
  <2>6. r.number + 1 \in 0 .. Len(a.lengths) - 1
    BY <2>5
  <2>7. t.id = id /\ t.pass = r.pass
    <3>1. SectionOf(a, r.number + 1, id, r.pass).id = id
      BY DEF SectionOf
    <3>2. SectionOf(a, r.number + 1, id, r.pass).pass = r.pass
      BY DEF SectionOf
    <3> QED
      BY <2>1, <3>1, <3>2
  <2> QED
    BY <2>1, <2>6, <2>7 DEF IsSection
<1>2. ASSUME NEW t \in Tables, NEW id
      PROVE  IsSection(SectionOf(t, 0, id, id))
  <2>1. 0 \in 0 .. Len(t.lengths) - 1
    <3>1. Len(t.lengths) \in 1 .. 255
      BY SectionAssumption DEF SectionAssumption
    <3>2. \A n \in 1 .. 255 : 0 \in 0 .. n - 1
      OBVIOUS
    <3> QED
      BY ONLY <3>1, <3>2
  <2>2. SectionOf(t, 0, id, id).id = id /\ SectionOf(t, 0, id, id).pass = id
    BY DEF SectionOf
  <2> QED
    BY <2>1, <2>2 DEF IsSection
<1>3. ASSUME NEW t \in SectionsAfter(s, u)
      PROVE  IsSection(t)
  <2>1. CASE t \in SectionBehind(s, s.id + 1)
    BY <1>1, <2>1
  <2>2. CASE u # <<>> /\ t \in SectionBehind(u[1], s.id + 1)
    <3>1. IsSection(u[1])
      BY <2>2
    <3> QED
      BY <1>1, <2>2, <3>1
  <2>3. CASE \E a \in Tables : t = SectionOf(a, 0, s.id + 1, s.id + 1)
    BY <1>2, <2>3
  <2> QED
    BY <2>1, <2>2, <2>3 DEF SectionsAfter
<1> QED
  BY <1>3

LEMMA NextSuspended ==
  ASSUME NEW s, NEW u, NEW t, IsSection(s) \/ IsLast(s),
         u = <<>> \/ \E v : u = <<v>> /\ IsSection(v)
  PROVE  LET w == SuspendedAfter(s, u, t)
         IN  w = <<>> \/ \E v : w = <<v>> /\ IsSection(v)
BY DEF SuspendedAfter
LEMMA StartsForms ==
  ASSUME ChannelTypeOK, NEW room \in Nat \ {0}, NEW starts \in Starts(room)
  PROVE  /\ starts # <<>>
         /\ \/ \E s \in SectionsAfter(section, suspended) :
                 \E n \in 1 .. Size(s) : starts = <<HeadOf(s, n)>>
            \/ \E s \in SectionsAfter(section, suspended) :
                 \E t \in SectionsAfter(s, SuspendedAfter(section, suspended, s)) :
                   \E n \in 1 .. Size(t) : starts = <<HeadOf(s, Size(s)), HeadOf(t, n)>>
<1> DEFINE one(s) == Piece(s, 0, room)
           two(s) == {<<one(s), Piece(t, 0, room - Size(s))>> :
                        t \in SectionsAfter(s, SuspendedAfter(section, suspended, s))}
<1>1. \A s \in SectionsAfter(section, suspended) :
         /\ IsSection(s)
         /\ \A t \in SectionsAfter(s, SuspendedAfter(section, suspended, s)) : IsSection(t)
  <2>1. IsSection(section) \/ IsLast(section)
    BY DEF ChannelTypeOK, NoSection, IsLast
  <2>2. suspended = <<>> \/ \E v : suspended = <<v>> /\ IsSection(v)
    BY DEF ChannelTypeOK
  <2> QED
    BY <2>1, <2>2, NextSections, NextSuspended
<1>2. ASSUME NEW s, IsSection(s), NEW k \in Nat \ {0}
      PROVE  \E n \in 1 .. Size(s) : Piece(s, 0, k) = HeadOf(s, n) /\ (Size(s) < k => n = Size(s))
  <2>1. Size(s) \in Nat \ {0}
    BY <1>2, SectionFields
  <2>2. Smaller(k, Size(s) - 0) \in 1 .. Size(s) /\ (Size(s) < k => Smaller(k, Size(s) - 0) = Size(s))
    BY <2>1 DEF Smaller
  <2> QED
    BY <2>2 DEF Piece, HeadOf
<1>3. PICK s \in SectionsAfter(section, suspended) :
         starts = <<one(s)>> \/ (Size(s) < room /\ starts \in two(s))
  <2> DEFINE from(s) == {<<one(s)>>} \cup (IF Size(s) < room THEN two(s) ELSE {})
  <2>1. Starts(room) = UNION {from(s) : s \in SectionsAfter(section, suspended)}
    BY DEF Starts
  <2> HIDE DEF from
  <2>2. PICK s \in SectionsAfter(section, suspended) : starts \in from(s)
    BY <2>1
  <2>3. CASE Size(s) < room
    BY <2>2, <2>3, Zenon DEF from
  <2>4. CASE ~(Size(s) < room)
    <3>1. from(s) = {<<one(s)>>}
      BY <2>4, Zenon DEF from
    <3> QED
      BY <2>2, <3>1
  <2> QED
    BY <2>3, <2>4
<1>4. CASE starts = <<one(s)>>
  BY <1>1, <1>2, <1>4
<1>5. CASE Size(s) < room /\ starts \in two(s)
  <2>1. PICK t \in SectionsAfter(s, SuspendedAfter(section, suspended, s)) :
           starts = <<one(s), Piece(t, 0, room - Size(s))>>
    BY <1>5
  <2>2. Size(s) \in Nat /\ IsSection(t)
    BY <1>1, SectionFields
  <2>3. room - Size(s) \in Nat \ {0}
    BY <1>5, <2>2
  <2>4. one(s) = HeadOf(s, Size(s))
    BY <1>1, <1>2, <1>5
  <2>5. PICK n \in 1 .. Size(t) : Piece(t, 0, room - Size(s)) = HeadOf(t, n)
    BY <1>2, <2>2, <2>3
  <2>6. starts = <<HeadOf(s, Size(s)), HeadOf(t, n)>>
    BY <2>1, <2>4, <2>5
  <2> QED
    BY <2>6
<1> QED
  BY <1>3, <1>4, <1>5

LEMMA SentFields ==
  ASSUME ChannelTypeOK
  PROVE  /\ Size(section) \in Nat /\ sent \in Nat /\ sent <= Size(section)
         /\ sent # Size(section) => IsSection(section)
         /\ PayloadLength \in Nat \ {0, 1}
         /\ \A s \in SectionsAfter(section, suspended) :
              /\ IsSection(s)
              /\ \A t \in SectionsAfter(s, SuspendedAfter(section, suspended, s)) : IsSection(t)
<1>1. PayloadLength \in Nat \ {0, 1}
  BY SectionAssumption DEF SectionAssumption
<1>2. CASE IsSection(section) /\ sent \in 1 .. Size(section)
  <2>1. Size(section) \in Nat
    BY <1>2, SectionFields
  <2> QED
    BY <1>1, <1>2, <2>1, NextSections, NextSuspended DEF ChannelTypeOK
<1>3. CASE section = NoSection /\ sent = Size(section)
  <2>1. Size(section) = 3 /\ IsLast(section)
    BY <1>3 DEF Size, NoSection, SectionHeaderLength, IsLast
  <2> QED
    BY <1>1, <1>3, <2>1, NextSections, NextSuspended DEF ChannelTypeOK
<1> QED
  BY <1>2, <1>3 DEF ChannelTypeOK

LEMMA PacketForms ==
  ASSUME ChannelTypeOK, NEW p \in PacketsNext
  PROVE  HasNextCounter(p) /\ (GoesOn(p) \/ StartsSome(p))
<1> DEFINE left == Size(section) - sent
           cont(room) == IF left = 0 THEN <<>> ELSE <<Piece(section, sent, room)>>
           packet(starts, room) ==
             [cc |-> nextCc, payload |-> TRUE, disc |-> FALSE, pusi |-> starts # <<>>,
              cont |-> cont(room), starts |-> starts]
<1>1. left \in Nat /\ (left = 0 <=> sent = Size(section)) /\ PayloadLength \in Nat \ {0, 1}
  BY SentFields
<1>2. ASSUME NEW starts, NEW room, p = packet(starts, room)
      PROVE  /\ HasNextCounter(p) /\ p.cont = cont(room) /\ p.starts = starts
             /\ p.pusi = (starts # <<>>)
  BY <1>2 DEF HasNextCounter
<1>3. \/ left # 0 /\ p = packet(<<>>, PayloadLength)
      \/ /\ left <= PayloadLength - 2
         /\ \E starts \in Starts(PayloadLength - 1 - left) : p = packet(starts, PayloadLength - 1)
  BY <1>1 DEF PacketsNext
<1> HIDE DEF packet
<1>4. CASE left # 0 /\ p = packet(<<>>, PayloadLength)
  <2>1. p.cont = <<Piece(section, sent, PayloadLength)>> /\ p.starts = <<>>
    BY <1>2, <1>4
  <2>2. p.pusi = FALSE
    BY <1>2, <1>4
  <2> QED
    BY <1>1, <1>2, <1>4, <2>1, <2>2 DEF GoesOn
<1>5. CASE /\ left <= PayloadLength - 2
           /\ \E starts \in Starts(PayloadLength - 1 - left) : p = packet(starts, PayloadLength - 1)
  <2>1. PICK starts \in Starts(PayloadLength - 1 - left) : p = packet(starts, PayloadLength - 1)
    BY <1>5
  <2>2. PayloadLength - 1 - left \in Nat \ {0}
    BY <1>1, <1>5
  <2>3. starts # <<>> /\ (StartsOne(p) \/ StartsTwo(p))
    <3>1. p.starts = starts
      BY <1>2, <2>1
    <3>2. \A room \in Nat \ {0} : \A x \in Starts(room) :
             p.starts = x => x # <<>> /\ (StartsOne(p) \/ StartsTwo(p))
      BY StartsForms DEF StartsOne, StartsTwo
    <3> QED
      BY <2>2, <3>1, <3>2
  <2>4. p.pusi = TRUE
    <3>1. p.pusi = (starts # <<>>)
      BY <1>2, <2>1
    <3> QED
      BY <2>3, <3>1
  <2>5. CarriesTheRest(p)
    <3>1. p.cont = cont(PayloadLength - 1)
      BY <1>2, <2>1
    <3>2. left # 0 => Smaller(PayloadLength - 1, left) = left
      BY <1>1, <1>5 DEF Smaller
    <3> QED
      BY <1>1, <3>1, <3>2 DEF Piece, CarriesTheRest, RestOfIt
  <2> QED
    BY <1>2, <2>1, <2>3, <2>4, <2>5 DEF StartsSome
<1> QED
  BY <1>3, <1>4, <1>5
-----------------------------------------------------------------------------
(* Pieces *)

LEMMA PieceMore ==
  ASSUME NEW s, NEW data, NEW n, NEW piece, Collected(s, data, n),
         piece.section = s, piece.from = n
  PROVE  Collected(s, Append(data, piece), n + piece.bytes)
<1> DEFINE S == Range(data) \cup {piece}
           new == Append(data, piece)
<1>1. data \in Seq(S) /\ piece \in S /\ data # <<>>
  BY DEF Collected
<1> HIDE DEF S
<1>2. /\ new \in Seq(S) /\ new # <<>> /\ Len(new) = Len(data) + 1
      /\ DOMAIN new = 1 .. Len(data) + 1 /\ Len(data) \in Nat \ {0}
      /\ DOMAIN data = 1 .. Len(data)
      /\ \A i \in 1 .. Len(data) : new[i] = data[i]
      /\ new[Len(data) + 1] = piece
  BY <1>1, AppendProperties, LenProperties, EmptySeq
<1> HIDE DEF new
<1>3. Range(new) = S
  BY <1>2 DEF Range, S
<1>4. new[1].from = 0 /\ new[Len(new)].from + new[Len(new)].bytes = n + piece.bytes
  BY <1>2 DEF Collected
<1>5. ASSUME NEW i \in DOMAIN new
      PROVE  /\ new[i].section = s
             /\ i > 1 => new[i].from = new[i - 1].from + new[i - 1].bytes
  <2>1. CASE i \in 1 .. Len(data)
    <3>1. i > 1 => i - 1 \in 1 .. Len(data)
      BY <2>1, <1>2
    <3> QED
      BY <1>2, <2>1, <3>1 DEF Collected
  <2>2. CASE i = Len(data) + 1
    <3>1. i - 1 = Len(data) /\ Len(data) \in 1 .. Len(data)
      BY <1>2, <2>2
    <3>2. new[i - 1] = data[Len(data)] /\ new[i] = piece
      BY <1>2, <2>2, <3>1
    <3> QED
      BY <3>2 DEF Collected
  <2> QED
    BY <1>2, <2>1, <2>2
<1>6. Collected(s, new, n + piece.bytes)
  BY <1>2, <1>3, <1>4, <1>5 DEF Collected
<1> QED
  BY <1>6 DEF new

LEMMA FirstPiece ==
  ASSUME NEW s, NEW n \in Nat
  PROVE  Collected(s, <<HeadOf(s, n)>>, n)
<1> DEFINE data == <<HeadOf(s, n)>>
<1>1. Range(data) = {HeadOf(s, n)}
  BY DEF Range
<1>2. HeadOf(s, n).section = s /\ HeadOf(s, n).from = 0 /\ HeadOf(s, n).bytes = n
  BY DEF HeadOf
<1>3. data # <<>> /\ Len(data) = 1 /\ DOMAIN data = {1} /\ data[1] = HeadOf(s, n)
  OBVIOUS
<1> QED
  BY <1>1, <1>2, <1>3 DEF Collected

LEMMA CollectedIsAll ==
  ASSUME NEW s, NEW data, Collected(s, data, Size(s))
  PROVE  IsAllOf(s, data)
<1>1. Len(data) \in DOMAIN data
  BY LenProperties, EmptySeq DEF Collected
<1> QED
  BY <1>1 DEF Collected, IsAllOf, Ends

\* A section that one packet has is complete.
LEMMA WholeIsComplete ==
  ASSUME NEW s, IsSection(s), NEW n \in 1 .. Size(s), Whole(HeadOf(s, n))
  PROVE  IsComplete(Begin(HeadOf(s, n)))
<1>1. /\ HeadOf(s, n).section = s /\ HeadOf(s, n).bytes = n
      /\ Begin(HeadOf(s, n)).section = s /\ Begin(HeadOf(s, n)).data = <<HeadOf(s, n)>>
  BY DEF HeadOf, Begin
<1>2. n = Size(s) /\ n \in Nat
  BY <1>1, SectionFields DEF Whole
<1> QED
  BY <1>1, <1>2, FirstPiece, CollectedIsAll DEF IsComplete

\* A section that begins in a packet is begun with its piece there.
LEMMA PartIsBegun ==
  ASSUME NEW s, IsSection(s), NEW n \in 1 .. Size(s), ~Whole(HeadOf(s, n))
  PROVE  IsBegun(Begin(HeadOf(s, n)), s, n)
<1>1. /\ HeadOf(s, n).section = s /\ HeadOf(s, n).bytes = n /\ HeadOf(s, n).from = 0
      /\ Begin(HeadOf(s, n)) = [section |-> s, data |-> <<HeadOf(s, n)>>,
                                length |-> n - SectionHeaderLength]
  BY DEF HeadOf, Begin
<1>2. n < Size(s) /\ n \in Nat
  BY <1>1, SectionFields DEF Whole
<1>3. Collected(s, <<HeadOf(s, n)>>, n)
  BY <1>2, FirstPiece
<1> QED
  BY <1>1, <1>2, <1>3 DEF IsBegun, IsMade

With(r, data, n) == [r EXCEPT !.data = data, !.length = n]

LEMMA RecordWith ==
  ASSUME NEW s, NEW d, NEW l, NEW e, NEW m, NEW r, IsMade(r, s, d, l)
  PROVE  IsMade(With(r, e, m), s, e, m)
<1> DEFINE t == [r EXCEPT !.data = e, !.length = m]
<1>1. r \in [section : {s}, data : {d}, length : {l}]
  BY DEF IsMade
<1>2. t \in [section : {s}, data : {e}, length : {m}]
  BY ONLY <1>1
<1> HIDE DEF t
<1>3. t = [section |-> s, data |-> e, length |-> m]
  BY ONLY <1>2
<1> QED
  BY <1>3 DEF t, IsMade, With

\* What is collected when the section goes on.
LEMMA CollectMore ==
  ASSUME NEW s, NEW begun, NEW n \in Nat, NEW k \in Nat, IsBegun(begun, s, n),
         NEW piece, piece = [section |-> s, from |-> n, bytes |-> k]
  PROVE  /\ Collected(s, Collect(begun, piece).data, n + k)
         /\ IsMade(Collect(begun, piece), s, Collect(begun, piece).data,
                   (n + k) - SectionHeaderLength)
<1>1. begun = [section |-> s, data |-> begun.data, length |-> n - SectionHeaderLength]
  BY DEF IsBegun, IsMade
<1>2. begun.length = n - SectionHeaderLength /\ piece.bytes = k
  BY <1>1
<1> DEFINE data == Append(begun.data, piece)
<1>3. begun.length + piece.bytes = (n + k) - SectionHeaderLength
  BY <1>2 DEF SectionHeaderLength
<1>4. Collect(begun, piece) = [section |-> s, data |-> data, length |-> (n + k) - SectionHeaderLength]
  <2>1. Collect(begun, piece) = [begun EXCEPT !.data = data, !.length = begun.length + piece.bytes]
    BY DEF Collect
  <2> HIDE DEF data
  <2>2. IsMade(With(begun, data, begun.length + piece.bytes), s, data, begun.length + piece.bytes)
    <3>1. PICK d, l : IsMade(begun, s, d, l)
      BY <1>1 DEF IsMade
    <3> QED
      BY ONLY <3>1, RecordWith
  <2> QED
    BY ONLY <1>3, <2>1, <2>2 DEF IsMade, With
<1>5. Collected(s, data, n + k)
  <2>1. piece.section = s /\ piece.from = n
    OBVIOUS
  <2> QED
    BY <1>2, <2>1, PieceMore DEF IsBegun
<1> HIDE DEF data
<1>6. Collect(begun, piece).data = data
  BY ONLY <1>4
<1> QED
  BY ONLY <1>4, <1>5, <1>6 DEF IsMade
-----------------------------------------------------------------------------
(* Packets *)

LEMMA Judged ==
  ASSUME ChannelTypeOK, CountersAgree, MaxBurst <= 14, NEW p, HasNextCounter(p)
  PROVE  Check(ccChecker, p) = IF ccChecker.hasLastCC /\ burst > 0 THEN "Gap" ELSE "OK"
<1>1. /\ ccChecker.hasLastCC \in BOOLEAN /\ ccChecker.lastCC \in 0 .. 15
      /\ burst \in 0 .. 14 /\ nextCc \in 0 .. 15
  BY SectionAssumption DEF ChannelTypeOK, Checkers, CC, SectionAssumption
<1>2. p.cc = nextCc /\ p.payload = TRUE /\ p.disc = FALSE
  BY DEF HasNextCounter
<1>3. ASSUME ccChecker.hasLastCC
      PROVE  /\ nextCc # ccChecker.lastCC
             /\ nextCc = (ccChecker.lastCC + 1) % 16 <=> burst = 0
  <2>1. \A a \in 0 .. 15 : \A n \in 0 .. 14 :
           (a + 1 + n) % 16 # a /\ ((a + 1 + n) % 16 = (a + 1) % 16 <=> n = 0)
    OBVIOUS
  <2>2. nextCc = (ccChecker.lastCC + 1 + burst) % 16
    BY <1>3 DEF CountersAgree
  <2> QED
    BY ONLY <1>1, <2>1, <2>2
<1> QED
  BY <1>1, <1>2, <1>3 DEF Check, NextCC

\* The last piece of a packet, behind which the channel goes on.
LEMMA LastPieces ==
  ASSUME NEW p
  PROVE  /\ GoesOn(p) => LastPiece(p) = p.cont[1]
         /\ StartsSome(p) => LastPiece(p) = p.starts[Len(p.starts)]
<1>1. ASSUME NEW c
      PROVE  /\ Len(<<c>> \o <<>>) = 1 /\ (<<c>> \o <<>>)[1] = c
  OBVIOUS
<1>2. ASSUME NEW c, NEW a, NEW b
      PROVE  /\ Len(<<>> \o <<a>>) = 1 /\ (<<>> \o <<a>>)[1] = a
             /\ Len(<<c>> \o <<a>>) = 2 /\ (<<c>> \o <<a>>)[2] = a
             /\ Len(<<>> \o <<a, b>>) = 2 /\ (<<>> \o <<a, b>>)[2] = b
             /\ Len(<<c>> \o <<a, b>>) = 3 /\ (<<c>> \o <<a, b>>)[3] = b
  OBVIOUS
<1>3. ASSUME GoesOn(p) PROVE LastPiece(p) = p.cont[1]
  <2>1. \E c : p.cont = <<c>> /\ p.starts = <<>>
    BY <1>3 DEF GoesOn
  <2> QED
    BY <1>1, <2>1 DEF LastPiece, Pieces
<1>4. ASSUME StartsSome(p) PROVE LastPiece(p) = p.starts[Len(p.starts)]
  <2>1. p.cont = <<>> \/ \E c : p.cont = <<c>>
    BY <1>4 DEF StartsSome, CarriesTheRest
  <2>2. \/ \E a : p.starts = <<a>>
        \/ \E a, b : p.starts = <<a, b>>
    BY <1>4 DEF StartsSome, StartsOne, StartsTwo
  <2>3. CASE \E a : p.starts = <<a>>
    BY <1>2, <2>1, <2>3 DEF LastPiece, Pieces
  <2>4. CASE \E a, b : p.starts = <<a, b>>
    BY <1>2, <2>1, <2>4 DEF LastPiece, Pieces
  <2> QED
    BY <2>2, <2>3, <2>4
<1> QED
  BY <1>3, <1>4

\* What is finished is the section in progress.
LEMMA FinishedIsComplete ==
  ASSUME ChannelTypeOK, NEW begun, IsBegun(begun, section, sent), sectionInProgress = <<begun>>,
         NEW p, GoesOn(p) \/ StartsSome(p)
  PROVE  Finished(p) = <<>> \/ \E done : Finished(p) = <<done>> /\ IsComplete(done)
<1>1. /\ Size(section) \in Nat /\ sent \in Nat /\ sent < Size(section) /\ IsSection(section)
      /\ PayloadLength \in Nat \ {0, 1} /\ sectionInProgress[1] = begun
  BY SentFields DEF IsBegun
<1>2. RemainingBytesInTable(begun) = Size(section) - sent
  <2>1. begun.section = section /\ begun.length = sent - SectionHeaderLength
    BY DEF IsBegun, IsMade
  <2> QED
    BY <1>1, <2>1, SectionFields DEF RemainingBytesInTable, SectionHeaderLength
<1> DEFINE available == IF p.pusi THEN p.cont[1].bytes ELSE PayloadLength
<1>3. SUFFICES ASSUME Completes(begun, available)
               PROVE  IsComplete(Collect(begun, p.cont[1]))
  <2>1. Finished(p) = <<>> \/ /\ Completes(begun, available)
                              /\ Finished(p) = <<Collect(begun, p.cont[1])>>
    BY <1>1 DEF Finished
  <2> QED
    BY <2>1
<1>4. p.cont = <<RestOfIt>>
  <2>1. CASE GoesOn(p)
    <3>1. available = PayloadLength
      BY <2>1 DEF GoesOn
    <3>2. PayloadLength >= Size(section) - sent
      BY <1>2, <1>3, <3>1 DEF Completes
    <3>3. Smaller(PayloadLength, Size(section) - sent) = Size(section) - sent
      BY <1>1, <3>2 DEF Smaller
    <3> QED
      BY <2>1, <3>3 DEF GoesOn, Piece, RestOfIt
  <2>2. CASE StartsSome(p)
    BY <1>1, <2>2 DEF StartsSome, CarriesTheRest
  <2> QED
    BY <2>1, <2>2
<1>5. /\ p.cont[1] = [section |-> section, from |-> sent, bytes |-> Size(section) - sent]
      /\ Size(section) - sent \in Nat /\ sent + (Size(section) - sent) = Size(section)
  BY <1>1, <1>4 DEF RestOfIt
<1>6. /\ Collected(section, Collect(begun, p.cont[1]).data, Size(section))
      /\ Collect(begun, p.cont[1]).section = section
  BY <1>1, <1>5, CollectMore DEF IsMade
<1> QED
  BY <1>1, <1>6, CollectedIsAll DEF IsComplete
\* The sections that start in a packet.
LEMMA StartsAreSections ==
  ASSUME ChannelTypeOK, NEW p, GoesOn(p) \/ StartsSome(p)
  PROVE  /\ DOMAIN p.starts = 1 .. Len(p.starts) /\ Len(p.starts) \in 0 .. 2
         /\ \A i \in DOMAIN p.starts :
              \E s, n : p.starts[i] = HeadOf(s, n) /\ IsSection(s) /\ n \in 1 .. Size(s)
<1>1. CASE GoesOn(p)
  <2>1. p.starts = <<>>
    BY <1>1 DEF GoesOn
  <2> QED
    BY <2>1
<1>2. CASE StartsSome(p)
  <2>1. CASE StartsOne(p)
    <3>1. PICK s \in SectionsAfter(section, suspended) :
            \E n \in 1 .. Size(s) : p.starts = <<HeadOf(s, n)>>
      BY <2>1 DEF StartsOne
    <3>2. IsSection(s)
      BY SentFields
    <3> QED
      BY <3>1, <3>2
  <2>2. CASE StartsTwo(p)
    <3>1. PICK s \in SectionsAfter(section, suspended) :
            \E t \in SectionsAfter(s, SuspendedAfter(section, suspended, s)) :
              \E n \in 1 .. Size(t) : p.starts = <<HeadOf(s, Size(s)), HeadOf(t, n)>>
      BY <2>2 DEF StartsTwo
    <3>2. PICK t \in SectionsAfter(s, SuspendedAfter(section, suspended, s)) :
            \E n \in 1 .. Size(t) : p.starts = <<HeadOf(s, Size(s)), HeadOf(t, n)>>
      BY <3>1
    <3>3. PICK n \in 1 .. Size(t) : p.starts = <<HeadOf(s, Size(s)), HeadOf(t, n)>>
      BY <3>2
    <3>4. IsSection(s) /\ IsSection(t)
      BY SentFields
    <3>5. Size(s) \in 1 .. Size(s)
      BY <3>4, SectionFields
    <3> QED
      BY <3>3, <3>4, <3>5
  <2> QED
    BY <1>2, <2>1, <2>2 DEF StartsSome
<1> QED
  BY <1>1, <1>2

\* What a packet completes.
LEMMA CompletedAreComplete ==
  ASSUME ChannelTypeOK, NEW p, GoesOn(p) \/ StartsSome(p),
         sectionInProgress = <<>>
           \/ \E begun : sectionInProgress = <<begun>> /\ IsBegun(begun, section, sent)
  PROVE  /\ DOMAIN CompletedIn(p) = 1 .. Len(CompletedIn(p)) /\ Len(CompletedIn(p)) \in Nat
         /\ \A i \in 1 .. Len(CompletedIn(p)) : IsComplete(CompletedIn(p)[i])
<1> DEFINE parts == [i \in DOMAIN p.starts |->
                       IF Whole(p.starts[i]) THEN <<Begin(p.starts[i])>> ELSE <<>>]
           whole == {Begin(p.starts[i]) : i \in {i \in DOMAIN p.starts : Whole(p.starts[i])}}
           S == whole \cup Range(Finished(p))
           all == CompletedIn(p)
<1>1. Finished(p) = <<>> \/ \E done : Finished(p) = <<done>> /\ IsComplete(done)
  BY FinishedIsComplete DEF Finished
<1>2. \A s \in S : IsComplete(s)
  <2>1. \A s \in whole : IsComplete(s)
    BY StartsAreSections, WholeIsComplete
  <2>2. \A s \in Range(Finished(p)) : IsComplete(s)
    BY <1>1 DEF Range
  <2> QED
    BY <2>1, <2>2
<1>3. Finished(p) \in Seq(S)
  <2>1. Finished(p) \in Seq(Range(Finished(p)))
    <3>1. CASE Finished(p) = <<>>
      BY <3>1
    <3>2. CASE \E done : Finished(p) = <<done>>
      <4>1. PICK done : Finished(p) = <<done>>
        BY <3>2
      <4>2. done \in Range(Finished(p))
        BY <4>1 DEF Range
      <4> QED
        BY <4>1, <4>2
    <3> QED
      BY <1>1, <3>1, <3>2
  <2> HIDE DEF whole
  <2> QED
    BY <2>1
<1>4. \A i \in DOMAIN p.starts : Whole(p.starts[i]) => Begin(p.starts[i]) \in S
  OBVIOUS
<1> HIDE DEF S
<1>5. parts \in Seq(Seq(S))
  <2>1. ASSUME NEW i \in DOMAIN p.starts
        PROVE  (IF Whole(p.starts[i]) THEN <<Begin(p.starts[i])>> ELSE <<>>) \in Seq(S)
    BY <1>4
  <2>2. DOMAIN p.starts = 1 .. Len(p.starts) /\ Len(p.starts) \in Nat
    BY StartsAreSections
  <2>3. parts \in [1 .. Len(p.starts) -> Seq(S)]
    BY <2>1, <2>2
  <2> HIDE DEF parts
  <2> QED
    BY <2>2, <2>3
<1>6. all \in Seq(S)
  <2>1. all = Finished(p) \o FlattenSeq(parts)
    BY DEF CompletedIn
  <2> HIDE DEF parts
  <2> QED
    BY <1>3, <1>5, <2>1, FlattenedType, ConcatProperties
<1> HIDE DEF all
<1>7. /\ DOMAIN all = 1 .. Len(all) /\ Len(all) \in Nat
      /\ \A i \in 1 .. Len(all) : all[i] \in S
  BY <1>6, LenProperties, ElementOfSeq
<1> QED
  BY <1>2, <1>7 DEF all

\* The section in progress behind a packet is the one that it ends in, and has all that was sent
\* of it.
LEMMA InProgressBehind ==
  ASSUME ChannelTypeOK, NEW p, GoesOn(p) \/ StartsSome(p), AddTsPacket(p),
         Check(ccChecker, p) = "OK",
         sectionInProgress = <<>>
           \/ \E begun : sectionInProgress = <<begun>> /\ IsBegun(begun, section, sent)
  PROVE  \/ sectionInProgress' = <<>>
         \/ \E begun : /\ sectionInProgress' = <<begun>>
                       /\ IsBegun(begun, LastPiece(p).section, LastPiece(p).from + LastPiece(p).bytes)
<1>1. Accept(p)
  BY DEF AddTsPacket
<1>2. CASE StartsSome(p)
  <2> DEFINE i == Len(p.starts)
             piece == p.starts[i]
  <2>1. LastPiece(p) = piece /\ i \in DOMAIN p.starts
    <3>1. \/ \E a : p.starts = <<a>>
          \/ \E a, b : p.starts = <<a, b>>
      BY <1>2 DEF StartsSome, StartsOne, StartsTwo
    <3> QED
      BY <1>2, <3>1, LastPieces
  <2>2. PICK s, n : piece = HeadOf(s, n) /\ IsSection(s) /\ n \in 1 .. Size(s)
    BY <2>1, StartsAreSections
  <2>3. sectionInProgress' = BegunIn(p)
    BY <1>1, <1>2 DEF Accept, StartsSome
  <2>4. CASE Whole(piece) \/ piece.bytes <= SectionHeaderLength
    BY <2>3, <2>4 DEF BegunIn
  <2>5. CASE ~(Whole(piece) \/ piece.bytes <= SectionHeaderLength)
    <3>1. sectionInProgress' = <<Begin(piece)>>
      BY <2>3, <2>5 DEF BegunIn
    <3>2. IsBegun(Begin(piece), s, n)
      BY <2>2, <2>5, PartIsBegun
    <3>3. piece.section = s /\ piece.from + piece.bytes = n
      BY <2>2, SectionFields DEF HeadOf
    <3> HIDE DEF piece
    <3> QED
      BY <2>1, <3>1, <3>2, <3>3
  <2> QED
    BY <2>4, <2>5
<1>3. CASE GoesOn(p) /\ sectionInProgress = <<>>
  BY <1>1, <1>3 DEF Accept, GoesOn
<1>4. CASE GoesOn(p) /\ sectionInProgress # <<>>
  <2>1. PICK begun : sectionInProgress = <<begun>> /\ IsBegun(begun, section, sent)
    BY <1>4
  <2>2. sectionInProgress' = ContinuedBy(p, begun)
    BY <1>1, <1>4, <2>1 DEF Accept, GoesOn
  <2>3. SUFFICES ASSUME ~Completes(begun, PayloadLength),
                        RemainingBytesInTable(begun) >= PSI_CRC_LEN,
                        sectionInProgress' = <<Collect(begun, p.cont[1])>>
                 PROVE  IsBegun(Collect(begun, p.cont[1]), LastPiece(p).section,
                                LastPiece(p).from + LastPiece(p).bytes)
    <3>1. /\ Size(section) \in Nat /\ sent \in Nat /\ IsSection(section)
      BY <2>1, SentFields DEF IsBegun
    <3>2. RemainingBytesInTable(begun) \in Int
      <4>1. begun.section = section /\ begun.length = sent - SectionHeaderLength
        BY <2>1 DEF IsBegun, IsMade
      <4> QED
        BY <3>1, <4>1, SectionFields DEF RemainingBytesInTable, SectionHeaderLength
    <3>3. \/ sectionInProgress' = <<>>
          \/ /\ ~Completes(begun, PayloadLength) /\ ~(RemainingBytesInTable(begun) < PSI_CRC_LEN)
             /\ sectionInProgress' = <<Collect(begun, p.cont[1])>>
      BY <2>2 DEF ContinuedBy
    <3> QED
      BY <3>2, <3>3 DEF PSI_CRC_LEN
  <2>4. /\ Size(section) \in Nat /\ sent \in Nat /\ sent < Size(section) /\ IsSection(section)
        /\ PayloadLength \in Nat \ {0, 1}
    BY <2>1, SentFields DEF IsBegun
  <2>5. PayloadLength < Size(section) - sent
    <3>1. begun.section = section /\ begun.length = sent - SectionHeaderLength
      BY <2>1 DEF IsBegun, IsMade
    <3>2. RemainingBytesInTable(begun) = Size(section) - sent
      BY <2>4, <3>1, SectionFields DEF RemainingBytesInTable, SectionHeaderLength
    <3> QED
      BY <2>3, <2>4, <3>2 DEF Completes
  <2>6. p.cont = <<[section |-> section, from |-> sent, bytes |-> PayloadLength]>>
    <3>1. Smaller(PayloadLength, Size(section) - sent) = PayloadLength
      BY <2>4, <2>5 DEF Smaller
    <3> QED
      BY <1>4, <3>1 DEF GoesOn, Piece
  <2>7. /\ p.cont[1] = [section |-> section, from |-> sent, bytes |-> PayloadLength]
        /\ LastPiece(p) = p.cont[1]
    BY <1>4, <2>6, LastPieces
  <2>8. /\ Collected(section, Collect(begun, p.cont[1]).data, sent + PayloadLength)
        /\ IsMade(Collect(begun, p.cont[1]), section, Collect(begun, p.cont[1]).data,
                  (sent + PayloadLength) - SectionHeaderLength)
    BY <2>1, <2>4, <2>7, CollectMore
  <2>9. LastPiece(p).section = section /\ LastPiece(p).from + LastPiece(p).bytes = sent + PayloadLength
    BY <2>7
  <2>10. sent + PayloadLength < Size(section)
    BY <2>4, <2>5
  <2> DEFINE c == Collect(begun, p.cont[1])
             n == sent + PayloadLength
  <2>11. IsBegun(c, section, n)
    <3>1. Collected(section, c.data, n)
      BY <2>8
    <3>2. n < Size(section)
      BY <2>10
    <3>3. IsMade(c, section, c.data, n - SectionHeaderLength)
      BY <2>8
    <3> HIDE DEF c, n
    <3> QED
      BY ONLY <3>1, <3>2, <3>3 DEF IsBegun
  <2> HIDE DEF c
  <2> QED
    BY <2>9, <2>11 DEF c
<1> QED
  BY <1>2, <1>3, <1>4
-----------------------------------------------------------------------------
(* The inductive invariant *)

\* A packet is sent.
LEMMA SendStep ==
  ASSUME ChannelTypeOK, NEW p \in PacketsNext, Send(p)
  PROVE  /\ HasNextCounter(p) /\ (GoesOn(p) \/ StartsSome(p))
         /\ section' = LastPiece(p).section /\ sent' = LastPiece(p).from + LastPiece(p).bytes
         /\ IsSection(section') /\ sent' \in 1 .. Size(section')
         /\ suspended' = <<>> \/ \E u : suspended' = <<u>> /\ IsSection(u)
         /\ nextCc' \in CC /\ nextCc' = (nextCc + 1) % 16
<1>1. HasNextCounter(p) /\ (GoesOn(p) \/ StartsSome(p))
  BY PacketForms
<1>2. /\ section' = LastPiece(p).section /\ sent' = LastPiece(p).from + LastPiece(p).bytes
      /\ nextCc' \in CC /\ nextCc' = (nextCc + 1) % 16
  BY DEF Send, NextCC, ChannelTypeOK, CC
<1>3. CASE GoesOn(p)
  <2>1. LastPiece(p) = Piece(section, sent, PayloadLength)
    <3>1. LastPiece(p) = p.cont[1]
      BY <1>3, LastPieces
    <3>2. p.cont = <<Piece(section, sent, PayloadLength)>>
      BY <1>3 DEF GoesOn
    <3> QED
      BY <3>1, <3>2
  <2>2. /\ IsSection(section) /\ sent < Size(section) /\ Size(section) \in Nat /\ sent \in Nat
        /\ PayloadLength \in Nat \ {0, 1}
    BY <1>3, SentFields DEF GoesOn
  <2>3. sent + Smaller(PayloadLength, Size(section) - sent) \in 1 .. Size(section)
    <3> DEFINE left == Size(section) - sent
               n == Smaller(PayloadLength, left)
    <3>1. left \in Nat \ {0} /\ sent + left = Size(section)
      BY <2>2
    <3> HIDE DEF left
    <3>2. n \in Nat \ {0} /\ n <= left
      BY <2>2, <3>1 DEF Smaller
    <3> HIDE DEF n
    <3>3. sent + n \in 1 .. Size(section)
      BY <2>2, <3>1, <3>2
    <3> QED
      BY <3>3 DEF n, left
  <2>4. section' = section /\ sent' = sent + Smaller(PayloadLength, Size(section) - sent)
    BY <1>2, <2>1 DEF Piece
  <2>5. suspended' = suspended
    BY <1>3 DEF Send, SuspendedBehind, GoesOn
  <2> QED
    BY <1>1, <1>2, <2>2, <2>3, <2>4, <2>5 DEF ChannelTypeOK
<1>4. CASE StartsSome(p)
  <2>1. LastPiece(p) = p.starts[Len(p.starts)] /\ Len(p.starts) \in DOMAIN p.starts
    <3>1. \/ \E a : p.starts = <<a>>
          \/ \E a, b : p.starts = <<a, b>>
      BY <1>4 DEF StartsSome, StartsOne, StartsTwo
    <3> QED
      BY <1>4, <3>1, LastPieces
  <2>2. PICK s, n : LastPiece(p) = HeadOf(s, n) /\ IsSection(s) /\ n \in 1 .. Size(s)
    BY <1>1, <2>1, StartsAreSections
  <2>3. section' = s /\ sent' = n
    BY <1>2, <2>2, SectionFields DEF HeadOf
  <2>4. suspended' = <<>> \/ \E u : suspended' = <<u>> /\ IsSection(u)
    <3> DEFINE a == StartOf(p, 1)
               one == SuspendedAfter(section, suspended, a)
    <3>1. one = <<>> \/ \E u : one = <<u>> /\ IsSection(u)
      <4>1. suspended = <<>> \/ \E u : suspended = <<u>> /\ IsSection(u)
        BY DEF ChannelTypeOK
      <4>2. IsSection(section) \/ IsLast(section)
        BY DEF ChannelTypeOK, NoSection, IsLast
      <4> QED
        BY <4>1, <4>2, NextSuspended
    <3>2. IsSection(a)
      <4>1. 1 \in DOMAIN p.starts
        BY <2>1, <1>1, StartsAreSections
      <4> QED
        <5>1. PICK s1, n1 : p.starts[1] = HeadOf(s1, n1) /\ IsSection(s1)
          BY <4>1, <1>1, StartsAreSections
        <5> QED
          BY <5>1 DEF StartOf, HeadOf
    <3>3. \A t : LET two == SuspendedAfter(a, one, t)
                 IN  two = <<>> \/ \E u : two = <<u>> /\ IsSection(u)
      <4> HIDE DEF a, one
      <4> QED
        BY <3>1, <3>2, NextSuspended
    <3>4. Len(p.starts) = 1 \/ Len(p.starts) = 2
      BY <2>1, <1>1, StartsAreSections
    <3>5. CASE Len(p.starts) = 1
      BY <3>1, <3>5 DEF Send, SuspendedBehind
    <3>6. CASE Len(p.starts) = 2
      <4>1. suspended' = SuspendedAfter(a, one, StartOf(p, 2))
        BY <3>6 DEF Send, SuspendedBehind
      <4> HIDE DEF a, one
      <4> QED
        BY <3>3, <4>1
    <3> QED
      BY <3>4, <3>5, <3>6
  <2> QED
    BY <1>1, <1>2, <2>2, <2>3, <2>4
<1> QED
  BY <1>1, <1>3, <1>4

\* A packet arrives (addTsPacket:).
LEMMA ArriveStep ==
  ASSUME ChannelInv, MaxBurst <= 14, NEW p \in PacketsNext, Send(p), AddTsPacket(p),
         last' = <<p>>, burst' = 0
  PROVE  ChannelInv'
<1> USE DEF ChannelInv
<1>1. /\ HasNextCounter(p) /\ (GoesOn(p) \/ StartsSome(p))
      /\ section' = LastPiece(p).section /\ sent' = LastPiece(p).from + LastPiece(p).bytes
      /\ IsSection(section') /\ sent' \in 1 .. Size(section')
      /\ suspended' = <<>> \/ \E u : suspended' = <<u>> /\ IsSection(u)
      /\ nextCc' \in CC /\ nextCc' = (nextCc + 1) % 16
  BY SendStep
<1>2. /\ ccChecker' = [hasLastCC |-> TRUE, lastCC |-> nextCc] /\ ccChecker' \in Checkers
      /\ ccChecker'.hasLastCC /\ ccChecker'.lastCC = nextCc
  BY <1>1 DEF AddTsPacket, Checked, HasNextCounter, Checkers, ChannelTypeOK
<1>3. ChannelTypeOK'
  BY <1>1, <1>2, SectionAssumption DEF ChannelTypeOK, SectionAssumption
<1>4. CountersAgree'
  <2>1. nextCc \in Nat
    BY DEF ChannelTypeOK, CC
  <2> QED
    BY <1>1, <1>2, <2>1 DEF CountersAgree
<1>5. LastIsLast'
  BY <1>1, <1>2 DEF LastIsLast, HasNextCounter
<1>6. Check(ccChecker, p) = IF ccChecker.hasLastCC /\ burst > 0 THEN "Gap" ELSE "OK"
  BY <1>1, Judged
<1>7. CASE ccChecker.hasLastCC /\ burst > 0
  <2>1. DiscardOnGap
    BY <1>6, <1>7 DEF AddTsPacket
  <2>2. sectionInProgress' = <<>> /\ PendingOK(pendingSections') /\ tables' = <<>>
    BY <2>1, NothingPending DEF DiscardOnGap
  <2>3. InProgressOK' /\ TablesOK(tables')
    BY <2>2 DEF InProgressOK, TablesOK, Range
  <2> QED
    BY <1>3, <1>4, <1>5, <2>2, <2>3
<1>8. CASE ~(ccChecker.hasLastCC /\ burst > 0)
  <2>1. Check(ccChecker, p) = "OK"
    BY <1>6, <1>8
  <2>2. Accept(p)
    BY <2>1 DEF AddTsPacket
  <2>3. \/ sectionInProgress = <<>>
        \/ \E begun : sectionInProgress = <<begun>> /\ IsBegun(begun, section, sent)
    <3>1. burst \in Nat
      BY SectionAssumption DEF ChannelTypeOK, SectionAssumption
    <3> QED
      BY <1>8, <3>1 DEF InProgressOK
  <2>4. InProgressOK'
    <3>1. \/ sectionInProgress' = <<>>
          \/ \E begun : sectionInProgress' = <<begun>> /\ IsBegun(begun, section', sent')
      BY <1>1, <2>1, <2>3, InProgressBehind
    <3> QED
      BY <1>2, <3>1 DEF InProgressOK
  <2>5. PendingOK(pendingSections') /\ TablesOK(tables')
    <3> DEFINE base == [pending |-> pendingSections, tables |-> <<>>]
               after == FoldLeft(DeliverCompletedSection, base, CompletedIn(p))
    <3>1. DeliveryOK(base)
      BY DEF DeliveryOK, TablesOK, Range
    <3>2. /\ DOMAIN CompletedIn(p) = 1 .. Len(CompletedIn(p)) /\ Len(CompletedIn(p)) \in Nat
          /\ \A i \in 1 .. Len(CompletedIn(p)) : IsComplete(CompletedIn(p)[i])
      BY <1>1, <2>3, CompletedAreComplete
    <3> HIDE DEF base
    <3>3. DeliveryOK(after)
      BY <3>1, <3>2, DeliverSteps
    <3>4. pendingSections' = after.pending /\ tables' = after.tables
      BY <2>2 DEF Accept, base
    <3> QED
      BY <3>3, <3>4 DEF DeliveryOK
  <2> QED
    BY <1>3, <1>4, <1>5, <2>4, <2>5
<1> QED
  BY <1>7, <1>8

\* A packet is lost.
LEMMA LoseStep ==
  ASSUME ChannelInv, Lose
  PROVE  ChannelInv'
<1> USE DEF ChannelInv
<1>1. PICK p \in PacketsNext : Send(p)
  BY DEF Lose
<1>2. /\ IsSection(section') /\ sent' \in 1 .. Size(section')
      /\ suspended' = <<>> \/ \E u : suspended' = <<u>> /\ IsSection(u)
      /\ nextCc' \in CC /\ nextCc' = (nextCc + 1) % 16
  BY <1>1, SendStep
<1>3. /\ burst < MaxBurst /\ burst' = burst + 1 /\ last' = <<>> /\ tables' = <<>>
      /\ UNCHANGED <<ccChecker, sectionInProgress, pendingSections>>
  BY DEF Lose
<1>4. burst \in Nat /\ MaxBurst \in Nat
  BY SectionAssumption DEF ChannelTypeOK, SectionAssumption
<1>5. ChannelTypeOK'
  BY <1>2, <1>3, <1>4 DEF ChannelTypeOK
<1>6. CountersAgree'
  <2>1. ccChecker.lastCC \in Nat
    BY DEF ChannelTypeOK, Checkers, CC
  <2> DEFINE x == ccChecker.lastCC + 1 + burst
  <2>2. x \in Nat /\ x + 1 = ccChecker.lastCC + 1 + (burst + 1)
    BY <1>4, <2>1
  <2>3. \A y \in Nat : ((y % 16) + 1) % 16 = (y + 1) % 16
    OBVIOUS
  <2>4. ccChecker.hasLastCC => nextCc = x % 16
    BY DEF CountersAgree
  <2> HIDE DEF x
  <2> QED
    BY <1>2, <1>3, <2>2, <2>3, <2>4 DEF CountersAgree
<1>7. LastIsLast' /\ TablesOK(tables')
  BY <1>3 DEF LastIsLast, TablesOK, Range
<1>8. InProgressOK'
  BY <1>3, <1>4 DEF InProgressOK
<1> QED
  BY <1>3, <1>5, <1>6, <1>7, <1>8

\* A packet comes again.
LEMMA RepeatStep ==
  ASSUME ChannelInv, Repeat
  PROVE  ChannelInv'
<1> USE DEF ChannelInv
<1>1. /\ last # <<>> /\ AddTsPacket(last[1]) /\ last' = <<>>
      /\ UNCHANGED <<section, sent, suspended, nextCc, burst>>
  BY DEF Repeat, senderVars
<1>2. ccChecker.hasLastCC /\ last[1].cc = ccChecker.lastCC /\ last[1].disc = FALSE
  BY <1>1 DEF LastIsLast
<1>3. Check(ccChecker, last[1]) = "Duplicate"
  BY <1>2 DEF Check
<1>4. /\ ccChecker' = Checked(last[1]) /\ tables' = <<>>
      /\ UNCHANGED <<sectionInProgress, pendingSections>>
  BY <1>1, <1>3 DEF AddTsPacket
<1>5. /\ ccChecker'.hasLastCC /\ ccChecker'.lastCC = ccChecker.lastCC /\ ccChecker' \in Checkers
  <2>1. ccChecker.lastCC \in CC
    BY DEF ChannelTypeOK, Checkers
  <2> QED
    BY <1>2, <1>4, <2>1 DEF Checked, Checkers
<1>6. ChannelTypeOK' /\ CountersAgree'
  BY <1>1, <1>2, <1>5 DEF ChannelTypeOK, CountersAgree
<1>7. LastIsLast' /\ InProgressOK' /\ TablesOK(tables')
  BY <1>1, <1>4, <1>5 DEF LastIsLast, InProgressOK, TablesOK, Range
<1> QED
  BY <1>4, <1>6, <1>7

\* The builder keeps with the channel: what it has in progress is what was sent last, what it has
\* pending are complete sections of one table and version, as long as the losses are of at most
\* 14 packets in a row (a loss of 15 looks like a repetition, one of 16 like none).
THEOREM SectionsFollowTheChannel ==
  ASSUME MaxBurst <= 14
  PROVE  Spec => []ChannelInv
<1>1. Init => ChannelInv
  <2> SUFFICES ASSUME Init PROVE ChannelInv
    OBVIOUS
  <2>1. ChannelTypeOK
    BY SectionAssumption
    DEF Init, BuilderInit, ChannelTypeOK, NewChecker, Checkers, CC, SectionAssumption
  <2>2. CountersAgree /\ LastIsLast /\ InProgressOK
    BY DEF Init, BuilderInit, CountersAgree, LastIsLast, InProgressOK, NewChecker
  <2>3. PendingOK(pendingSections) /\ TablesOK(tables)
    BY NothingPending DEF Init, BuilderInit, TablesOK, Range
  <2> QED
    BY <2>1, <2>2, <2>3 DEF ChannelInv
<1>2. ChannelInv /\ [Next]_vars => ChannelInv'
  <2> SUFFICES ASSUME ChannelInv, [Next]_vars PROVE ChannelInv'
    OBVIOUS
  <2>1. CASE Arrive
    BY <2>1, ArriveStep DEF Arrive
  <2>2. CASE Lose
    BY <2>2, LoseStep
  <2>3. CASE Repeat
    BY <2>3, RepeatStep
  <2>4. CASE UNCHANGED vars
    BY <2>4 DEF vars, builderVars, senderVars, ChannelInv, ChannelTypeOK, CountersAgree,
                LastIsLast, InProgressOK
  <2> QED
    BY <2>1, <2>2, <2>3, <2>4 DEF Next
<1> QED
  BY <1>1, <1>2, PTL DEF Spec

\* A table is built from sections of one version, each without a gap in its bytes, and has all of
\* them in their order, whatever is lost and repeated, and however tables come into each other.
THEOREM BuiltTablesAreOneVersion ==
  ASSUME MaxBurst <= 14
  PROVE  Spec => []TableIsOneVersion
<1>1. ChannelInv => TableIsOneVersion
  BY DEF ChannelInv, TablesOK, TableIsOneVersion, Built
<1> QED
  BY <1>1, SectionsFollowTheChannel, PTL

-----------------------------------------------------------------------------
(* Transmissions.  s is the section sent last, done if all of it was sent, u *)
(* what is suspended.  known are sections sent so far, arrived those of them *)
(* that arrived; spoilt are the transmissions that were split or crossed,    *)
(* good those built or mixed.                                                *)

\* The transmissions that may go on are those of s and of u.
IsOpen(o, s, u) == o = s \/ u = <<o>>

\* Of its transmission x was sent before what is still to be sent.
WentBefore(x, s, done, u) ==
  /\ x.pass \in Nat /\ x.pass <= s.id
  /\ \A o : IsOpen(o, s, u) /\ x.pass = o.pass =>
       x.number < o.number \/ (x.number = o.number /\ (o = s => done))

\* Two sections of one transmission are of one table.
Kin(x, y) ==
  x.pass = y.pass => IsSameTable(x, y) /\ x.last = y.last /\ (x.number = y.number => x = y)

OrderOK(K, s, done, u) ==
  /\ s.id \in Nat /\ s.pass \in Nat /\ s.pass <= s.id /\ s.number \in Nat /\ s.last \in Nat
  /\ IsSection(s) \/ IsLast(s)
  /\ \A o : u = <<o>> =>
       /\ IsSection(o) /\ ~IsLast(o)
       /\ o.pass \in Nat /\ o.pass # s.pass /\ o.pass <= s.id
  /\ IsFiniteSet(K)
  /\ \A x \in K : IsSection(x) /\ WentBefore(x, s, done, u)
  /\ \A x \in K : (\A o : IsOpen(o, s, u) => Kin(x, o)) /\ (\A y \in K : Kin(x, y))

\* Of transmission q the sections up to n arrived.
ArrivedTo(A, q, n) == \A i \in 0 .. n : \E a \in A : a.pass = q /\ a.number = i

\* A section of a transmission that came into another one which is still open, x is pending.
CameInto(x, o, spoilt) == x.pass > o.pass => x.pass \in spoilt /\ o.pass \in spoilt

\* Below section n of a transmission that arrived nothing older is pending.
NoneOlder(A, spoilt, pending, n) ==
  LET q == pending[n].section.pass
  IN  q \notin spoilt /\ ArrivedTo(A, q, n) =>
        \A m \in DOMAIN pending : m < n => pending[m].section.pass >= q

\* If a section is pending of a transmission that came into another one still open, both are
\* spoilt.
StackOK(A, spoilt, s, u, pending) ==
  /\ \A n \in DOMAIN pending :
       /\ pending[n].section.last # 0
       /\ \A o : IsOpen(o, s, u) => CameInto(pending[n].section, o, spoilt)
       /\ NoneOlder(A, spoilt, pending, n)
  /\ \A o : u = <<o>> /\ s.last # 0 => o.pass \in spoilt /\ s.pass \in spoilt

\* All sections that arrived of transmission q are pending.
ArePending(A, q, pending) ==
  \A a \in A : a.pass = q => a.number \in DOMAIN pending /\ pending[a.number].section = a

\* Transmission q was built, or mixed with another one, and nothing of another is pending.
IsSettled(q, good, pending) ==
  /\ q \in good
  /\ \A n \in DOMAIN pending : n # 0 /\ pending[n].section.pass = q

IsFollowed(A, spoilt, good, q, pending) ==
  q \notin spoilt /\ (\E a \in A : a.pass = q /\ a.number = 0) =>
    ArePending(A, q, pending) \/ IsSettled(q, good, pending)

\* live: what was sent of s has arrived.
FollowsOK(A, spoilt, good, s, done, u, live, pending) ==
  /\ \A o : u = <<o>> => IsFollowed(A, spoilt, good, o.pass, pending)
  /\ ~IsLast(s) \/ (~done /\ live) => IsFollowed(A, spoilt, good, s.pass, pending)

LongIn(A, q) ==
  LET ofPass == {s \in A : s.pass = q}
  IN  /\ Cardinality(ofPass) > 1
      /\ AggregatedLength({s.number : s \in ofPass},
            [n \in {s.number : s \in ofPass} |->
                [section |-> CHOOSE s \in ofPass : s.number = n]]) > MaxSectionLength

\* l is the last section of a transmission that arrived wholly and is to be built.
IsToBuild(A, spoilt, l) ==
  /\ IsLast(l) /\ l.pass \notin spoilt /\ ArrivedTo(A, l.pass, l.last)
  /\ ~LongIn(A, l.pass) /\ AreAlike(l)

BuiltOK(A, spoilt, good) == \A l \in A : IsToBuild(A, spoilt, l) => l.pass \in good

\* A table that the last of its sections completes is that section's transmission.
OwnTable(A, spoilt, table) ==
  LET x == table[Len(table)].section
  IN  /\ x.pass \notin spoilt /\ ArrivedTo(A, x.pass, x.number)
      /\ \A r \in PassesOf(table) : r <= x.pass
      => PassesOf(table) = {x.pass}

\* A table put together of known sections.
TableFlows(K, A, spoilt, table) ==
  /\ table \in Seq(Range(table))
  /\ \A i \in DOMAIN table : table[i].section \in K
  /\ table # <<>> => OwnTable(A, spoilt, table)

\* What is pending are known sections, of transmissions in W.
PendingKnown(K, W, pending) ==
  \A n \in DOMAIN pending : pending[n].section \in K /\ pending[n].section.pass \in W

FlowOK(K, A, spoilt, good, W, s, done, u, live, pending, tabs) ==
  /\ OrderOK(K, s, done, u) /\ A \subseteq K
  /\ PendingOK(pending) /\ PendingKnown(K, W, pending)
  /\ StackOK(A, spoilt, s, u, pending)
  /\ FollowsOK(A, spoilt, good, s, done, u, live, pending)
  /\ BuiltOK(A, spoilt, good)
  /\ \A table \in Range(tabs) : TableFlows(K, A, spoilt, table)

\* The transmissions of a table are counted: the youngest of them if it was built, and all that
\* waited, if there were several, if it came to nil.
IsCounted(table, good, W) ==
  IF table = <<>> THEN \A q \in W : q \in good \/ W = {q}
  ELSE PassOf(table) \in good \/ PassesOf(table) \subseteq good

-----------------------------------------------------------------------------
(* A section is done *)

\* s is done, and c is <<s>> as the builder has it, or <<>>.
Finishing(K, A, A2, spoilt, W, s, u, live, c) ==
  /\ OrderOK(K, s, FALSE, u) /\ IsSection(s) /\ A \subseteq K
  /\ A2 = A \/ A2 = A \cup {s}
  /\ s \in A2 => live
  /\ c = <<>> \/ \E d : c = <<d>> /\ IsComplete(d) /\ d.section = s /\ s.pass \in W
  /\ s \in A2 /\ s.pass \notin spoilt => c # <<>>

LEMMA SectionNumbers ==
  \A s : IsSection(s) => s.number \in Nat /\ s.last \in Nat /\ s.number <= s.last
<1> SUFFICES ASSUME NEW s, IsSection(s)
             PROVE  s.number \in Nat /\ s.last \in Nat /\ s.number <= s.last
  OBVIOUS
<1>1. s.number \in 0 .. s.last /\ s.last \in Nat
  BY SectionFields
<1> QED
  BY <1>1

LEMMA KinIsMutual == \A x, y : Kin(x, y) => Kin(y, x)
BY DEF Kin, IsSameTable

LEMMA WentBeforeStays ==
  ASSUME NEW x, NEW s, NEW u, WentBefore(x, s, FALSE, u)
  PROVE  WentBefore(x, s, TRUE, u)
BY DEF WentBefore

LEMMA OrderWhenDone ==
  ASSUME NEW K, NEW s, NEW u, OrderOK(K, s, FALSE, u), IsSection(s)
  PROVE  OrderOK(K \cup {s}, s, TRUE, u) /\ s \notin K
<1> DEFINE L == K \cup {s}
<1>2. \A x \in K : WentBefore(x, s, TRUE, u)
  BY WentBeforeStays DEF OrderOK
<1>3. WentBefore(s, s, TRUE, u)
  <2>1. s.pass \in Nat /\ s.pass <= s.id
    BY DEF OrderOK
  <2>2. ASSUME NEW o, IsOpen(o, s, u), s.pass = o.pass
        PROVE  s.number = o.number
    BY <2>2 DEF OrderOK, IsOpen
  <2> QED
    BY <2>1, <2>2 DEF WentBefore
<1>4. \A x \in L : IsSection(x) /\ WentBefore(x, s, TRUE, u)
  BY <1>2, <1>3 DEF OrderOK
<1>5. IsFiniteSet(L)
  BY FS_AddElement DEF OrderOK
<1>6. \A o : IsOpen(o, s, u) => Kin(s, o)
  BY DEF OrderOK, IsOpen, Kin, IsSameTable
<1>7. \A x \in K : Kin(x, s) /\ Kin(s, x)
  BY KinIsMutual DEF OrderOK, IsOpen
<1>8. Kin(s, s)
  BY DEF Kin, IsSameTable
<1>9. \A x \in L : (\A o : IsOpen(o, s, u) => Kin(x, o)) /\ (\A y \in L : Kin(x, y))
  BY <1>6, <1>7, <1>8 DEF OrderOK
<1>10. s \notin K
  <2> SUFFICES ASSUME s \in K PROVE FALSE
    OBVIOUS
  <2>1. WentBefore(s, s, FALSE, u) /\ s.number \in Nat
    BY DEF OrderOK
  <2> QED
    BY <2>1 DEF WentBefore, IsOpen
<1> HIDE DEF L
<1>11. OrderOK(L, s, TRUE, u)
  BY <1>4, <1>5, <1>9 DEF OrderOK
<1> QED
  BY <1>10, <1>11 DEF L

\* What arrived of a transmission below a section sent before stays as it was.
LEMMA SameBelow ==
  ASSUME NEW K, NEW A, NEW A2, NEW s, NEW u, OrderOK(K, s, FALSE, u),
         A2 = A \/ A2 = A \cup {s},
         NEW x \in K, NEW n \in 0 .. x.number, ArrivedTo(A2, x.pass, n)
  PROVE  ArrivedTo(A, x.pass, n)
<1> SUFFICES ASSUME NEW i \in 0 .. n
             PROVE  \E a \in A : a.pass = x.pass /\ a.number = i
  BY DEF ArrivedTo
<1>1. PICK a \in A2 : a.pass = x.pass /\ a.number = i
  BY DEF ArrivedTo
<1>2. s.number \in Nat /\ WentBefore(x, s, FALSE, u) /\ x.number \in Nat
  <2>1. s.number \in Nat /\ WentBefore(x, s, FALSE, u) /\ IsSection(x)
    BY DEF OrderOK
  <2> QED
    BY <2>1, SectionNumbers
<1>3. a = s => x.number < s.number
  BY <1>1, <1>2 DEF WentBefore, IsOpen
<1>4. a # s
  <2>1. i <= x.number
    BY <1>2
  <2> QED
    BY <1>1, <1>2, <1>3, <2>1
<1> QED
  BY <1>1, <1>2, <1>4

\* new is what is pending with a section more.
HasGrown(new, pending, d) ==
  LET number == d.section.number
  IN  /\ PendingOK(new) /\ number \in DOMAIN new /\ new[number] = d
      /\ \A n \in DOMAIN new : n # number => n \in DOMAIN pending /\ new[n] = pending[n]
      /\ (\E n \in DOMAIN pending : IsSameTable(d.section, pending[n].section))
           => DOMAIN pending \subseteq DOMAIN new

LEMMA PendingHasGrown ==
  ASSUME NEW pending, NEW d, PendingOK(pending), IsComplete(d)
  PROVE  HasGrown(PendingWith(pending, d), pending, d)
<1> DEFINE same == \A n \in DOMAIN pending : IsSameTable(d.section, pending[n].section)
           kept == IF same THEN pending ELSE NoSections
           number == d.section.number
           new == PendingWith(pending, d)
<1>1. PendingOK(new) /\ number \in DOMAIN new /\ new[number] = d
  BY PendingGrows
<1>2. DOMAIN new = DOMAIN kept \cup {number} /\ \A n \in DOMAIN kept : n # number => new[n] = kept[n]
  BY DEF PendingWith
<1>3. DOMAIN NoSections = {}
  BY NothingPending
<1>4. (\E n \in DOMAIN pending : IsSameTable(d.section, pending[n].section)) => same
  BY SameTable DEF PendingOK, IsSameTable
<1> HIDE DEF new
<1> QED
  BY <1>1, <1>2, <1>3, <1>4 DEF new, HasGrown

\* The sections of a table are in the order of their numbers, from the first one on.
Rising(table) ==
  \A j \in DOMAIN table : table[j].section.number <= table[Len(table)].section.number

LEMMA InOrderRises ==
  ASSUME NEW sections, NEW L \in Nat, 0 \in DOMAIN sections, DOMAIN sections \subseteq Nat,
         \A n \in DOMAIN sections : sections[n].section.number = n
  PROVE  LET table == InOrder(sections, L)
         IN  /\ table \in Seq({sections[n] : n \in DOMAIN sections}) /\ table # <<>>
             /\ table[1] = sections[0] /\ Rising(table)
<1> DEFINE S == {sections[n] : n \in DOMAIN sections}
           part(i) == IF i - 1 \in DOMAIN sections THEN <<sections[i - 1]>> ELSE <<>>
           parts == [i \in 1 .. L + 1 |-> part(i)]
           f == CHOOSE f : IsFlat(f, parts)
           Fine(q, n) == /\ q \in Seq(S) /\ q # <<>> /\ q[1] = sections[0] /\ Rising(q)
                         /\ \A j \in DOMAIN q : q[j].section.number < n
           T == {n \in Nat : n \in 1 .. L + 1 => Fine(f[n], n)}
<1>1. Len(parts) = L + 1 /\ \A i \in 1 .. L + 1 : parts[i] = part(i)
  OBVIOUS
<1> HIDE DEF parts, f
<1>2. FlattensTo(f, parts, L + 1)
  <2>1. IsFlat(f, parts)
    BY <1>1, FlatExists DEF f
  <2> QED
    BY ONLY <1>1, <2>1 DEF IsFlat, FlattensTo
<1>3. ASSUME NEW n \in DOMAIN sections
      PROVE  sections[n] \in S
  OBVIOUS
<1> HIDE DEF S
<1>4. ASSUME NEW q, NEW n \in Nat, Fine(q, n), n \in DOMAIN sections
      PROVE  Fine(q \o <<sections[n]>>, n + 1)
  <2> DEFINE one == <<sections[n]>>
             r == q \o one
  <2>1. q \in Seq(S) /\ one \in Seq(S) /\ Len(one) = 1 /\ one[1] = sections[n]
    BY <1>3, <1>4
  <2>2. Len(q) \in Nat \ {0} /\ DOMAIN q = 1 .. Len(q)
    BY <1>4, LenProperties, EmptySeq
  <2> HIDE DEF one
  <2>3. /\ r \in Seq(S) /\ Len(r) = Len(q) + 1
        /\ \A k \in 1 .. Len(q) + 1 : r[k] = IF k <= Len(q) THEN q[k] ELSE one[k - Len(q)]
    BY ONLY <2>1, ConcatProperties
  <2> HIDE DEF r
  <2>4. DOMAIN r = 1 .. Len(q) + 1 /\ r # <<>>
    BY <2>2, <2>3, LenProperties, EmptySeq
  <2>5. r[Len(q) + 1] = sections[n] /\ \A k \in 1 .. Len(q) : r[k] = q[k]
    BY <2>1, <2>2, <2>3
  <2>6. \A j \in DOMAIN r : r[j].section.number <= n /\ r[j].section.number < n + 1
    <3>1. sections[n].section.number = n
      BY <1>4
    <3>2. \A j \in 1 .. Len(q) : q[j].section.number < n
      BY <1>4, <2>2
    <3>3. ASSUME NEW j \in 1 .. Len(q) + 1
          PROVE  r[j].section.number <= n /\ r[j].section.number < n + 1
      <4>1. CASE j = Len(q) + 1
        BY <2>5, <3>1, <4>1
      <4>2. CASE j # Len(q) + 1
        <5>1. j \in 1 .. Len(q)
          BY <2>2, <4>2
        <5>2. r[j].section.number < n
          BY <2>5, <3>2, <5>1
        <5>3. r[j] \in S
          BY <2>3, <2>4, ElementOfSeq
        <5>4. r[j].section.number \in Nat
          BY <5>3 DEF S
        <5> QED
          BY <5>2, <5>4
      <4> QED
        BY <4>1, <4>2
    <3> QED
      BY <2>4, <3>3
  <2>7. Rising(r)
    BY <1>4, <2>3, <2>5, <2>6 DEF Rising
  <2>8. r[1] = sections[0]
    BY <1>4, <2>2, <2>5
  <2> QED
    BY <2>3, <2>4, <2>6, <2>7, <2>8 DEF r, one
<1>5. ASSUME NEW n \in Nat, n + 1 \in 1 .. L + 1, n \in 1 .. L + 1 => Fine(f[n], n)
      PROVE  Fine(f[n + 1], n + 1)
  <2>1. PICK i \in 1 .. L + 1 : i = n + 1
    BY <1>5
  <2>2. f[i] = IF i = 1 THEN parts[i] ELSE f[i - 1] \o parts[i]
    BY <1>2, <2>1 DEF FlattensTo
  <2>3. i - 1 = n /\ (i = 1 <=> n = 0) /\ parts[i] = part(i)
    BY <1>1, <2>1
  <2>4. CASE n = 0
    <3>1. f[i] = <<sections[0]>>
      BY <2>2, <2>3, <2>4
    <3>2. <<sections[0]>> \in Seq(S) /\ sections[0].section.number = 0
      BY <1>3
    <3>3. Fine(<<sections[0]>>, 1)
      BY <3>2 DEF Rising
    <3>4. n + 1 = 1 /\ f[n + 1] = <<sections[0]>>
      BY <2>1, <2>4, <3>1
    <3> HIDE DEF Fine
    <3> QED
      BY <3>3, <3>4
  <2>5. CASE n # 0
    <3>1. Fine(f[n], n) /\ n \in Nat
      BY <1>5, <2>5
    <3>2. CASE n \in DOMAIN sections
      <4>1. f[i] = f[n] \o <<sections[n]>>
        BY <2>2, <2>3, <2>5, <3>2
      <4> HIDE DEF Fine
      <4> QED
        BY <1>4, <2>1, <3>1, <3>2, <4>1
    <3>3. CASE n \notin DOMAIN sections
      <4>1. f[i] = f[n] \o <<>>
        BY <2>2, <2>3, <2>5, <3>3
      <4>2. f[i] = f[n]
        BY <3>1, <4>1
      <4>3. \A j \in DOMAIN f[n] : f[n][j].section.number < n + 1
        <5>1. ASSUME NEW j \in DOMAIN f[n]
              PROVE  f[n][j].section.number < n + 1
          <6>1. f[n][j] \in S
            <7>1. j \in 1 .. Len(f[n])
              BY <3>1, LenProperties
            <7> QED
              BY <3>1, <7>1, ElementOfSeq
          <6>2. f[n][j].section.number \in Nat
            BY <6>1 DEF S
          <6> QED
            BY <3>1, <6>2
        <5> QED
          BY <5>1
      <4> QED
        BY <2>1, <3>1, <4>2, <4>3
    <3> QED
      BY <3>2, <3>3
  <2> QED
    BY <2>4, <2>5
<1>6. Nat \subseteq T
  <2> HIDE DEF Fine
  <2>1. 0 \in T
    OBVIOUS
  <2>2. \A n \in Nat : n \in T => n + 1 \in T
    BY <1>5
  <2> HIDE DEF T
  <2> QED
    BY <2>1, <2>2, InductionOverNat
<1>7. Fine(f[L + 1], L + 1)
  BY <1>6
<1>8. FlattenSeq(parts) = f[L + 1]
  BY <1>1, FlattenDef DEF f
<1> QED
  BY <1>7, <1>8 DEF InOrder, parts, S

LEMMA StackStays ==
  ASSUME NEW K, NEW A, NEW A2, NEW spoilt, NEW s, NEW u, OrderOK(K, s, FALSE, u),
         A2 = A \/ A2 = A \cup {s},
         NEW pending, PendingOK(pending), \A n \in DOMAIN pending : pending[n].section \in K,
         StackOK(A, spoilt, s, u, pending)
  PROVE  StackOK(A2, spoilt, s, u, pending)
<1>1. ASSUME NEW n \in DOMAIN pending
      PROVE  NoneOlder(A2, spoilt, pending, n)
  <2> DEFINE x == pending[n].section
  <2>1. x \in K /\ x.number = n /\ x.number \in Nat
    BY <1>1 DEF PendingOK
  <2>2. n \in 0 .. x.number
    BY <2>1
  <2>3. ArrivedTo(A2, x.pass, n) => ArrivedTo(A, x.pass, n)
    BY <2>1, <2>2, SameBelow
  <2>4. NoneOlder(A, spoilt, pending, n)
    BY <1>1 DEF StackOK
  <2> QED
    BY <2>3, <2>4 DEF NoneOlder
<1> QED
  BY <1>1 DEF StackOK

\* The first section of the transmission of s arrived before s.
LEMMA FirstBefore ==
  ASSUME NEW K, NEW A, NEW A2, NEW s, NEW u, OrderOK(K, s, FALSE, u), A \subseteq K,
         A2 = A \/ A2 = A \cup {s}, NEW a \in A2, a.pass = s.pass
  PROVE  a = s \/ (a \in A /\ a.number < s.number)
<1> SUFFICES ASSUME a \in A
             PROVE  a.number < s.number
  OBVIOUS
<1>1. WentBefore(a, s, FALSE, u)
  BY DEF OrderOK
<1> QED
  BY <1>1 DEF WentBefore, IsOpen

\* Nothing that is pending is of a transmission later than a good one which is open.
LEMMA NoneLater ==
  ASSUME NEW K, NEW A, NEW spoilt, NEW s, NEW u, OrderOK(K, s, FALSE, u),
         NEW pending, \A n \in DOMAIN pending : pending[n].section \in K,
         StackOK(A, spoilt, s, u, pending), NEW n \in DOMAIN pending,
         pending[n].section.pass \notin spoilt \/ s.pass \notin spoilt
  PROVE  pending[n].section.pass <= s.pass
<1>1. CameInto(pending[n].section, s, spoilt)
  BY DEF StackOK, IsOpen
<1>2. pending[n].section.pass \in Nat /\ s.pass \in Nat
  BY DEF OrderOK, WentBefore
<1> QED
  BY <1>1, <1>2 DEF CameInto

LEMMA StackGrows ==
  ASSUME NEW K, NEW A, NEW A2, NEW spoilt, NEW good, NEW s, NEW u, NEW live,
         OrderOK(K, s, FALSE, u), IsSection(s), A \subseteq K, A2 = A \/ A2 = A \cup {s},
         s \in A2 => live, s.last # 0,
         NEW pending, PendingOK(pending), \A n \in DOMAIN pending : pending[n].section \in K,
         StackOK(A, spoilt, s, u, pending),
         FollowsOK(A, spoilt, good, s, FALSE, u, live, pending),
         NEW d, IsComplete(d), d.section = s
  PROVE  StackOK(A2, spoilt, s, u, PendingWith(pending, d))
<1> DEFINE new == PendingWith(pending, d)
<1>1. /\ PendingOK(new) /\ s.number \in DOMAIN new /\ new[s.number] = d
      /\ \A n \in DOMAIN new : n # s.number => n \in DOMAIN pending /\ new[n] = pending[n]
  BY PendingHasGrown DEF HasGrown
<1> HIDE DEF new
<1>2. StackOK(A2, spoilt, s, u, pending)
  BY StackStays
<1>3. s.number \in Nat /\ s.pass \in Nat /\ s.pass <= s.id
  BY DEF OrderOK
<1>4. ASSUME NEW n \in DOMAIN new, n # s.number
      PROVE  /\ new[n].section.last # 0
             /\ \A o : IsOpen(o, s, u) => CameInto(new[n].section, o, spoilt)
             /\ NoneOlder(A2, spoilt, new, n)
  <2>1. n \in DOMAIN pending /\ new[n] = pending[n]
    BY <1>1, <1>4
  <2>2. /\ pending[n].section.last # 0
        /\ \A o : IsOpen(o, s, u) => CameInto(pending[n].section, o, spoilt)
        /\ NoneOlder(A2, spoilt, pending, n)
    BY <1>2, <2>1 DEF StackOK
  <2>3. pending[n].section.pass \notin spoilt => pending[n].section.pass <= s.pass
    BY <2>1, NoneLater
  <2>4. ASSUME pending[n].section.pass \notin spoilt, ArrivedTo(A2, pending[n].section.pass, n),
               NEW m \in DOMAIN new, m < n
        PROVE  new[m].section.pass >= pending[n].section.pass
    <3>1. CASE m = s.number
      BY <1>1, <2>3, <2>4, <3>1
    <3>2. CASE m # s.number
      BY <1>1, <2>2, <2>4, <3>2 DEF NoneOlder
    <3> QED
      BY <3>1, <3>2
  <2>5. NoneOlder(A2, spoilt, new, n)
    BY <2>1, <2>4 DEF NoneOlder
  <2> QED
    BY <2>1, <2>2, <2>5
<1>5. ASSUME NEW o, IsOpen(o, s, u)
      PROVE  CameInto(s, o, spoilt)
  <2>1. CASE o = s
    BY <1>3, <2>1 DEF CameInto
  <2>2. CASE u = <<o>>
    BY <2>2 DEF StackOK, CameInto
  <2> QED
    BY <1>5, <2>1, <2>2 DEF IsOpen
<1>6. ASSUME s.pass \notin spoilt, ArrivedTo(A2, s.pass, s.number), NEW m \in DOMAIN new,
             m < s.number
      PROVE  new[m].section.pass >= s.pass
  <2>1. m \in Nat /\ m \in 0 .. s.number /\ 0 \in 0 .. s.number /\ s.number # 0
    BY <1>1, <1>3, <1>6 DEF PendingOK
  <2>2. m \in DOMAIN pending /\ new[m] = pending[m]
    BY <1>1, <1>6, <2>1
  <2>3. PICK a \in A2 : a.pass = s.pass /\ a.number = m
    BY <1>6, <2>1 DEF ArrivedTo
  <2>4. PICK b \in A2 : b.pass = s.pass /\ b.number = 0
    BY <1>6, <2>1 DEF ArrivedTo
  <2>5. PICK l \in A2 : l.pass = s.pass /\ l.number = s.number
    BY <1>3, <1>6 DEF ArrivedTo
  <2>6. a \in A /\ b \in A
    BY <1>3, <1>6, <2>1, <2>3, <2>4, FirstBefore
  <2>7. l = s
    <3>1. l = s \/ (l \in A /\ l.number < s.number)
      BY <2>5, FirstBefore
    <3> QED
      BY <1>3, <2>5, <3>1
  <2>8. IsFollowed(A, spoilt, good, s.pass, pending)
    BY <2>5, <2>7 DEF FollowsOK
  <2>9. CASE ArePending(A, s.pass, pending)
    <3>1. pending[m].section = a
      BY <2>3, <2>6, <2>9 DEF ArePending
    <3> QED
      BY <1>3, <2>2, <2>3, <3>1
  <2>10. CASE IsSettled(s.pass, good, pending)
    <3>1. pending[m].section.pass = s.pass
      BY <2>2, <2>10 DEF IsSettled
    <3> QED
      BY <1>3, <2>2, <3>1
  <2> QED
    BY <1>6, <2>4, <2>6, <2>8, <2>9, <2>10 DEF IsFollowed
<1>7. NoneOlder(A2, spoilt, new, s.number)
  BY <1>1, <1>6 DEF NoneOlder
<1>8. \A n \in DOMAIN new :
        /\ new[n].section.last # 0
        /\ \A o : IsOpen(o, s, u) => CameInto(new[n].section, o, spoilt)
        /\ NoneOlder(A2, spoilt, new, n)
  <2> SUFFICES ASSUME NEW n \in DOMAIN new
               PROVE  /\ new[n].section.last # 0
                      /\ \A o : IsOpen(o, s, u) => CameInto(new[n].section, o, spoilt)
                      /\ NoneOlder(A2, spoilt, new, n)
    OBVIOUS
  <2>1. CASE n = s.number
    BY <1>1, <1>5, <1>7, <2>1
  <2> QED
    BY <1>4, <2>1
<1> QED
  BY <1>8 DEF StackOK, new

\* What arrived of the transmission of s is pending with s, unless it is settled: then what is
\* pending with s is no table yet.
LEMMA FollowsGrows ==
  ASSUME NEW K, NEW A, NEW A2, NEW spoilt, NEW good, NEW s, NEW u,
         OrderOK(K, s, FALSE, u), IsSection(s), A \subseteq K, A2 = A \/ A2 = A \cup {s},
         NEW pending, PendingOK(pending), \A n \in DOMAIN pending : pending[n].section \in K,
         IsFollowed(A, spoilt, good, s.pass, pending), s.pass \notin spoilt,
         NEW first \in A2, first.pass = s.pass, first.number = 0,
         NEW d, IsComplete(d), d.section = s,
         NEW new, HasGrown(new, pending, d)
  PROVE  \/ ArePending(A2, s.pass, new)
         \/ IsSettled(s.pass, good, new) /\ Cardinality(DOMAIN new) < s.last + 1
<1>1. /\ s.number \in DOMAIN new /\ new[s.number] = d
      /\ \A n \in DOMAIN new : n # s.number => n \in DOMAIN pending /\ new[n] = pending[n]
  BY DEF HasGrown
<1>2. s.number \in Nat /\ s.last \in Nat /\ s.number <= s.last
  BY SectionNumbers
<1>3. ASSUME NEW a \in A2, a.pass = s.pass
      PROVE  a = s \/ (a \in A /\ a.number < s.number)
  BY <1>3, FirstBefore
<1>4. ASSUME first \in A, ArePending(A, s.pass, pending)
      PROVE  ArePending(A2, s.pass, new)
  <2>1. 0 \in DOMAIN pending /\ pending[0].section = first
    BY <1>4 DEF ArePending
  <2>2. Kin(first, s)
    BY <1>4 DEF OrderOK, IsOpen
  <2>3. IsSameTable(d.section, first)
    BY <2>2 DEF Kin, IsSameTable
  <2>4. DOMAIN pending \subseteq DOMAIN new
    BY <2>1, <2>3 DEF HasGrown
  <2> SUFFICES ASSUME NEW a \in A2, a.pass = s.pass
               PROVE  a.number \in DOMAIN new /\ new[a.number].section = a
    BY DEF ArePending
  <2>5. CASE a = s
    BY <1>1, <2>5
  <2>6. CASE a \in A /\ a.number < s.number
    <3>1. a.number \in DOMAIN pending /\ pending[a.number].section = a
      BY <1>4, <2>6 DEF ArePending
    <3>2. a.number # s.number
      BY <1>2, <2>6
    <3> QED
      BY <1>1, <2>4, <3>1, <3>2
  <2> QED
    BY <1>3, <2>5, <2>6
<1>5. ASSUME first \in A, IsSettled(s.pass, good, pending)
      PROVE  IsSettled(s.pass, good, new) /\ Cardinality(DOMAIN new) < s.last + 1
  <2>1. 0 < s.number
    <3>1. first = s \/ first.number < s.number
      BY <1>3
    <3>2. first # s
      BY <1>5, OrderWhenDone
    <3> QED
      BY <3>1, <3>2
  <2>2. \A n \in DOMAIN new : n # 0 /\ new[n].section.pass = s.pass
    <3> SUFFICES ASSUME NEW n \in DOMAIN new
                 PROVE  n # 0 /\ new[n].section.pass = s.pass
      OBVIOUS
    <3>1. CASE n = s.number
      BY <1>1, <1>2, <2>1, <3>1
    <3>2. CASE n # s.number
      BY <1>1, <1>5, <3>2 DEF IsSettled
    <3> QED
      BY <3>1, <3>2
  <2>3. ASSUME NEW n \in DOMAIN new
        PROVE  n \in 1 .. s.number
    <3>1. n \in Nat /\ n # 0
      BY <2>2 DEF HasGrown, PendingOK
    <3>2. CASE n # s.number
      <4>1. n \in DOMAIN pending /\ pending[n].section.number = n /\ pending[n].section \in K
        BY <1>1, <2>3, <3>2 DEF PendingOK
      <4>2. pending[n].section.pass = s.pass
        BY <1>1, <2>2, <2>3, <3>2
      <4>3. WentBefore(pending[n].section, s, FALSE, u)
        BY <4>1 DEF OrderOK
      <4>4. n < s.number
        BY <4>1, <4>2, <4>3 DEF WentBefore, IsOpen
      <4> QED
        BY <1>2, <3>1, <4>4
    <3> QED
      BY <1>2, <2>1, <3>1, <3>2
  <2>4. Cardinality(DOMAIN new) < s.last + 1
    <3>1. IsFiniteSet(1 .. s.number) /\ Cardinality(1 .. s.number) = s.number
      <4>1. 0 < s.number /\ s.number \in Int /\ 1 \in Int
        BY <1>2, <2>1
      <4>2. /\ IsFiniteSet(1 .. s.number)
            /\ Cardinality(1 .. s.number) = IF 1 > s.number THEN 0 ELSE s.number - 1 + 1
        BY ONLY <4>1, FS_Interval
      <4> QED
        BY <4>1, <4>2
    <3>2. Cardinality(DOMAIN new) <= s.number /\ IsFiniteSet(DOMAIN new)
      BY <2>3, <3>1, FS_Subset
    <3>3. Cardinality(DOMAIN new) \in Nat
      BY <3>2, FS_CardinalityType
    <3> QED
      BY <1>2, <3>2, <3>3
  <2> QED
    BY <1>5, <2>2, <2>4 DEF IsSettled
<1>6. ASSUME first \notin A
      PROVE  ArePending(A2, s.pass, new)
  <2>1. first = s /\ s.number = 0
    BY <1>3, <1>6
  <2>2. ASSUME NEW a \in A2, a.pass = s.pass
        PROVE  a = s
    <3>1. a \in A => a.number < 0 /\ IsSection(a)
      <4>1. s \notin K
        BY OrderWhenDone
      <4> QED
        BY <1>3, <2>1, <2>2, <4>1 DEF OrderOK
    <3>2. a \in A => a.number \in Nat
      BY <3>1, SectionNumbers
    <3> QED
      BY <1>3, <2>2, <3>1, <3>2
  <2> QED
    BY <1>1, <2>2 DEF ArePending
<1> QED
  BY <1>4, <1>5, <1>6 DEF IsFollowed

-----------------------------------------------------------------------------
(* A table is put together *)

\* table has sections of those pending, from the first one on.
IsTableOf(table, pending) ==
  /\ table \in Seq(Range(table))
  /\ DOMAIN table = 1 .. Len(table) /\ Len(table) \in Nat \ {0} /\ 0 \in DOMAIN pending
  /\ table[1] = pending[0] /\ Rising(table)
  /\ \A j \in DOMAIN table : \E n \in DOMAIN pending : table[j] = pending[n]

IsTooLong(pending) ==
  AggregatedLength({n \in DOMAIN pending : n <= pending[0].section.last}, pending)
    > MaxSectionLength

LEMMA TableOfPending ==
  ASSUME NEW pending, PendingOK(pending), NEW table, table = AggregatePendingSections(pending)
  PROVE  \/ table = <<>> /\ (0 \in DOMAIN pending => IsTooLong(pending))
         \/ table # <<>> /\ IsTableOf(table, pending)
<1> DEFINE L == pending[0].section.last
           t == InOrder(pending, L)
           S == {pending[n] : n \in DOMAIN pending}
<1>1. CASE 0 \notin DOMAIN pending
  BY <1>1 DEF AggregatePendingSections
<1>2. CASE 0 \in DOMAIN pending /\ IsTooLong(pending)
  BY <1>2 DEF AggregatePendingSections, IsTooLong
<1>3. CASE 0 \in DOMAIN pending /\ ~IsTooLong(pending)
  <2>1. table = t
    BY <1>3 DEF AggregatePendingSections, IsTooLong
  <2>2. IsSection(pending[0].section)
    BY <1>3 DEF PendingOK, IsComplete
  <2>3. L \in Nat
    BY <2>2, SectionNumbers
  <2>4. DOMAIN pending \subseteq Nat /\ \A n \in DOMAIN pending : pending[n].section.number = n
    BY DEF PendingOK
  <2> HIDE DEF t, L
  <2>5. t \in Seq(S) /\ t # <<>> /\ t[1] = pending[0] /\ Rising(t)
    BY <1>3, <2>3, <2>4, InOrderRises DEF t
  <2>6. DOMAIN t = 1 .. Len(t) /\ Len(t) \in Nat \ {0}
    BY <2>5, LenProperties, EmptySeq
  <2>7. \A j \in DOMAIN t : t[j] \in S
    <3> HIDE DEF S
    <3> QED
      BY <2>5, <2>6, ElementOfSeq
  <2>8. t \in Seq(Range(t))
    <3>1. t = [i \in 1 .. Len(t) |-> t[i]]
      BY <2>5, LenProperties
    <3>2. \A i \in 1 .. Len(t) : t[i] \in Range(t)
      BY <2>6 DEF Range
    <3> QED
      BY <2>6, <3>1, <3>2, SeqDef
  <2> QED
    BY <1>3, <2>1, <2>5, <2>6, <2>7, <2>8 DEF IsTableOf
<1> QED
  BY <1>1, <1>2, <1>3

\* Some numbers up to n have a largest one.
LEMMA SomeHaveMax ==
  ASSUME NEW n \in Nat, NEW S \in SUBSET (0 .. n), S # {}
  PROVE  Max(S) \in S /\ \A r \in S : r <= Max(S)
<1> DEFINE HasMax(R) == \E m \in R : \A r \in R : m >= r
           T == {k \in Nat : \A R \in SUBSET (0 .. k) : R # {} => HasMax(R)}
<1>1. 0 \in T
  <2>1. ASSUME NEW R \in SUBSET (0 .. 0), R # {}
        PROVE  HasMax(R)
    <3>1. PICK m : m \in R
      BY <2>1
    <3>2. \A r \in R : r = 0
      OBVIOUS
    <3> QED
      BY <3>1, <3>2
  <2> QED
    BY <2>1
<1>2. ASSUME NEW k \in Nat, k \in T
      PROVE  k + 1 \in T
  <2> SUFFICES ASSUME NEW R \in SUBSET (0 .. k + 1), R # {}
               PROVE  HasMax(R)
    OBVIOUS
  <2>1. CASE k + 1 \in R
    BY <2>1
  <2>2. CASE k + 1 \notin R
    <3>1. R \in SUBSET (0 .. k)
      BY <2>2
    <3> HIDE DEF HasMax
    <3> QED
      BY <1>2, <3>1
  <2> QED
    BY <2>1, <2>2
<1>3. Nat \subseteq T
  <2> HIDE DEF T
  <2> QED
    BY <1>1, <1>2, InductionOverNat
<1>4. HasMax(S)
  <2> HIDE DEF HasMax
  <2> QED
    BY <1>3
<1>5. \A r \in S : r \in Nat
  OBVIOUS
<1> QED
  BY <1>4, <1>5 DEF Max

\* The youngest transmission of a table that was counted is a good one.
LEMMA YoungestIsGood ==
  ASSUME NEW K, NEW s, NEW u, NEW done, OrderOK(K, s, done, u), NEW good, NEW W,
         NEW table, DOMAIN table = 1 .. Len(table), Len(table) \in Nat \ {0},
         \A i \in DOMAIN table : table[i].section \in K, IsCounted(table, good, W)
  PROVE  \E q \in PassesOf(table) : q \in good /\ \A r \in PassesOf(table) : r <= q
<1> DEFINE S == PassesOf(table)
<1>1. S \in SUBSET (0 .. s.id) /\ s.id \in Nat
  BY DEF PassesOf, OrderOK, WentBefore
<1>2. S # {}
  <2>1. 1 \in DOMAIN table
    OBVIOUS
  <2> QED
    BY <2>1 DEF PassesOf
<1>3. table # <<>>
  OBVIOUS
<1> HIDE DEF S
<1>4. Max(S) \in S /\ \A r \in S : r <= Max(S)
  BY <1>1, <1>2, SomeHaveMax
<1> QED
  BY <1>3, <1>4 DEF IsCounted, PassOf, S

\* All that is pending is of transmission q.
AreAllOf(q, pending) == \A n \in DOMAIN pending : pending[n].section.pass = q

\* A table completed by s that has its first section, of a good transmission, is counted for it, or
\* it is too long, and nothing else is in it.
LEMMA CompletedIsGood ==
  ASSUME NEW K, NEW A, NEW spoilt, NEW good, NEW W, NEW s, NEW u,
         OrderOK(K, s, FALSE, u), IsSection(s), s.pass \in W,
         NEW pending, PendingOK(pending), PendingKnown(K, W, pending),
         StackOK(A, spoilt, s, u, pending), s.pass \notin spoilt,
         NEW d, d.section = s, NEW new, HasGrown(new, pending, d),
         0 \in DOMAIN new, new[0].section.pass = s.pass,
         IsCounted(AggregatePendingSections(new), good, W)
  PROVE  \/ s.pass \in good
         \/ IsTooLong(new) /\ AreAllOf(s.pass, new)
<1> DEFINE table == AggregatePendingSections(new)
<1>1. /\ s.number \in DOMAIN new /\ new[s.number] = d
      /\ \A n \in DOMAIN new : n # s.number => n \in DOMAIN pending /\ new[n] = pending[n]
  BY DEF HasGrown
<1>2. s.pass \in Nat
  BY DEF OrderOK
<1>3. ASSUME NEW n \in DOMAIN new
      PROVE  /\ new[n].section \in K \cup {s} /\ new[n].section.pass \in W
             /\ new[n].section.pass <= s.pass /\ new[n].section.pass \in Nat
  <2>1. CASE n = s.number
    BY <1>1, <1>2, <2>1
  <2>2. CASE n # s.number
    <3>1. n \in DOMAIN pending /\ new[n] = pending[n]
      BY <1>1, <2>2
    <3>2. pending[n].section \in K /\ pending[n].section.pass \in W
      BY <3>1 DEF PendingKnown
    <3>3. pending[n].section.pass <= s.pass
      <4>1. \A m \in DOMAIN pending : pending[m].section \in K
        BY DEF PendingKnown
      <4> QED
        BY <3>1, <4>1, NoneLater
    <3>4. pending[n].section.pass \in Nat
      BY <3>2 DEF OrderOK, WentBefore
    <3> QED
      BY <3>1, <3>2, <3>3, <3>4
  <2> QED
    BY <2>1, <2>2
<1>4. PendingOK(new)
  BY DEF HasGrown
<1>5. CASE table = <<>>
  <2>1. IsTooLong(new)
    BY <1>4, <1>5, TableOfPending
  <2>2. CASE s.pass \notin good
    <3>1. W = {s.pass}
      BY <1>5, <2>2 DEF IsCounted
    <3> QED
      BY <1>3, <2>1, <3>1 DEF AreAllOf
  <2> QED
    BY <2>2
<1>6. CASE table # <<>>
  <2>1. IsTableOf(table, new)
    BY <1>4, <1>6, TableOfPending
  <2> HIDE DEF table
  <2>2. \A j \in DOMAIN table :
          /\ table[j].section \in K \cup {s}
          /\ table[j].section.pass <= s.pass /\ table[j].section.pass \in Nat
    BY <1>3, <2>1 DEF IsTableOf
  <2>3. OrderOK(K \cup {s}, s, TRUE, u)
    BY OrderWhenDone
  <2>4. PICK q \in PassesOf(table) : q \in good /\ \A r \in PassesOf(table) : r <= q
    BY <2>1, <2>2, <2>3, YoungestIsGood DEF IsTableOf, table
  <2>5. s.pass \in PassesOf(table)
    BY <2>1 DEF IsTableOf, PassesOf
  <2>6. q <= s.pass /\ q \in Nat
    BY <2>2 DEF PassesOf
  <2> QED
    BY <1>2, <2>4, <2>5, <2>6
<1> QED
  BY <1>5, <1>6

-----------------------------------------------------------------------------
(* Transmissions that arrived wholly *)

LEMMA SameLength ==
  ASSUME NEW N, NEW f, NEW g, \A n \in N : f[n].section.length = g[n].section.length
  PROVE  AggregatedLength(N, f) = AggregatedLength(N, g)
<1>1. [n \in N |-> f[n].section.length - PSI_CRC_LEN - kHeaderSize]
        = [n \in N |-> g[n].section.length - PSI_CRC_LEN - kHeaderSize]
  OBVIOUS
<1> QED
  BY <1>1 DEF AggregatedLength

\* What is pending is as long as the transmission that it is of.
LEMMA LengthOfPending ==
  ASSUME NEW A, IsFiniteSet(A), NEW q, NEW L \in Nat \ {0}, ArrivedTo(A, q, L),
         NEW pending, DOMAIN pending = 0 .. L, ArePending(A, q, pending),
         pending[0].section.last = L, IsTooLong(pending)
  PROVE  LongIn(A, q)
<1> DEFINE ofPass == {a \in A : a.pass = q}
           numbers == {a.number : a \in ofPass}
           first(n) == CHOOSE a \in ofPass : a.number = n
           g == [n \in numbers |-> [section |-> first(n)]]
<1>1. \A a \in ofPass : a.number \in 0 .. L /\ pending[a.number].section = a
  BY DEF ArePending
<1>2. \A n \in 0 .. L : \E a \in ofPass : a.number = n
  BY DEF ArrivedTo
<1>3. numbers = 0 .. L
  BY <1>1, <1>2
<1>4. {n \in DOMAIN pending : n <= pending[0].section.last} = 0 .. L
  OBVIOUS
<1>5. \A n \in 0 .. L : g[n].section = first(n)
  <2> HIDE DEF ofPass
  <2> QED
    BY <1>3
<1>6. \A n \in 0 .. L : pending[n].section = first(n)
  <2> HIDE DEF ofPass
  <2>1. ASSUME NEW n \in 0 .. L
        PROVE  pending[n].section = first(n)
    <3>1. first(n) \in ofPass /\ first(n).number = n
      BY <1>2
    <3> HIDE DEF first
    <3> QED
      BY <1>1, <3>1
  <2> QED
    BY <2>1
<1>7. \A n \in 0 .. L : pending[n].section.length = g[n].section.length
  BY <1>5, <1>6
<1> HIDE DEF g
<1>8. AggregatedLength(0 .. L, pending) = AggregatedLength(0 .. L, g)
  BY <1>7, SameLength
<1>9. AggregatedLength(numbers, g) > MaxSectionLength
  BY <1>3, <1>4, <1>8 DEF IsTooLong
<1>10. Cardinality(ofPass) > 1
  <2>1. PICK a \in ofPass : a.number = 0
    BY <1>2
  <2>2. PICK b \in ofPass : b.number = L
    BY <1>2
  <2>3. a # b
    BY <2>1, <2>2
  <2>4. IsFiniteSet(ofPass)
    BY FS_Subset
  <2> HIDE DEF ofPass
  <2>5. Cardinality(ofPass) \in Nat
    BY <2>4, FS_CardinalityType
  <2>6. Cardinality(ofPass) # 0
    BY <2>1, <2>4, FS_EmptySet
  <2>7. Cardinality(ofPass) # 1
    <3> SUFFICES ASSUME Cardinality(ofPass) = 1 PROVE FALSE
      OBVIOUS
    <3>1. PICK x : ofPass = {x}
      BY <2>4, FS_Singleton
    <3> QED
      BY <2>1, <2>2, <2>3, <3>1
  <2> QED
    BY <2>5, <2>6, <2>7
<1> QED
  BY <1>9, <1>10 DEF LongIn, g

\* What arrives later changes nothing for a transmission that was to be built before.
LEMMA StillToBuild ==
  ASSUME NEW K, NEW A, NEW A2, NEW spoilt, NEW s, NEW u, OrderOK(K, s, FALSE, u), IsSection(s),
         A \subseteq K, A2 = A \/ A2 = A \cup {s}, NEW l \in A, IsToBuild(A2, spoilt, l)
  PROVE  IsToBuild(A, spoilt, l)
<1>1. IsSection(l) /\ WentBefore(l, s, FALSE, u) /\ Kin(l, s)
  BY DEF OrderOK, IsOpen
<1>2. l.number \in Nat /\ s.number \in Nat /\ s.number <= s.last /\ s.last \in Nat
  BY <1>1, SectionNumbers
<1>3. l.number = l.last
  BY DEF IsToBuild, IsLast
<1>4. l.pass # s.pass
  BY <1>1, <1>2, <1>3 DEF WentBefore, Kin, IsOpen
<1>5. {a \in A2 : a.pass = l.pass} = {a \in A : a.pass = l.pass}
  BY <1>4
<1>6. LongIn(A2, l.pass) <=> LongIn(A, l.pass)
  BY <1>5 DEF LongIn
<1>7. ArrivedTo(A2, l.pass, l.last)
  BY DEF IsToBuild
<1>8. l.last \in 0 .. l.number /\ l \in K
  BY <1>2, <1>3
<1>9. ArrivedTo(A, l.pass, l.last)
  BY <1>7, <1>8, SameBelow
<1> QED
  BY <1>6, <1>9 DEF IsToBuild

\* The last section of a transmission that arrived wholly completes its table.
LEMMA LastIsBuilt ==
  ASSUME NEW K, NEW A, NEW A2, NEW spoilt, NEW good, NEW W, NEW s, NEW u,
         OrderOK(K, s, FALSE, u), IsSection(s), s.pass \in W, s.last # 0,
         A2 \subseteq K \cup {s}, IsToBuild(A2, spoilt, s),
         NEW pending, PendingOK(pending), PendingKnown(K, W, pending),
         StackOK(A, spoilt, s, u, pending),
         NEW d, d.section = s, NEW new, HasGrown(new, pending, d), ArePending(A2, s.pass, new),
         Cardinality(DOMAIN new) = s.last + 1 =>
           IsCounted(AggregatePendingSections(new), good, W)
  PROVE  s.pass \in good
<1> DEFINE L == s.last
<1>1. L \in Nat \ {0} /\ s.number = L
  BY SectionNumbers DEF IsToBuild, IsLast
<1>2. PendingOK(new) /\ s.number \in DOMAIN new /\ new[s.number] = d
  BY DEF HasGrown
<1>3. ArrivedTo(A2, s.pass, L) /\ AreAlike(s) /\ ~LongIn(A2, s.pass) /\ s.pass \notin spoilt
  BY DEF IsToBuild
<1>4. ASSUME NEW n \in DOMAIN new
      PROVE  n \in 0 .. L /\ new[n].section.last = L
  <2>1. IsSection(new[n].section) /\ new[n].section.number = n
    BY <1>2 DEF PendingOK, IsComplete
  <2>2. IsSameTable(s, new[n].section)
    BY <1>2 DEF PendingOK
  <2>3. new[n].section.last = L
    BY <1>3, <2>1, <2>2, AlikeSections
  <2>4. n \in Nat /\ n <= new[n].section.last
    BY <2>1, SectionNumbers
  <2> QED
    BY <1>1, <2>3, <2>4
<1>5. ASSUME NEW n \in 0 .. L
      PROVE  n \in DOMAIN new /\ new[n].section.pass = s.pass
  <2>1. PICK a \in A2 : a.pass = s.pass /\ a.number = n
    BY <1>3 DEF ArrivedTo
  <2> QED
    BY <2>1 DEF ArePending
<1>6. DOMAIN new = 0 .. L
  BY <1>4, <1>5
<1>7. Cardinality(DOMAIN new) = L + 1
  <2>1. 0 \in Int /\ L \in Int /\ ~(0 > L)
    BY <1>1
  <2>2. Cardinality(0 .. L) = IF 0 > L THEN 0 ELSE L - 0 + 1
    BY ONLY <2>1, FS_Interval
  <2> QED
    BY <1>6, <2>1, <2>2
<1>8. 0 \in 0 .. L
  BY <1>1
<1>9. s.pass \in good \/ IsTooLong(new)
  <2>1. 0 \in DOMAIN new /\ new[0].section.pass = s.pass
    BY <1>5, <1>8
  <2> QED
    BY <1>3, <1>7, <2>1, CompletedIsGood
<1>10. IsFiniteSet(A2)
  <2>1. IsFiniteSet(K \cup {s})
    BY FS_AddElement DEF OrderOK
  <2> QED
    BY <2>1, FS_Subset
<1>11. ~IsTooLong(new)
  <2>1. new[0].section.last = L
    BY <1>4, <1>6, <1>8
  <2> HIDE DEF L
  <2> QED
    BY <1>1, <1>3, <1>6, <1>10, <2>1, LengthOfPending
<1> QED
  BY <1>9, <1>11

LEMMA NewTableIsOwn ==
  ASSUME NEW K, NEW A, NEW spoilt, NEW s, NEW u, OrderOK(K, s, TRUE, u),
         NEW new, PendingOK(new), \A n \in DOMAIN new : new[n].section \in K,
         StackOK(A, spoilt, s, u, new),
         NEW table, table = AggregatePendingSections(new)
  PROVE  TableFlows(K, A, spoilt, table)
<1>1. CASE table = <<>>
  BY <1>1 DEF TableFlows
<1>2. CASE table # <<>>
  <2>1. IsTableOf(table, new)
    BY <1>2, TableOfPending
  <2>2. table \in Seq(Range(table))
    BY <2>1 DEF IsTableOf
  <2>3. PICK n \in DOMAIN new : table[Len(table)] = new[n]
    BY <2>1 DEF IsTableOf
  <2> DEFINE x == new[n].section
  <2>4. x.number = n /\ \A m \in DOMAIN new : new[m].section.number = m /\ m \in Nat
    BY DEF PendingOK
  <2>5. \A m \in DOMAIN new : new[m].section.pass \in Nat
    BY DEF OrderOK, WentBefore
  <2>6. ASSUME x.pass \notin spoilt, ArrivedTo(A, x.pass, x.number),
               \A r \in PassesOf(table) : r <= x.pass
        PROVE  PassesOf(table) = {x.pass}
    <3>1. ASSUME NEW j \in DOMAIN table
          PROVE  table[j].section.pass = x.pass
      <4>1. PICK m \in DOMAIN new : table[j] = new[m]
        BY <2>1 DEF IsTableOf
      <4>2. m <= n
        <5>1. table[j].section.number <= table[Len(table)].section.number
          BY <2>1 DEF IsTableOf, Rising
        <5> QED
          BY <2>3, <2>4, <4>1, <5>1
      <4>3. table[j].section.pass <= x.pass
        BY <2>6 DEF PassesOf
      <4>4. CASE m < n
        <5>1. NoneOlder(A, spoilt, new, n)
          BY DEF StackOK
        <5>2. new[m].section.pass >= x.pass
          BY <2>4, <2>6, <4>4, <5>1 DEF NoneOlder
        <5> QED
          BY <2>5, <4>1, <4>3, <5>2
      <4> QED
        BY <2>4, <4>1, <4>2, <4>4
    <3>2. DOMAIN table # {}
      BY <2>1 DEF IsTableOf
    <3> QED
      BY <3>1, <3>2 DEF PassesOf
  <2>7. OwnTable(A, spoilt, table)
    BY <2>3, <2>6 DEF OwnTable
  <2>8. \A i \in DOMAIN table : table[i].section \in K
    BY <2>1 DEF IsTableOf
  <2> QED
    BY <2>2, <2>7, <2>8 DEF TableFlows
<1> QED
  BY <1>1, <1>2

LEMMA TablesStay ==
  ASSUME NEW K, NEW A, NEW A2, NEW spoilt, NEW s, NEW u, OrderOK(K, s, FALSE, u),
         A2 = A \/ A2 = A \cup {s}, NEW table, TableFlows(K, A, spoilt, table)
  PROVE  TableFlows(K \cup {s}, A2, spoilt, table)
<1>1. CASE table = <<>>
  BY <1>1 DEF TableFlows
<1>2. CASE table # <<>>
  <2> DEFINE x == table[Len(table)].section
  <2>1. x \in K
    <3>1. Len(table) \in 1 .. Len(table) /\ DOMAIN table = 1 .. Len(table)
      BY <1>2, LenProperties, EmptySeq DEF TableFlows
    <3> QED
      BY <3>1 DEF TableFlows
  <2>2. x.number \in 0 .. x.number
    <3>1. IsSection(x)
      BY <2>1 DEF OrderOK
    <3>2. x.number \in Nat
      BY <3>1, SectionNumbers
    <3> QED
      BY <3>2
  <2>3. ArrivedTo(A2, x.pass, x.number) => ArrivedTo(A, x.pass, x.number)
    BY <2>1, <2>2, SameBelow
  <2>4. OwnTable(A, spoilt, table)
    BY <1>2 DEF TableFlows
  <2>5. OwnTable(A2, spoilt, table)
    BY <2>3, <2>4 DEF OwnTable
  <2> QED
    BY <2>5 DEF TableFlows
<1> QED
  BY <1>1, <1>2

LEMMA BuiltStays ==
  ASSUME NEW K, NEW A, NEW A2, NEW spoilt, NEW good, NEW s, NEW u, OrderOK(K, s, FALSE, u),
         IsSection(s), A \subseteq K, A2 = A \/ A2 = A \cup {s}, BuiltOK(A, spoilt, good),
         s \in A2 /\ IsToBuild(A2, spoilt, s) => s.pass \in good
  PROVE  BuiltOK(A2, spoilt, good)
<1> SUFFICES ASSUME NEW l \in A2, IsToBuild(A2, spoilt, l)
             PROVE  l.pass \in good
  BY DEF BuiltOK
<1>1. CASE l \in A
  BY <1>1, StillToBuild DEF BuiltOK
<1>2. CASE l = s
  BY <1>2
<1> QED
  BY <1>1, <1>2

\* What is suspended is followed on, whether s arrives or not.
LEMMA SuspendedFollows ==
  ASSUME NEW K, NEW A, NEW A2, NEW spoilt, NEW good, NEW s, NEW u, NEW live,
         OrderOK(K, s, FALSE, u), A2 = A \/ A2 = A \cup {s},
         NEW pending, StackOK(A, spoilt, s, u, pending),
         FollowsOK(A, spoilt, good, s, FALSE, u, live, pending),
         NEW new, s.last = 0 => new = pending,
         NEW o, u = <<o>>
  PROVE  IsFollowed(A2, spoilt, good, o.pass, new)
<1>1. CASE s.last # 0
  BY <1>1 DEF StackOK, IsFollowed
<1>2. CASE s.last = 0
  <2>1. IsFollowed(A, spoilt, good, o.pass, pending) /\ o.pass # s.pass
    BY DEF FollowsOK, OrderOK
  <2>2. \A a \in A2 : a.pass = o.pass => a \in A
    BY <2>1
  <2> QED
    BY <1>2, <2>1, <2>2 DEF IsFollowed, ArePending
<1> QED
  BY <1>1, <1>2

-----------------------------------------------------------------------------
(* A section is done, and the next one begins *)

\* The state [pending, tables] behind c, a completed section or none.
After(st, c) == IF c = <<>> THEN st ELSE DeliverCompletedSection(st, c[1])

\* What a section delivered comes to.
LEMMA DeliveredForms ==
  ASSUME NEW st, DeliveryOK(st), NEW d, IsComplete(d),
         NEW st2, st2 = DeliverCompletedSection(st, d),
         NEW new, new = PendingWith(st.pending, d)
  PROVE  \/ /\ d.section.last = 0 /\ st2.pending = st.pending
            /\ Range(st2.tables) = Range(st.tables) \cup {<<d>>}
         \/ /\ d.section.last # 0 /\ Cardinality(DOMAIN new) = d.section.last + 1
            /\ st2.pending = NoSections
            /\ Range(st2.tables) = Range(st.tables) \cup {AggregatePendingSections(new)}
         \/ /\ d.section.last # 0 /\ Cardinality(DOMAIN new) # d.section.last + 1
            /\ st2.pending = new /\ Range(st2.tables) = Range(st.tables)
<1> DEFINE s == d.section
<1>1. st = [pending |-> st.pending, tables |-> st.tables] /\ st.tables \in Seq(Range(st.tables))
  BY DEF DeliveryOK, TablesOK
<1>2. ASSUME NEW table
      PROVE  Range(Append(st.tables, table)) = Range(st.tables) \cup {table}
  <2> DEFINE seq == st.tables
             R == Range(seq) \cup {table}
  <2>1. seq \in Seq(R) /\ Len(seq) \in Nat /\ DOMAIN seq = 1 .. Len(seq)
    <3> HIDE DEF seq
    <3>1. seq \in Seq(Range(seq))
      BY <1>1 DEF seq
    <3> QED
      BY <3>1, SeqMonotonic, LenProperties
  <2>2. table \in R
    OBVIOUS
  <2> HIDE DEF seq, R
  <2>3. /\ Len(Append(seq, table)) = Len(seq) + 1
        /\ \A i \in 1 .. Len(seq) : Append(seq, table)[i] = seq[i]
        /\ Append(seq, table)[Len(seq) + 1] = table
        /\ Append(seq, table) \in Seq(R)
    BY <2>1, <2>2, AppendProperties
  <2>4. DOMAIN Append(seq, table) = 1 .. Len(seq) + 1
    BY <2>3, LenProperties
  <2>5. \A i \in 1 .. Len(seq) + 1 : i \in 1 .. Len(seq) \/ i = Len(seq) + 1
    BY <2>1
  <2>6. 1 .. Len(seq) \subseteq 1 .. Len(seq) + 1 /\ Len(seq) + 1 \in 1 .. Len(seq) + 1
    BY <2>1
  <2> QED
    BY <2>1, <2>3, <2>4, <2>5, <2>6 DEF Range, seq
<1>3. IsSection(s)
  BY DEF IsComplete
<1>4. s.number = 0 /\ s.last = 0 <=> s.last = 0
  BY <1>3, SectionNumbers
<1>5. st2 = IF s.number = 0 /\ s.last = 0
            THEN [st EXCEPT !.tables = Append(@, <<d>>)]
            ELSE IF Cardinality(DOMAIN new) = s.last + 1
            THEN [pending |-> NoSections,
                  tables  |-> Append(st.tables, AggregatePendingSections(new))]
            ELSE [st EXCEPT !.pending = new]
  BY DeliverDef
<1> HIDE DEF s
<1>6. CASE s.last = 0
  <2>1. st2 = [st EXCEPT !.tables = Append(@, <<d>>)]
    BY <1>4, <1>5, <1>6
  <2>2. st2.pending = st.pending /\ st2.tables = Append(st.tables, <<d>>)
    BY <1>1, <2>1
  <2> QED
    BY <1>2, <1>6, <2>2 DEF s
<1>7. CASE s.last # 0 /\ Cardinality(DOMAIN new) = s.last + 1
  <2>1. st2 = [pending |-> NoSections,
               tables  |-> Append(st.tables, AggregatePendingSections(new))]
    BY <1>4, <1>5, <1>7
  <2>2. /\ st2.pending = NoSections
        /\ st2.tables = Append(st.tables, AggregatePendingSections(new))
    BY <2>1
  <2> QED
    BY <1>2, <1>7, <2>2 DEF s
<1>8. CASE s.last # 0 /\ Cardinality(DOMAIN new) # s.last + 1
  <2>1. st2 = [st EXCEPT !.pending = new]
    BY <1>4, <1>5, <1>8
  <2>2. st2.pending = new /\ st2.tables = st.tables
    BY <1>1, <2>1
  <2> QED
    BY <1>8, <2>2 DEF s
<1> QED
  BY <1>6, <1>7, <1>8 DEF s

\* s is done, and the builder does not have it.
LEMMA FinishWithout ==
  ASSUME NEW K, NEW A, NEW A2, NEW spoilt, NEW good, NEW W, NEW s, NEW u, NEW live,
         Finishing(K, A, A2, spoilt, W, s, u, live, <<>>),
         NEW pending, NEW tabs, FlowOK(K, A, spoilt, good, W, s, FALSE, u, live, pending, tabs)
  PROVE  FlowOK(K \cup {s}, A2, spoilt, good, W, s, TRUE, u, live, pending, tabs)
<1> DEFINE K2 == K \cup {s}
<1>1. /\ OrderOK(K, s, FALSE, u) /\ IsSection(s) /\ A \subseteq K /\ (A2 = A \/ A2 = A \cup {s})
      /\ s \in A2 => s.pass \in spoilt
  BY DEF Finishing
<1>2. /\ PendingOK(pending) /\ PendingKnown(K, W, pending) /\ StackOK(A, spoilt, s, u, pending)
      /\ FollowsOK(A, spoilt, good, s, FALSE, u, live, pending) /\ BuiltOK(A, spoilt, good)
      /\ \A table \in Range(tabs) : TableFlows(K, A, spoilt, table)
  BY DEF FlowOK
<1>3. OrderOK(K2, s, TRUE, u) /\ s \notin K
  BY <1>1, OrderWhenDone
<1>4. A2 \subseteq K2 /\ PendingKnown(K2, W, pending)
  BY <1>1, <1>2 DEF PendingKnown
<1>5. StackOK(A2, spoilt, s, u, pending)
  <2>1. \A n \in DOMAIN pending : pending[n].section \in K
    BY <1>2 DEF PendingKnown
  <2> QED
    BY <1>1, <1>2, <2>1, StackStays
<1>6. FollowsOK(A2, spoilt, good, s, TRUE, u, live, pending)
  <2>1. \A o : u = <<o>> => IsFollowed(A2, spoilt, good, o.pass, pending)
    BY <1>1, <1>2, SuspendedFollows
  <2>2. ~IsLast(s) => IsFollowed(A2, spoilt, good, s.pass, pending)
    <3>1. CASE s.pass \in spoilt
      BY <3>1 DEF IsFollowed
    <3>2. CASE s.pass \notin spoilt
      <4>1. A2 = A
        BY <1>1, <3>2
      <4> QED
        BY <1>2, <4>1 DEF FollowsOK
    <3> QED
      BY <3>1, <3>2
  <2> QED
    BY <2>1, <2>2 DEF FollowsOK
<1>7. BuiltOK(A2, spoilt, good)
  <2>1. s \in A2 /\ IsToBuild(A2, spoilt, s) => s.pass \in good
    BY <1>1 DEF IsToBuild
  <2> QED
    BY <1>1, <1>2, <2>1, BuiltStays
<1>8. \A table \in Range(tabs) : TableFlows(K2, A2, spoilt, table)
  BY <1>1, <1>2, TablesStay
<1> HIDE DEF K2
<1>9. FlowOK(K2, A2, spoilt, good, W, s, TRUE, u, live, pending, tabs)
  BY <1>2, <1>3, <1>4, <1>5, <1>6, <1>7, <1>8 DEF FlowOK
<1> QED
  BY <1>9 DEF K2

\* s is done, and delivered (deliverCompletedSection:).
LEMMA FinishDelivered ==
  ASSUME NEW K, NEW A, NEW A2, NEW spoilt, NEW good, NEW W, NEW s, NEW u, NEW live, NEW d,
         Finishing(K, A, A2, spoilt, W, s, u, live, <<d>>),
         NEW st, DeliveryOK(st), NEW pending, pending = st.pending,
         FlowOK(K, A, spoilt, good, W, s, FALSE, u, live, pending, st.tables),
         NEW st2, st2 = DeliverCompletedSection(st, d),
         \A table \in Range(st2.tables) : IsCounted(table, good, W),
         NEW K2, K2 = K \cup {s}, NEW new, new = PendingWith(pending, d),
         NEW table2, table2 = AggregatePendingSections(new)
  PROVE  FlowOK(K2, A2, spoilt, good, W, s, TRUE, u, live, st2.pending, st2.tables)
<1>1. /\ OrderOK(K, s, FALSE, u) /\ IsSection(s) /\ A \subseteq K /\ (A2 = A \/ A2 = A \cup {s})
      /\ s \in A2 => live
      /\ IsComplete(d) /\ d.section = s /\ s.pass \in W
  BY DEF Finishing
<1>2. /\ PendingOK(pending) /\ PendingKnown(K, W, pending) /\ StackOK(A, spoilt, s, u, pending)
      /\ FollowsOK(A, spoilt, good, s, FALSE, u, live, pending) /\ BuiltOK(A, spoilt, good)
      /\ \A table \in Range(st.tables) : TableFlows(K, A, spoilt, table)
  BY DEF FlowOK
<1>3. OrderOK(K2, s, TRUE, u) /\ s \notin K /\ A2 \subseteq K2
  BY <1>1, OrderWhenDone
<1>4. HasGrown(new, pending, d)
  BY <1>1, <1>2, PendingHasGrown
<1>5. \A n \in DOMAIN pending : pending[n].section \in K
  BY <1>2 DEF PendingKnown
<1>6. PendingOK(new) /\ PendingKnown(K2, W, new) /\ PendingKnown(K2, W, pending)
  <2>1. /\ PendingOK(new) /\ new[s.number] = d
        /\ \A n \in DOMAIN new : n # s.number => n \in DOMAIN pending /\ new[n] = pending[n]
    BY <1>1, <1>4 DEF HasGrown
  <2> QED
    BY <1>1, <1>2, <2>1 DEF PendingKnown
<1>7. StackOK(A2, spoilt, s, u, pending)
  BY <1>1, <1>2, <1>5, StackStays
<1>8. s.last # 0 => StackOK(A2, spoilt, s, u, new)
  BY <1>1, <1>2, <1>5, StackGrows
<1>9. \A table \in Range(st.tables) : TableFlows(K2, A2, spoilt, table)
  BY <1>1, <1>2, TablesStay
<1>10. ASSUME NEW then, s.last = 0 => then = pending, NEW o, u = <<o>>
       PROVE  IsFollowed(A2, spoilt, good, o.pass, then)
  <2>1. /\ OrderOK(K, s, FALSE, u) /\ StackOK(A, spoilt, s, u, pending)
        /\ FollowsOK(A, spoilt, good, s, FALSE, u, live, pending)
    BY <1>1, <1>2
  <2>2. A2 = A \/ A2 = A \cup {s}
    BY <1>1
  <2> QED
    BY ONLY <1>10, <2>1, <2>2, SuspendedFollows
<1>11. ASSUME NEW first \in A2, first.pass = s.pass, first.number = 0, s.pass \notin spoilt,
              ~IsLast(s) \/ s \in A2
       PROVE  \/ ArePending(A2, s.pass, new)
              \/ IsSettled(s.pass, good, new) /\ Cardinality(DOMAIN new) < s.last + 1
  <2>1. IsFollowed(A, spoilt, good, s.pass, pending)
    BY <1>1, <1>2, <1>11 DEF FollowsOK
  <2> QED
    BY <1>1, <1>2, <1>4, <1>5, <1>11, <2>1, FollowsGrows
<1>12. ASSUME s.last # 0, s \in A2, IsToBuild(A2, spoilt, s),
              Cardinality(DOMAIN new) = s.last + 1 => IsCounted(table2, good, W)
       PROVE  s.pass \in good
  <2>1. PICK first \in A2 : first.pass = s.pass /\ first.number = 0
    <3>1. s.last \in Nat
      BY <1>1, SectionNumbers
    <3>2. 0 \in 0 .. s.last
      BY <3>1
    <3> QED
      BY <1>12, <3>2 DEF IsToBuild, ArrivedTo
  <2>2. s.pass \notin spoilt
    BY <1>12 DEF IsToBuild
  <2>3. CASE ArePending(A2, s.pass, new)
    BY <1>1, <1>2, <1>3, <1>4, <1>12, <2>3, LastIsBuilt
  <2>4. CASE IsSettled(s.pass, good, new)
    BY <2>4 DEF IsSettled
  <2> QED
    BY <1>11, <1>12, <2>1, <2>2, <2>3, <2>4
<1>13. CASE /\ s.last = 0 /\ st2.pending = pending
            /\ Range(st2.tables) = Range(st.tables) \cup {<<d>>}
  <2>1. TableFlows(K2, A2, spoilt, <<d>>)
    <3>1. <<d>> \in Seq({d}) /\ Range(<<d>>) = {d} /\ Len(<<d>>) = 1 /\ DOMAIN <<d>> = {1}
      BY DEF Range
    <3>2. PassesOf(<<d>>) = {s.pass}
      BY <1>1, <3>1 DEF PassesOf
    <3>3. OwnTable(A2, spoilt, <<d>>)
      BY <1>1, <3>1, <3>2 DEF OwnTable
    <3> QED
      BY <1>1, <3>1, <3>3 DEF TableFlows
  <2>2. s.pass \in good
    <3>1. IsCounted(<<d>>, good, W)
      BY <1>13
    <3>2. DOMAIN <<d>> = 1 .. Len(<<d>>) /\ Len(<<d>>) \in Nat \ {0} /\ <<d>>[1].section \in K2
      BY <1>1
    <3>3. \A i \in DOMAIN <<d>> : <<d>>[i].section \in K2
      BY <1>1
    <3>4. \E q \in PassesOf(<<d>>) : q \in good
      BY <1>3, <3>1, <3>2, <3>3, YoungestIsGood
    <3> QED
      BY <1>1, <3>4 DEF PassesOf
  <2>3. BuiltOK(A2, spoilt, good)
    BY <1>1, <1>2, <2>2, BuiltStays
  <2>4. IsLast(s)
    BY <1>1, <1>13, SectionNumbers DEF IsLast
  <2>5. FollowsOK(A2, spoilt, good, s, TRUE, u, live, pending)
    BY <1>10, <2>4 DEF FollowsOK
  <2> QED
    BY <1>2, <1>3, <1>6, <1>7, <1>9, <1>13, <2>1, <2>3, <2>5 DEF FlowOK
<1>14. CASE /\ s.last # 0 /\ Cardinality(DOMAIN new) = s.last + 1
            /\ st2.pending = NoSections
            /\ Range(st2.tables) = Range(st.tables) \cup {table2}
  <2>1. IsCounted(table2, good, W)
    BY <1>14
  <2>2. TableFlows(K2, A2, spoilt, table2)
    <3>1. \A n \in DOMAIN new : new[n].section \in K2
      BY <1>6 DEF PendingKnown
    <3> QED
      BY <1>3, <1>6, <1>8, <1>14, <3>1, NewTableIsOwn
  <2>3. BuiltOK(A2, spoilt, good)
    BY <1>1, <1>2, <1>12, <1>14, <2>1, BuiltStays
  <2>4. ~IsLast(s) => IsFollowed(A2, spoilt, good, s.pass, NoSections)
    <3> SUFFICES ASSUME ~IsLast(s), s.pass \notin spoilt,
                        NEW first \in A2, first.pass = s.pass, first.number = 0
                 PROVE  s.pass \in good
      BY NothingPending DEF IsFollowed, IsSettled
    <3>1. ArePending(A2, s.pass, new)
      <4>1. s.last \in Nat
        BY <1>1, SectionNumbers
      <4> QED
        BY <1>11, <1>14, <4>1
    <3>2. 0 \in DOMAIN new /\ new[0].section.pass = s.pass
      BY <3>1 DEF ArePending
    <3>3. s.pass \in good \/ AreAllOf(s.pass, new)
      <4>1. IsCounted(AggregatePendingSections(new), good, W)
        BY <2>1
      <4>2. \/ s.pass \in good
            \/ IsTooLong(new) /\ AreAllOf(s.pass, new)
        <5>1. /\ OrderOK(K, s, FALSE, u) /\ IsSection(s) /\ s.pass \in W /\ d.section = s
              /\ PendingOK(pending) /\ PendingKnown(K, W, pending)
              /\ StackOK(A, spoilt, s, u, pending) /\ s.pass \notin spoilt
          BY <1>1, <1>2
        <5> QED
          BY ONLY <1>4, <3>2, <4>1, <5>1, CompletedIsGood
      <4> QED
        BY <4>2
    <3>4. ~AreAllOf(s.pass, new)
      <4> SUFFICES ASSUME \A n \in DOMAIN new : new[n].section.pass = s.pass
                   PROVE  FALSE
        BY DEF AreAllOf
      <4>1. s.number \in Nat /\ s.last \in Nat /\ s.number < s.last
        BY <1>1, SectionNumbers DEF IsLast
      <4>2. ASSUME NEW n \in DOMAIN new
            PROVE  n \in 0 .. s.number
        <5>1. new[n].section \in K2 /\ new[n].section.number = n /\ n \in Nat
          BY <1>6 DEF PendingKnown, PendingOK
        <5>2. WentBefore(new[n].section, s, TRUE, u)
          BY <1>3, <5>1 DEF OrderOK
        <5>3. n < s.number \/ n = s.number
          BY <5>1, <5>2 DEF WentBefore, IsOpen
        <5> QED
          BY <4>1, <5>1, <5>3
      <4>3. IsFiniteSet(0 .. s.number) /\ Cardinality(0 .. s.number) = s.number + 1
        <5>1. 0 \in Int /\ s.number \in Int /\ ~(0 > s.number)
          BY <4>1
        <5>2. /\ IsFiniteSet(0 .. s.number)
              /\ Cardinality(0 .. s.number) = IF 0 > s.number THEN 0 ELSE s.number - 0 + 1
          BY ONLY <5>1, FS_Interval
        <5> QED
          BY <5>1, <5>2
      <4>4. Cardinality(DOMAIN new) <= s.number + 1
        <5>1. DOMAIN new \in SUBSET (0 .. s.number)
          BY <4>2
        <5> QED
          BY ONLY <4>3, <5>1, FS_Subset
      <4> QED
        BY <1>14, <4>1, <4>4
    <3> QED
      BY <3>3, <3>4
  <2>5. FollowsOK(A2, spoilt, good, s, TRUE, u, live, NoSections)
    BY <1>10, <1>14, <2>4 DEF FollowsOK
  <2>6. StackOK(A2, spoilt, s, u, NoSections)
    BY <1>2, NothingPending DEF StackOK
  <2>7. PendingKnown(K2, W, NoSections) /\ PendingOK(NoSections)
    BY NothingPending DEF PendingKnown
  <2> QED
    BY <1>3, <1>9, <1>14, <2>2, <2>3, <2>5, <2>6, <2>7 DEF FlowOK
<1>15. CASE /\ s.last # 0 /\ Cardinality(DOMAIN new) # s.last + 1
            /\ st2.pending = new /\ Range(st2.tables) = Range(st.tables)
  <2>1. BuiltOK(A2, spoilt, good)
    BY <1>1, <1>2, <1>12, <1>15, BuiltStays
  <2>2. ~IsLast(s) => IsFollowed(A2, spoilt, good, s.pass, new)
    BY <1>11 DEF IsFollowed
  <2>3. FollowsOK(A2, spoilt, good, s, TRUE, u, live, new)
    BY <1>10, <1>15, <2>2 DEF FollowsOK
  <2> QED
    BY <1>3, <1>6, <1>8, <1>9, <1>15, <2>1, <2>3 DEF FlowOK
<1>16. \/ /\ s.last = 0 /\ st2.pending = pending
          /\ Range(st2.tables) = Range(st.tables) \cup {<<d>>}
       \/ /\ s.last # 0 /\ Cardinality(DOMAIN new) = s.last + 1
          /\ st2.pending = NoSections
          /\ Range(st2.tables) = Range(st.tables) \cup {table2}
       \/ /\ s.last # 0 /\ Cardinality(DOMAIN new) # s.last + 1
          /\ st2.pending = new /\ Range(st2.tables) = Range(st.tables)
  BY <1>1, DeliveredForms
<1> QED
  BY <1>13, <1>14, <1>15, <1>16

\* The section t is that behind o in its table.
IsBehind(t, o) ==
  /\ t.pass = o.pass /\ t.number = o.number + 1 /\ t.last = o.last
  /\ IsSameTable(t, o) /\ ~IsLast(o)

LEMMA BehindIt ==
  ASSUME NEW o, IsSection(o), NEW id, NEW t \in SectionBehind(o, id)
  PROVE  IsBehind(t, o) /\ t.id = id
<1>1. PICK r \in Tables : /\ ~IsLast(o) /\ IsSubTable(r, o) /\ r.version = o.version
                          /\ t = SectionOf(r, o.number + 1, id, o.pass)
  BY DEF SectionBehind
<1>2. PICK q \in Tables : \E n \in 0 .. Len(q.lengths) - 1 : o = SectionOf(q, n, o.id, o.pass)
  BY DEF IsSection
<1>3. PICK n \in 0 .. Len(q.lengths) - 1 : o = SectionOf(q, n, o.id, o.pass)
  BY <1>2
<1>4. /\ o.table = q.table /\ o.extension = q.extension /\ o.version = q.version
      /\ o.last = Len(q.lengths) - 1
  BY <1>3 DEF SectionOf
<1>5. IsSubTable(r, q) /\ r.version = q.version
  BY <1>1, <1>4 DEF IsSubTable
<1>6. r = q
  BY <1>5, SectionAssumption
<1>7. /\ t.id = id /\ t.pass = o.pass /\ t.table = r.table /\ t.version = r.version
      /\ t.number = o.number + 1 /\ t.last = Len(r.lengths) - 1
  BY <1>1 DEF SectionOf
<1> QED
  BY <1>1, <1>4, <1>6, <1>7 DEF IsBehind, IsSameTable

\* The section that comes next: behind the last one, behind the suspended one, or a first one.
LEMMA NextForms ==
  ASSUME NEW s, NEW u, IsSection(s) \/ IsLast(s),
         u = <<>> \/ \E v : u = <<v>> /\ IsSection(v), NEW t \in SectionsAfter(s, u)
  PROVE  /\ IsSection(t) /\ t.id = s.id + 1
         /\ \/ IsBehind(t, s)
            \/ \E v : u = <<v>> /\ IsBehind(t, v)
            \/ u = <<>> /\ t.pass = s.id + 1 /\ t.number = 0
<1>1. IsSection(t)
  BY NextSections
<1>2. CASE t \in SectionBehind(s, s.id + 1)
  <2>1. ~IsLast(s)
    BY <1>2 DEF SectionBehind
  <2> QED
    BY <1>1, <1>2, <2>1, BehindIt
<1>3. CASE t \notin SectionBehind(s, s.id + 1) /\ u # <<>>
  <2>1. PICK v : u = <<v>> /\ IsSection(v)
    BY <1>3
  <2>2. t \in SectionBehind(v, s.id + 1)
    BY <1>3, <2>1 DEF SectionsAfter
  <2> QED
    BY <1>1, <2>1, <2>2, BehindIt
<1>4. CASE t \notin SectionBehind(s, s.id + 1) /\ u = <<>>
  <2>1. PICK r \in Tables : t = SectionOf(r, 0, s.id + 1, s.id + 1)
    BY <1>4 DEF SectionsAfter
  <2>2. t.id = s.id + 1 /\ t.pass = s.id + 1 /\ t.number = 0
    BY <2>1 DEF SectionOf
  <2> QED
    BY <1>1, <1>4, <2>2
<1> QED
  BY <1>2, <1>3, <1>4

\* What is open when t has begun behind s: t, and of what was open something else.
BeginsBehind(t, w, s, u) ==
  /\ IsSection(t) /\ t.id = s.id + 1 /\ t.pass \in Nat /\ t.pass <= t.id
  /\ \/ t.pass > s.id /\ t.number = 0
     \/ \E o : IsOpen(o, s, u) /\ IsBehind(t, o) /\ IsSection(o)
  /\ w = <<>> \/ \E v : w = <<v>> /\ IsSection(v)
  /\ \A o : w = <<o>> =>
       /\ IsOpen(o, s, u) /\ ~IsLast(o) /\ o.pass # t.pass
       /\ IsSection(o) /\ o.pass \in Nat /\ o.pass <= s.id
  /\ \/ w = <<>>
     \/ w = u /\ t.pass = s.pass /\ t.last = s.last
     \/ w = <<s>> /\ s.pass # t.pass /\ ~IsLast(s)

LEMMA OpenBehind ==
  ASSUME NEW K, NEW s, NEW u, NEW done, OrderOK(K, s, done, u),
         u = <<>> \/ \E v : u = <<v>> /\ IsSection(v), NEW t \in SectionsAfter(s, u),
         NEW w, w = SuspendedAfter(s, u, t)
  PROVE  BeginsBehind(t, w, s, u)
<1>1. /\ s.id \in Nat /\ s.pass \in Nat /\ s.pass <= s.id
      /\ IsSection(s) \/ IsLast(s)
      /\ \A o : u = <<o>> =>
           /\ IsSection(o) /\ ~IsLast(o)
           /\ o.pass \in Nat /\ o.pass # s.pass /\ o.pass <= s.id
  BY DEF OrderOK
<1>2. /\ IsSection(t) /\ t.id = s.id + 1
      /\ \/ IsBehind(t, s)
         \/ \E v : u = <<v>> /\ IsBehind(t, v)
         \/ u = <<>> /\ t.pass = s.id + 1 /\ t.number = 0
  BY <1>1, NextForms
<1>3. CASE IsBehind(t, s)
  <2>1. t.pass = s.pass /\ t.last = s.last /\ ~IsLast(s) /\ IsSection(s)
    BY <1>1, <1>3 DEF IsBehind
  <2>2. w = u
    BY <2>1 DEF SuspendedAfter
  <2>3. t.pass \in Nat /\ t.pass <= t.id
    BY <1>1, <1>2, <2>1
  <2>4. \A o : w = <<o>> =>
          /\ IsOpen(o, s, u) /\ ~IsLast(o) /\ o.pass # t.pass
          /\ IsSection(o) /\ o.pass \in Nat /\ o.pass <= s.id
    BY <1>1, <2>1, <2>2 DEF IsOpen
  <2>5. IsOpen(s, s, u)
    BY DEF IsOpen
  <2> QED
    BY <1>2, <1>3, <2>1, <2>2, <2>3, <2>4, <2>5 DEF BeginsBehind
<1>4. ASSUME NEW v, u = <<v>>, IsBehind(t, v)
      PROVE  /\ t.pass # s.pass /\ t.pass \in Nat /\ t.pass <= s.id
             /\ IsOpen(v, s, u) /\ IsBehind(t, v) /\ IsSection(v)
  BY <1>1, <1>4 DEF IsBehind, IsOpen
<1>5. CASE (\E v : u = <<v>> /\ IsBehind(t, v)) \/ (t.pass = s.id + 1 /\ t.number = 0)
  <2>1. t.pass # s.pass /\ t.pass \in Nat /\ t.pass <= t.id
    BY <1>1, <1>2, <1>4, <1>5
  <2>2. w = IF IsLast(s) THEN <<>> ELSE <<s>>
    BY <2>1 DEF SuspendedAfter
  <2>3. \/ t.pass > s.id /\ t.number = 0
        \/ \E o : IsOpen(o, s, u) /\ IsBehind(t, o) /\ IsSection(o)
    BY <1>1, <1>4, <1>5
  <2>4. ~IsLast(s) => IsSection(s)
    BY <1>1
  <2> QED
    BY <1>1, <1>2, <2>1, <2>2, <2>3, <2>4 DEF IsOpen, BeginsBehind
<1> QED
  BY <1>2, <1>3, <1>5

LEMMA OrderWhenBegun ==
  ASSUME NEW K, NEW s, NEW u, OrderOK(K, s, TRUE, u),
         u = <<>> \/ \E v : u = <<v>> /\ IsSection(v), NEW t \in SectionsAfter(s, u),
         NEW w, w = SuspendedAfter(s, u, t)
  PROVE  OrderOK(K, t, FALSE, w)
<1>9. BeginsBehind(t, w, s, u)
  BY OpenBehind
<1>1. /\ IsSection(t) /\ t.id = s.id + 1 /\ t.pass \in Nat /\ t.pass <= t.id
      /\ \/ t.pass > s.id /\ t.number = 0
         \/ \E o : IsOpen(o, s, u) /\ IsBehind(t, o) /\ IsSection(o)
  BY <1>9 DEF BeginsBehind
<1>2. \A o : w = <<o>> =>
        /\ IsOpen(o, s, u) /\ ~IsLast(o) /\ o.pass # t.pass
        /\ IsSection(o) /\ o.pass \in Nat /\ o.pass <= s.id
  BY <1>9 DEF BeginsBehind
<1>3. t.number \in Nat /\ t.last \in Nat /\ s.id \in Nat /\ t.id \in Nat
  BY <1>1, SectionNumbers DEF OrderOK
<1>4. \A o : w = <<o>> =>
        /\ IsSection(o) /\ ~IsLast(o) /\ o.pass \in Nat /\ o.pass # t.pass /\ o.pass <= t.id
  <2>1. \A n \in Nat : n <= s.id => n <= t.id
    BY <1>1, <1>3
  <2> QED
    BY <1>2, <2>1
<1>5. ASSUME NEW x \in K, x.pass = t.pass
      PROVE  /\ x.number < t.number /\ IsSameTable(x, t) /\ x.last = t.last
             /\ x.number # t.number
  <2>1. WentBefore(x, s, TRUE, u) /\ IsSection(x)
    BY DEF OrderOK
  <2>2. x.number \in Nat
    BY <2>1, SectionNumbers
  <2>3. t.pass <= s.id
    BY <1>5, <2>1 DEF WentBefore
  <2>4. PICK o : IsOpen(o, s, u) /\ IsBehind(t, o) /\ IsSection(o)
    BY <1>1, <1>3, <2>3
  <2>5. o.number \in Nat
    BY <2>4, SectionNumbers
  <2>6. x.number < o.number \/ x.number = o.number
    BY <1>5, <2>1, <2>4 DEF WentBefore, IsBehind
  <2>7. Kin(x, o)
    BY <2>4 DEF OrderOK
  <2>8. x.number < t.number
    BY <2>2, <2>4, <2>5, <2>6 DEF IsBehind
  <2> QED
    BY <1>3, <1>5, <2>2, <2>4, <2>7, <2>8 DEF IsBehind, Kin, IsSameTable
<1>6. ASSUME NEW x \in K
      PROVE  WentBefore(x, t, FALSE, w) /\ IsSection(x)
  <2>1. WentBefore(x, s, TRUE, u) /\ IsSection(x)
    BY DEF OrderOK
  <2>2. x.pass \in Nat /\ x.pass <= t.id
    BY <1>1, <1>3, <2>1 DEF WentBefore
  <2>3. ASSUME NEW o, IsOpen(o, t, w), x.pass = o.pass
        PROVE  x.number < o.number \/ (x.number = o.number /\ (o = t => FALSE))
    <3>1. CASE o = t
      BY <1>5, <2>3, <3>1
    <3>2. CASE w = <<o>>
      <4>1. IsOpen(o, s, u) /\ o # t
        BY <1>2, <3>2
      <4> QED
        BY <2>1, <2>3, <4>1 DEF WentBefore
    <3> QED
      BY <2>3, <3>1, <3>2 DEF IsOpen
  <2> QED
    BY <2>1, <2>2, <2>3 DEF WentBefore
<1>7. ASSUME NEW x \in K, NEW o, IsOpen(o, t, w)
      PROVE  Kin(x, o)
  <2>1. CASE o = t
    BY <1>5, <2>1 DEF Kin
  <2>2. CASE w = <<o>>
    BY <1>2, <2>2 DEF OrderOK
  <2> QED
    BY <1>7, <2>1, <2>2 DEF IsOpen
<1>8. IsFiniteSet(K) /\ \A x, y \in K : Kin(x, y)
  BY DEF OrderOK
<1> QED
  BY <1>1, <1>3, <1>4, <1>6, <1>7, <1>8 DEF OrderOK

\* t begins behind s.
LEMMA BeginStep ==
  ASSUME NEW K, NEW A, NEW spoilt, NEW good, NEW W, NEW s, NEW u, NEW live, NEW pending, NEW tabs,
         FlowOK(K, A, spoilt, good, W, s, TRUE, u, live, pending, tabs),
         u = <<>> \/ \E v : u = <<v>> /\ IsSection(v), NEW t \in SectionsAfter(s, u),
         Crosses(s, t) => s.pass \in spoilt /\ t.pass \in spoilt,
         NEW w, w = SuspendedAfter(s, u, t)
  PROVE  FlowOK(K, A, spoilt, good, W, t, FALSE, w, TRUE, pending, tabs)
<1>1. OrderOK(K, s, TRUE, u) /\ A \subseteq K
  BY DEF FlowOK
<1>2. /\ PendingOK(pending) /\ PendingKnown(K, W, pending) /\ StackOK(A, spoilt, s, u, pending)
      /\ FollowsOK(A, spoilt, good, s, TRUE, u, live, pending) /\ BuiltOK(A, spoilt, good)
      /\ \A table \in Range(tabs) : TableFlows(K, A, spoilt, table)
  BY DEF FlowOK
<1>3. OrderOK(K, t, FALSE, w)
  BY <1>1, OrderWhenBegun
<1>13. BeginsBehind(t, w, s, u)
  BY <1>1, OpenBehind
<1>4. /\ IsSection(t) /\ t.id = s.id + 1 /\ t.pass \in Nat
      /\ \/ t.pass > s.id /\ t.number = 0
         \/ \E o : IsOpen(o, s, u) /\ IsBehind(t, o) /\ IsSection(o)
  BY <1>13 DEF BeginsBehind
<1>5. \A o : w = <<o>> => IsOpen(o, s, u) /\ ~IsLast(o) /\ o.pass # t.pass
  BY <1>13 DEF BeginsBehind
<1>6. \/ w = <<>>
      \/ w = u /\ t.pass = s.pass /\ t.last = s.last
      \/ w = <<s>> /\ s.pass # t.pass /\ ~IsLast(s)
  BY <1>13 DEF BeginsBehind
<1>7. ASSUME NEW n \in DOMAIN pending, NEW o, IsOpen(o, t, w)
      PROVE  CameInto(pending[n].section, o, spoilt)
  <2> DEFINE x == pending[n].section
  <2>1. x.pass \in Nat /\ x.pass <= s.id /\ s.id \in Nat
    BY <1>1, <1>2 DEF PendingKnown, OrderOK, WentBefore
  <2>2. \A v : IsOpen(v, s, u) => CameInto(x, v, spoilt)
    BY <1>2 DEF StackOK
  <2>3. CASE w = <<o>>
    BY <1>5, <2>2, <2>3
  <2>4. CASE o = t
    <3>1. CASE t.pass > s.id
      BY <1>4, <2>1, <2>4, <3>1 DEF CameInto
    <3>2. CASE \E v : IsOpen(v, s, u) /\ IsBehind(t, v)
      BY <2>2, <2>4, <3>2 DEF CameInto, IsBehind
    <3> QED
      BY <1>4, <3>1, <3>2
  <2> QED
    BY <1>7, <2>3, <2>4 DEF IsOpen
<1>8. \A o : w = <<o>> /\ t.last # 0 => o.pass \in spoilt /\ t.pass \in spoilt
  <2> SUFFICES ASSUME NEW o, w = <<o>>, t.last # 0
               PROVE  o.pass \in spoilt /\ t.pass \in spoilt
    OBVIOUS
  <2>1. CASE w = u /\ t.pass = s.pass /\ t.last = s.last
    BY <1>2, <2>1 DEF StackOK
  <2>2. CASE w = <<s>> /\ s.pass # t.pass /\ ~IsLast(s)
    <3>1. t.last > 0
      <4>1. t.last \in Nat
        BY <1>4, SectionNumbers
      <4> QED
        BY <4>1
    <3>2. Crosses(s, t)
      BY <2>2, <3>1 DEF Crosses
    <3>3. o = s
      BY <2>2
    <3> QED
      BY <3>2, <3>3
  <2> QED
    BY <1>6, <2>1, <2>2
<1>9. StackOK(A, spoilt, t, w, pending)
  BY <1>2, <1>7, <1>8 DEF StackOK
<1>10. ASSUME NEW o, IsOpen(o, s, u), ~IsLast(o)
       PROVE  IsFollowed(A, spoilt, good, o.pass, pending)
  BY <1>2, <1>10 DEF FollowsOK, IsOpen
<1>11. IsFollowed(A, spoilt, good, t.pass, pending)
  <2>1. CASE t.pass > s.id
    <3>1. \A a \in A : a.pass # t.pass
      BY <1>1, <1>4, <2>1 DEF OrderOK, WentBefore
    <3> QED
      BY <3>1 DEF IsFollowed
  <2>2. CASE \E v : IsOpen(v, s, u) /\ IsBehind(t, v)
    <3>1. PICK v : IsOpen(v, s, u) /\ IsBehind(t, v)
      BY <2>2
    <3>2. IsFollowed(A, spoilt, good, v.pass, pending) /\ t.pass = v.pass
      BY <1>10, <3>1 DEF IsBehind
    <3> QED
      BY <3>2
  <2> QED
    BY <1>4, <2>1, <2>2
<1>12. FollowsOK(A, spoilt, good, t, FALSE, w, TRUE, pending)
  BY <1>5, <1>10, <1>11 DEF FollowsOK
<1> QED
  BY <1>1, <1>2, <1>3, <1>9, <1>12 DEF FlowOK

LEMMA AfterKeeps ==
  ASSUME NEW st, DeliveryOK(st), NEW c, c = <<>> \/ \E d : c = <<d>> /\ IsComplete(d)
  PROVE  DeliveryOK(After(st, c)) /\ Range(st.tables) \subseteq Range(After(st, c).tables)
<1>1. CASE c = <<>>
  BY <1>1 DEF After
<1>2. ASSUME NEW d, c = <<d>>, IsComplete(d)
      PROVE  DeliveryOK(After(st, c)) /\ Range(st.tables) \subseteq Range(After(st, c).tables)
  <2> DEFINE st2 == DeliverCompletedSection(st, d)
  <2>1. After(st, c) = st2
    BY <1>2 DEF After
  <2>2. DeliveryOK(st2)
    BY <1>2, DeliverStep
  <2> HIDE DEF st2
  <2>3. Range(st.tables) \subseteq Range(st2.tables)
    BY <1>2, DeliveredForms DEF st2
  <2> QED
    BY <2>1, <2>2, <2>3
<1> QED
  BY <1>1, <1>2

\* s is done.
LEMMA FinishStep ==
  ASSUME NEW K, NEW A, NEW A2, NEW spoilt, NEW good, NEW W, NEW s, NEW u, NEW live, NEW c,
         Finishing(K, A, A2, spoilt, W, s, u, live, c), NEW st, DeliveryOK(st),
         FlowOK(K, A, spoilt, good, W, s, FALSE, u, live, st.pending, st.tables),
         NEW st2, st2 = After(st, c),
         \A table \in Range(st2.tables) : IsCounted(table, good, W)
  PROVE  FlowOK(K \cup {s}, A2, spoilt, good, W, s, TRUE, u, live, st2.pending, st2.tables)
<1>1. c = <<>> \/ \E d : c = <<d>>
  BY DEF Finishing
<1>2. CASE c = <<>>
  <2>1. st2 = st
    BY <1>2 DEF After
  <2>2. Finishing(K, A, A2, spoilt, W, s, u, live, <<>>)
    BY <1>2
  <2> QED
    BY <2>1, <2>2, FinishWithout
<1>3. ASSUME NEW d, c = <<d>>
      PROVE  FlowOK(K \cup {s}, A2, spoilt, good, W, s, TRUE, u, live, st2.pending, st2.tables)
  <2>1. st2 = DeliverCompletedSection(st, d)
    BY <1>3 DEF After
  <2>2. Finishing(K, A, A2, spoilt, W, s, u, live, <<d>>)
    BY <1>3
  <2> QED
    BY <2>1, <2>2, FinishDelivered
<1> QED
  BY <1>1, <1>2, <1>3

\* More is spoilt, more is good, other transmissions wait, and the tables are new.
LEMMA FlowGrows ==
  ASSUME NEW K, NEW A, NEW spoilt, NEW good, NEW W, NEW s, NEW done, NEW u, NEW live,
         NEW pending, NEW tabs,
         FlowOK(K, A, spoilt, good, W, s, done, u, live, pending, tabs),
         NEW spoilt2, spoilt \subseteq spoilt2, NEW good2, good \subseteq good2,
         NEW W2, \A n \in DOMAIN pending : pending[n].section.pass \in W2
  PROVE  FlowOK(K, A, spoilt2, good2, W2, s, done, u, live, pending, <<>>)
<1>1. /\ OrderOK(K, s, done, u) /\ A \subseteq K
      /\ PendingOK(pending) /\ PendingKnown(K, W, pending) /\ StackOK(A, spoilt, s, u, pending)
      /\ FollowsOK(A, spoilt, good, s, done, u, live, pending) /\ BuiltOK(A, spoilt, good)
  BY DEF FlowOK
<1>2. PendingKnown(K, W2, pending)
  BY <1>1 DEF PendingKnown
<1>3. StackOK(A, spoilt2, s, u, pending)
  <2>1. \A n \in DOMAIN pending : NoneOlder(A, spoilt, pending, n) => NoneOlder(A, spoilt2, pending, n)
    BY DEF NoneOlder
  <2>2. \A x, o : CameInto(x, o, spoilt) => CameInto(x, o, spoilt2)
    BY DEF CameInto
  <2> QED
    BY <1>1, <2>1, <2>2 DEF StackOK
<1>4. FollowsOK(A, spoilt2, good2, s, done, u, live, pending)
  <2>1. \A q : IsFollowed(A, spoilt, good, q, pending) => IsFollowed(A, spoilt2, good2, q, pending)
    BY DEF IsFollowed, IsSettled
  <2> QED
    BY <1>1, <2>1 DEF FollowsOK
<1>5. BuiltOK(A, spoilt2, good2)
  BY <1>1 DEF BuiltOK, IsToBuild
<1>6. Range(<<>>) = {}
  BY DEF Range
<1> QED
  BY <1>1, <1>2, <1>3, <1>4, <1>5, <1>6 DEF FlowOK

\* Nothing has arrived of the transmissions that may go on.
IsCleared(A, s, u) ==
  \A a \in A : /\ ~IsLast(s) => a.pass # s.pass
               /\ \A o : u = <<o>> => a.pass # o.pass

\* Everything pending is given up.
LEMMA FlowRestarts ==
  ASSUME NEW K, NEW A, NEW spoilt, NEW good, NEW W, NEW s, NEW done, NEW u, NEW live,
         NEW pending, NEW tabs,
         FlowOK(K, A, spoilt, good, W, s, done, u, live, pending, tabs), IsCleared(A, s, u)
  PROVE  FlowOK(K, A, spoilt, good, W, s, done, u, FALSE, NoSections, <<>>)
<1>1. /\ OrderOK(K, s, done, u) /\ A \subseteq K
      /\ StackOK(A, spoilt, s, u, pending) /\ BuiltOK(A, spoilt, good)
  BY DEF FlowOK
<1>2. PendingOK(NoSections) /\ DOMAIN NoSections = {}
  BY NothingPending
<1>3. StackOK(A, spoilt, s, u, NoSections) /\ PendingKnown(K, W, NoSections)
  BY <1>1, <1>2 DEF StackOK, PendingKnown
<1>4. FollowsOK(A, spoilt, good, s, done, u, FALSE, NoSections)
  BY DEF FollowsOK, IsFollowed, IsCleared
<1>5. Range(<<>>) = {}
  BY DEF Range
<1> QED
  BY <1>1, <1>2, <1>3, <1>4, <1>5 DEF FlowOK

\* A loss falls into what is unfinished.
LEMMA FlowLoses ==
  ASSUME NEW K, NEW A, NEW spoilt, NEW good, NEW W, NEW s, NEW done, NEW u, NEW live,
         NEW pending, NEW tabs,
         FlowOK(K, A, spoilt, good, W, s, done, u, live, pending, tabs),
         NEW gone, NEW A2, A2 = {a \in A : a.pass \notin gone}, IsCleared(A2, s, u)
  PROVE  FlowOK(K, A2, spoilt, good, W, s, done, u, FALSE, pending, <<>>)
<1>1. /\ OrderOK(K, s, done, u) /\ A \subseteq K
      /\ PendingOK(pending) /\ PendingKnown(K, W, pending)
      /\ StackOK(A, spoilt, s, u, pending) /\ BuiltOK(A, spoilt, good)
  BY DEF FlowOK
<1>2. A2 \subseteq K /\ A2 \subseteq A
  BY <1>1
<1>3. \A q, n : ArrivedTo(A2, q, n) => ArrivedTo(A, q, n)
  BY <1>2 DEF ArrivedTo
<1>4. StackOK(A2, spoilt, s, u, pending)
  <2>1. \A n \in DOMAIN pending : NoneOlder(A, spoilt, pending, n) => NoneOlder(A2, spoilt, pending, n)
    BY <1>3 DEF NoneOlder
  <2> QED
    BY <1>1, <2>1 DEF StackOK
<1>5. FollowsOK(A2, spoilt, good, s, done, u, FALSE, pending)
  BY DEF FollowsOK, IsFollowed, IsCleared
<1>6. BuiltOK(A2, spoilt, good)
  <2> SUFFICES ASSUME NEW l \in A2, IsToBuild(A2, spoilt, l)
               PROVE  l.pass \in good
    BY DEF BuiltOK
  <2>1. {a \in A2 : a.pass = l.pass} = {a \in A : a.pass = l.pass}
    OBVIOUS
  <2>2. LongIn(A2, l.pass) <=> LongIn(A, l.pass)
    BY <2>1 DEF LongIn
  <2>3. IsToBuild(A, spoilt, l)
    BY <1>3, <2>2 DEF IsToBuild
  <2> QED
    BY <1>1, <1>2, <2>3 DEF BuiltOK
<1>7. Range(<<>>) = {}
  BY DEF Range
<1> QED
  BY <1>1, <1>2, <1>4, <1>5, <1>6, <1>7 DEF FlowOK

-----------------------------------------------------------------------------
(* The sections of a packet, one after the other *)

LEMMA FoldOfNothing ==
  ASSUME NEW base
  PROVE  FoldLeft(DeliverCompletedSection, base, <<>>) = base
<1>1. DOMAIN <<>> = 1 .. Len(<<>>) /\ Len(<<>>) = 0
  OBVIOUS
<1>2. PICK f : DeliveredOneByOne(f, base, <<>>)
  BY <1>1, OneByOne
<1> QED
  BY <1>1, <1>2 DEF DeliveredOneByOne

LEMMA FoldOfConcat ==
  ASSUME NEW base, NEW S, NEW q \in Seq(S), NEW c, c = <<>> \/ \E d \in S : c = <<d>>
  PROVE  FoldLeft(DeliverCompletedSection, base, q \o c)
           = After(FoldLeft(DeliverCompletedSection, base, q), c)
<1>1. CASE c = <<>>
  <2>1. q \o c = q
    BY <1>1
  <2> QED
    BY <1>1, <2>1 DEF After
<1>2. ASSUME NEW d \in S, c = <<d>>
      PROVE  FoldLeft(DeliverCompletedSection, base, q \o c)
               = After(FoldLeft(DeliverCompletedSection, base, q), c)
  <2> DEFINE n == Len(q)
             r == q \o c
  <2>1. c \in Seq(S) /\ Len(c) = 1 /\ c[1] = d
    BY <1>2
  <2>2. n \in Nat /\ DOMAIN q = 1 .. n
    BY LenProperties
  <2>3. /\ Len(r) = n + 1 /\ r \in Seq(S)
        /\ \A k \in 1 .. n + 1 : r[k] = IF k <= n THEN q[k] ELSE c[k - n]
    <3>1. c \in Seq(S)
      BY <2>1
    <3>2. /\ r \in Seq(S) /\ Len(r) = n + Len(c)
          /\ \A k \in 1 .. n + Len(c) : r[k] = IF k <= n THEN q[k] ELSE c[k - n]
      BY ONLY <3>1, q \in Seq(S), ConcatProperties
    <3> QED
      BY <2>1, <3>2
  <2> HIDE DEF n, r
  <2>4. DOMAIN r = 1 .. Len(r) /\ Len(r) \in Nat
    BY <2>3, LenProperties
  <2>5. r[n + 1] = d /\ \A k \in 1 .. n : r[k] = q[k]
    BY <2>1, <2>2, <2>3
  <2>6. PICK f : DeliveredOneByOne(f, base, q)
    BY <2>2, OneByOne DEF n
  <2>7. PICK g : DeliveredOneByOne(g, base, r)
    BY <2>4, OneByOne
  <2> DEFINE T == {i \in Nat : i <= n => g[i] = f[i]}
  <2>8. 0 \in T
    BY <2>6, <2>7 DEF DeliveredOneByOne
  <2>9. ASSUME NEW i \in Nat, i \in T
        PROVE  i + 1 \in T
    <3> SUFFICES ASSUME i + 1 <= n
                 PROVE  g[i + 1] = f[i + 1]
      OBVIOUS
    <3>1. PICK k \in 1 .. n : k = i + 1
      BY <2>2
    <3>2. k - 1 = i /\ g[i] = f[i] /\ k \in 1 .. Len(r)
      BY <2>2, <2>3, <2>9, <3>1
    <3>3. g[k] = DeliverCompletedSection(g[k - 1], r[k])
      BY <2>7, <3>2 DEF DeliveredOneByOne
    <3>4. f[k] = DeliverCompletedSection(f[k - 1], q[k])
      BY <2>6, <3>1 DEF DeliveredOneByOne, n
    <3> QED
      BY <2>5, <3>1, <3>2, <3>3, <3>4
  <2>10. Nat \subseteq T
    <3> HIDE DEF T
    <3> QED
      BY <2>8, <2>9, InductionOverNat
  <2>11. g[n] = f[n]
    BY <2>2, <2>10
  <2>12. g[n + 1] = DeliverCompletedSection(g[n], d)
    <3>1. PICK k \in 1 .. Len(r) : k = n + 1
      BY <2>2, <2>3
    <3>2. g[k] = DeliverCompletedSection(g[k - 1], r[k])
      BY <2>7, <3>1 DEF DeliveredOneByOne
    <3>3. k - 1 = n
      BY <2>2, <3>1
    <3> QED
      BY <2>5, <3>1, <3>2, <3>3
  <2>13. /\ FoldLeft(DeliverCompletedSection, base, r) = g[n + 1]
         /\ FoldLeft(DeliverCompletedSection, base, q) = f[n]
    BY <2>3, <2>6, <2>7 DEF DeliveredOneByOne, n
  <2> QED
    BY <1>2, <2>11, <2>12, <2>13 DEF After, r
<1> QED
  BY <1>1, <1>2

LEMMA RangeOfConcat ==
  ASSUME NEW S, NEW q \in Seq(S), NEW r \in Seq(S)
  PROVE  q \o r \in Seq(S) /\ Range(q \o r) = Range(q) \cup Range(r)
<1> DEFINE m == Len(q)
           n == Len(r)
           c == q \o r
<1>1. /\ c \in Seq(S) /\ Len(c) = m + n
      /\ \A k \in 1 .. m + n : c[k] = IF k <= m THEN q[k] ELSE r[k - m]
  BY ONLY q \in Seq(S), r \in Seq(S), ConcatProperties
<1>2. /\ m \in Nat /\ n \in Nat /\ DOMAIN q = 1 .. m /\ DOMAIN r = 1 .. n
  BY LenProperties
<1> HIDE DEF m, n, c
<1>3. DOMAIN c = 1 .. m + n
  BY <1>1, LenProperties
<1>4. ASSUME NEW k \in 1 .. m
      PROVE  k \in 1 .. m + n /\ c[k] = q[k]
  BY <1>1, <1>2
<1>5. ASSUME NEW k \in 1 .. n
      PROVE  m + k \in 1 .. m + n /\ c[m + k] = r[k]
  <2>1. m + k \in 1 .. m + n /\ ~(m + k <= m) /\ (m + k) - m = k
    BY <1>2
  <2> QED
    BY <1>1, <2>1
<1>6. ASSUME NEW k \in 1 .. m + n
      PROVE  (k \in 1 .. m /\ c[k] = q[k]) \/ (k - m \in 1 .. n /\ c[k] = r[k - m])
  BY <1>1, <1>2
<1>7. Range(q) \subseteq Range(c)
  BY <1>2, <1>3, <1>4 DEF Range
<1>8. Range(r) \subseteq Range(c)
  BY <1>2, <1>3, <1>5 DEF Range
<1>9. Range(c) \subseteq Range(q) \cup Range(r)
  BY <1>2, <1>3, <1>6 DEF Range
<1> QED
  BY <1>1, <1>7, <1>8, <1>9 DEF c

LEMMA FlattenOfFew ==
  ASSUME NEW seqs
  PROVE  /\ Len(seqs) = 0 => FlattenSeq(seqs) = seqs
         /\ Len(seqs) = 1 => FlattenSeq(seqs) = seqs[1]
         /\ Len(seqs) = 2 => FlattenSeq(seqs) = seqs[1] \o seqs[2]
<1>1. Len(seqs) = 0 => FlattenSeq(seqs) = seqs
  BY DEF FlattenSeq
<1> DEFINE f == CHOOSE f : IsFlat(f, seqs)
<1>2. Len(seqs) \in {1, 2} => FlattenSeq(seqs) = f[Len(seqs)]
  BY FlattenDef
<1>3. Len(seqs) \in {1, 2} => FlattensTo(f, seqs, Len(seqs))
  <2>1. Len(seqs) \in {1, 2} => IsFlat(f, seqs)
    BY FlatExists
  <2> QED
    BY ONLY <2>1 DEF IsFlat, FlattensTo
<1> HIDE DEF f
<1>4. CASE Len(seqs) = 1
  BY <1>2, <1>3, <1>4 DEF FlattensTo
<1>5. CASE Len(seqs) = 2
  <2>1. f[1] = seqs[1] /\ f[2] = f[1] \o seqs[2]
    BY <1>3, <1>5 DEF FlattensTo
  <2> QED
    BY <1>2, <1>5, <2>1
<1> QED
  BY <1>1, <1>4, <1>5

LEMMA OneOrNone ==
  ASSUME NEW S, NEW c, c = <<>> \/ \E d \in S : c = <<d>>
  PROVE  c \in Seq(S)
<1>1. CASE c = <<>>
  BY <1>1, EmptySeq
<1>2. ASSUME NEW d \in S, c = <<d>>
      PROVE  c \in Seq(S)
  <2>1. <<d>> \in Seq(S)
    OBVIOUS
  <2> QED
    BY <1>2, <2>1
<1> QED
  BY <1>1, <1>2

LEMMA FoldOfOne ==
  ASSUME NEW base, NEW S, NEW c, c = <<>> \/ \E d \in S : c = <<d>>
  PROVE  FoldLeft(DeliverCompletedSection, base, c) = After(base, c)
<1>1. PICK none \in Seq(S) : none = <<>>
  BY EmptySeq
<1>2. c \in Seq(S)
  BY OneOrNone
<1>3. none \o c = c
  BY <1>1, <1>2, ConcatEmptySeq
<1>4. FoldLeft(DeliverCompletedSection, base, none) = base
  BY <1>1, FoldOfNothing
<1>5. FoldLeft(DeliverCompletedSection, base, none \o c)
        = After(FoldLeft(DeliverCompletedSection, base, none), c)
  BY FoldOfConcat
<1> QED
  BY <1>3, <1>4, <1>5

\* A section that starts in a packet, if all of it is there.
WholeIn(piece) == IF Whole(piece) THEN <<Begin(piece)>> ELSE <<>>

\* The state behind the one or two sections that start in a packet.
BehindStarts(st, starts) ==
  IF Len(starts) = 1 THEN After(st, WholeIn(starts[1]))
  ELSE After(After(st, WholeIn(starts[1])), WholeIn(starts[2]))

BehindAll(st, p) ==
  IF p.starts = <<>> THEN After(st, Finished(p))
  ELSE BehindStarts(After(st, Finished(p)), p.starts)

WholesIn(starts) ==
  {Begin(h) : h \in {h \in Range(starts) : Whole(h)}}

\* The sections completed are delivered one after the other: the one in progress, and those
\* that start in the packet.
LEMMA Folded ==
  ASSUME NEW p, NEW base, Finished(p) = <<>> \/ \E d : Finished(p) = <<d>>,
         p.starts = <<>> \/ (\E g : p.starts = <<g>>) \/ (\E g, h : p.starts = <<g, h>>)
  PROVE  /\ FoldLeft(DeliverCompletedSection, base, CompletedIn(p)) = BehindAll(base, p)
         /\ Range(CompletedIn(p)) = Range(Finished(p)) \cup WholesIn(p.starts)
<1> DEFINE fin == Finished(p)
           seqs == [i \in DOMAIN p.starts |->
                      IF Whole(p.starts[i]) THEN <<Begin(p.starts[i])>> ELSE <<>>]
<1>1. CompletedIn(p) = fin \o FlattenSeq(seqs)
  BY DEF CompletedIn
<1>2. Range(<<>>) = {} /\ \A x : Range(<<x>>) = {x}
  BY DEF Range
<1>3. fin = <<>> \/ \E d \in Range(fin) : fin = <<d>>
  BY <1>2
<1>7. FoldLeft(DeliverCompletedSection, base, fin) = After(base, fin)
  <2> HIDE DEF fin
  <2> QED
    BY <1>3, FoldOfOne
<1>4. CASE p.starts = <<>>
  <2>1. Len(seqs) = 0 /\ seqs = <<>>
    BY <1>4
  <2> HIDE DEF seqs, fin
  <2>2. FlattenSeq(seqs) = <<>>
    BY <2>1, FlattenOfFew
  <2> DEFINE S == Range(fin)
  <2>3. fin \in Seq(S)
    BY <1>3, OneOrNone
  <2>4. CompletedIn(p) = fin
    BY <1>1, <2>2, <2>3, ConcatEmptySeq
  <2>5. WholesIn(p.starts) = {}
    BY <1>2, <1>4 DEF WholesIn
  <2> QED
    BY <1>4, <1>7, <2>4, <2>5 DEF BehindAll, fin
<1>5. ASSUME NEW g, p.starts = <<g>>
      PROVE  /\ FoldLeft(DeliverCompletedSection, base, CompletedIn(p)) = BehindAll(base, p)
             /\ Range(CompletedIn(p)) = Range(Finished(p)) \cup WholesIn(p.starts)
  <2> DEFINE S == Range(fin) \cup {Begin(g)}
             one == WholeIn(g)
  <2>1. Len(seqs) = 1 /\ seqs[1] = one
    BY <1>5 DEF WholeIn
  <2>2. Len(p.starts) = 1 /\ p.starts[1] = g /\ p.starts # <<>> /\ Range(p.starts) = {g}
    BY <1>2, <1>5
  <2> HIDE DEF seqs
  <2>3. FlattenSeq(seqs) = one
    BY <2>1, FlattenOfFew
  <2>4. fin \in Seq(S)
    BY <1>3, OneOrNone
  <2>5. one = <<>> \/ \E d \in S : one = <<d>>
    BY DEF WholeIn
  <2>6. one \in Seq(S) /\ Range(one) = WholesIn(p.starts)
    <3>1. CASE Whole(g)
      BY <1>2, <2>2, <3>1 DEF WholeIn, WholesIn
    <3>2. CASE ~Whole(g)
      BY <1>2, <2>2, <3>2 DEF WholeIn, WholesIn
    <3> QED
      BY <3>1, <3>2
  <2> HIDE DEF S, one, fin
  <2>7. FoldLeft(DeliverCompletedSection, base, fin \o one) = After(After(base, fin), one)
    BY <1>7, <2>4, <2>5, FoldOfConcat
  <2>8. Range(fin \o one) = Range(fin) \cup Range(one)
    BY <2>4, <2>6, RangeOfConcat
  <2> QED
    BY <1>1, <2>2, <2>3, <2>6, <2>7, <2>8 DEF BehindAll, BehindStarts, one, fin
<1>6. ASSUME NEW g, NEW h, p.starts = <<g, h>>
      PROVE  /\ FoldLeft(DeliverCompletedSection, base, CompletedIn(p)) = BehindAll(base, p)
             /\ Range(CompletedIn(p)) = Range(Finished(p)) \cup WholesIn(p.starts)
  <2> DEFINE S == Range(fin) \cup {Begin(g), Begin(h)}
             one == WholeIn(g)
             two == WholeIn(h)
  <2>1. Len(seqs) = 2 /\ seqs[1] = one /\ seqs[2] = two
    BY <1>6 DEF WholeIn
  <2>2. /\ Len(p.starts) = 2 /\ p.starts[1] = g /\ p.starts[2] = h /\ p.starts # <<>>
        /\ Range(p.starts) = {g, h}
    BY <1>6 DEF Range
  <2> HIDE DEF seqs
  <2>3. FlattenSeq(seqs) = one \o two
    BY <2>1, FlattenOfFew
  <2>4. fin \in Seq(S)
    BY <1>3, OneOrNone
  <2>5. /\ one = <<>> \/ \E d \in S : one = <<d>>
        /\ two = <<>> \/ \E d \in S : two = <<d>>
    BY DEF WholeIn
  <2>6. /\ one \in Seq(S) /\ Range(one) = IF Whole(g) THEN {Begin(g)} ELSE {}
        /\ two \in Seq(S) /\ Range(two) = IF Whole(h) THEN {Begin(h)} ELSE {}
    <3>1. \A x : Whole(x) => WholeIn(x) = <<Begin(x)>> /\ Range(WholeIn(x)) = {Begin(x)}
      BY <1>2 DEF WholeIn
    <3>2. \A x : ~Whole(x) => WholeIn(x) = <<>> /\ Range(WholeIn(x)) = {}
      BY <1>2 DEF WholeIn
    <3>3. one \in Seq(S) /\ two \in Seq(S)
      BY <2>5, OneOrNone
    <3> QED
      BY <3>1, <3>2, <3>3
  <2>7. WholesIn(p.starts) = Range(one) \cup Range(two)
    BY <2>2, <2>6 DEF WholesIn
  <2> DEFINE both == fin \o one
  <2> HIDE DEF S, one, two, fin
  <2>8. FoldLeft(DeliverCompletedSection, base, both) = After(After(base, fin), one)
    BY <1>7, <2>4, <2>5, FoldOfConcat
  <2>9. both \in Seq(S) /\ Range(both) = Range(fin) \cup Range(one)
    BY <2>4, <2>6, RangeOfConcat
  <2> HIDE DEF both
  <2>10. FoldLeft(DeliverCompletedSection, base, both \o two)
           = After(After(After(base, fin), one), two)
    BY <2>5, <2>8, <2>9, FoldOfConcat
  <2>11. Range(both \o two) = Range(fin) \cup Range(one) \cup Range(two)
    BY <2>6, <2>9, RangeOfConcat
  <2>12. both \o two = fin \o (one \o two)
    BY <2>4, <2>6, ConcatAssociative DEF both
  <2>13. BehindAll(base, p) = After(After(After(base, fin), one), two)
    BY <2>2 DEF BehindAll, BehindStarts, one, two, fin
  <2> QED
    BY <1>1, <2>3, <2>7, <2>10, <2>11, <2>12, <2>13 DEF fin
<1> QED
  BY <1>4, <1>5, <1>6

-----------------------------------------------------------------------------
(* What a packet carries *)

\* A sequence of at most one section.
IsSuspension(u) == u = <<>> \/ \E v : u = <<v>> /\ IsSection(v)

AreCounted(tabs, good, W) == \A table \in Range(tabs) : IsCounted(table, good, W)

\* gone: nothing has arrived of what may go on.
FlowsOn(A, spoilt, good, W, s, done, u, live, gone, st) ==
  /\ \E K : FlowOK(K, A, spoilt, good, W, s, done, u, live, st.pending, st.tables)
  /\ DeliveryOK(st) /\ IsSuspension(u)
  /\ gone => IsCleared(A, s, u)

\* A section t that starts with n bytes may be delivered, as c, and arrive, if all of it is there.
MayCome(t, n, W, A, A2, gone, c) ==
  /\ c = <<>> \/ (n = Size(t) /\ c = <<Begin(HeadOf(t, n))>> /\ t.pass \in W)
  /\ A2 = A \/ (A2 = A \cup {t} /\ n = Size(t) /\ c # <<>> /\ ~gone)

LEMMA ClearBehind ==
  ASSUME NEW K, NEW A, A \subseteq K, NEW s, NEW u, OrderOK(K, s, TRUE, u), IsSuspension(u),
         IsCleared(A, s, u), NEW t \in SectionsAfter(s, u), NEW w, w = SuspendedAfter(s, u, t)
  PROVE  IsCleared(A, t, w)
<1>1. BeginsBehind(t, w, s, u)
  BY OpenBehind DEF IsSuspension
<1>2. ASSUME NEW o, IsOpen(o, s, u), ~IsLast(o), NEW a \in A
      PROVE  a.pass # o.pass
  BY <1>2 DEF IsCleared, IsOpen
<1>3. ASSUME NEW a \in A
      PROVE  a.pass \in Nat /\ a.pass <= s.id /\ s.id \in Nat
  BY DEF OrderOK, WentBefore
<1>4. ASSUME NEW a \in A
      PROVE  a.pass # t.pass
  <2>1. CASE t.pass > s.id
    BY <1>1, <1>3, <2>1 DEF BeginsBehind
  <2>2. CASE \E o : IsOpen(o, s, u) /\ IsBehind(t, o)
    <3>1. PICK o : IsOpen(o, s, u) /\ t.pass = o.pass /\ ~IsLast(o)
      BY <2>2 DEF IsBehind
    <3> QED
      BY <1>2, <3>1
  <2> QED
    BY <1>1, <2>1, <2>2 DEF BeginsBehind
<1>5. ASSUME NEW a \in A, NEW o, w = <<o>>
      PROVE  a.pass # o.pass
  <2>1. IsOpen(o, s, u) /\ ~IsLast(o)
    BY <1>1, <1>5 DEF BeginsBehind
  <2> QED
    BY <1>2, <2>1
<1> QED
  BY <1>4, <1>5 DEF IsCleared

\* A section starts.
LEMMA StartStep ==
  ASSUME NEW A, NEW A2, NEW spoilt, NEW good, NEW W, NEW s, NEW u, NEW live, NEW gone, NEW st,
         FlowsOn(A, spoilt, good, W, s, TRUE, u, live, gone, st),
         NEW t \in SectionsAfter(s, u), NEW n \in 1 .. Size(t),
         Crosses(s, t) => s.pass \in spoilt /\ t.pass \in spoilt,
         NEW w, w = SuspendedAfter(s, u, t), NEW c, MayCome(t, n, W, A, A2, gone, c),
         NEW st2, st2 = After(st, c), AreCounted(st2.tables, good, W),
         NEW done \in BOOLEAN, done <=> n = Size(t)
  PROVE  FlowsOn(A2, spoilt, good, W, t, done, w, TRUE, gone, st2)
<1>1. PICK K : FlowOK(K, A, spoilt, good, W, s, TRUE, u, live, st.pending, st.tables)
  BY DEF FlowsOn
<1>2. DeliveryOK(st) /\ IsSuspension(u) /\ (gone => IsCleared(A, s, u))
  BY DEF FlowsOn
<1>3. OrderOK(K, s, TRUE, u) /\ A \subseteq K
  BY <1>1 DEF FlowOK
<1>4. BeginsBehind(t, w, s, u)
  BY <1>2, <1>3, OpenBehind DEF IsSuspension
<1>5. IsSection(t) /\ IsSuspension(w)
  BY <1>4 DEF BeginsBehind, IsSuspension
<1>6. FlowOK(K, A, spoilt, good, W, t, FALSE, w, TRUE, st.pending, st.tables)
  BY <1>1, <1>2, BeginStep DEF IsSuspension
<1>7. gone => IsCleared(A, t, w)
  BY <1>2, <1>3, ClearBehind
<1>8. CASE n # Size(t)
  <2>1. c = <<>> /\ A2 = A /\ done = FALSE
    BY <1>8 DEF MayCome
  <2>2. st2 = st
    BY <2>1 DEF After
  <2> QED
    BY <1>2, <1>5, <1>6, <1>7, <2>1, <2>2 DEF FlowsOn
<1>9. CASE n = Size(t)
  <2>1. c = <<>> \/ \E d : c = <<d>> /\ IsComplete(d) /\ d.section = t /\ t.pass \in W
    <3>1. HeadOf(t, n).section = t /\ HeadOf(t, n).from = 0 /\ HeadOf(t, n).bytes = n
      BY DEF HeadOf
    <3>2. Whole(HeadOf(t, n)) /\ Begin(HeadOf(t, n)).section = t
      BY <1>9, <3>1 DEF Whole, Begin
    <3>3. IsComplete(Begin(HeadOf(t, n)))
      BY <1>5, <3>2, WholeIsComplete
    <3> QED
      BY <3>2, <3>3 DEF MayCome
  <2>2. OrderOK(K, t, FALSE, w)
    BY <1>6 DEF FlowOK
  <2>3. A2 = A \/ (A2 = A \cup {t} /\ c # <<>> /\ ~gone)
    BY DEF MayCome
  <2>4. t \notin A
    BY <1>3, <1>5, <2>2, OrderWhenDone
  <2>5. Finishing(K, A, A2, spoilt, W, t, w, TRUE, c)
    BY <1>3, <1>5, <2>1, <2>2, <2>3, <2>4 DEF Finishing
  <2>6. \A table \in Range(st2.tables) : IsCounted(table, good, W)
    BY DEF AreCounted
  <2>7. FlowOK(K \cup {t}, A2, spoilt, good, W, t, TRUE, w, TRUE, st2.pending, st2.tables)
    BY <1>2, <1>6, <2>5, <2>6, FinishStep
  <2>8. DeliveryOK(st2)
    BY <1>2, <2>1, AfterKeeps
  <2>9. done = TRUE
    BY <1>9
  <2>10. gone => IsCleared(A2, t, w)
    BY <1>7, <2>3
  <2> QED
    BY <1>5, <2>7, <2>8, <2>9, <2>10 DEF FlowsOn
<1> QED
  BY <1>8, <1>9

LEMMA HeadMayCome ==
  ASSUME NEW t, IsSection(t), NEW n \in 1 .. Size(t), NEW h, h = HeadOf(t, n), NEW W,
         Whole(h) => t.pass \in W, NEW got, NEW hit, NEW gone, hit => got /\ ~gone,
         NEW A, NEW A2, A2 = IF hit /\ Ends(h) THEN A \cup {h.section} ELSE A,
         NEW c, c = IF got THEN WholeIn(h) ELSE <<>>
  PROVE  MayCome(t, n, W, A, A2, gone, c)
<1>1. h.section = t /\ h.from = 0 /\ h.bytes = n
  BY DEF HeadOf
<1>2. Size(t) \in Nat
  BY SectionFields
<1>3. (Whole(h) <=> n = Size(t)) /\ (Ends(h) <=> n = Size(t))
  BY <1>1, <1>2 DEF Whole, Ends
<1>4. WholeIn(h) = IF n = Size(t) THEN <<Begin(h)>> ELSE <<>>
  BY <1>3 DEF WholeIn
<1>5. <<Begin(h)>> # <<>>
  OBVIOUS
<1>6. c = <<>> \/ (n = Size(t) /\ c = <<Begin(h)>> /\ t.pass \in W)
  BY <1>3, <1>4
<1>7. A2 = A \/ (A2 = A \cup {t} /\ n = Size(t) /\ c # <<>> /\ ~gone)
  BY <1>1, <1>3, <1>4, <1>5
<1> QED
  BY <1>6, <1>7 DEF MayCome

\* The sections of two of several sections that meet in p are spoilt.
CrossesIn(p, spoilt) ==
  \A i \in DOMAIN p.starts : Crosses(BeforeStart(p, i), StartOf(p, i)) =>
    BeforeStart(p, i).pass \in spoilt /\ StartOf(p, i).pass \in spoilt

EndedIn(starts) == {h.section : h \in {h \in Range(starts) : Ends(h)}}

\* One or two sections start in a packet.
LEMMA StartsFlow ==
  ASSUME ChannelTypeOK, NEW p, StartsOne(p) \/ StartsTwo(p),
         NEW A, NEW spoilt, NEW good, NEW W, NEW live, NEW gone, NEW st,
         FlowsOn(A, spoilt, good, W, section, TRUE, suspended, live, gone, st),
         CrossesIn(p, spoilt), \A d \in WholesIn(p.starts) : d.section.pass \in W,
         NEW got, NEW hit, hit => got /\ ~gone,
         NEW A2, A2 = IF hit THEN A \cup EndedIn(p.starts) ELSE A,
         NEW st2, st2 = IF got THEN BehindStarts(st, p.starts) ELSE st,
         AreCounted(st2.tables, good, W),
         NEW t, NEW n, p.starts[Len(p.starts)] = HeadOf(t, n),
         NEW done \in BOOLEAN, done <=> n = Size(t)
  PROVE  FlowsOn(A2, spoilt, good, W, t, done, SuspendedBehind(p, Len(p.starts)), TRUE, gone, st2)
<1>1. \A x, m, y, k : HeadOf(x, m) = HeadOf(y, k) => x = y /\ m = k
  <2> SUFFICES ASSUME NEW x, NEW m, NEW y, NEW k, HeadOf(x, m) = HeadOf(y, k)
               PROVE  x = y /\ m = k
    OBVIOUS
  <2>1. HeadOf(x, m).section = HeadOf(y, k).section /\ HeadOf(x, m).bytes = HeadOf(y, k).bytes
    OBVIOUS
  <2> QED
    BY <2>1 DEF HeadOf
<1>2. \A x, m : HeadOf(x, m).section = x
  BY DEF HeadOf
<1>3. ASSUME NEW x, NEW m, Whole(HeadOf(x, m)), HeadOf(x, m) \in Range(p.starts)
      PROVE  x.pass \in W
  <2>1. Begin(HeadOf(x, m)) \in WholesIn(p.starts)
    BY <1>3 DEF WholesIn
  <2>2. Begin(HeadOf(x, m)).section = x
    BY <1>2 DEF Begin
  <2> QED
    BY <2>1, <2>2
<1>4. DeliveryOK(st) /\ IsSuspension(suspended)
  BY DEF FlowsOn
<1>5. CASE StartsOne(p)
  <2>1. PICK x \in SectionsAfter(section, suspended) :
          \E k \in 1 .. Size(x) : p.starts = <<HeadOf(x, k)>>
    BY <1>5 DEF StartsOne
  <2>2. PICK k \in 1 .. Size(x) : p.starts = <<HeadOf(x, k)>>
    BY <2>1
  <2>3. /\ Len(p.starts) = 1 /\ p.starts[1] = HeadOf(x, k) /\ 1 \in DOMAIN p.starts
        /\ Range(p.starts) = {HeadOf(x, k)}
    BY <2>2 DEF Range
  <2>4. t = x /\ n = k
    BY <1>1, <2>3
  <2> DEFINE h == HeadOf(x, k)
             c == IF got THEN WholeIn(h) ELSE <<>>
             w == SuspendedAfter(section, suspended, x)
  <2>5. IsSection(x)
    BY SentFields
  <2>6. StartOf(p, 1) = x /\ BeforeStart(p, 1) = section
    BY <1>2, <2>3 DEF StartOf, BeforeStart
  <2>7. SuspendedBehind(p, Len(p.starts)) = w
    BY <2>3, <2>6 DEF SuspendedBehind
  <2>8. Crosses(section, x) => section.pass \in spoilt /\ x.pass \in spoilt
    BY <2>3, <2>6 DEF CrossesIn
  <2>9. A2 = IF hit /\ Ends(h) THEN A \cup {h.section} ELSE A
    <3>1. CASE Ends(h)
      BY <2>3, <3>1 DEF EndedIn
    <3>2. CASE ~Ends(h)
      <4>1. EndedIn(p.starts) = {}
        BY <2>3, <3>2 DEF EndedIn
      <4> QED
        BY <3>2, <4>1
    <3> QED
      BY <3>1, <3>2
  <2>10. Whole(h) => x.pass \in W
    BY <1>3, <2>3
  <2>11. st2 = After(st, c)
    BY <2>3 DEF BehindStarts, After
  <2> HIDE DEF h, c, w
  <2>12. MayCome(x, k, W, A, A2, gone, c)
    BY <2>5, <2>9, <2>10, HeadMayCome DEF h, c
  <2>13. FlowsOn(A2, spoilt, good, W, x, done, w, TRUE, gone, st2)
    <3>1. done <=> k = Size(x)
      BY <2>4
    <3>2. w = SuspendedAfter(section, suspended, x)
      BY DEF w
    <3>3. CASE done = TRUE
      <4>1. FlowsOn(A2, spoilt, good, W, x, TRUE, w, TRUE, gone, st2)
        BY <2>8, <2>11, <2>12, <3>2, <3>1, <3>3, StartStep
      <4> QED
        BY <3>3, <4>1
    <3>4. CASE done = FALSE
      <4>1. FlowsOn(A2, spoilt, good, W, x, FALSE, w, TRUE, gone, st2)
        BY <2>8, <2>11, <2>12, <3>2, <3>1, <3>4, StartStep
      <4> QED
        BY <3>4, <4>1
    <3> QED
      BY <3>3, <3>4
  <2> QED
    BY <2>4, <2>7, <2>13
<1>6. CASE StartsTwo(p)
  <2>1. PICK y \in SectionsAfter(section, suspended) :
          \E x \in SectionsAfter(y, SuspendedAfter(section, suspended, y)) :
            \E k \in 1 .. Size(x) : p.starts = <<HeadOf(y, Size(y)), HeadOf(x, k)>>
    BY <1>6 DEF StartsTwo
  <2>2. PICK x \in SectionsAfter(y, SuspendedAfter(section, suspended, y)) :
          \E k \in 1 .. Size(x) : p.starts = <<HeadOf(y, Size(y)), HeadOf(x, k)>>
    BY <2>1
  <2>3. PICK k \in 1 .. Size(x) : p.starts = <<HeadOf(y, Size(y)), HeadOf(x, k)>>
    BY <2>2
  <2> DEFINE g == HeadOf(y, Size(y))
             h == HeadOf(x, k)
             b == IF got THEN WholeIn(g) ELSE <<>>
             c == IF got THEN WholeIn(h) ELSE <<>>
             v == SuspendedAfter(section, suspended, y)
             w == SuspendedAfter(y, v, x)
             A1 == IF hit /\ Ends(g) THEN A \cup {g.section} ELSE A
             st1 == After(st, b)
  <2>4. /\ Len(p.starts) = 2 /\ p.starts[1] = g /\ p.starts[2] = h
        /\ 1 \in DOMAIN p.starts /\ 2 \in DOMAIN p.starts
        /\ Range(p.starts) = {g, h}
    BY <2>3 DEF Range
  <2>5. t = x /\ n = k
    BY <1>1, <2>4
  <2>6. IsSection(y) /\ IsSection(x)
    BY SentFields
  <2>7. Size(y) \in 1 .. Size(y)
    BY <2>6, SectionFields
  <2>8. /\ StartOf(p, 1) = y /\ BeforeStart(p, 1) = section
        /\ StartOf(p, 2) = x /\ BeforeStart(p, 2) = y
    BY <1>2, <2>4 DEF StartOf, BeforeStart
  <2>9. SuspendedBehind(p, Len(p.starts)) = w
    BY <2>4, <2>8 DEF SuspendedBehind
  <2>10. /\ Crosses(section, y) => section.pass \in spoilt /\ y.pass \in spoilt
         /\ Crosses(y, x) => y.pass \in spoilt /\ x.pass \in spoilt
    BY <2>4, <2>8 DEF CrossesIn
  <2>11. EndedIn(p.starts) = (IF Ends(g) THEN {g.section} ELSE {})
                               \cup (IF Ends(h) THEN {h.section} ELSE {})
    <3> HIDE DEF g, h
    <3> QED
      BY <2>4 DEF EndedIn
  <2>12. A2 = IF hit /\ Ends(h) THEN A1 \cup {h.section} ELSE A1
    <3> HIDE DEF g, h
    <3>1. CASE ~hit
      BY <3>1
    <3>2. CASE hit /\ Ends(g)
      BY <2>11, <3>2
    <3>3. CASE hit /\ ~Ends(g)
      BY <2>11, <3>3
    <3> QED
      BY <3>1, <3>2, <3>3
  <2>13. (Whole(g) => y.pass \in W) /\ (Whole(h) => x.pass \in W)
    BY <1>3, <2>4
  <2>14. st2 = After(st1, c)
    BY <2>4 DEF BehindStarts, After
  <2>15. MayCome(y, Size(y), W, A, A1, gone, b)
    <3>1. A1 = IF hit /\ Ends(g) THEN A \cup {g.section} ELSE A
      OBVIOUS
    <3>2. g = HeadOf(y, Size(y)) /\ b = IF got THEN WholeIn(g) ELSE <<>>
      OBVIOUS
    <3> HIDE DEF g, h, b, c, v, w, A1, st1
    <3> QED
      BY <2>6, <2>7, <2>13, <3>1, <3>2, HeadMayCome
  <2>16. MayCome(x, k, W, A1, A2, gone, c)
    <3>2. h = HeadOf(x, k) /\ c = IF got THEN WholeIn(h) ELSE <<>>
      OBVIOUS
    <3> HIDE DEF g, h, b, c, v, w, A1, st1
    <3> QED
      BY <2>6, <2>12, <2>13, <3>2, HeadMayCome
  <2>17. Range(st1.tables) \subseteq Range(st2.tables)
    <3>1. DeliveryOK(st1)
      <4>1. b = <<>> \/ \E d : b = <<d>> /\ IsComplete(d)
        BY <2>6, <2>7, WholeIsComplete DEF WholeIn
      <4> HIDE DEF b
      <4> QED
        BY <1>4, <4>1, AfterKeeps
    <3>2. c = <<>> \/ \E d : c = <<d>> /\ IsComplete(d)
      BY <2>6, WholeIsComplete DEF WholeIn
    <3> HIDE DEF st1, c
    <3> QED
      BY <2>14, <3>1, <3>2, AfterKeeps
  <2>18. AreCounted(st1.tables, good, W)
    <3> HIDE DEF st1
    <3> QED
      BY <2>17 DEF AreCounted
  <2>19. st1 = After(st, b) /\ v = SuspendedAfter(section, suspended, y) /\ w = SuspendedAfter(y, v, x)
    OBVIOUS
  <2> HIDE DEF g, h, b, c, v, w, A1, st1
  <2>20. FlowsOn(A1, spoilt, good, W, y, TRUE, v, TRUE, gone, st1)
    BY <2>7, <2>10, <2>15, <2>18, <2>19, StartStep
  <2>21. x \in SectionsAfter(y, v)
    BY <2>2, <2>19
  <2>22. FlowsOn(A2, spoilt, good, W, x, done, w, TRUE, gone, st2)
    <3>1. done <=> k = Size(x)
      BY <2>5
    <3>2. CASE done = TRUE
      <4>1. FlowsOn(A2, spoilt, good, W, x, TRUE, w, TRUE, gone, st2)
        BY <2>10, <2>14, <2>16, <2>19, <2>20, <2>21, <3>1, <3>2, StartStep
      <4> QED
        BY <3>2, <4>1
    <3>3. CASE done = FALSE
      <4>1. FlowsOn(A2, spoilt, good, W, x, FALSE, w, TRUE, gone, st2)
        BY <2>10, <2>14, <2>16, <2>19, <2>20, <2>21, <3>1, <3>3, StartStep
      <4> QED
        BY <3>3, <4>1
    <3> QED
      BY <3>2, <3>3
  <2> QED
    BY <2>5, <2>9, <2>22
<1> QED
  BY <1>5, <1>6

IsDone == sent = Size(section)

\* p has the rest of the section sent last.
HasTheRest(p) == p.cont # <<>> /\ Ends(p.cont[1])

HasBegun ==
  sectionInProgress = <<>>
    \/ \E begun : sectionInProgress = <<begun>> /\ IsBegun(begun, section, sent)

LEMMA RestForms ==
  ASSUME ChannelTypeOK, NEW p, GoesOn(p) \/ StartsSome(p)
  PROVE  /\ p.cont = <<>> \/ \E piece : /\ p.cont = <<piece>>
                                        /\ piece.section = section /\ piece.from = sent
         /\ HasTheRest(p) => ~IsDone /\ p.cont = <<RestOfIt>>
         /\ StartsSome(p) => (HasTheRest(p) <=> ~IsDone)
         /\ GoesOn(p) => /\ ~IsDone /\ p.cont # <<>>
                         /\ HasTheRest(p) <=> LastPiece(p).from + LastPiece(p).bytes = Size(section)
<1>1. /\ Size(section) \in Nat /\ sent \in Nat /\ sent <= Size(section)
      /\ PayloadLength \in Nat
  BY SentFields
<1>2. RestOfIt.section = section /\ RestOfIt.from = sent /\ RestOfIt.bytes = Size(section) - sent
  BY DEF RestOfIt
<1>3. Ends(RestOfIt)
  BY <1>1, <1>2 DEF Ends
<1>4. CASE GoesOn(p)
  <2> DEFINE piece == Piece(section, sent, PayloadLength)
  <2>1. p.cont = <<piece>> /\ ~IsDone /\ p.cont # <<>> /\ p.cont[1] = piece
    BY <1>4 DEF GoesOn, IsDone
  <2>2. piece.section = section /\ piece.from = sent
    BY DEF Piece
  <2>3. LastPiece(p) = piece
    BY <1>4, <2>1, LastPieces
  <2>4. Ends(piece) => piece = RestOfIt
    <3>1. piece.bytes = Smaller(PayloadLength, Size(section) - sent)
      BY DEF Piece
    <3>2. piece.bytes \in Nat
      BY <1>1, <3>1 DEF Smaller
    <3>3. Ends(piece) => piece.bytes = Size(section) - sent
      BY <1>1, <2>2, <3>2 DEF Ends
    <3> QED
      BY <3>1, <3>3 DEF Piece, RestOfIt
  <2>5. ~StartsSome(p)
    BY <1>4 DEF GoesOn, StartsSome
  <2> HIDE DEF piece
  <2> QED
    BY <1>4, <2>1, <2>2, <2>3, <2>4, <2>5 DEF HasTheRest, Ends
<1>5. CASE StartsSome(p)
  <2>1. p.cont = IF IsDone THEN <<>> ELSE <<RestOfIt>>
    BY <1>5 DEF StartsSome, CarriesTheRest, IsDone
  <2>2. ~GoesOn(p)
    BY <1>5 DEF GoesOn, StartsSome
  <2> QED
    BY <1>2, <1>3, <1>5, <2>1, <2>2 DEF HasTheRest
<1> QED
  BY <1>4, <1>5

LEMMA FinishedForms ==
  ASSUME ChannelTypeOK, HasBegun, NEW p, GoesOn(p) \/ StartsSome(p)
  PROVE  /\ Finished(p) = <<>> \/ \E d : /\ Finished(p) = <<d>> /\ IsComplete(d)
                                         /\ d.section = section /\ HasTheRest(p)
         /\ /\ HasTheRest(p) /\ sectionInProgress # <<>>
            /\ Size(section) - sent >= PSI_CRC_LEN
            => Finished(p) # <<>>
<1>1. CASE sectionInProgress = <<>>
  BY <1>1 DEF Finished
<1>2. ASSUME NEW begun, sectionInProgress = <<begun>>, IsBegun(begun, section, sent)
      PROVE  /\ Finished(p) = <<>> \/ \E d : /\ Finished(p) = <<d>> /\ IsComplete(d)
                                             /\ d.section = section /\ HasTheRest(p)
             /\ HasTheRest(p) /\ Size(section) - sent >= PSI_CRC_LEN => Finished(p) # <<>>
  <2>1. /\ Size(section) \in Nat /\ sent \in Nat /\ sent < Size(section) /\ IsSection(section)
        /\ PayloadLength \in Nat \ {0, 1} /\ sectionInProgress[1] = begun /\ sectionInProgress # <<>>
    BY <1>2, SentFields DEF IsBegun
  <2>2. begun.section = section /\ begun.length = sent - SectionHeaderLength
    BY <1>2 DEF IsBegun, IsMade
  <2>3. RemainingBytesInTable(begun) = Size(section) - sent
    BY <2>1, <2>2, SectionFields DEF RemainingBytesInTable, SectionHeaderLength
  <2> DEFINE available == IF p.pusi THEN p.cont[1].bytes ELSE PayloadLength
  <2>4. Finished(p) = IF p.cont # <<>> /\ Completes(begun, available)
                      THEN <<Collect(begun, p.cont[1])>> ELSE <<>>
    BY <2>1 DEF Finished
  <2>5. RestOfIt.bytes = Size(section) - sent
    BY DEF RestOfIt
  <2>6. /\ Completes(begun, available) => HasTheRest(p)
        /\ HasTheRest(p) /\ Size(section) - sent >= PSI_CRC_LEN => Completes(begun, available)
    <3>1. CASE GoesOn(p)
      <4>1. available = PayloadLength /\ p.cont = <<Piece(section, sent, PayloadLength)>>
        BY <3>1 DEF GoesOn
      <4>2. /\ p.cont[1].bytes = Smaller(PayloadLength, Size(section) - sent)
            /\ p.cont[1].from = sent /\ p.cont[1].section = section /\ p.cont # <<>>
        BY <4>1 DEF Piece
      <4> HIDE DEF available
      <4>3. HasTheRest(p) <=> PayloadLength >= Size(section) - sent
        BY <2>1, <4>2 DEF HasTheRest, Ends, Smaller
      <4> QED
        BY <2>1, <2>3, <4>1, <4>3 DEF Completes
    <3>2. CASE StartsSome(p)
      <4>1. HasTheRest(p) /\ p.cont = <<RestOfIt>> /\ p.pusi = TRUE
        <5>1. ~IsDone
          BY <2>1 DEF IsDone
        <5>2. HasTheRest(p) /\ p.cont = <<RestOfIt>>
          BY <3>2, <5>1, RestForms
        <5> QED
          BY <3>2, <5>2 DEF StartsSome
      <4>2. available = Size(section) - sent
        BY <2>5, <4>1
      <4> HIDE DEF available
      <4> QED
        BY <2>1, <2>3, <4>1, <4>2 DEF Completes
    <3> QED
      BY <3>1, <3>2
  <2> HIDE DEF available
  <2>7. HasTheRest(p) => p.cont # <<>>
    BY DEF HasTheRest
  <2>8. Finished(p) = <<>> \/ \E d : Finished(p) = <<d>> /\ IsComplete(d)
    BY <1>2, FinishedIsComplete
  <2>9. Collect(begun, p.cont[1]).section = section
    <3>1. begun \in [section : {section}, data : {begun.data}, length : {begun.length}]
      BY <1>2, <2>2 DEF IsBegun, IsMade
    <3> QED
      BY <3>1 DEF Collect
  <2>10. Finished(p) # <<>> =>
           Completes(begun, available) /\ Finished(p) = <<Collect(begun, p.cont[1])>>
    BY <2>4
  <2>11. ASSUME Finished(p) # <<>>
         PROVE  \E d : Finished(p) = <<d>> /\ IsComplete(d) /\ d.section = section /\ HasTheRest(p)
    <3>1. PICK d : Finished(p) = <<d>> /\ IsComplete(d)
      BY <2>8, <2>11
    <3>2. d = Collect(begun, p.cont[1])
      BY <2>10, <2>11, <3>1
    <3> QED
      BY <2>6, <2>9, <2>10, <2>11, <3>1, <3>2
  <2>12. HasTheRest(p) /\ Size(section) - sent >= PSI_CRC_LEN => Finished(p) # <<>>
    BY <2>4, <2>6, <2>7
  <2> QED
    BY <2>11, <2>12
<1> QED
  BY <1>1, <1>2 DEF HasBegun

\* n bytes of s were sent.
FlowsAt(A, spoilt, good, W, s, n, u, live, gone, st) ==
  /\ n = Size(s) => FlowsOn(A, spoilt, good, W, s, TRUE, u, live, gone, st)
  /\ n # Size(s) => FlowsOn(A, spoilt, good, W, s, FALSE, u, live, gone, st)

\* The section sent last is delivered, as fin, if p has the rest of it, and arrives.
Continues(p, A, A2, W, spoilt, got, hit, gone, live, fin) ==
  /\ hit => got /\ ~gone /\ live
  /\ got => HasBegun
  /\ fin = IF got THEN Finished(p) ELSE <<>>
  /\ fin # <<>> => section.pass \in W
  /\ hit /\ HasTheRest(p) /\ section.pass \notin spoilt => fin # <<>>
  /\ A2 = IF hit /\ HasTheRest(p) THEN A \cup {section} ELSE A

\* The section sent last goes on in a packet, or ends there.
LEMMA ContStep ==
  ASSUME ChannelTypeOK, NEW p, GoesOn(p) \/ StartsSome(p),
         NEW A, NEW spoilt, NEW good, NEW W, NEW live, NEW gone, NEW st,
         FlowsAt(A, spoilt, good, W, section, sent, suspended, live, gone, st),
         NEW got, NEW hit, NEW fin, NEW A2,
         Continues(p, A, A2, W, spoilt, got, hit, gone, live, fin),
         NEW st2, st2 = After(st, fin), AreCounted(st2.tables, good, W),
         NEW n, n = IF HasTheRest(p) THEN Size(section) ELSE sent
  PROVE  FlowsAt(A2, spoilt, good, W, section, n, suspended, live, gone, st2)
<1>1. fin = <<>> \/ \E d : /\ fin = <<d>> /\ IsComplete(d) /\ d.section = section
                           /\ HasTheRest(p)
  BY FinishedForms DEF Continues
<1>2. CASE ~HasTheRest(p)
  <2>1. fin = <<>> /\ A2 = A /\ n = sent
    BY <1>1, <1>2 DEF Continues
  <2>2. st2 = st
    BY <2>1 DEF After
  <2> QED
    BY <2>1, <2>2
<1>3. CASE HasTheRest(p)
  <2>1. sent # Size(section) /\ n = Size(section)
    BY <1>3, RestForms DEF IsDone
  <2>12. FlowsOn(A, spoilt, good, W, section, FALSE, suspended, live, gone, st)
    BY <2>1 DEF FlowsAt
  <2>2. PICK K : FlowOK(K, A, spoilt, good, W, section, FALSE, suspended, live,
                        st.pending, st.tables)
    BY <2>12 DEF FlowsOn
  <2>3. DeliveryOK(st) /\ IsSuspension(suspended) /\ (gone => IsCleared(A, section, suspended))
    BY <2>12 DEF FlowsOn
  <2>4. OrderOK(K, section, FALSE, suspended) /\ A \subseteq K
    BY <2>2 DEF FlowOK
  <2>5. IsSection(section)
    BY <2>1, SentFields
  <2>6. section \notin A
    BY <2>4, <2>5, OrderWhenDone
  <2>7. Finishing(K, A, A2, spoilt, W, section, suspended, live, fin)
    <3>1. fin = <<>> \/ \E d : /\ fin = <<d>> /\ IsComplete(d) /\ d.section = section
                               /\ section.pass \in W
      BY <1>1 DEF Continues
    <3>2. A2 = A \/ A2 = A \cup {section}
      BY DEF Continues
    <3>3. section \in A2 => hit
      BY <2>6 DEF Continues
    <3>4. section \in A2 /\ section.pass \notin spoilt => fin # <<>>
      BY <1>3, <3>3 DEF Continues
    <3>5. section \in A2 => live
      BY <3>3 DEF Continues
    <3> QED
      BY <2>4, <2>5, <3>1, <3>2, <3>4, <3>5 DEF Finishing
  <2>8. \A table \in Range(st2.tables) : IsCounted(table, good, W)
    BY DEF AreCounted
  <2>9. FlowOK(K \cup {section}, A2, spoilt, good, W, section, TRUE, suspended, live,
               st2.pending, st2.tables)
    BY <2>2, <2>3, <2>7, <2>8, FinishStep
  <2>10. DeliveryOK(st2)
    BY <1>1, <2>3, AfterKeeps
  <2>11. gone => IsCleared(A2, section, suspended)
    BY <2>3 DEF Continues
  <2>13. FlowsOn(A2, spoilt, good, W, section, TRUE, suspended, live, gone, st2)
    BY <2>3, <2>9, <2>10, <2>11 DEF FlowsOn
  <2> QED
    BY <2>1, <2>13 DEF FlowsAt
<1> QED
  BY <1>2, <1>3

\* The sections that start in p are delivered (got), and arrive (hit), or not.
Starting(p, A, A2, W, spoilt, got, hit, gone, st, st2) ==
  /\ CrossesIn(p, spoilt)
  /\ \A d \in WholesIn(p.starts) : d.section.pass \in W
  /\ hit => got /\ ~gone
  /\ A2 = IF hit THEN A \cup EndedIn(p.starts) ELSE A
  /\ st2 = IF got THEN BehindStarts(st, p.starts) ELSE st

LEMMA StartsStep ==
  ASSUME ChannelTypeOK, NEW p, StartsOne(p) \/ StartsTwo(p),
         NEW A, NEW spoilt, NEW good, NEW W, NEW live, NEW gone, NEW st,
         FlowsOn(A, spoilt, good, W, section, TRUE, suspended, live, gone, st),
         NEW got, NEW hit, NEW A2, NEW st2,
         Starting(p, A, A2, W, spoilt, got, hit, gone, st, st2), AreCounted(st2.tables, good, W),
         NEW t, NEW n, p.starts[Len(p.starts)] = HeadOf(t, n), NEW w,
         w = SuspendedBehind(p, Len(p.starts))
  PROVE  FlowsAt(A2, spoilt, good, W, t, n, w, TRUE, gone, st2)
<1>1. /\ CrossesIn(p, spoilt) /\ \A d \in WholesIn(p.starts) : d.section.pass \in W
      /\ hit => got /\ ~gone
      /\ A2 = IF hit THEN A \cup EndedIn(p.starts) ELSE A
      /\ st2 = IF got THEN BehindStarts(st, p.starts) ELSE st
  BY DEF Starting
<1>2. CASE n = Size(t)
  <2>1. FlowsOn(A2, spoilt, good, W, t, TRUE, w, TRUE, gone, st2)
    BY <1>1, <1>2, StartsFlow
  <2> QED
    BY <1>2, <2>1 DEF FlowsAt
<1>3. CASE n # Size(t)
  <2>2. PICK done \in BOOLEAN : done = FALSE
    OBVIOUS
  <2>3. done <=> n = Size(t)
    BY <1>3, <2>2
  <2>4. FlowsOn(A2, spoilt, good, W, t, done, SuspendedBehind(p, Len(p.starts)), TRUE, gone, st2)
    BY <1>1, <2>3, StartsFlow
  <2>1. FlowsOn(A2, spoilt, good, W, t, FALSE, w, TRUE, gone, st2)
    BY <2>2, <2>4
  <2> QED
    BY <1>3, <2>1 DEF FlowsAt
<1> QED
  BY <1>2, <1>3

LEMMA LessLive ==
  ASSUME NEW A, NEW spoilt, NEW good, NEW W, NEW s, NEW done, NEW u, NEW live, NEW gone, NEW st,
         FlowsOn(A, spoilt, good, W, s, done, u, live, gone, st), NEW live2, live2 => live
  PROVE  FlowsOn(A, spoilt, good, W, s, done, u, live2, gone, st)
<1>1. \A pending : FollowsOK(A, spoilt, good, s, done, u, live, pending)
                     => FollowsOK(A, spoilt, good, s, done, u, live2, pending)
  BY DEF FollowsOK
<1>2. ASSUME NEW K, FlowOK(K, A, spoilt, good, W, s, done, u, live, st.pending, st.tables)
      PROVE  FlowOK(K, A, spoilt, good, W, s, done, u, live2, st.pending, st.tables)
  BY <1>1, <1>2 DEF FlowOK
<1> QED
  BY <1>2 DEF FlowsOn

LEMMA LessLiveAt ==
  ASSUME NEW A, NEW spoilt, NEW good, NEW W, NEW s, NEW n, NEW u, NEW live, NEW gone, NEW st,
         FlowsAt(A, spoilt, good, W, s, n, u, live, gone, st), NEW live2, live2 => live
  PROVE  FlowsAt(A, spoilt, good, W, s, n, u, live2, gone, st)
<1>1. CASE n = Size(s)
  BY <1>1, LessLive DEF FlowsAt
<1>2. CASE n # Size(s)
  BY <1>2, LessLive DEF FlowsAt
<1> QED
  BY <1>1, <1>2

\* The sections of which the end arrives in p, if nothing was lost.
ArrivingIn(p) ==
  (IF HasTheRest(p) /\ section = intact THEN {section} ELSE {}) \cup EndedIn(p.starts)

LEMMA LastStart ==
  ASSUME NEW p, StartsOne(p) \/ StartsTwo(p)
  PROVE  p.starts # <<>> /\ Len(p.starts) \in DOMAIN p.starts
<1>1. \/ \E a : p.starts = <<a>>
      \/ \E a, b : p.starts = <<a, b>>
  BY DEF StartsOne, StartsTwo
<1> QED
  BY <1>1

\* What p is to the builder and to those who count: it was spoilt if something met in it, what it
\* completes waits, and it is delivered (got) and counted (hit), or neither.
Carries(p, W, spoilt, got, hit, gone, live) ==
  /\ CrossesIn(p, spoilt)
  /\ \A d \in Range(CompletedIn(p)) : d.section.pass \in W
  /\ hit => got /\ ~gone
  /\ got => HasBegun
  /\ hit /\ section = intact => live
  /\ hit /\ section = intact /\ HasTheRest(p) /\ section.pass \notin spoilt => Finished(p) # <<>>

LEMMA BehindStartsKeeps ==
  ASSUME ChannelTypeOK, NEW p, StartsOne(p) \/ StartsTwo(p), NEW st, DeliveryOK(st)
  PROVE  Range(st.tables) \subseteq Range(BehindStarts(st, p.starts).tables)
<1>1. ASSUME NEW x, IsSection(x), NEW n \in 1 .. Size(x), NEW r, DeliveryOK(r)
      PROVE  /\ DeliveryOK(After(r, WholeIn(HeadOf(x, n))))
             /\ Range(r.tables) \subseteq Range(After(r, WholeIn(HeadOf(x, n))).tables)
  <2> DEFINE c == WholeIn(HeadOf(x, n))
  <2>1. c = <<>> \/ \E d : c = <<d>> /\ IsComplete(d)
    BY <1>1, WholeIsComplete DEF WholeIn
  <2> HIDE DEF c
  <2>2. DeliveryOK(After(r, c)) /\ Range(r.tables) \subseteq Range(After(r, c).tables)
    BY <1>1, <2>1, AfterKeeps
  <2> QED
    BY <2>2 DEF c
<1>2. CASE StartsOne(p)
  <2>1. PICK x \in SectionsAfter(section, suspended) :
          \E k \in 1 .. Size(x) : p.starts = <<HeadOf(x, k)>>
    BY <1>2 DEF StartsOne
  <2>2. PICK k \in 1 .. Size(x) : p.starts = <<HeadOf(x, k)>>
    BY <2>1
  <2>3. IsSection(x)
    BY SentFields
  <2>4. BehindStarts(st, p.starts) = After(st, WholeIn(HeadOf(x, k)))
    BY <2>2 DEF BehindStarts
  <2> QED
    BY <1>1, <2>3, <2>4
<1>3. CASE StartsTwo(p)
  <2>1. PICK y \in SectionsAfter(section, suspended) :
          \E x \in SectionsAfter(y, SuspendedAfter(section, suspended, y)) :
            \E k \in 1 .. Size(x) : p.starts = <<HeadOf(y, Size(y)), HeadOf(x, k)>>
    BY <1>3 DEF StartsTwo
  <2>2. PICK x \in SectionsAfter(y, SuspendedAfter(section, suspended, y)) :
          \E k \in 1 .. Size(x) : p.starts = <<HeadOf(y, Size(y)), HeadOf(x, k)>>
    BY <2>1
  <2>3. PICK k \in 1 .. Size(x) : p.starts = <<HeadOf(y, Size(y)), HeadOf(x, k)>>
    BY <2>2
  <2>4. IsSection(y) /\ IsSection(x)
    BY SentFields
  <2>5. Size(y) \in 1 .. Size(y)
    BY <2>4, SectionFields
  <2> DEFINE st1 == After(st, WholeIn(HeadOf(y, Size(y))))
  <2>6. BehindStarts(st, p.starts) = After(st1, WholeIn(HeadOf(x, k)))
    BY <2>3 DEF BehindStarts
  <2>7. DeliveryOK(st1) /\ Range(st.tables) \subseteq Range(st1.tables)
    BY <1>1, <2>4, <2>5
  <2> HIDE DEF st1
  <2>8. Range(st1.tables) \subseteq Range(After(st1, WholeIn(HeadOf(x, k))).tables)
    BY <1>1, <2>4, <2>7
  <2> QED
    BY <2>6, <2>7, <2>8
<1> QED
  BY <1>2, <1>3

LEMMA PacketFlow ==
  ASSUME ChannelTypeOK, NEW p \in PacketsNext, Send(p),
         NEW A, NEW spoilt, NEW good, NEW W, NEW live, NEW gone, NEW st,
         FlowsAt(A, spoilt, good, W, section, sent, suspended, live, gone, st),
         NEW got, NEW hit, Carries(p, W, spoilt, got, hit, gone, live),
         NEW A2, A2 = IF hit THEN A \cup ArrivingIn(p) ELSE A,
         NEW st2, st2 = IF got THEN BehindAll(st, p) ELSE st, AreCounted(st2.tables, good, W),
         NEW live2, GoesOn(p) /\ live2 => live
  PROVE  FlowsAt(A2, spoilt, good, W, section', sent', suspended', live2, gone, st2)
<1>3. PICK hitc : hitc = (hit /\ section = intact)
  OBVIOUS
<1>15. PICK fin : fin = IF got THEN Finished(p) ELSE <<>>
  OBVIOUS
<1>16. PICK A1 : A1 = IF hitc /\ HasTheRest(p) THEN A \cup {section} ELSE A
  OBVIOUS
<1>17. PICK st1 : st1 = After(st, fin)
  OBVIOUS
<1>18. PICK n : n = IF HasTheRest(p) THEN Size(section) ELSE sent
  OBVIOUS
<1>19. DeliveryOK(st)
  BY DEF FlowsAt, FlowsOn
<1> USE <1>3, <1>15, <1>16, <1>17, <1>18, <1>19
<1>1. /\ GoesOn(p) \/ StartsSome(p)
      /\ section' = LastPiece(p).section /\ sent' = LastPiece(p).from + LastPiece(p).bytes
  BY SendStep
<1>2. suspended' = SuspendedBehind(p, Len(p.starts))
  BY DEF Send
<1>4. Finished(p) = <<>> \/ \E d : Finished(p) = <<d>>
  BY DEF Finished
<1>5. p.starts = <<>> \/ (\E g : p.starts = <<g>>) \/ (\E g, h : p.starts = <<g, h>>)
  BY <1>1 DEF GoesOn, StartsSome, StartsOne, StartsTwo
<1>6. Range(CompletedIn(p)) = Range(Finished(p)) \cup WholesIn(p.starts)
  BY <1>4, <1>5, Folded
<1>7. \A d \in WholesIn(p.starts) : d.section.pass \in W
  BY <1>6 DEF Carries
<1>8. fin # <<>> => section.pass \in W
  <2> SUFFICES ASSUME fin # <<>> PROVE section.pass \in W
    OBVIOUS
  <2>1. got /\ Finished(p) # <<>> /\ HasBegun
    BY DEF Carries
  <2>2. PICK d : Finished(p) = <<d>> /\ d.section = section
    BY <1>1, <2>1, FinishedForms
  <2>3. d \in Range(Finished(p))
    BY <2>2 DEF Range
  <2> QED
    BY <1>6, <2>2, <2>3 DEF Carries
<1>9. st2 = IF p.starts = <<>> \/ ~got THEN st1 ELSE BehindStarts(st1, p.starts)
  BY DEF BehindAll, After
<1>10. A2 = IF hit THEN A1 \cup EndedIn(p.starts) ELSE A1
  <2>1. CASE hitc /\ HasTheRest(p)
    BY <2>1 DEF ArrivingIn
  <2>2. CASE ~(hitc /\ HasTheRest(p))
    BY <2>2 DEF ArrivingIn
  <2> QED
    BY <2>1, <2>2
<1>11. DeliveryOK(st1)
  <2>1. fin = <<>> \/ \E d : fin = <<d>> /\ IsComplete(d)
    BY <1>1, FinishedForms DEF Carries
  <2> QED
    BY <2>1, AfterKeeps
<1>14. Continues(p, A, A1, W, spoilt, got, hitc, gone, live, fin)
  BY <1>8 DEF Carries, Continues
<1>12. CASE GoesOn(p)
  <2>1. p.starts = <<>> /\ Len(p.starts) = 0
    BY <1>12 DEF GoesOn
  <2>2. EndedIn(p.starts) = {}
    BY <2>1 DEF EndedIn, Range
  <2>3. suspended' = suspended
    BY <1>2, <2>1 DEF SuspendedBehind
  <2>4. /\ section' = section /\ sent # Size(section)
        /\ HasTheRest(p) <=> sent' = Size(section)
    <3>1. LastPiece(p) = p.cont[1]
      BY <1>12, LastPieces
    <3>2. p.cont[1].section = section
      BY <1>12, RestForms
    <3>3. ~IsDone /\ (HasTheRest(p) <=> LastPiece(p).from + LastPiece(p).bytes = Size(section))
      BY <1>12, RestForms
    <3> QED
      BY <1>1, <3>1, <3>2, <3>3 DEF IsDone
  <2>7. st2 = st1 /\ A2 = A1
    BY <1>9, <1>10, <2>1, <2>2
  <2>8. FlowsAt(A2, spoilt, good, W, section, n, suspended, live, gone, st2)
    BY <1>1, <1>14, <2>7, ContStep
  <2>9. FlowsAt(A2, spoilt, good, W, section, n, suspended, live2, gone, st2)
    BY <1>12, <2>8, LessLiveAt
  <2> QED
    BY <2>3, <2>4, <2>9 DEF FlowsAt
<1>13. CASE StartsSome(p)
  <2>1. StartsOne(p) \/ StartsTwo(p)
    BY <1>13 DEF StartsSome
  <2>2. p.starts # <<>> /\ Len(p.starts) \in DOMAIN p.starts
    BY <2>1, LastStart
  <2>3. \E t, k : p.starts[Len(p.starts)] = HeadOf(t, k) /\ IsSection(t) /\ k \in 1 .. Size(t)
    BY <1>1, <2>2, StartsAreSections
  <2>4. PICK t, k : p.starts[Len(p.starts)] = HeadOf(t, k) /\ IsSection(t) /\ k \in 1 .. Size(t)
    BY <2>3
  <2>5. section' = t /\ sent' = k
    <3>1. LastPiece(p) = HeadOf(t, k)
      BY <1>13, <2>4, LastPieces
    <3>2. k \in Nat
      BY <2>4, SectionFields
    <3>3. HeadOf(t, k).section = t /\ HeadOf(t, k).from + HeadOf(t, k).bytes = k
      BY <3>2 DEF HeadOf
    <3> QED
      BY <1>1, <3>1, <3>3
  <2>6. n = Size(section)
    BY <1>13, RestForms DEF IsDone
  <2>7. st2 = IF got THEN BehindStarts(st1, p.starts) ELSE st1
    BY <1>9, <2>2
  <2>8. AreCounted(st1.tables, good, W)
    <3>1. Range(st1.tables) \subseteq Range(BehindStarts(st1, p.starts).tables)
      BY <1>11, <2>1, BehindStartsKeeps
    <3> QED
      BY <2>7, <3>1 DEF AreCounted
  <2>9. FlowsAt(A1, spoilt, good, W, section, n, suspended, live, gone, st1)
    BY <1>1, <1>14, <2>8, ContStep
  <2>10. FlowsOn(A1, spoilt, good, W, section, TRUE, suspended, live, gone, st1)
    BY <2>6, <2>9 DEF FlowsAt
  <2>11. Starting(p, A1, A2, W, spoilt, got, hit, gone, st1, st2)
    BY <1>7, <1>10, <2>7 DEF Starting, Carries
  <2>12. FlowsAt(A2, spoilt, good, W, t, k, suspended', TRUE, gone, st2)
    BY <1>2, <2>1, <2>4, <2>10, <2>11, StartsStep
  <2>13. FlowsAt(A2, spoilt, good, W, t, k, suspended', live2, gone, st2)
    BY <2>12, LessLiveAt
  <2> QED
    BY <2>5, <2>13
<1> QED
  BY <1>1, <1>12, <1>13

-----------------------------------------------------------------------------
(* The inductive invariant of the flow *)

\* The transmissions that something kept the builder from having.
Spoilt == crossed \cup {s.pass : s \in split}

Good == built \cup mixed

IsLive == burst = 0 /\ intact = section

IsGone == burst > 0

BuilderState == [pending |-> pendingSections, tables |-> tables]

\* What was sent of a section that is not split is in progress if it has arrived.
LiveOK == IsLive /\ ~IsDone /\ section \notin split => sectionInProgress # <<>>

\* Unless it is split, the section's header is there, and its CRC is to come.
SplitOK ==
  \/ section \in split \/ IsDone
  \/ sent > SectionHeaderLength /\ Size(section) - sent >= PSI_CRC_LEN

FlowInv ==
  /\ \E W : FlowsAt(arrived, Spoilt, Good, W, section, sent, suspended, IsLive, IsGone,
                    BuilderState)
  /\ LiveOK /\ SplitOK

LEMMA NotNone == \A s : IsSection(s) => s # NoSection
<1> SUFFICES ASSUME NEW s, IsSection(s) PROVE s # NoSection
  OBVIOUS
<1>1. Size(s) \in Nat /\ Size(s) > 3
  <2>1. PICK t \in Tables : \E n \in 0 .. Len(t.lengths) - 1 : s = SectionOf(t, n, s.id, s.pass)
    BY DEF IsSection
  <2>2. PICK n \in 0 .. Len(t.lengths) - 1 : s = SectionOf(t, n, s.id, s.pass)
    BY <2>1
  <2>3. s.length = t.lengths[n + 1]
    BY <2>2 DEF SectionOf
  <2>4. t.lengths \in Seq(kHeaderSize + PSI_CRC_LEN .. MaxSectionLength) /\ Len(t.lengths) \in 1 .. 255
    BY SectionAssumption DEF SectionAssumption
  <2>5. n + 1 \in 1 .. Len(t.lengths)
    BY <2>4
  <2>6. s.length \in 9 .. MaxSectionLength /\ MaxSectionLength \in Nat
    BY <2>3, <2>4, <2>5, SectionAssumption DEF kHeaderSize, PSI_CRC_LEN, SectionAssumption
  <2> QED
    BY <2>6 DEF Size, SectionHeaderLength
<1>2. Size(NoSection) = 3
  BY DEF Size, NoSection, SectionHeaderLength
<1> QED
  BY <1>1, <1>2

\* Without a loss, what arrives in p are the sections that end there.
LEMMA ArrivedForms ==
  ASSUME ChannelTypeOK, NEW p, GoesOn(p) \/ StartsSome(p), burst = 0
  PROVE  ArrivedIn(p) = ArrivingIn(p)
<1> DEFINE cont == p.cont
           starts == p.starts
           S == Range(cont) \cup Range(starts)
           all == Pieces(p)
<1>1. Range(<<>>) = {} /\ (\A x : Range(<<x>>) = {x}) /\ (\A x, y : Range(<<x, y>>) = {x, y})
  BY DEF Range
<1>2. cont = <<>> \/ \E c : cont = <<c>>
  BY RestForms
<1>3. starts = <<>> \/ (\E g : starts = <<g>>) \/ (\E g, h : starts = <<g, h>>)
  BY DEF GoesOn, StartsSome, StartsOne, StartsTwo
<1>4. cont \in Seq(S)
  <2>1. cont = <<>> \/ \E c \in Range(cont) : cont = <<c>>
    BY <1>1, <1>2
  <2>2. cont \in Seq(Range(cont))
    BY <2>1, OneOrNone
  <2>3. \A i \in DOMAIN cont : cont[i] \in S
    BY DEF Range
  <2> HIDE DEF S
  <2>4. DOMAIN cont = 1 .. Len(cont) /\ Len(cont) \in Nat
    BY <2>2, LenProperties
  <2> QED
    BY <2>2, <2>3, <2>4
<1>5. starts \in Seq(S)
  <2>1. \A i \in DOMAIN starts : starts[i] \in S
    BY DEF Range
  <2>2. CASE starts = <<>>
    BY <2>2, EmptySeq
  <2> HIDE DEF S
  <2>3. ASSUME NEW g, starts = <<g>>
        PROVE  starts \in Seq(S)
    <3>1. g \in S
      BY <2>1, <2>3
    <3>2. <<g>> \in Seq(S)
      BY <3>1
    <3> QED
      BY <2>3, <3>2
  <2>4. ASSUME NEW g, NEW h, starts = <<g, h>>
        PROVE  starts \in Seq(S)
    <3>1. DOMAIN starts = {1, 2} /\ starts[1] = g /\ starts[2] = h
      BY <2>4
    <3>2. g \in S /\ h \in S
      BY <2>1, <3>1
    <3>3. <<g, h>> \in Seq(S)
      BY <3>2
    <3> QED
      BY <2>4, <3>3
  <2> QED
    BY <1>3, <2>2, <2>3, <2>4
<1>6. Range(all) = Range(cont) \cup Range(starts)
  <2> HIDE DEF S, cont, starts
  <2>1. Range(cont \o starts) = Range(cont) \cup Range(starts)
    BY <1>4, <1>5, RangeOfConcat
  <2> QED
    BY <2>1 DEF Pieces, cont, starts
<1>7. ArrivedIn(p) = {x.section : x \in {x \in Range(all) : Ends(x) /\ IsIntact(x)}}
  <2>1. ArrivedIn(p) = {all[i].section : i \in {i \in DOMAIN all : Ends(all[i]) /\ IsIntact(all[i])}}
    BY DEF ArrivedIn
  <2> HIDE DEF all
  <2> QED
    BY <2>1 DEF Range
<1>8. ASSUME NEW x \in Range(starts)
      PROVE  IsIntact(x)
  <2>1. PICK i \in DOMAIN starts : x = starts[i]
    BY DEF Range
  <2>2. PICK s, n : starts[i] = HeadOf(s, n)
    BY <2>1, StartsAreSections
  <2> QED
    BY <2>1, <2>2 DEF IsIntact, HeadOf
<1>9. ASSUME NEW x \in Range(cont)
      PROVE  /\ x.section = section /\ (Ends(x) <=> HasTheRest(p))
             /\ Ends(x) => (IsIntact(x) <=> section = intact)
  <2>1. PICK c : cont = <<c>> /\ c.section = section /\ c.from = sent
    BY <1>1, RestForms
  <2>2. x = c /\ cont[1] = c /\ cont # <<>>
    BY <1>1, <2>1
  <2>3. Ends(x) <=> HasTheRest(p)
    BY <2>2 DEF HasTheRest
  <2>4. HasTheRest(p) => sent # 0
    BY RestForms DEF IsDone, ChannelTypeOK
  <2> QED
    BY <2>1, <2>2, <2>3, <2>4 DEF IsIntact
<1>10. HasTheRest(p) => \E x \in Range(cont) : Ends(x)
  <2>1. HasTheRest(p) => cont # <<>> /\ Ends(cont[1])
    BY DEF HasTheRest
  <2>2. cont # <<>> => cont[1] \in Range(cont)
    BY <1>2 DEF Range
  <2> QED
    BY <2>1, <2>2
<1> HIDE DEF cont, starts, all, S
<1>11. ArrivedIn(p) = {x.section : x \in {x \in Range(cont) : Ends(x) /\ IsIntact(x)}}
                        \cup {x.section : x \in {x \in Range(starts) : Ends(x) /\ IsIntact(x)}}
  BY <1>6, <1>7
<1>12. {x.section : x \in {x \in Range(starts) : Ends(x) /\ IsIntact(x)}} = EndedIn(p.starts)
  BY <1>8 DEF EndedIn, starts
<1>13. {x.section : x \in {x \in Range(cont) : Ends(x) /\ IsIntact(x)}}
         = IF HasTheRest(p) /\ section = intact THEN {section} ELSE {}
  <2>1. CASE HasTheRest(p) /\ section = intact
    BY <1>9, <1>10, <2>1
  <2>2. CASE ~(HasTheRest(p) /\ section = intact)
    BY <1>9, <2>2
  <2> QED
    BY <2>1, <2>2
<1> QED
  BY <1>11, <1>12, <1>13 DEF ArrivingIn

-----------------------------------------------------------------------------
(* Packets, lost or not *)

\* What is spoilt and good does not become less, and p is known to have met what it met.
LEMMA SentMeets ==
  ASSUME ChannelTypeOK, NEW p \in PacketsNext, Send(p)
  PROVE  Spoilt \subseteq Spoilt' /\ split \subseteq split' /\ CrossesIn(p, Spoilt')
<1>1. crossed \subseteq crossed' /\ split \subseteq split'
  BY DEF Send
<1> DEFINE pairs == {{BeforeStart(p, i).pass, StartOf(p, i).pass} :
                       i \in {i \in DOMAIN p.starts : Crosses(BeforeStart(p, i), StartOf(p, i))}}
<1>2. crossed' = crossed \cup UNION pairs
  BY DEF Send
<1>3. \A i \in DOMAIN p.starts : Crosses(BeforeStart(p, i), StartOf(p, i)) =>
        {BeforeStart(p, i).pass, StartOf(p, i).pass} \in pairs
  OBVIOUS
<1> HIDE DEF pairs
<1>4. \A i \in DOMAIN p.starts : Crosses(BeforeStart(p, i), StartOf(p, i)) =>
        BeforeStart(p, i).pass \in crossed' /\ StartOf(p, i).pass \in crossed'
  BY <1>2, <1>3
<1>5. CrossesIn(p, Spoilt')
  BY <1>4 DEF CrossesIn, Spoilt
<1> QED
  BY <1>1, <1>5 DEF Spoilt

\* The sections that are split are those that end badly in a packet.
LEMMA SentSplits ==
  ASSUME ChannelTypeOK, NEW p \in PacketsNext, Send(p)
  PROVE  /\ SplitOK'
         /\ section' \notin split' =>
              ~Splits(p) /\ (sent' = Size(section') \/ sent' <= Size(section') - PSI_CRC_LEN)
              /\ sent' > SectionHeaderLength
<1>1. /\ section' = LastPiece(p).section /\ sent' = LastPiece(p).from + LastPiece(p).bytes
      /\ IsSection(section') /\ sent' \in 1 .. Size(section')
  BY SendStep
<1>2. Size(section') \in Nat /\ sent' \in Nat /\ sent' <= Size(section')
  BY <1>1, SectionFields
<1>3. split' = IF Splits(p) THEN split \cup {section'} ELSE split
  BY <1>1 DEF Send
<1>4. Splits(p) <=> \/ sent' <= SectionHeaderLength
                    \/ sent' \in Size(section') - PSI_CRC_LEN + 1 .. Size(section') - 1
  BY <1>1 DEF Splits
<1>5. ~Splits(p) => /\ sent' > SectionHeaderLength
                    /\ sent' = Size(section') \/ sent' <= Size(section') - PSI_CRC_LEN
  <2> DEFINE n == Size(section')
             at == sent'
  <2>1. n \in Nat /\ at \in Nat /\ at <= n
    BY <1>2
  <2> HIDE DEF n, at
  <2>2. ~(at <= 3 \/ at \in n - 4 + 1 .. n - 1) => at > 3 /\ (at = n \/ at <= n - 4)
    BY <2>1
  <2> QED
    BY <1>4, <2>2 DEF n, at, SectionHeaderLength, PSI_CRC_LEN
<1>6. ~Splits(p) /\ ~(sent' = Size(section')) => Size(section') - sent' >= PSI_CRC_LEN
  BY <1>2, <1>5 DEF PSI_CRC_LEN
<1> QED
  BY <1>3, <1>5, <1>6 DEF SplitOK, IsDone

\* What arrived of a section that is not split is in progress behind a packet.
LEMMA LiveBehind ==
  ASSUME ChannelInv, LiveOK, SplitOK, MaxBurst <= 14, NEW p \in PacketsNext, Send(p), Accept(p),
         burst = 0, intact' = section' => IsIntact(LastPiece(p))
  PROVE  intact' = section' /\ ~IsDone' /\ section' \notin split' => sectionInProgress' # <<>>
<1> SUFFICES ASSUME intact' = section', ~IsDone', section' \notin split'
             PROVE  sectionInProgress' # <<>>
  OBVIOUS
<1>1. ChannelTypeOK /\ InProgressOK
  BY DEF ChannelInv
<1>2. /\ GoesOn(p) \/ StartsSome(p)
      /\ section' = LastPiece(p).section /\ sent' = LastPiece(p).from + LastPiece(p).bytes
      /\ IsSection(section') /\ sent' \in 1 .. Size(section')
  BY <1>1, SendStep
<1>3. sent' > SectionHeaderLength /\ split \subseteq split'
  BY <1>1, SentSplits, SentMeets
<1>4. CASE StartsSome(p)
  <2>1. p.starts # <<>> /\ Len(p.starts) \in DOMAIN p.starts
    <3>1. StartsOne(p) \/ StartsTwo(p)
      BY <1>4 DEF StartsSome
    <3> QED
      BY <3>1, LastStart
  <2>2. PICK s, n : p.starts[Len(p.starts)] = HeadOf(s, n) /\ n \in 1 .. Size(s) /\ IsSection(s)
    BY <1>1, <1>2, <2>1, StartsAreSections
  <2>3. LastPiece(p) = HeadOf(s, n)
    BY <1>4, <2>2, LastPieces
  <2>4. section' = s /\ sent' = n /\ HeadOf(s, n).bytes = n /\ HeadOf(s, n).section = s
    <3>1. n \in Nat
      BY <2>2, SectionFields
    <3> QED
      BY <1>2, <2>3, <3>1 DEF HeadOf
  <2>5. ~Whole(HeadOf(s, n)) /\ ~(n <= SectionHeaderLength)
    <3>1. n # Size(s)
      BY <2>4 DEF IsDone
    <3>2. n \in Nat
      BY <2>2, SectionFields
    <3> QED
      BY <1>3, <2>4, <3>1, <3>2 DEF Whole, SectionHeaderLength
  <2>6. BegunIn(p) = <<Begin(HeadOf(s, n))>>
    BY <2>2, <2>4, <2>5 DEF BegunIn
  <2>7. sectionInProgress' = BegunIn(p)
    BY <1>4 DEF Accept, StartsSome
  <2> QED
    BY <2>6, <2>7
<1>5. CASE GoesOn(p)
  <2>1. p.pusi = FALSE /\ p.cont = <<Piece(section, sent, PayloadLength)>> /\ sent # Size(section)
    BY <1>5 DEF GoesOn
  <2>2. LastPiece(p) = Piece(section, sent, PayloadLength)
    <3>1. LastPiece(p) = p.cont[1]
      BY <1>5, LastPieces
    <3> QED
      BY <2>1, <3>1
  <2>3. section' = section /\ sent' = sent + Smaller(PayloadLength, Size(section) - sent)
    BY <1>2, <2>2 DEF Piece
  <2>4. /\ Size(section) \in Nat /\ sent \in Nat /\ sent < Size(section) /\ sent # 0
        /\ PayloadLength \in Nat \ {0, 1} /\ IsSection(section)
    <3>1. /\ Size(section) \in Nat /\ sent \in Nat /\ sent <= Size(section)
          /\ PayloadLength \in Nat \ {0, 1} /\ IsSection(section)
      BY <1>1, <2>1, SentFields
    <3>2. sent # 0
      BY <1>1, <2>1 DEF ChannelTypeOK
    <3> QED
      BY <2>1, <3>1, <3>2
  <2>5. section = intact
    BY <2>2, <2>4, <1>2, <2>3 DEF IsIntact, Piece
  <2>6. sectionInProgress # <<>>
    BY <1>3, <2>1, <2>3, <2>5 DEF LiveOK, IsLive, IsDone
  <2>7. PICK begun : sectionInProgress = <<begun>> /\ IsBegun(begun, section, sent)
    BY <1>1, <2>6 DEF InProgressOK
  <2>8. RemainingBytesInTable(begun) = Size(section) - sent
    <3>1. begun.section = section /\ begun.length = sent - SectionHeaderLength
      BY <2>7 DEF IsBegun, IsMade
    <3> QED
      BY <2>4, <3>1, SectionFields DEF RemainingBytesInTable, SectionHeaderLength
  <2>9. Size(section) - sent >= PSI_CRC_LEN
    BY <1>3, <2>1, <2>3 DEF SplitOK, IsDone
  <2>10. PayloadLength < Size(section) - sent
    BY <2>3, <2>4 DEF IsDone, Smaller
  <2>11. sectionInProgress' = ContinuedBy(p, begun)
    BY <2>1, <2>7 DEF Accept
  <2>12. ~Completes(begun, PayloadLength) /\ ~(RemainingBytesInTable(begun) < PSI_CRC_LEN)
    BY <2>4, <2>8, <2>9, <2>10 DEF Completes, PSI_CRC_LEN
  <2>13. ContinuedBy(p, begun) = <<Collect(begun, p.cont[1])>>
    BY <2>12 DEF ContinuedBy
  <2> QED
    BY <2>11, <2>13
<1> QED
  BY <1>2, <1>4, <1>5

\* What a packet that arrives adds to those who count.
Counts(p) ==
  /\ built' = built \cup {PassOf(t) : t \in {t \in Built' : IsOfOneSubTable(t)}}
  /\ mixed' = UNION {mixed, UNION {PassesOf(t) : t \in {t \in Built' : ~IsOfOneSubTable(t)}},
                     IF <<>> \in Range(tables') THEN {q \in Waiting(p) : Waiting(p) # {q}} ELSE {}}

LEMMA CountedIn ==
  ASSUME NEW p, Counts(p)
  PROVE  Good \subseteq Good' /\ AreCounted(tables', Good', Waiting(p))
<1> DEFINE ones == {PassOf(t) : t \in {t \in Built' : IsOfOneSubTable(t)}}
           others == {PassesOf(t) : t \in {t \in Built' : ~IsOfOneSubTable(t)}}
           nils == IF <<>> \in Range(tables') THEN {q \in Waiting(p) : Waiting(p) # {q}} ELSE {}
           W == Waiting(p)
<1>1. built' = built \cup ones /\ mixed' = UNION {mixed, UNION others, nils}
  BY DEF Counts
<1>2. \A t \in Built' : IF IsOfOneSubTable(t) THEN PassOf(t) \in ones ELSE PassesOf(t) \in others
  OBVIOUS
<1>3. <<>> \in Range(tables') => \A q \in W : W # {q} => q \in nils
  OBVIOUS
<1> HIDE DEF ones, others, nils, W
<1>4. mixed \subseteq mixed' /\ UNION others \subseteq mixed' /\ nils \subseteq mixed'
  BY <1>1
<1>5. \A t \in Built' : IF IsOfOneSubTable(t) THEN PassOf(t) \in built'
                        ELSE PassesOf(t) \subseteq mixed'
  <2> SUFFICES ASSUME NEW t \in Built'
               PROVE  IF IsOfOneSubTable(t) THEN PassOf(t) \in built'
                      ELSE PassesOf(t) \subseteq mixed'
    OBVIOUS
  <2>1. CASE IsOfOneSubTable(t)
    BY <1>1, <1>2, <2>1
  <2>2. CASE ~IsOfOneSubTable(t)
    <3>1. PassesOf(t) \in others
      BY <1>2, <2>2
    <3> QED
      BY <1>4, <2>2, <3>1
  <2> QED
    BY <2>1, <2>2
<1>6. ASSUME NEW table \in Range(tables')
      PROVE  IsCounted(table, Good', W)
  <2>1. CASE table = <<>>
    BY <1>3, <1>4, <1>6, <2>1 DEF IsCounted, Good
  <2>2. CASE table # <<>>
    <3>1. table \in Built'
      BY <1>6, <2>2 DEF Built
    <3> QED
      BY <1>5, <2>2, <3>1 DEF IsCounted, Good
  <2> QED
    BY <2>1, <2>2
<1> QED
  BY <1>1, <1>4, <1>6 DEF AreCounted, Good, W

\* The flow before a packet, as those see it who know what becomes of it.
LEMMA FlowBefore ==
  ASSUME NEW W, NEW live, NEW gone,
         FlowsAt(arrived, Spoilt, Good, W, section, sent, suspended, live, gone, BuilderState),
         NEW spoilt, Spoilt \subseteq spoilt, NEW good, Good \subseteq good,
         NEW W2, \A n \in DOMAIN pendingSections : pendingSections[n].section.pass \in W2,
         NEW base, base = [pending |-> pendingSections, tables |-> <<>>]
  PROVE  /\ FlowsAt(arrived, spoilt, good, W2, section, sent, suspended, live, gone, base)
         /\ BuilderState.pending = pendingSections /\ base.pending = pendingSections
         /\ base.tables = <<>>
<1>1. /\ BuilderState.pending = pendingSections /\ BuilderState.tables = tables
      /\ base.pending = pendingSections /\ base.tables = <<>>
  BY DEF BuilderState
<1>2. ASSUME NEW done,
             FlowsOn(arrived, Spoilt, Good, W, section, done, suspended, live, gone, BuilderState)
      PROVE  FlowsOn(arrived, spoilt, good, W2, section, done, suspended, live, gone, base)
  <2>1. PICK K : FlowOK(K, arrived, Spoilt, Good, W, section, done, suspended, live,
                        pendingSections, tables)
    BY <1>1, <1>2 DEF FlowsOn
  <2>2. FlowOK(K, arrived, spoilt, good, W2, section, done, suspended, live,
               pendingSections, <<>>)
    BY <2>1, FlowGrows
  <2>3. DeliveryOK(base)
    <3>1. PendingOK(pendingSections)
      BY <2>1 DEF FlowOK
    <3>2. TablesOK(<<>>)
      BY DEF TablesOK, Range
    <3> QED
      BY <1>1, <3>1, <3>2 DEF DeliveryOK
  <2>4. IsSuspension(suspended) /\ (gone => IsCleared(arrived, section, suspended))
    BY <1>2 DEF FlowsOn
  <2> QED
    BY <1>1, <2>2, <2>3, <2>4 DEF FlowsOn
<1>3. FlowsAt(arrived, spoilt, good, W2, section, sent, suspended, live, gone, base)
  BY <1>2 DEF FlowsAt
<1> QED
  BY <1>1, <1>3

\* The flow behind a loss: everything pending is given up.
LEMMA RestartsAt ==
  ASSUME NEW A, NEW spoilt, NEW good, NEW W, NEW s, NEW n, NEW u, NEW live, NEW st,
         FlowsAt(A, spoilt, good, W, s, n, u, live, TRUE, st),
         NEW st2, st2 = [pending |-> NoSections, tables |-> <<>>]
  PROVE  FlowsAt(A, spoilt, good, W, s, n, u, FALSE, TRUE, st2)
<1>1. st2.pending = NoSections /\ st2.tables = <<>>
  OBVIOUS
<1>2. ASSUME NEW done, FlowsOn(A, spoilt, good, W, s, done, u, live, TRUE, st)
      PROVE  FlowsOn(A, spoilt, good, W, s, done, u, FALSE, TRUE, st2)
  <2>1. IsSuspension(u) /\ IsCleared(A, s, u)
    BY <1>2 DEF FlowsOn
  <2>2. PICK K : FlowOK(K, A, spoilt, good, W, s, done, u, live, st.pending, st.tables)
    BY <1>2 DEF FlowsOn
  <2>3. FlowOK(K, A, spoilt, good, W, s, done, u, FALSE, NoSections, <<>>)
    BY <2>1, <2>2, FlowRestarts
  <2>4. DeliveryOK(st2)
    BY <1>1, NothingPending DEF DeliveryOK, TablesOK, Range
  <2> QED
    BY <1>1, <2>1, <2>3, <2>4 DEF FlowsOn
<1> QED
  BY <1>2 DEF FlowsAt

\* A loss falls into what is unfinished.
LEMMA LosesAt ==
  ASSUME NEW A, NEW spoilt, NEW good, NEW W, NEW s, NEW n, NEW u, NEW live, NEW gone, NEW st,
         FlowsAt(A, spoilt, good, W, s, n, u, live, gone, st), st.tables = <<>>,
         NEW lost, NEW A2, A2 = {a \in A : a.pass \notin lost}, IsCleared(A2, s, u)
  PROVE  FlowsAt(A2, spoilt, good, W, s, n, u, FALSE, TRUE, st)
<1>2. ASSUME NEW done, FlowsOn(A, spoilt, good, W, s, done, u, live, gone, st)
      PROVE  FlowsOn(A2, spoilt, good, W, s, done, u, FALSE, TRUE, st)
  <2>1. IsSuspension(u) /\ DeliveryOK(st)
    BY <1>2 DEF FlowsOn
  <2>2. PICK K : FlowOK(K, A, spoilt, good, W, s, done, u, live, st.pending, st.tables)
    BY <1>2 DEF FlowsOn
  <2>3. FlowOK(K, A2, spoilt, good, W, s, done, u, FALSE, st.pending, <<>>)
    BY <2>2, FlowLoses
  <2> QED
    BY <2>1, <2>3 DEF FlowsOn
<1> QED
  BY <1>2 DEF FlowsAt

LEMMA NotGone ==
  ASSUME NEW A, NEW spoilt, NEW good, NEW W, NEW s, NEW n, NEW u, NEW live, NEW gone, NEW st,
         FlowsAt(A, spoilt, good, W, s, n, u, live, gone, st), NEW gone2, gone2 => gone
  PROVE  FlowsAt(A, spoilt, good, W, s, n, u, live, gone2, st)
BY DEF FlowsAt, FlowsOn

\* The end of a packet that arrives without a loss is taken from where it was.
LEMMA LiveBefore ==
  ASSUME ChannelTypeOK, NEW p \in PacketsNext, Send(p),
         intact' = IF burst = 0 /\ IsIntact(LastPiece(p)) THEN LastPiece(p).section ELSE NoSection
  PROVE  /\ intact' = section' => burst = 0 /\ IsIntact(LastPiece(p))
         /\ GoesOn(p) /\ intact' = section' => burst = 0 /\ intact = section
<1>1. /\ GoesOn(p) \/ StartsSome(p)
      /\ section' = LastPiece(p).section /\ IsSection(section')
  BY SendStep
<1>2. intact' = section' => burst = 0 /\ IsIntact(LastPiece(p))
  BY <1>1, NotNone
<1>3. ASSUME GoesOn(p), IsIntact(LastPiece(p))
      PROVE  intact = section
  <2>1. LastPiece(p) = p.cont[1]
    BY <1>3, LastPieces
  <2>2. p.cont[1].section = section /\ p.cont[1].from = sent
    BY <1>3, RestForms
  <2>3. sent # 0
    BY <1>3, RestForms DEF IsDone, ChannelTypeOK
  <2> QED
    BY <1>3, <2>1, <2>2, <2>3 DEF IsIntact
<1> QED
  BY <1>2, <1>3

LEMMA WaitingKnown ==
  ASSUME NEW p
  PROVE  /\ \A n \in DOMAIN pendingSections : pendingSections[n].section.pass \in Waiting(p)
         /\ \A d \in Range(CompletedIn(p)) : d.section.pass \in Waiting(p)
BY DEF Waiting

LEMMA FlowArrives ==
  ASSUME ChannelInv, FlowInv, MaxBurst <= 14, Arrive
  PROVE  FlowInv'
<1>1. PICK p \in PacketsNext :
         /\ Send(p) /\ AddTsPacket(p) /\ burst' = 0
         /\ arrived' = arrived \cup ArrivedIn(p)
         /\ intact' = IF burst = 0 /\ IsIntact(LastPiece(p))
                      THEN LastPiece(p).section ELSE NoSection
         /\ Counts(p)
  BY DEF Arrive, Counts
<1>2. ChannelTypeOK /\ CountersAgree /\ InProgressOK
  BY DEF ChannelInv
<1>3. /\ HasNextCounter(p) /\ (GoesOn(p) \/ StartsSome(p))
      /\ section' = LastPiece(p).section /\ sent' = LastPiece(p).from + LastPiece(p).bytes
      /\ IsSection(section')
  BY <1>1, <1>2, SendStep
<1>4. Check(ccChecker, p) = IF ccChecker.hasLastCC /\ burst > 0 THEN "Gap" ELSE "OK"
  BY <1>2, <1>3, Judged
<1>5. Spoilt \subseteq Spoilt' /\ split \subseteq split' /\ CrossesIn(p, Spoilt')
  BY <1>1, <1>2, SentMeets
<1>6. Good \subseteq Good' /\ AreCounted(tables', Good', Waiting(p))
  BY <1>1, CountedIn
<1>7. PICK W : FlowsAt(arrived, Spoilt, Good, W, section, sent, suspended, IsLive, IsGone,
                       BuilderState)
  BY DEF FlowInv
<1>8. PICK base : base = [pending |-> pendingSections, tables |-> <<>>]
  OBVIOUS
<1>9. FlowsAt(arrived, Spoilt', Good', Waiting(p), section, sent, suspended, IsLive, IsGone, base)
  BY <1>5, <1>6, <1>7, <1>8, WaitingKnown, FlowBefore
<1>10. LiveOK /\ SplitOK
  BY DEF FlowInv
<1>11. SplitOK'
  BY <1>1, <1>2, SentSplits
<1>12. /\ intact' = section' => burst = 0 /\ IsIntact(LastPiece(p))
       /\ GoesOn(p) /\ intact' = section' => burst = 0 /\ intact = section
  BY <1>1, <1>2, LiveBefore
<1>13. burst \in Nat
  BY <1>2, SectionAssumption DEF ChannelTypeOK, SectionAssumption
<1>14. BuilderState' = [pending |-> pendingSections', tables |-> tables']
  BY DEF BuilderState
<1>15. (IsGone' => FALSE) /\ (IsLive' <=> intact' = section') /\ (IsGone <=> burst # 0)
  BY <1>1, <1>13 DEF IsGone, IsLive
<1>16. CASE ccChecker.hasLastCC /\ burst > 0
  <2>1. sectionInProgress' = <<>> /\ pendingSections' = NoSections /\ tables' = <<>>
    BY <1>1, <1>4, <1>16 DEF AddTsPacket, DiscardOnGap
  <2>2. arrived' = arrived /\ ~(intact' = section')
    BY <1>1, <1>12, <1>13, <1>16 DEF ArrivedIn
  <2>3. FlowsAt(arrived, Spoilt', Good', Waiting(p), section, sent, suspended, IsLive, TRUE, base)
    <3>1. TRUE => IsGone
      BY <1>16 DEF IsGone
    <3>2. IsGone = TRUE
      BY <1>16 DEF IsGone
    <3> QED
      BY <1>9, <3>2
  <2>4. PICK st : st = [pending |-> NoSections, tables |-> <<>>]
    OBVIOUS
  <2>5. FlowsAt(arrived, Spoilt', Good', Waiting(p), section, sent, suspended, FALSE, TRUE, st)
    BY <2>3, <2>4, RestartsAt
  <2>6. Carries(p, Waiting(p), Spoilt', FALSE, FALSE, TRUE, FALSE)
    BY <1>5, WaitingKnown DEF Carries
  <2>7. AreCounted(st.tables, Good', Waiting(p))
    BY <2>4 DEF AreCounted, Range
  <2>8. FlowsAt(arrived, Spoilt', Good', Waiting(p), section', sent', suspended', FALSE, TRUE, st)
    BY <1>1, <1>2, <2>5, <2>6, <2>7, PacketFlow
  <2>9. BuilderState' = st
    BY <1>14, <2>1, <2>4
  <2>10. FlowsAt(arrived', Spoilt', Good', Waiting(p), section', sent', suspended', IsLive',
                 IsGone', BuilderState')
    <3>1. IsLive' => FALSE
      BY <1>15, <2>2
    <3>2. FlowsAt(arrived, Spoilt', Good', Waiting(p), section', sent', suspended', IsLive', TRUE, st)
      BY <2>8, <3>1, LessLiveAt
    <3>3. FlowsAt(arrived, Spoilt', Good', Waiting(p), section', sent', suspended', IsLive', IsGone', st)
      BY <3>2, NotGone
    <3> QED
      BY <2>2, <2>9, <3>3
  <2>11. LiveOK'
    BY <1>15, <2>2 DEF LiveOK
  <2> QED
    BY <1>11, <2>10, <2>11 DEF FlowInv
<1>17. CASE ~(ccChecker.hasLastCC /\ burst > 0)
  <2>1. Accept(p)
    BY <1>1, <1>4, <1>17 DEF AddTsPacket
  <2>2. HasBegun
    <3>1. sectionInProgress # <<>> => burst = 0
      BY <1>2, <1>13, <1>17 DEF InProgressOK
    <3> QED
      BY <1>2, <3>1 DEF HasBegun, InProgressOK
  <2>3. PICK hit \in BOOLEAN : hit <=> burst = 0
    OBVIOUS
  <2>4. arrived' = IF hit THEN arrived \cup ArrivingIn(p) ELSE arrived
    <3>1. CASE burst = 0
      BY <1>1, <1>2, <1>3, <2>3, <3>1, ArrivedForms
    <3>2. CASE burst # 0
      BY <1>1, <1>13, <2>3, <3>2 DEF ArrivedIn
    <3> QED
      BY <3>1, <3>2
  <2>5. PICK st : st = BehindAll(base, p)
    OBVIOUS
  <2>6. pendingSections' = st.pending /\ tables' = st.tables
    <3>1. Finished(p) = <<>> \/ \E d : Finished(p) = <<d>>
      BY DEF Finished
    <3>2. p.starts = <<>> \/ (\E g : p.starts = <<g>>) \/ (\E g, h : p.starts = <<g, h>>)
      BY <1>3 DEF GoesOn, StartsSome, StartsOne, StartsTwo
    <3>3. FoldLeft(DeliverCompletedSection, base, CompletedIn(p)) = st
      BY <2>5, <3>1, <3>2, Folded
    <3> QED
      BY <1>8, <2>1, <3>3 DEF Accept
  <2>7. Carries(p, Waiting(p), Spoilt', TRUE, hit, IsGone, IsLive)
    <3>1. hit /\ section = intact => IsLive
      BY <2>3 DEF IsLive
    <3>2. hit /\ section = intact /\ HasTheRest(p) /\ section.pass \notin Spoilt' => Finished(p) # <<>>
      <4> SUFFICES ASSUME hit, section = intact, HasTheRest(p), section.pass \notin Spoilt'
                   PROVE  Finished(p) # <<>>
        OBVIOUS
      <4>1. section \notin split
        BY <1>5 DEF Spoilt
      <4>2. ~IsDone
        BY <1>2, <1>3, RestForms
      <4>3. sectionInProgress # <<>>
        BY <1>10, <3>1, <4>1, <4>2 DEF LiveOK
      <4>4. Size(section) - sent >= PSI_CRC_LEN
        BY <1>10, <4>1, <4>2 DEF SplitOK
      <4> QED
        BY <1>2, <1>3, <2>2, <4>3, <4>4, FinishedForms
    <3>3. hit => ~IsGone
      BY <1>15, <2>3
    <3> QED
      BY <1>5, <2>2, <3>1, <3>2, <3>3, WaitingKnown DEF Carries
  <2>8. AreCounted(st.tables, Good', Waiting(p))
    BY <1>6, <2>6
  <2>9. GoesOn(p) /\ IsLive' => IsLive
    BY <1>12, <1>15 DEF IsLive
  <2>10. FlowsAt(arrived', Spoilt', Good', Waiting(p), section', sent', suspended', IsLive',
                 IsGone, st)
    <3>1. PICK got \in BOOLEAN : got = TRUE
      OBVIOUS
    <3>2. st = IF got THEN BehindAll(base, p) ELSE base
      BY <2>5, <3>1
    <3>3. Carries(p, Waiting(p), Spoilt', got, hit, IsGone, IsLive)
      BY <2>7, <3>1
    <3>4. p \in PacketsNext /\ Send(p)
      BY <1>1
    <3> QED
      BY ONLY <1>2, <1>9, <2>4, <2>8, <2>9, <3>2, <3>3, <3>4, PacketFlow
  <2>11. BuilderState' = st
    <3>1. DeliveryOK(st)
      BY <2>10 DEF FlowsAt, FlowsOn
    <3> QED
      BY <1>14, <2>6, <3>1 DEF DeliveryOK
  <2>12. FlowsAt(arrived', Spoilt', Good', Waiting(p), section', sent', suspended', IsLive',
                 IsGone', BuilderState')
    BY <1>15, <2>10, <2>11, NotGone
  <2>13. LiveOK'
    <3>1. CASE intact' = section'
      BY <1>1, <1>10, <1>12, <2>1, <3>1, LiveBehind DEF LiveOK
    <3>2. CASE intact' # section'
      BY <1>15, <3>2 DEF LiveOK
    <3> QED
      BY <3>1, <3>2
  <2> QED
    BY <1>11, <2>12, <2>13 DEF FlowInv
<1> QED
  BY <1>16, <1>17

LEMMA FlowIsLost ==
  ASSUME ChannelInv, FlowInv, MaxBurst <= 14, Lose
  PROVE  FlowInv'
<1>1. /\ burst' = burst + 1 /\ tables' = <<>>
      /\ arrived' = {s \in arrived : s.pass \notin Unfinished}
      /\ UNCHANGED <<ccChecker, sectionInProgress, pendingSections, intact, built, mixed>>
  BY DEF Lose
<1>2. PICK p \in PacketsNext : Send(p)
  BY DEF Lose
<1>3. ChannelTypeOK
  BY DEF ChannelInv
<1>4. Spoilt \subseteq Spoilt' /\ CrossesIn(p, Spoilt')
  BY <1>2, <1>3, SentMeets
<1>5. Good' = Good
  BY <1>1 DEF Good
<1>6. burst \in Nat
  BY <1>3, SectionAssumption DEF ChannelTypeOK, SectionAssumption
<1>7. IsGone' = TRUE /\ (IsLive' => FALSE)
  BY <1>1, <1>6 DEF IsGone, IsLive
<1>8. PICK W : FlowsAt(arrived, Spoilt, Good, W, section, sent, suspended, IsLive, IsGone,
                       BuilderState)
  BY DEF FlowInv
<1>9. PICK base : base = [pending |-> pendingSections, tables |-> <<>>]
  OBVIOUS
<1>10. FlowsAt(arrived, Spoilt', Good, Waiting(p), section, sent, suspended, IsLive, IsGone, base)
  BY <1>4, <1>8, <1>9, WaitingKnown, FlowBefore
<1>11. IsCleared(arrived', section, suspended)
  <2>1. ASSUME NEW o, suspended = <<o>>
        PROVE  o.pass \in Unfinished
    <3>1. o \in Range(suspended)
      BY <2>1 DEF Range
    <3> QED
      BY <3>1 DEF Unfinished
  <2>2. ~IsLast(section) => section.pass \in Unfinished
    BY DEF Unfinished
  <2> QED
    BY <1>1, <2>1, <2>2 DEF IsCleared
<1>12. FlowsAt(arrived', Spoilt', Good, Waiting(p), section, sent, suspended, FALSE, TRUE, base)
  <2>1. base.tables = <<>>
    BY <1>9
  <2> QED
    BY <1>1, <1>10, <1>11, <2>1, LosesAt
<1>13. Carries(p, Waiting(p), Spoilt', FALSE, FALSE, TRUE, FALSE)
  BY <1>4, WaitingKnown DEF Carries
<1>14. AreCounted(base.tables, Good, Waiting(p))
  BY <1>9 DEF AreCounted, Range
<1>15. FlowsAt(arrived', Spoilt', Good, Waiting(p), section', sent', suspended', FALSE, TRUE, base)
  BY <1>2, <1>3, <1>12, <1>13, <1>14, PacketFlow
<1>16. BuilderState' = base
  BY <1>1, <1>9 DEF BuilderState
<1>17. FlowsAt(arrived', Spoilt', Good', Waiting(p), section', sent', suspended', IsLive',
               IsGone', BuilderState')
  <2>1. FlowsAt(arrived', Spoilt', Good, Waiting(p), section', sent', suspended', IsLive', TRUE, base)
    BY <1>7, <1>15, LessLiveAt
  <2> QED
    BY <1>5, <1>7, <1>16, <2>1
<1>18. LiveOK'
  BY <1>7 DEF LiveOK
<1>19. SplitOK'
  BY <1>2, <1>3, SentSplits
<1> QED
  BY <1>17, <1>18, <1>19 DEF FlowInv

\* Nothing but the tables of the step before changes.
LEMMA FlowStays ==
  ASSUME FlowInv, tables' = <<>>, UNCHANGED <<sectionInProgress, pendingSections>>,
         UNCHANGED senderVars, UNCHANGED <<burst, intact, arrived, built, mixed>>
  PROVE  FlowInv'
<1>1. /\ Spoilt' = Spoilt /\ Good' = Good /\ IsLive' = IsLive /\ IsGone' = IsGone
      /\ IsDone' = IsDone
      /\ UNCHANGED <<section, sent, suspended, split, arrived>>
  BY DEF Spoilt, Good, IsLive, IsGone, IsDone, senderVars
<1>2. PICK W : FlowsAt(arrived, Spoilt, Good, W, section, sent, suspended, IsLive, IsGone,
                       BuilderState)
  BY DEF FlowInv
<1>3. PICK base : base = [pending |-> pendingSections, tables |-> <<>>]
  OBVIOUS
<1>4. PICK W2 : W2 = {pendingSections[n].section.pass : n \in DOMAIN pendingSections}
  OBVIOUS
<1>5. \A n \in DOMAIN pendingSections : pendingSections[n].section.pass \in W2
  BY <1>4
<1>6. FlowsAt(arrived, Spoilt, Good, W2, section, sent, suspended, IsLive, IsGone, base)
  BY <1>2, <1>3, <1>5, FlowBefore
<1>7. BuilderState' = base
  BY <1>3 DEF BuilderState
<1>8. LiveOK' /\ SplitOK'
  <2>1. LiveOK /\ SplitOK
    BY DEF FlowInv
  <2> QED
    BY <1>1, <2>1 DEF LiveOK, SplitOK
<1> QED
  BY <1>1, <1>6, <1>7, <1>8 DEF FlowInv

LEMMA FlowRepeats ==
  ASSUME ChannelInv, FlowInv, Repeat
  PROVE  FlowInv'
<1>1. /\ last # <<>> /\ AddTsPacket(last[1])
      /\ UNCHANGED senderVars /\ UNCHANGED <<burst, intact, arrived, built, mixed>>
  BY DEF Repeat
<1>2. ccChecker.hasLastCC /\ last[1].cc = ccChecker.lastCC /\ last[1].disc = FALSE
  BY <1>1 DEF ChannelInv, LastIsLast
<1>3. Check(ccChecker, last[1]) = "Duplicate"
  BY <1>2 DEF Check
<1>4. tables' = <<>> /\ UNCHANGED <<sectionInProgress, pendingSections>>
  BY <1>1, <1>3 DEF AddTsPacket
<1> QED
  BY <1>1, <1>4, FlowStays

LEMMA FlowBegins == Init => FlowInv
<1> SUFFICES ASSUME Init PROVE FlowInv
  OBVIOUS
<1>1. /\ section = NoSection /\ sent = Size(NoSection) /\ suspended = <<>>
      /\ split = {} /\ crossed = {} /\ burst = 0 /\ arrived = {} /\ built = {} /\ mixed = {}
      /\ pendingSections = NoSections /\ tables = <<>>
  BY DEF Init, BuilderInit
<1>2. /\ NoSection.id = 0 /\ NoSection.pass = 0 /\ NoSection.number = 0 /\ NoSection.last = 0
      /\ IsLast(NoSection)
  BY DEF NoSection, IsLast
<1>3. ~IsGone /\ IsDone
  BY <1>1 DEF IsGone, IsDone
<1>4. PendingOK(NoSections) /\ DOMAIN NoSections = {} /\ Range(<<>>) = {}
  BY NothingPending DEF Range
<1>5. OrderOK({}, NoSection, TRUE, <<>>)
  <2>1. IsFiniteSet({})
    BY FS_EmptySet
  <2> HIDE DEF NoSection
  <2> QED
    BY <1>2, <2>1 DEF OrderOK
<1>6. PICK W : W = {}
  OBVIOUS
<1> HIDE DEF NoSection, NoSections
<1>7. \A live : FlowOK({}, {}, {}, {}, W, NoSection, TRUE, <<>>, live, NoSections, <<>>)
  <2>1. PendingKnown({}, W, NoSections) /\ StackOK({}, {}, NoSection, <<>>, NoSections)
    BY <1>4 DEF PendingKnown, StackOK
  <2>2. BuiltOK({}, {}, {})
    BY DEF BuiltOK
  <2>3. \A live : FollowsOK({}, {}, {}, NoSection, TRUE, <<>>, live, NoSections)
    BY DEF FollowsOK, IsFollowed
  <2> QED
    BY <1>4, <1>5, <2>1, <2>2, <2>3 DEF FlowOK
<1>8. /\ BuilderState.pending = NoSections /\ BuilderState.tables = <<>>
      /\ BuilderState = [pending |-> NoSections, tables |-> <<>>]
  BY <1>1 DEF BuilderState
<1>9. DeliveryOK(BuilderState)
  BY <1>4, <1>8 DEF DeliveryOK, TablesOK
<1>10. Spoilt = {} /\ Good = {}
  BY <1>1 DEF Spoilt, Good
<1>11. FlowsOn({}, {}, {}, W, NoSection, TRUE, <<>>, IsLive, IsGone, BuilderState)
  BY <1>3, <1>7, <1>8, <1>9 DEF FlowsOn, IsSuspension
<1>12. FlowsAt(arrived, Spoilt, Good, W, section, sent, suspended, IsLive, IsGone, BuilderState)
  BY <1>1, <1>10, <1>11 DEF FlowsAt
<1>13. LiveOK /\ SplitOK
  BY <1>3 DEF LiveOK, SplitOK
<1> QED
  BY <1>12, <1>13 DEF FlowInv

-----------------------------------------------------------------------------
(* Tables are built *)

\* As many sections of a transmission as it has are all of them.
LEMMA AllArrived ==
  ASSUME NEW S, NEW L \in Nat, IsFiniteSet(S), Cardinality(S) = L + 1,
         \A a \in S : a.number \in 0 .. L, \A a, b \in S : a.number = b.number => a = b
  PROVE  \A i \in 0 .. L : \E a \in S : a.number = i
<1> DEFINE T == 0 .. L
           f == [a \in S |-> a.number]
<1>1. IsFiniteSet(T) /\ Cardinality(T) = L + 1
  <2>1. 0 \in Int /\ L \in Int /\ ~(0 > L)
    OBVIOUS
  <2>2. /\ IsFiniteSet(0 .. L)
        /\ Cardinality(0 .. L) = IF 0 > L THEN 0 ELSE L - 0 + 1
    BY ONLY <2>1, FS_Interval
  <2> QED
    BY <2>1, <2>2
<1>2. f \in Injection(S, T)
  BY DEF Injection, IsInjective
<1> HIDE DEF T, f
<1>3. f \in Surjection(S, T)
  BY <1>1, <1>2, FS_Injection
<1>4. \A i \in T : \E a \in S : f[a] = i
  BY <1>3 DEF Surjection
<1> QED
  BY <1>4 DEF T, f

LEMMA HasArrivedTo ==
  ASSUME NEW K, NEW s, NEW done, NEW u, OrderOK(K, s, done, u), arrived \subseteq K,
         NEW q, HasArrived(q), NEW x \in K, x.pass = q
  PROVE  ArrivedTo(arrived, q, x.last) /\ x.number \in 0 .. x.last
<1>1. PICK a \in arrived : a.pass = q /\ Cardinality({t \in arrived : t.pass = q}) = a.last + 1
  BY DEF HasArrived
<1> DEFINE S == {t \in arrived : t.pass = q}
<1>2. \A y, z \in K : Kin(y, z)
  BY DEF OrderOK
<1>3. \A y \in K : y.number \in 0 .. y.last /\ y.last \in Nat
  <2>1. \A y \in K : IsSection(y)
    BY DEF OrderOK
  <2> QED
    BY <2>1, SectionFields
<1>4. a.last = x.last /\ x.last \in Nat
  BY <1>1, <1>2, <1>3 DEF Kin
<1>5. IsFiniteSet(S)
  <2>1. IsFiniteSet(K)
    BY DEF OrderOK
  <2>2. S \subseteq K
    OBVIOUS
  <2> HIDE DEF S
  <2> QED
    BY <2>1, <2>2, FS_Subset
<1>6. \A y \in S : y.number \in 0 .. x.last
  <2>1. \A y \in S : y.last = x.last
    BY <1>2 DEF Kin
  <2> QED
    BY <1>3, <2>1
<1>7. \A y, z \in S : y.number = z.number => y = z
  BY <1>2 DEF Kin
<1>8. Cardinality(S) = x.last + 1
  BY <1>1, <1>4
<1>9. \A y \in S : y \in arrived /\ y.pass = q
  OBVIOUS
<1> HIDE DEF S
<1>10. \A i \in 0 .. x.last : \E y \in S : y.number = i
  BY <1>4, <1>5, <1>6, <1>7, <1>8, AllArrived
<1>11. ArrivedTo(arrived, q, x.last)
  BY <1>9, <1>10 DEF ArrivedTo
<1> QED
  BY <1>3, <1>11

LEMMA FlowBuilds ==
  ASSUME FlowInv
  PROVE  TableIsBuilt
<1>1. PICK W : FlowsAt(arrived, Spoilt, Good, W, section, sent, suspended, IsLive, IsGone,
                       BuilderState)
  BY DEF FlowInv
<1>2. PICK done : FlowsOn(arrived, Spoilt, Good, W, section, done, suspended, IsLive, IsGone,
                          BuilderState)
  BY <1>1 DEF FlowsAt
<1>3. PICK K : FlowOK(K, arrived, Spoilt, Good, W, section, done, suspended, IsLive,
                      BuilderState.pending, BuilderState.tables)
  BY <1>2 DEF FlowsOn
<1>4. BuilderState.tables = tables
  BY DEF BuilderState
<1>5. /\ OrderOK(K, section, done, suspended) /\ arrived \subseteq K
      /\ BuiltOK(arrived, Spoilt, Good)
      /\ \A table \in Range(tables) : TableFlows(K, arrived, Spoilt, table)
  BY <1>3, <1>4 DEF FlowOK
<1>6. ASSUME NEW q, IsFlawless(q)
      PROVE  HasArrived(q) /\ q \notin Spoilt
  BY <1>6 DEF IsFlawless, IsSplit, Spoilt
<1>7. ASSUME NEW table \in Built
      PROVE  IsItsOwn(table)
  <2> DEFINE x == table[Len(table)].section
             q == x.pass
  <2>1. table # <<>> /\ TableFlows(K, arrived, Spoilt, table)
    BY <1>5 DEF Built
  <2>2. Len(table) \in DOMAIN table
    BY <2>1, LenProperties, EmptySeq DEF TableFlows
  <2>3. x \in K /\ OwnTable(arrived, Spoilt, table)
    BY <2>1, <2>2 DEF TableFlows
  <2>4. SUFFICES ASSUME IsFlawless(q), \A r \in PassesOf(table) : r <= q
                 PROVE  PassesOf(table) = {q}
    BY DEF IsItsOwn
  <2>5. HasArrived(q) /\ q \notin Spoilt
    BY <1>6, <2>4
  <2> HIDE DEF x
  <2>6. ArrivedTo(arrived, x.pass, x.last) /\ x.number \in 0 .. x.last
    BY <1>5, <2>3, <2>5, HasArrivedTo
  <2>7. ArrivedTo(arrived, x.pass, x.number)
    <3>1. \A i \in 0 .. x.number : i \in 0 .. x.last
      BY <1>5, <2>3, <2>6, SectionNumbers DEF OrderOK
    <3> QED
      BY <2>6, <3>1 DEF ArrivedTo
  <2> QED
    BY <2>3, <2>4, <2>5, <2>7 DEF OwnTable, x
<1>8. ASSUME NEW s \in arrived, IsFlawless(s.pass), ~IsLong(s.pass), s.pass \notin mixed,
             AreAlike(s)
      PROVE  s.pass \in built
  <2>1. HasArrived(s.pass) /\ s.pass \notin Spoilt /\ s \in K
    BY <1>5, <1>6, <1>8
  <2>2. ArrivedTo(arrived, s.pass, s.last) /\ s.number \in 0 .. s.last
    BY <1>5, <2>1, HasArrivedTo
  <2>3. PICK l \in arrived : l.pass = s.pass /\ l.number = s.last
    <3>1. s.last \in 0 .. s.last
      <4>1. IsSection(s)
        BY <1>5, <2>1 DEF OrderOK
      <4> QED
        BY <4>1, SectionNumbers
    <3> QED
      BY <2>2, <3>1 DEF ArrivedTo
  <2>4. Kin(l, s)
    BY <1>5, <2>1 DEF OrderOK
  <2>5. IsSameTable(l, s) /\ l.last = s.last /\ IsLast(l)
    BY <2>3, <2>4 DEF Kin, IsLast
  <2>6. AreAlike(l)
    BY <1>8, <2>5 DEF AreAlike, IsSameTable
  <2>7. ~LongIn(arrived, l.pass)
    BY <1>8, <2>3 DEF IsLong, LongIn
  <2>8. IsToBuild(arrived, Spoilt, l)
    BY <2>1, <2>2, <2>3, <2>5, <2>6, <2>7 DEF IsToBuild
  <2>9. l.pass \in Good
    BY <1>5, <2>8 DEF BuiltOK
  <2> QED
    BY <1>8, <2>3, <2>9 DEF Good
<1> QED
  BY <1>7, <1>8 DEF TableIsBuilt

\* A transmission that arrives wholly is built while it arrives, whatever was lost before it and
\* wherever its sections lie in the packets, but for those that TableIsBuilt names; and a table
\* that its last section completes has no section of another transmission.
THEOREM WholeTablesAreBuilt ==
  ASSUME MaxBurst <= 14
  PROVE  Spec => []TableIsBuilt
<1>1. Init => FlowInv
  BY FlowBegins
<1>2. ChannelInv /\ FlowInv /\ [Next]_vars => FlowInv'
  <2> SUFFICES ASSUME ChannelInv, FlowInv, [Next]_vars PROVE FlowInv'
    OBVIOUS
  <2>1. CASE Arrive
    BY <2>1, FlowArrives
  <2>2. CASE Lose
    BY <2>2, FlowIsLost
  <2>3. CASE Repeat
    BY <2>3, FlowRepeats
  <2>4. CASE UNCHANGED vars
    <3>1. /\ Spoilt' = Spoilt /\ Good' = Good /\ IsLive' = IsLive /\ IsGone' = IsGone
          /\ IsDone' = IsDone /\ BuilderState' = BuilderState
          /\ UNCHANGED <<section, sent, suspended, split, arrived, sectionInProgress>>
      BY <2>4 DEF vars, builderVars, senderVars, Spoilt, Good, IsLive, IsGone, IsDone, BuilderState
    <3> QED
      BY <3>1 DEF FlowInv, LiveOK, SplitOK
  <2> QED
    BY <2>1, <2>2, <2>3, <2>4 DEF Next
<1>3. FlowInv => TableIsBuilt
  BY FlowBuilds
<1> QED
  BY <1>1, <1>2, <1>3, SectionsFollowTheChannel, PTL DEF Spec

=============================================================================

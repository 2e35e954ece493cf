--------------------------- MODULE ReceptionProofs ---------------------------
(***************************************************************************)
(* Chunks of received bytes, for all packets and chunks of every length:   *)
(* what each packet is read as alone is what is read of it in a chunk.     *)
(* And single packets, for all values of their parts: what is written is   *)
(* read back, up to the times in the PES headers; and with that chunks of  *)
(* what the muxer sends.                                                   *)
(***************************************************************************)
EXTENDS ChunkReception, SequenceTheorems, WellFoundedInduction, TLAPS

-----------------------------------------------------------------------------
(* Induction and flattened sequences *)

LEMMA LessThanNat == IsWellFoundedOn({p \in Nat \X Nat : p[1] < p[2]}, Nat)
BY NatLessThanWellFounded DEF OpToRel

LEMMA InductionOverNat ==
  ASSUME NEW S, 0 \in S, \A n \in Nat : n \in S => n + 1 \in S
  PROVE  Nat \subseteq S
<1> DEFINE R == {p \in Nat \X Nat : p[1] < p[2]}
           T == Nat \ S
<1>1. SUFFICES ASSUME T # {} PROVE FALSE
  OBVIOUS
<1>2. \E x \in T : \A y \in T : ~ (<<y, x>> \in R)
  <2> HIDE DEF T
  <2>1. T \subseteq Nat
    BY DEF T
  <2> HIDE DEF R
  <2>2. IsWellFoundedOn(R, Nat)
    BY LessThanNat DEF R
  <2> QED
    BY <1>1, <2>1, <2>2, WFMin
<1>3. PICK x \in T : \A y \in T : ~ (<<y, x>> \in R)
  BY <1>2
<1>4. x \in Nat /\ x # 0 /\ x - 1 \in Nat /\ x - 1 < x /\ (x - 1) + 1 = x
  BY <1>3
<1>5. x - 1 \in T
  BY <1>3, <1>4
<1> QED
  BY <1>3, <1>4, <1>5

IsFlat(f, seqs) == f = [i \in 1 .. Len(seqs) |-> IF i = 1 THEN seqs[i] ELSE f[i-1] \o seqs[i]]

LEMMA FlattenDef ==
  ASSUME NEW seqs, Len(seqs) # 0
  PROVE  FlattenSeq(seqs) = (CHOOSE f : IsFlat(f, seqs))[Len(seqs)]
BY DEF FlattenSeq, IsFlat

FlattensTo(f, seqs, n) ==
  /\ f = [i \in 1 .. n |-> f[i]]
  /\ \A i \in 1 .. n : f[i] = IF i = 1 THEN seqs[i] ELSE f[i-1] \o seqs[i]

LEMMA FlattenGoesOn ==
  ASSUME NEW seqs, NEW n \in Nat, NEW f, FlattensTo(f, seqs, n)
  PROVE  \E g : FlattensTo(g, seqs, n + 1)
<1> DEFINE new == IF n = 0 THEN seqs[1] ELSE f[n] \o seqs[n + 1]
           g == [i \in 1 .. n + 1 |-> IF i \in 1 .. n THEN f[i] ELSE new]
<1>1. ASSUME NEW i \in 1 .. n + 1
      PROVE  g[i] = IF i = 1 THEN seqs[i] ELSE g[i-1] \o seqs[i]
  <2>1. CASE i \in 1 .. n
    <3>1. g[i] = f[i] /\ (i # 1 => i - 1 \in 1 .. n /\ g[i-1] = f[i-1])
      BY <2>1
    <3>2. f[i] = IF i = 1 THEN seqs[i] ELSE f[i-1] \o seqs[i]
      BY <2>1 DEF FlattensTo
    <3> QED
      BY <3>1, <3>2
  <2>2. CASE i = n + 1
    <3>1. g[i] = new /\ (n # 0 => n \in 1 .. n + 1 /\ g[n] = f[n]) /\ i - 1 = n
      BY <2>2
    <3> HIDE DEF g
    <3> QED
      BY <2>2, <3>1
  <2> QED
    BY <2>1, <2>2
<1>2. g = [i \in 1 .. n + 1 |-> g[i]]
  OBVIOUS
<1> HIDE DEF g
<1> QED
  BY <1>1, <1>2 DEF FlattensTo

LEMMA FlatExists ==
  ASSUME NEW seqs, Len(seqs) \in Nat
  PROVE  \E f : IsFlat(f, seqs)
<1> DEFINE T == {n \in Nat : \E f : FlattensTo(f, seqs, n)}
<1>1. 0 \in T
  <2>1. FlattensTo([i \in 1 .. 0 |-> i], seqs, 0)
    BY DEF FlattensTo
  <2> QED
    BY <2>1
<1>2. \A n \in Nat : n \in T => n + 1 \in T
  BY FlattenGoesOn
<1>3. Nat \subseteq T
  <2> HIDE DEF T
  <2> QED
    BY <1>1, <1>2, InductionOverNat
<1>4. PICK f : FlattensTo(f, seqs, Len(seqs))
  BY <1>3
<1>5. IsFlat(f, seqs)
  BY <1>4 DEF FlattensTo, IsFlat
<1> QED
  BY <1>5

\* Its elements are those of its parts.
LEMMA FlattenedType ==
  ASSUME NEW S, NEW seqs \in Seq(Seq(S))
  PROVE  FlattenSeq(seqs) \in Seq(S)
<1>1. CASE Len(seqs) = 0
  <2>1. FlattenSeq(seqs) = seqs /\ seqs = <<>>
    BY <1>1, EmptySeq DEF FlattenSeq
  <2> QED
    BY <2>1
<1>2. CASE Len(seqs) # 0
  <2> DEFINE f == CHOOSE f : IsFlat(f, seqs)
             IsSeqAt(n) == n \in 1 .. Len(seqs) => f[n] \in Seq(S)
             T == {n \in Nat : IsSeqAt(n)}
  <2> HIDE DEF f
  <2>1. FlattensTo(f, seqs, Len(seqs))
    <3>1. IsFlat(f, seqs)
      BY FlatExists DEF f
    <3> QED
      BY ONLY <3>1 DEF IsFlat, FlattensTo
  <2>2. ASSUME NEW n \in Nat, IsSeqAt(n), n + 1 \in 1 .. Len(seqs)
        PROVE  f[n + 1] \in Seq(S)
    <3>1. Len(seqs) \in Nat /\ seqs[n + 1] \in Seq(S)
      BY <2>2, ElementOfSeq, LenProperties
    <3>2. f[n + 1] = IF n = 0 THEN seqs[n + 1] ELSE f[n] \o seqs[n + 1]
      <4>1. PICK i \in 1 .. Len(seqs) : i = n + 1
        BY <2>2
      <4>2. f[i] = IF i = 1 THEN seqs[i] ELSE f[i-1] \o seqs[i]
        BY <2>1, <4>1 DEF FlattensTo
      <4>3. i - 1 = n /\ (i = 1 <=> n = 0)
        BY ONLY <4>1, n \in Nat
      <4> QED
        BY ONLY <4>1, <4>2, <4>3
    <3>3. n = 0 \/ f[n] \in Seq(S)
      BY ONLY <2>2, <3>1, n \in Nat
    <3> QED
      BY ONLY <3>1, <3>2, <3>3, ConcatProperties
  <2>3. 0 \in T
    OBVIOUS
  <2>6. \A n \in Nat : n \in T => n + 1 \in T
    <3>1. \A n \in Nat : IsSeqAt(n) => IsSeqAt(n + 1)
      BY <2>2
    <3> HIDE DEF IsSeqAt
    <3> QED
      BY <3>1
  <2>4. Nat \subseteq T
    <3> HIDE DEF T
    <3> QED
      BY <2>3, <2>6, InductionOverNat
  <2>5. f[Len(seqs)] \in Seq(S)
    BY <1>2, <2>4
  <2> QED
    BY <1>2, <2>5, FlattenDef DEF f
<1> QED
  BY <1>1, <1>2

LEMMA ConcatAppend ==
  ASSUME NEW S, NEW a \in Seq(S), NEW t \in Seq(S), NEW e \in S
  PROVE  a \o t \in Seq(S) /\ a \o Append(t, e) = Append(a \o t, e)
<1>1. a \o t \in Seq(S)
  BY ConcatProperties
<1>2. Append(t, e) = t \o <<e>> /\ <<e>> \in Seq(S) /\ Append(a \o t, e) = (a \o t) \o <<e>>
  BY <1>1, AppendIsConcat
<1> QED
  BY <1>1, <1>2, ConcatAssociative

\* A sequence of sequences grows by what is appended.
LEMMA FlattenAppend ==
  ASSUME NEW S, NEW seqs \in Seq(Seq(S)), NEW last \in Seq(S)
  PROVE  FlattenSeq(Append(seqs, last)) = FlattenSeq(seqs) \o last
<1> DEFINE n == Len(seqs)
           more == Append(seqs, last)
           f == CHOOSE f : IsFlat(f, seqs)
           g == CHOOSE g : IsFlat(g, more)
<1>1. n \in Nat /\ Len(more) = n + 1 /\ more[n + 1] = last /\ \A i \in 1 .. n : more[i] = seqs[i]
  BY AppendProperties, LenProperties
<1> HIDE DEF n, more, f, g
<1>2. IsFlat(g, more) /\ IsFlat(f, seqs)
  BY <1>1, FlatExists DEF f, g, n
<1>3. /\ \A i \in 1 .. n + 1 : g[i] = IF i = 1 THEN more[i] ELSE g[i - 1] \o more[i]
      /\ \A i \in 1 .. n : f[i] = IF i = 1 THEN seqs[i] ELSE f[i - 1] \o seqs[i]
  BY <1>1, <1>2 DEF IsFlat, n
<1>4. FlattenSeq(more) = g[n + 1] /\ (n # 0 => FlattenSeq(seqs) = f[n])
  BY <1>1, FlattenDef DEF f, g, n
<1>5. CASE n = 0
  <2>1. seqs = <<>> /\ FlattenSeq(seqs) = <<>>
    BY <1>5, EmptySeq DEF FlattenSeq, n
  <2>2. g[1] = last
    BY <1>1, <1>3, <1>5
  <2> QED
    BY <1>4, <1>5, <2>1, <2>2, ConcatEmptySeq DEF more
<1>6. CASE n # 0
  <2> DEFINE T == {i \in Nat : i \in 1 .. n => g[i] = f[i]}
  <2>1. 0 \in T
    OBVIOUS
  <2>2. ASSUME NEW i \in Nat, i \in T PROVE i + 1 \in T
    <3>1. CASE i + 1 \in 1 .. n
      <4> DEFINE j == i + 1
      <4> HIDE DEF j
      <4>1. j \in 1 .. n /\ j \in 1 .. n + 1 /\ (j # 1 => j - 1 \in 1 .. n /\ j - 1 = i)
        BY <3>1, <1>1 DEF j
      <4>2. j # 1 => g[j - 1] = f[j - 1]
        BY <2>2, <4>1
      <4>3. g[j] = f[j]
        BY <1>1, <1>3, <4>1, <4>2
      <4> QED
        BY <4>3 DEF j
    <3>2. CASE ~(i + 1 \in 1 .. n)
      BY <3>2
    <3> QED
      BY <3>1, <3>2
  <2>3. Nat \subseteq T
    <3> HIDE DEF T
    <3> QED
      BY <2>1, <2>2, InductionOverNat
  <2>4. g[n] = f[n]
    BY <1>1, <1>6, <2>3
  <2>5. g[n + 1] = g[n] \o more[n + 1]
    <3> DEFINE j == n + 1
    <3>1. j \in 1 .. n + 1 /\ j # 1 /\ j - 1 = n
      BY <1>1, <1>6
    <3> HIDE DEF j
    <3>2. g[j] = g[j - 1] \o more[j]
      BY <1>3, <3>1
    <3> QED
      BY <3>1, <3>2 DEF j
  <2> QED
    BY <1>1, <1>4, <1>6, <2>4, <2>5 DEF more
<1> QED
  BY <1>5, <1>6

LEMMA InductionOverSeq ==
  ASSUME NEW S, NEW T, <<>> \in T, \A s \in Seq(S), e \in S : s \in T => Append(s, e) \in T
  PROVE  Seq(S) \subseteq T
<1> DEFINE L == {n \in Nat : \A s \in Seq(S) : Len(s) = n => s \in T}
<1>1. 0 \in L
  BY EmptySeq
<1>2. ASSUME NEW n \in Nat, n \in L PROVE n + 1 \in L
  <2>1. ASSUME NEW s \in Seq(S), Len(s) = n + 1 PROVE s \in T
    <3>1. s # <<>>
      BY <2>1, EmptySeq
    <3>2. PICK t \in Seq(S), e \in S : s = Append(t, e)
      BY <3>1, SequenceEmptyOrAppend
    <3>3. Len(t) = n
      BY <2>1, <3>2, AppendProperties, LenProperties
    <3> QED
      BY <1>2, <3>2, <3>3
  <2> QED
    BY <2>1
<1>3. Nat \subseteq L
  <2> HIDE DEF L
  <2> QED
    BY <1>1, <1>2, InductionOverNat
<1> QED
  BY <1>3, LenProperties

\* Parts of a sequence of sequences are flattened on their own.
LEMMA FlattenConcat ==
  ASSUME NEW S, NEW a \in Seq(Seq(S)), NEW b \in Seq(Seq(S))
  PROVE  FlattenSeq(a \o b) = FlattenSeq(a) \o FlattenSeq(b)
<1> DEFINE T == {s \in Seq(Seq(S)) : FlattenSeq(a \o s) = FlattenSeq(a) \o FlattenSeq(s)}
<1>1. FlattenSeq(a) \in Seq(S)
  BY FlattenedType
<1>2. <<>> \in T
  <2>1. FlattenSeq(<<>>) = <<>> /\ a \o <<>> = a /\ <<>> \in Seq(Seq(S))
    BY EmptySeq, ConcatEmptySeq DEF FlattenSeq
  <2>2. FlattenSeq(a) \o <<>> = FlattenSeq(a)
    BY <1>1, ConcatEmptySeq
  <2> QED
    BY <2>1, <2>2
<1>3. ASSUME NEW t \in Seq(Seq(S)), NEW e \in Seq(S), t \in T PROVE Append(t, e) \in T
  <2>1. a \o t \in Seq(Seq(S)) /\ a \o Append(t, e) = Append(a \o t, e)
    BY ConcatAppend
  <2>2. FlattenSeq(a \o Append(t, e)) = FlattenSeq(a \o t) \o e
    BY <2>1, FlattenAppend
  <2>3. FlattenSeq(Append(t, e)) = FlattenSeq(t) \o e
    BY FlattenAppend
  <2>4. FlattenSeq(t) \in Seq(S) /\ Append(t, e) \in Seq(Seq(S))
    BY FlattenedType, AppendProperties
  <2>5. (FlattenSeq(a) \o FlattenSeq(t)) \o e = FlattenSeq(a) \o (FlattenSeq(t) \o e)
    BY ONLY <1>1, <2>4, e \in Seq(S), ConcatAssociative
  <2> QED
    BY <1>3, <2>2, <2>3, <2>4, <2>5
<1>4. Seq(Seq(S)) \subseteq T
  <2> HIDE DEF T
  <2> QED
    BY <1>2, <1>3, InductionOverSeq
<1> QED
  BY <1>4

\* F has a sequence for every name.
IsTable(F, N, S) == F \in [N -> Seq(S)]

\* What F has for each of some names, one behind the other.
PartsFor(F, names) == [i \in DOMAIN names |-> F[names[i]]]
Each(F, names) == FlattenSeq(PartsFor(F, names))

LEMMA EachOfNone ==
  ASSUME NEW F
  PROVE  Each(F, <<>>) = <<>>
<1>1. [i \in DOMAIN <<>> |-> F[<<>>[i]]] = <<>>
  OBVIOUS
<1> QED
  BY <1>1 DEF Each, PartsFor, FlattenSeq

LEMMA PartsOf ==
  ASSUME NEW S, NEW N, NEW F, IsTable(F, N, S), NEW names \in Seq(N)
  PROVE  /\ PartsFor(F, names) \in Seq(Seq(S)) /\ Len(PartsFor(F, names)) = Len(names)
         /\ DOMAIN names = 1 .. Len(names)
         /\ \A i \in 1 .. Len(names) : PartsFor(F, names)[i] = F[names[i]]
<1>1. DOMAIN names = 1 .. Len(names) /\ Len(names) \in Nat /\ \A i \in 1 .. Len(names) : names[i] \in N
  BY LenProperties, ElementOfSeq
<1> QED
  BY <1>1 DEF PartsFor, IsTable

LEMMA EachType ==
  ASSUME NEW S, NEW N, NEW F, IsTable(F, N, S), NEW names \in Seq(N)
  PROVE  Each(F, names) \in Seq(S)
BY PartsOf, FlattenedType DEF Each

LEMMA EachAppend ==
  ASSUME NEW S, NEW N, NEW F, IsTable(F, N, S), NEW names \in Seq(N), NEW e \in N
  PROVE  Each(F, Append(names, e)) = Each(F, names) \o F[e]
<1> DEFINE parts == PartsFor(F, names)
           more == Append(names, e)
           moreParts == PartsFor(F, more)
<1>1. parts \in Seq(Seq(S)) /\ Len(parts) = Len(names) /\ \A i \in 1 .. Len(names) : parts[i] = F[names[i]]
  <2>1. parts \in Seq(Seq(S)) /\ Len(parts) = Len(names)
    BY PartsOf
  <2>2. ASSUME NEW i \in 1 .. Len(names) PROVE parts[i] = F[names[i]]
    BY LenProperties DEF PartsFor
  <2> QED
    BY <2>1, <2>2
<1>2. /\ more \in Seq(N) /\ Len(more) = Len(names) + 1 /\ Len(names) \in Nat
      /\ \A i \in 1 .. Len(names) : more[i] = names[i]
      /\ more[Len(names) + 1] = e
  BY AppendProperties, LenProperties
<1>3. moreParts \in Seq(Seq(S)) /\ Len(moreParts) = Len(more) /\ \A i \in 1 .. Len(more) : moreParts[i] = F[more[i]]
  <2> HIDE DEF more
  <2> QED
    <3>1. moreParts \in Seq(Seq(S)) /\ Len(moreParts) = Len(more)
      BY <1>2, PartsOf
    <3>2. ASSUME NEW i \in 1 .. Len(more) PROVE moreParts[i] = F[more[i]]
      BY <1>2, LenProperties DEF PartsFor
    <3> QED
      BY <3>1, <3>2
<1> HIDE DEF parts, moreParts, more
<1>4. \A i \in 1 .. Len(names) : moreParts[i] = parts[i]
  <2>1. ASSUME NEW i \in 1 .. Len(names) PROVE moreParts[i] = parts[i]
    <3>1. i \in 1 .. Len(more) /\ more[i] = names[i]
      BY <1>2
    <3> QED
      BY <1>1, <1>3, <3>1
  <2> QED
    BY <2>1
<1>5. moreParts[Len(names) + 1] = F[e]
  BY <1>2, <1>3
<1>6. F[e] \in Seq(S)
  BY DEF IsTable
<1>7. moreParts = Append(parts, F[e])
  <2> DEFINE other == Append(parts, F[e])
             Parts == Seq(S)
  <2>1. /\ other \in Seq(Parts) /\ Len(other) = Len(names) + 1
        /\ \A i \in 1 .. Len(names) : other[i] = parts[i]
        /\ other[Len(names) + 1] = F[e]
    BY <1>1, <1>6, AppendProperties
  <2>2. moreParts \in Seq(Parts) /\ Len(moreParts) = Len(names) + 1
    BY <1>2, <1>3
  <2> HIDE DEF other, Parts
  <2>3. \A i \in 1 .. Len(names) + 1 : moreParts[i] = other[i]
    <3>1. ASSUME NEW i \in 1 .. Len(names) + 1 PROVE moreParts[i] = other[i]
      <4>1. i \in 1 .. Len(names) \/ i = Len(names) + 1
        BY <1>2
      <4> QED
        BY <1>4, <1>5, <2>1, <4>1
    <3> QED
      BY <3>1
  <2>4. moreParts = other
    BY <2>1, <2>2, <2>3, SeqEqual
  <2> QED
    BY <2>4 DEF other
<1>8. FlattenSeq(moreParts) = FlattenSeq(parts) \o F[e]
  BY <1>1, <1>6, <1>7, FlattenAppend
<1> QED
  BY <1>8 DEF Each, parts, moreParts, more

LEMMA ConcatPlaces ==
  ASSUME NEW S, NEW s \in Seq(S), NEW t \in Seq(S)
  PROVE  /\ s \o t \in Seq(S) /\ Len(s \o t) = Len(s) + Len(t)
         /\ \A i \in 1 .. Len(s) : (s \o t)[i] = s[i]
         /\ \A i \in 1 .. Len(t) : (s \o t)[Len(s) + i] = t[i]
<1> DEFINE st == s \o t
<1>1. /\ st \in Seq(S) /\ Len(st) = Len(s) + Len(t)
      /\ \A i \in 1 .. Len(s) + Len(t) : st[i] = IF i <= Len(s) THEN s[i] ELSE t[i - Len(s)]
  BY ConcatProperties
<1>2. Len(s) \in Nat /\ Len(t) \in Nat
  BY LenProperties
<1> HIDE DEF st
<1>3. ASSUME NEW i \in 1 .. Len(t) PROVE st[Len(s) + i] = t[i]
  <2>1. Len(s) + i \in 1 .. Len(s) + Len(t) /\ ~(Len(s) + i <= Len(s)) /\ Len(s) + i - Len(s) = i
    BY <1>2
  <2> QED
    BY <1>1, <2>1
<1>4. ASSUME NEW i \in 1 .. Len(s) PROVE st[i] = s[i]
  <2>1. i \in 1 .. Len(s) + Len(t) /\ i <= Len(s)
    BY <1>2
  <2> QED
    BY <1>1, <2>1
<1> QED
  BY <1>1, <1>3, <1>4 DEF st

-----------------------------------------------------------------------------
(* The bytes of a chunk *)

Names == DOMAIN Packets

\* Of the bytes of a packet.
Places == 1 .. 188

Sizes == {TS_PACKET_SIZE_188, TS_PACKET_SIZE_204}

LEMMA PacketsOfNames ==
  ASSUME NEW name \in Names
  PROVE  Packets[name].bytes \in Seq(Byte) /\ Len(Packets[name].bytes) = 188
BY PacketsAssumption DEF Names, TS_PACKET_SIZE_188

StreamTable ==
  [name \in Names |-> Packets[name].bytes \o [i \in 1 .. streamSize - TS_PACKET_SIZE_188 |-> 170]]

LEMMA OnePacketOfStream ==
  ASSUME streamSize \in Sizes, NEW name \in Names
  PROVE  /\ StreamTable[name] \in Seq(Byte) /\ Len(StreamTable[name]) = streamSize
         /\ \A m \in Places : StreamTable[name][m] = Packets[name].bytes[m]
<1> DEFINE bytes == Packets[name].bytes
           parity == [i \in 1 .. streamSize - 188 |-> 170]
<1>1. StreamTable[name] = bytes \o parity
  BY DEF StreamTable, TS_PACKET_SIZE_188
<1>2. bytes \in Seq(Byte) /\ Len(bytes) = 188
  BY PacketsOfNames
<1>3. parity \in Seq(Byte) /\ Len(parity) = streamSize - 188
  <2>1. streamSize - 188 \in Nat /\ 170 \in Byte
    BY DEF Sizes, TS_PACKET_SIZE_188, TS_PACKET_SIZE_204, Byte
  <2> QED
    BY <2>1
<1> HIDE DEF bytes, parity
<1>4. /\ bytes \o parity \in Seq(Byte) /\ Len(bytes \o parity) = Len(bytes) + Len(parity)
      /\ \A m \in 1 .. Len(bytes) : (bytes \o parity)[m] = bytes[m]
  <2>1. bytes \in Seq(Byte) /\ parity \in Seq(Byte)
    BY <1>2, <1>3
  <2> QED
    BY ONLY <2>1, ConcatPlaces
<1>5. streamSize \in Int
  BY DEF Sizes, TS_PACKET_SIZE_188, TS_PACKET_SIZE_204
<1>6. Len(bytes) + Len(parity) = streamSize
  BY <1>2, <1>3, <1>5
<1>7. /\ bytes \o parity \in Seq(Byte) /\ Len(bytes \o parity) = streamSize
      /\ \A m \in Places : (bytes \o parity)[m] = bytes[m]
  BY ONLY <1>2, <1>4, <1>6 DEF Places
<1> QED
  BY <1>1, <1>7 DEF bytes

LEMMA StreamIsTable ==
  ASSUME streamSize \in Sizes
  PROVE  IsTable(StreamTable, Names, Byte)
<1>1. \A name \in Names : StreamTable[name] \in Seq(Byte)
  BY OnePacketOfStream
<1>2. StreamTable = [name \in Names |-> StreamTable[name]]
  BY DEF StreamTable
<1> QED
  BY <1>1, <1>2 DEF IsTable

LEMMA StreamIsEach ==
  ASSUME NEW names \in Seq(Names)
  PROVE  Stream(names) = Each(StreamTable, names)
<1>1. \A i \in DOMAIN names : names[i] \in Names
  BY LenProperties, ElementOfSeq
<1>2. PartsFor(StreamTable, names)
        = [i \in DOMAIN names |-> Packets[names[i]].bytes \o [k \in 1 .. streamSize - TS_PACKET_SIZE_188 |-> 170]]
  BY <1>1 DEF PartsFor, StreamTable
<1> QED
  BY <1>2 DEF Stream, Each

\* Where the bytes of packet k are, in bytes made of packets of that size.
HasPacket(bytes, size, k, packet) == \A m \in Places : bytes[(k - 1) * size + m] = packet[m]

IsStreamOf(bytes, size, names) ==
  /\ bytes \in Seq(Byte) /\ Len(bytes) = Len(names) * size
  /\ \A k \in 1 .. Len(names) : HasPacket(bytes, size, k, Packets[names[k]].bytes)

LEMMA PlaceOfNext ==
  ASSUME NEW size \in Sizes, NEW n \in Nat, NEW k \in 1 .. n, NEW m \in Places
  PROVE  (k - 1) * size + m \in 1 .. n * size
<1>1. CASE size = 188
  BY <1>1 DEF Places
<1>2. CASE size = 204
  BY <1>2 DEF Places
<1> QED
  BY <1>1, <1>2 DEF Sizes, TS_PACKET_SIZE_188, TS_PACKET_SIZE_204

LEMMA StreamGrows ==
  ASSUME streamSize \in Sizes, NEW names \in Seq(Names), NEW name \in Names,
         NEW bytes, IsStreamOf(bytes, streamSize, names)
  PROVE  IsStreamOf(bytes \o StreamTable[name], streamSize, Append(names, name))
<1> DEFINE n == Len(names)
           last == StreamTable[name]
           all == bytes \o last
           more == Append(names, name)
<1>1. /\ last \in Seq(Byte) /\ Len(last) = streamSize
      /\ \A m \in Places : last[m] = Packets[name].bytes[m]
  BY OnePacketOfStream
<1>2. /\ n \in Nat /\ Len(more) = n + 1 /\ more[n + 1] = name
      /\ \A k \in 1 .. n : more[k] = names[k]
  BY AppendProperties, LenProperties
<1>3. bytes \in Seq(Byte) /\ Len(bytes) = n * streamSize
  BY DEF IsStreamOf
<1>10. \A k \in 1 .. n : HasPacket(bytes, streamSize, k, Packets[names[k]].bytes)
  BY DEF IsStreamOf
<1> HIDE DEF last, more, n
<1>4. /\ all \in Seq(Byte) /\ Len(all) = Len(bytes) + Len(last)
      /\ \A i \in 1 .. Len(bytes) : all[i] = bytes[i]
      /\ \A i \in 1 .. Len(last) : all[Len(bytes) + i] = last[i]
  <2>1. bytes \in Seq(Byte) /\ last \in Seq(Byte)
    BY <1>1, <1>3
  <2> QED
    BY ONLY <2>1, ConcatPlaces
<1>5. streamSize \in Nat /\ streamSize >= 188 /\ n * streamSize \in Nat
      /\ (n + 1) * streamSize = n * streamSize + streamSize
  <2>1. streamSize = 188 \/ streamSize = 204
    BY DEF Sizes, TS_PACKET_SIZE_188, TS_PACKET_SIZE_204
  <2> QED
    <3>1. n \in Nat
      BY <1>2
    <3> QED
      BY ONLY <2>1, <3>1
<1> HIDE DEF all
<1>6. ASSUME NEW k \in 1 .. n + 1, NEW m \in Places
      PROVE  all[(k - 1) * streamSize + m] = Packets[more[k]].bytes[m]
  <2> DEFINE i == (k - 1) * streamSize + m
  <2>1. CASE k \in 1 .. n
    <3>1. i \in 1 .. n * streamSize
      BY <1>2, <2>1, PlaceOfNext
    <3>2. bytes[i] = Packets[names[k]].bytes[m]
      BY <1>10, <2>1 DEF HasPacket
    <3> HIDE DEF i
    <3>3. all[i] = bytes[i]
      BY <1>3, <1>4, <3>1
    <3> QED
      BY <1>2, <2>1, <3>2, <3>3 DEF i
  <2>2. CASE k = n + 1
    <3>1. i = n * streamSize + m
      BY <1>2, <2>2
    <3> HIDE DEF i
    <3>2. all[i] = last[m]
      <4>1. m \in 1 .. Len(last)
        <5>1. Len(last) \in Nat /\ Len(last) >= 188
          <6>1. Len(last) = streamSize
            BY <1>1
          <6> QED
            BY ONLY <1>5, <6>1
        <5> QED
          BY ONLY <5>1, m \in Places DEF Places
      <4> QED
        BY <1>3, <1>4, <3>1, <4>1
    <3> QED
      BY <1>1, <1>2, <2>2, <3>2 DEF i
  <2> QED
    BY <1>2, <2>1, <2>2
<1>7. Len(all) = Len(more) * streamSize
  BY <1>1, <1>2, <1>3, <1>4, <1>5
<1>8. \A k \in 1 .. Len(more) : HasPacket(all, streamSize, k, Packets[more[k]].bytes)
  BY <1>2, <1>6 DEF HasPacket
<1>9. IsStreamOf(all, streamSize, more)
  BY <1>4, <1>7, <1>8 DEF IsStreamOf
<1> QED
  BY <1>9 DEF all, last, more

LEMMA StreamIsStream ==
  ASSUME streamSize \in Sizes, NEW names \in Seq(Names)
  PROVE  IsStreamOf(Stream(names), streamSize, names)
<1> DEFINE T == {s \in Seq(Names) : IsStreamOf(Each(StreamTable, s), streamSize, s)}
<1>1. <<>> \in T
  <2>1. Each(StreamTable, <<>>) = <<>> /\ <<>> \in Seq(Names) /\ <<>> \in Seq(Byte) /\ Len(<<>>) = 0 /\ 1 .. Len(<<>>) = {}
    BY EachOfNone, EmptySeq
  <2>2. 0 * streamSize = 0
    BY DEF Sizes, TS_PACKET_SIZE_188, TS_PACKET_SIZE_204
  <2> QED
    <3>1. IsStreamOf(<<>>, streamSize, <<>>)
      BY ONLY <2>1, <2>2 DEF IsStreamOf
    <3> QED
      BY <2>1, <3>1
<1>2. ASSUME NEW s \in Seq(Names), NEW name \in Names, s \in T PROVE Append(s, name) \in T
  <2>1. Each(StreamTable, Append(s, name)) = Each(StreamTable, s) \o StreamTable[name]
    BY StreamIsTable, EachAppend
  <2>2. Append(s, name) \in Seq(Names)
    BY AppendProperties
  <2> QED
    BY <1>2, <2>1, <2>2, StreamGrows
<1>3. Seq(Names) \subseteq T
  <2> HIDE DEF T
  <2> QED
    BY <1>1, <1>2, InductionOverSeq
<1> QED
  BY <1>3, StreamIsEach

\* Packet k of a chunk, as it arrives.
Got(c, k) ==
  IF c.damage # <<>> /\ c.damage[1].packet = k
  THEN [Packets[c.packets[k]].bytes EXCEPT ![c.damage[1].byte] = c.damage[1].value]
  ELSE Packets[c.packets[k]].bytes

LEMMA ChunkForms ==
  ASSUME NEW c \in Chunks
  PROVE  /\ c.packets \in Seq(Names) /\ DOMAIN c.packets = 1 .. Len(c.packets)
         /\ Len(c.packets) \in Nat
         /\ \A k \in 1 .. Len(c.packets) : c.packets[k] \in Names
         /\ \A k \in DOMAIN c.damage : k = 1
         /\ c.damage # <<>> =>
              /\ DOMAIN c.damage = {1}
              /\ c.damage[1].packet \in 1 .. Len(c.packets)
              /\ c.damage[1].byte \in Places /\ c.damage[1].value \in Byte
<1> DEFINE D == [packet : DOMAIN c.packets, byte : 1 .. TS_PACKET_SIZE_188, value : Byte]
<1>1. c.packets \in Seq(Names) /\ c.damage \in Seq(D) /\ Len(c.damage) <= 1
  BY ChunksAssumption DEF Names
<1>2. /\ DOMAIN c.packets = 1 .. Len(c.packets) /\ Len(c.packets) \in Nat
      /\ \A k \in 1 .. Len(c.packets) : c.packets[k] \in Names
  BY <1>1, LenProperties, ElementOfSeq
<1>3. DOMAIN c.damage = 1 .. Len(c.damage) /\ Len(c.damage) \in Nat
  BY <1>1, LenProperties
<1>4. CASE c.damage = <<>>
  BY <1>1, <1>2, <1>4
<1>5. CASE c.damage # <<>>
  <2>1. Len(c.damage) # 0
    BY <1>1, <1>5, EmptySeq
  <2>2. DOMAIN c.damage = {1} /\ 1 \in 1 .. Len(c.damage)
    BY <1>1, <1>3, <2>1
  <2>3. c.damage[1] \in D
    BY <1>1, <2>2, ElementOfSeq
  <2> QED
    BY <1>1, <1>2, <2>2, <2>3 DEF TS_PACKET_SIZE_188, Places
<1> QED
  BY <1>4, <1>5

LEMMA GotBytes ==
  ASSUME NEW c \in Chunks, NEW k \in 1 .. Len(c.packets)
  PROVE  /\ Got(c, k) \in Seq(Byte) /\ Len(Got(c, k)) = 188
         /\ \A m \in Places :
               Got(c, k)[m] = IF c.damage # <<>> /\ c.damage[1].packet = k /\ c.damage[1].byte = m
                              THEN c.damage[1].value ELSE Packets[c.packets[k]].bytes[m]
<1> DEFINE bytes == Packets[c.packets[k]].bytes
           got == [bytes EXCEPT ![c.damage[1].byte] = c.damage[1].value]
<1>1. bytes \in Seq(Byte) /\ Len(bytes) = 188
  BY ChunkForms, PacketsOfNames
<1>2. CASE c.damage # <<>> /\ c.damage[1].packet = k
  <2>1. c.damage[1].byte \in 1 .. Len(bytes) /\ c.damage[1].value \in Byte
    BY <1>1, <1>2, ChunkForms DEF Places
  <2> HIDE DEF bytes
  <2>2. /\ got \in Seq(Byte) /\ Len(got) = Len(bytes)
        /\ \A m \in 1 .. Len(bytes) :
              got[m] = IF m = c.damage[1].byte THEN c.damage[1].value ELSE bytes[m]
    <3>1. bytes \in Seq(Byte)
      BY <1>1
    <3> QED
      BY ONLY <2>1, <3>1, ExceptSeq
  <2>3. Got(c, k) = got
    BY <1>2 DEF Got, bytes
  <2> HIDE DEF got
  <2> QED
    BY <1>1, <1>2, <2>2, <2>3 DEF bytes, Places
<1>3. CASE ~(c.damage # <<>> /\ c.damage[1].packet = k)
  <2>1. Got(c, k) = bytes
    BY <1>3 DEF Got
  <2> QED
    BY <1>1, <1>3, <2>1
<1> QED
  BY <1>2, <1>3

LEMMA PlacesDiffer ==
  ASSUME NEW size \in Sizes, NEW k \in Nat, NEW j \in Nat, NEW m \in Places, NEW b \in Places,
         (k - 1) * size + m = (j - 1) * size + b
  PROVE  k = j /\ m = b
<1>1. CASE size = 188
  BY <1>1 DEF Places
<1>2. CASE size = 204
  BY <1>2 DEF Places
<1> QED
  BY <1>1, <1>2 DEF Sizes, TS_PACKET_SIZE_188, TS_PACKET_SIZE_204

LEMMA ChunkBytes ==
  ASSUME NEW c \in Chunks, streamSize \in Sizes, c.missing = 0
  PROVE  /\ BytesOf(c) \in Seq(Byte) /\ Len(BytesOf(c)) = Len(c.packets) * streamSize
         /\ \A k \in 1 .. Len(c.packets) : HasPacket(BytesOf(c), streamSize, k, Got(c, k))
<1> DEFINE n == Len(c.packets)
           sent == Stream(c.packets)
           d == c.damage[1]
           place == (d.packet - 1) * streamSize + d.byte
           damaged == IF c.damage = <<>> THEN sent ELSE [sent EXCEPT ![place] = d.value]
<1>1. n \in Nat /\ c.packets \in Seq(Names) /\ \A k \in 1 .. n : c.packets[k] \in Names
  BY ChunkForms
<1>2. IsStreamOf(sent, streamSize, c.packets)
  BY <1>1, StreamIsStream
<1>3. /\ sent \in Seq(Byte) /\ Len(sent) = n * streamSize
      /\ \A k \in 1 .. n : HasPacket(sent, streamSize, k, Packets[c.packets[k]].bytes)
  BY <1>2 DEF IsStreamOf
<1>4. BytesOf(c) = SubSeq(damaged, 1, Len(damaged) - 0)
  BY DEF BytesOf
<1> HIDE DEF sent, n
<1>5. /\ damaged \in Seq(Byte) /\ Len(damaged) = Len(sent)
      /\ \A i \in 1 .. Len(sent) :
            damaged[i] = IF c.damage # <<>> /\ i = place THEN d.value ELSE sent[i]
  <2>1. CASE c.damage = <<>>
    BY <1>3, <2>1
  <2>2. CASE c.damage # <<>>
    <3>1. d.packet \in 1 .. n /\ d.byte \in Places /\ d.value \in Byte
      BY <2>2, ChunkForms DEF n
    <3>2. place \in 1 .. Len(sent)
      BY <1>1, <1>3, <3>1, PlaceOfNext
    <3> HIDE DEF place, d
    <3>3. sent \in Seq(Byte)
      BY <1>3
    <3> DEFINE other == [sent EXCEPT ![place] = d.value]
    <3>4. /\ other \in Seq(Byte) /\ Len(other) = Len(sent)
          /\ \A i \in 1 .. Len(sent) : other[i] = IF i = place THEN d.value ELSE sent[i]
      BY ONLY <3>1, <3>2, <3>3, ExceptSeq
    <3>5. damaged = other
      BY <2>2
    <3> HIDE DEF other, damaged
    <3> QED
      BY <2>2, <3>4, <3>5
  <2> QED
    BY <2>1, <2>2
<1> HIDE DEF damaged
<1>6. BytesOf(c) = damaged
  <2>1. Len(damaged) \in Nat
    BY <1>5, LenProperties
  <2> QED
    BY <1>4, <1>5, <2>1, SubSeqFull
<1>7. ASSUME NEW k \in 1 .. n, NEW m \in Places
      PROVE  damaged[(k - 1) * streamSize + m] = Got(c, k)[m]
  <2> DEFINE i == (k - 1) * streamSize + m
  <2>1. i \in 1 .. Len(sent)
    BY <1>1, <1>3, PlaceOfNext
  <2>2. sent[i] = Packets[c.packets[k]].bytes[m]
    BY <1>3 DEF HasPacket
  <2>3. damaged[i] = IF c.damage # <<>> /\ i = place THEN d.value ELSE sent[i]
    BY <1>5, <2>1
  <2>4. Got(c, k)[m] = IF c.damage # <<>> /\ d.packet = k /\ d.byte = m
                       THEN d.value ELSE Packets[c.packets[k]].bytes[m]
    BY GotBytes DEF n, d
  <2>5. c.damage # <<>> => (i = place <=> d.packet = k /\ d.byte = m)
    <3>1. SUFFICES ASSUME c.damage # <<>> PROVE i = place <=> d.packet = k /\ d.byte = m
      OBVIOUS
    <3>2. d.packet \in Nat /\ d.byte \in Places /\ k \in Nat
      BY <1>1, <3>1, ChunkForms DEF n
    <3>3. streamSize \in Sizes /\ m \in Places
      OBVIOUS
    <3>4. i = place => k = d.packet /\ m = d.byte
      BY ONLY <3>2, <3>3, PlacesDiffer DEF i, place
    <3> QED
      BY <3>4, Zenon
  <2> HIDE DEF i, place, d
  <2> QED
    BY <2>2, <2>3, <2>4, <2>5 DEF i
<1> QED
  BY <1>3, <1>5, <1>6, <1>7 DEF HasPacket, n

LEMMA PacketAtIs ==
  ASSUME NEW size \in Sizes, NEW n \in Nat, NEW bytes \in Seq(Byte), Len(bytes) = n * size,
         NEW k \in 1 .. n, NEW packet \in Seq(Byte), Len(packet) = 188,
         HasPacket(bytes, size, k, packet)
  PROVE  PacketAt(bytes, size, k) = packet
<1> DEFINE first == (k - 1) * size
           got == SubSeq(bytes, first + 1, first + 188)
<1>1. first \in Nat /\ first + 188 <= Len(bytes) /\ Len(bytes) \in Nat
  <2>1. first + 1 \in 1 .. n * size /\ first + 188 \in 1 .. n * size
    <3>1. 1 \in Places /\ 188 \in Places
      BY DEF Places
    <3> QED
      BY <3>1, PlaceOfNext
  <2>2. first \in Int
    <3>1. CASE size = 188
      BY <3>1
    <3>2. CASE size = 204
      BY <3>2
    <3> QED
      BY <3>1, <3>2 DEF Sizes, TS_PACKET_SIZE_188, TS_PACKET_SIZE_204
  <2> HIDE DEF first
  <2>3. Len(bytes) \in Nat
    BY LenProperties
  <2> QED
    BY <2>1, <2>2, <2>3
<1>2. \A m \in Places : bytes[first + m] = packet[m]
  BY DEF HasPacket
<1>3. PacketAt(bytes, size, k) = got
  BY DEF PacketAt, TS_PACKET_SIZE_188
<1> HIDE DEF first
<1>4. got \in Seq(Byte) /\ Len(got) = 188 /\ \A m \in Places : got[m] = bytes[first + m]
  <2> DEFINE a == first + 1
             b == first + 188
  <2>1. a \in Int /\ b \in Int /\ a <= b /\ b - a + 1 = 188 /\ \A m \in Places : a + m - 1 = first + m
    BY <1>1 DEF Places
  <2>2. \A i \in a .. b : i \in 1 .. Len(bytes)
    BY <1>1
  <2>3. \A i \in a .. b : bytes[i] \in Byte
    BY <2>2, ElementOfSeq
  <2> HIDE DEF a, b
  <2> DEFINE sub == SubSeq(bytes, a, b)
  <2>4. /\ sub \in Seq(Byte) /\ Len(sub) = IF a <= b THEN b - a + 1 ELSE 0
        /\ \A i \in 1 .. b - a + 1 : sub[i] = bytes[a + i - 1]
    <3>1. a \in Int /\ b \in Int
      BY <2>1
    <3> QED
      BY ONLY <2>3, <3>1, SubSeqProperties
  <2> HIDE DEF sub
  <2>5. sub \in Seq(Byte) /\ Len(sub) = 188 /\ \A m \in Places : sub[m] = bytes[first + m]
    <3>1. ASSUME NEW m \in Places PROVE sub[m] = bytes[first + m]
      <4>1. m \in 1 .. b - a + 1 /\ a + m - 1 = first + m
        BY <2>1 DEF Places
      <4> QED
        BY <2>4, <4>1
    <3>2. Len(sub) = 188
      BY <2>1, <2>4
    <3> QED
      BY <2>4, <3>1, <3>2
  <2> QED
    BY <2>5 DEF sub, a, b
<1> HIDE DEF got
<1>5. got = packet
  <2>1. Len(got) = Len(packet) /\ \A m \in 1 .. Len(got) : got[m] = packet[m]
    <3>1. \A m \in Places : got[m] = bytes[first + m]
      BY <1>4
    <3>2. ASSUME NEW m \in Places PROVE got[m] = packet[m]
      BY ONLY <1>2, <3>1
    <3>3. Len(got) = 188
      BY <1>4
    <3> QED
      BY <3>2, <3>3 DEF Places
  <2>2. got \in Seq(Byte)
    BY <1>4
  <2> QED
    BY ONLY <2>1, <2>2, packet \in Seq(Byte), SeqEqual
<1> QED
  BY <1>3, <1>5

\* A chunk of whole packets is read packet by packet.
LEMMA WholeTurns ==
  ASSUME NEW c \in Chunks, streamSize \in Sizes, c.missing = 0
  PROVE  Turns(BytesOf(c), streamSize)
           = FlattenSeq([k \in 1 .. Len(c.packets) |-> Kept(PacketTurn(Got(c, k)))])
<1> DEFINE n == Len(c.packets)
           bytes == BytesOf(c)
<1>1. /\ bytes \in Seq(Byte) /\ Len(bytes) = n * streamSize /\ n \in Nat
      /\ \A k \in 1 .. n : HasPacket(bytes, streamSize, k, Got(c, k))
  BY ChunkBytes, ChunkForms
<1>2. (n * streamSize) % streamSize = 0 /\ (n * streamSize) \div streamSize = n
  <2>1. n \in Nat
    BY <1>1
  <2> HIDE DEF n
  <2>2. CASE streamSize = 188
    BY <2>1, <2>2
  <2>3. CASE streamSize = 204
    BY <2>1, <2>3
  <2> QED
    BY <2>2, <2>3 DEF Sizes, TS_PACKET_SIZE_188, TS_PACKET_SIZE_204
<1>3. ASSUME NEW k \in 1 .. n PROVE PacketAt(bytes, streamSize, k) = Got(c, k)
  <2>1. Got(c, k) \in Seq(Byte) /\ Len(Got(c, k)) = 188
    BY GotBytes
  <2> HIDE DEF n, bytes
  <2> QED
    BY <1>1, <2>1, PacketAtIs
<1> HIDE DEF bytes, n
<1>4. Turns(bytes, streamSize) = FlattenSeq([k \in 1 .. n |-> Kept(PacketTurn(PacketAt(bytes, streamSize, k)))])
  BY <1>1, <1>2 DEF Turns
<1>5. [k \in 1 .. n |-> Kept(PacketTurn(PacketAt(bytes, streamSize, k)))]
        = [k \in 1 .. n |-> Kept(PacketTurn(Got(c, k)))]
  BY <1>3
<1> QED
  BY <1>4, <1>5 DEF bytes, n

-----------------------------------------------------------------------------
(* What is read of a chunk *)

TurnOf(name) == PacketTurn(Packets[name].bytes)

KeptTable == [name \in Names |-> Kept(TurnOf(name))]
ReadsTable == [name \in Names |-> Packets[name].reads]

Readings(turns) == [i \in DOMAIN turns |-> Reading(turns[i].packet)]
ReadingsOf(S) == {Reading(turn.packet) : turn \in S}

NoneNil(turns) == \A i \in DOMAIN turns : turns[i].outcome # "nil"

\* S has the turns of all packets.
HasTurns(S) == \A name \in Names : TurnOf(name) \in S

LEMMA KeptIsSeq ==
  ASSUME NEW S, NEW turn \in S
  PROVE  /\ Kept(turn) \in Seq(S) /\ Len(Kept(turn)) \in 0 .. 1
         /\ \A i \in DOMAIN Kept(turn) : Kept(turn)[i] = turn
<1>1. CASE turn.outcome = "skipped"
  BY <1>1, EmptySeq DEF Kept
<1>2. CASE turn.outcome # "skipped"
  BY <1>2 DEF Kept
<1> QED
  BY <1>1, <1>2

LEMMA ReadingsType ==
  ASSUME NEW S, NEW a \in Seq(S)
  PROVE  /\ Readings(a) \in Seq(ReadingsOf(S)) /\ Len(Readings(a)) = Len(a)
         /\ DOMAIN a = 1 .. Len(a) /\ Len(a) \in Nat
         /\ \A i \in 1 .. Len(a) : Readings(a)[i] = Reading(a[i].packet)
<1>1. DOMAIN a = 1 .. Len(a) /\ Len(a) \in Nat
  BY LenProperties
<1>2. ASSUME NEW i \in 1 .. Len(a) PROVE Reading(a[i].packet) \in ReadingsOf(S)
  <2>1. a[i] \in S
    BY ElementOfSeq
  <2> QED
    BY <2>1 DEF ReadingsOf
<1>3. Readings(a) = [i \in 1 .. Len(a) |-> Reading(a[i].packet)]
  BY <1>1 DEF Readings
<1> QED
  BY <1>1, <1>2, <1>3

LEMMA ReadingsConcat ==
  ASSUME NEW S, NEW a \in Seq(S), NEW b \in Seq(S)
  PROVE  Readings(a \o b) = Readings(a) \o Readings(b)
<1> DEFINE ab == a \o b
           m == Len(a)
           n == Len(b)
           R == ReadingsOf(S)
           ra == Readings(a)
           rb == Readings(b)
           rab == Readings(ab)
           joined == ra \o rb
<1>1. /\ ab \in Seq(S) /\ Len(ab) = m + n
      /\ \A i \in 1 .. m : ab[i] = a[i]
      /\ \A i \in 1 .. n : ab[m + i] = b[i]
  BY ConcatPlaces
<1>2. /\ ra \in Seq(R) /\ Len(ra) = m /\ m \in Nat
      /\ \A i \in 1 .. m : ra[i] = Reading(a[i].packet)
  BY ReadingsType
<1>3. /\ rb \in Seq(R) /\ Len(rb) = n /\ n \in Nat
      /\ \A i \in 1 .. n : rb[i] = Reading(b[i].packet)
  BY ReadingsType
<1> HIDE DEF ab
<1>4. /\ rab \in Seq(R) /\ Len(rab) = Len(ab)
      /\ \A i \in 1 .. Len(ab) : rab[i] = Reading(ab[i].packet)
  <2>1. ab \in Seq(S)
    BY <1>1
  <2> QED
    BY ONLY <2>1, ReadingsType
<1> HIDE DEF m, n, R, ra, rb, rab
<1>5. /\ joined \in Seq(R) /\ Len(joined) = Len(ra) + Len(rb)
      /\ \A i \in 1 .. Len(ra) : joined[i] = ra[i]
      /\ \A i \in 1 .. Len(rb) : joined[Len(ra) + i] = rb[i]
  <2>1. ra \in Seq(R) /\ rb \in Seq(R)
    BY <1>2, <1>3
  <2> QED
    BY ONLY <2>1, ConcatPlaces
<1> HIDE DEF joined
<1>6. Len(rab) = Len(joined) /\ Len(joined) = m + n
  BY <1>1, <1>2, <1>3, <1>4, <1>5
<1>7. ASSUME NEW i \in 1 .. Len(rab) PROVE rab[i] = joined[i]
  <2>1. CASE i \in 1 .. m
    <3>1. i \in 1 .. Len(ab)
      BY <1>1, <1>2, <1>3, <2>1
    <3>2. rab[i] = Reading(a[i].packet)
      BY <1>1, <1>4, <2>1, <3>1
    <3>3. joined[i] = ra[i]
      BY <1>2, <1>5, <2>1
    <3> QED
      BY <1>2, <2>1, <3>2, <3>3
  <2>2. CASE i \notin 1 .. m
    <3>1. PICK k \in 1 .. n : i = m + k
      <4>1. i \in 1 .. m + n
        BY <1>6
      <4>2. i - m \in 1 .. n /\ i = m + (i - m)
        BY ONLY <1>2, <1>3, <2>2, <4>1
      <4> QED
        BY <4>2
    <3>2. i \in 1 .. Len(ab) /\ ab[i] = b[k]
      BY <1>1, <1>2, <1>3, <3>1
    <3>3. rab[i] = Reading(b[k].packet)
      BY <1>4, <3>2
    <3>4. joined[i] = rb[k]
      BY <1>2, <1>3, <1>5, <3>1
    <3> QED
      BY <1>3, <3>3, <3>4
  <2> QED
    BY <2>1, <2>2
<1>8. rab = joined
  <2>1. rab \in Seq(R) /\ joined \in Seq(R) /\ Len(rab) = Len(joined)
    BY <1>4, <1>5, <1>6
  <2> QED
    BY ONLY <2>1, <1>7, SeqEqual
<1> QED
  BY <1>8 DEF rab, joined, ra, rb, ab

LEMMA NoneNilConcat ==
  ASSUME NEW S, NEW a \in Seq(S), NEW b \in Seq(S)
  PROVE  /\ NoneNil(a) /\ NoneNil(b) => NoneNil(a \o b)
         /\ ~NoneNil(a \o b) => ~NoneNil(a) \/ ~NoneNil(b)
<1> DEFINE ab == a \o b
           m == Len(a)
           n == Len(b)
<1>1. /\ ab \in Seq(S) /\ Len(ab) = m + n
      /\ \A i \in 1 .. m : ab[i] = a[i]
      /\ \A i \in 1 .. n : ab[m + i] = b[i]
  BY ConcatPlaces
<1>2. DOMAIN a = 1 .. m /\ DOMAIN b = 1 .. n /\ m \in Nat /\ n \in Nat
  BY LenProperties
<1> HIDE DEF ab, m, n
<1>3. DOMAIN ab = 1 .. m + n
  <2>1. ab \in Seq(S)
    BY <1>1
  <2>2. DOMAIN ab = 1 .. Len(ab)
    BY ONLY <2>1, LenProperties
  <2> QED
    BY <1>1, <2>2
<1>4. SUFFICES ASSUME NoneNil(a), NoneNil(b), NEW i \in 1 .. m + n PROVE ab[i].outcome # "nil"
  BY <1>3 DEF NoneNil, ab
<1>5. CASE i \in 1 .. m
  BY <1>1, <1>2, <1>4, <1>5 DEF NoneNil
<1>6. CASE i \notin 1 .. m
  <2>1. i - m \in 1 .. n /\ i = m + (i - m)
    BY ONLY <1>2, <1>6, i \in 1 .. m + n
  <2>2. ab[i] = b[i - m]
    BY <1>1, <2>1
  <2> QED
    BY <1>2, <1>4, <2>1, <2>2 DEF NoneNil
<1> QED
  BY <1>5, <1>6

LEMMA Tables ==
  ASSUME NEW S, HasTurns(S), \A name \in Names : IsReadAlone(name)
  PROVE  /\ IsTable(KeptTable, Names, S) /\ IsTable(ReadsTable, Names, ReadingsOf(S))
         /\ \A name \in Names : /\ NoneNil(KeptTable[name]) /\ KeptTable[name] \in Seq(S)
                                /\ Readings(KeptTable[name]) = ReadsTable[name]
<1>1. ASSUME NEW name \in Names
      PROVE  /\ KeptTable[name] \in Seq(S) /\ NoneNil(KeptTable[name])
             /\ ReadsTable[name] = Readings(KeptTable[name])
             /\ ReadsTable[name] \in Seq(ReadingsOf(S))
  <2>1. KeptTable[name] = Kept(TurnOf(name)) /\ ReadsTable[name] = Packets[name].reads
    BY DEF KeptTable, ReadsTable
  <2>2. TurnOf(name) \in S
    BY DEF HasTurns
  <2>3. /\ Kept(TurnOf(name)) \in Seq(S)
        /\ \A i \in DOMAIN Kept(TurnOf(name)) : Kept(TurnOf(name))[i] = TurnOf(name)
    BY <2>2, KeptIsSeq
  <2>4. /\ TurnOf(name).outcome # "nil"
        /\ Packets[name].reads = Readings(Kept(TurnOf(name)))
    BY DEF IsReadAlone, TurnOf, Readings
  <2>5. NoneNil(Kept(TurnOf(name)))
    BY <2>3, <2>4 DEF NoneNil
  <2>6. Readings(Kept(TurnOf(name))) \in Seq(ReadingsOf(S))
    BY <2>3, ReadingsType
  <2> QED
    BY <2>1, <2>3, <2>4, <2>5, <2>6
<1>2. KeptTable = [name \in Names |-> KeptTable[name]] /\ ReadsTable = [name \in Names |-> ReadsTable[name]]
  BY DEF KeptTable, ReadsTable
<1> QED
  BY <1>1, <1>2 DEF IsTable

\* What is read of packets one behind the other is what is to be read of each.
LEMMA KeptAreRead ==
  ASSUME NEW S, HasTurns(S), \A name \in Names : IsReadAlone(name)
  PROVE  \A names \in Seq(Names) :
            /\ Each(KeptTable, names) \in Seq(S) /\ NoneNil(Each(KeptTable, names))
            /\ Readings(Each(KeptTable, names)) = Each(ReadsTable, names)
<1> DEFINE R == ReadingsOf(S)
           Holds(names) == /\ NoneNil(Each(KeptTable, names))
                           /\ Readings(Each(KeptTable, names)) = Each(ReadsTable, names)
           T == {names \in Seq(Names) : Holds(names)}
<1>1. <<>> \in T
  <2>1. Each(KeptTable, <<>>) = <<>> /\ Each(ReadsTable, <<>>) = <<>> /\ <<>> \in Seq(Names)
    BY EachOfNone, EmptySeq
  <2>2. NoneNil(<<>>) /\ Readings(<<>>) = <<>>
    BY DEF NoneNil, Readings
  <2> QED
    BY <2>1, <2>2
<1>2. ASSUME NEW names \in Seq(Names), NEW e \in Names, names \in T
      PROVE  Append(names, e) \in T
  <2> DEFINE kept == Each(KeptTable, names)
             one == KeptTable[e]
  <2>1. kept \in Seq(S) /\ one \in Seq(S) /\ NoneNil(one) /\ Readings(one) = ReadsTable[e]
    BY Tables, EachType
  <2>2. Each(KeptTable, Append(names, e)) = kept \o one
    BY Tables, EachAppend
  <2>3. Each(ReadsTable, Append(names, e)) = Each(ReadsTable, names) \o ReadsTable[e]
    BY Tables, EachAppend
  <2>4. NoneNil(kept) /\ Readings(kept) = Each(ReadsTable, names)
    BY <1>2
  <2> HIDE DEF kept, one
  <2>5. NoneNil(kept \o one) /\ Readings(kept \o one) = Readings(kept) \o Readings(one)
    BY <2>1, <2>4, NoneNilConcat, ReadingsConcat
  <2>6. Append(names, e) \in Seq(Names)
    BY AppendProperties
  <2> QED
    BY <2>1, <2>2, <2>3, <2>4, <2>5, <2>6
<1>3. Seq(Names) \subseteq T
  <2> HIDE DEF T
  <2> QED
    BY <1>1, <1>2, InductionOverSeq
<1>4. \A names \in Seq(Names) : Each(KeptTable, names) \in Seq(S)
  BY Tables, EachType
<1> QED
  BY <1>3, <1>4

LEMMA ReadsOfIsEach ==
  ASSUME NEW names \in Seq(Names)
  PROVE  ReadsOf(names) = Each(ReadsTable, names)
<1>1. \A i \in DOMAIN names : names[i] \in Names
  BY LenProperties, ElementOfSeq
<1>2. PartsFor(ReadsTable, names) = [i \in DOMAIN names |-> Packets[names[i]].reads]
  BY <1>1 DEF PartsFor, ReadsTable
<1> QED
  BY <1>2 DEF ReadsOf, Each

LEMMA FunctionIsSeq ==
  ASSUME NEW S, NEW n \in Nat, NEW f, f = [i \in 1 .. n |-> f[i]], \A i \in 1 .. n : f[i] \in S
  PROVE  f \in Seq(S) /\ Len(f) = n
OBVIOUS

LEMMA UndamagedTurns ==
  ASSUME NEW c \in Chunks, streamSize \in Sizes, c.missing = 0, c.damage = <<>>
  PROVE  Turns(BytesOf(c), streamSize) = Each(KeptTable, c.packets)
<1>1. /\ c.packets \in Seq(Names) /\ DOMAIN c.packets = 1 .. Len(c.packets)
      /\ \A k \in 1 .. Len(c.packets) : c.packets[k] \in Names
  BY ChunkForms, LenProperties
<1>2. ASSUME NEW k \in 1 .. Len(c.packets)
      PROVE  Kept(PacketTurn(Got(c, k))) = KeptTable[c.packets[k]]
  <2>1. Got(c, k) = Packets[c.packets[k]].bytes
    BY DEF Got
  <2> QED
    BY <1>1, <2>1 DEF KeptTable, TurnOf
<1>3. [k \in 1 .. Len(c.packets) |-> Kept(PacketTurn(Got(c, k)))] = PartsFor(KeptTable, c.packets)
  BY <1>1, <1>2 DEF PartsFor
<1> QED
  BY <1>3, WholeTurns DEF Each

LEMMA SubSeqPlaces ==
  ASSUME NEW S, NEW s \in Seq(S), NEW a \in Int, NEW b \in Int, 1 <= a, b <= Len(s), a <= b + 1
  PROVE  /\ SubSeq(s, a, b) \in Seq(S) /\ Len(SubSeq(s, a, b)) = b - a + 1
         /\ \A i \in 1 .. b - a + 1 : SubSeq(s, a, b)[i] = s[a + i - 1]
<1>1. \A i \in a .. b : s[i] \in S
  <2>1. Len(s) \in Nat
    BY LenProperties
  <2>2. ASSUME NEW i \in a .. b PROVE i \in 1 .. Len(s)
    BY <2>1
  <2> QED
    BY <2>2, ElementOfSeq
<1> DEFINE sub == SubSeq(s, a, b)
<1>2. /\ sub \in Seq(S) /\ Len(sub) = IF a <= b THEN b - a + 1 ELSE 0
      /\ \A i \in 1 .. b - a + 1 : sub[i] = s[a + i - 1]
  BY ONLY <1>1, a \in Int, b \in Int, SubSeqProperties
<1> HIDE DEF sub
<1>3. Len(sub) = b - a + 1
  BY <1>2
<1> QED
  BY <1>2, <1>3 DEF sub

\* Around a damaged packet a chunk is read as it was sent.
LEMMA DamagedTurns ==
  ASSUME NEW c \in Chunks, streamSize \in Sizes, c.missing = 0, c.damage # <<>>,
         NEW S, HasTurns(S), PacketTurn(Got(c, c.damage[1].packet)) \in S
  PROVE  LET names == c.packets
             j     == c.damage[1].packet
         IN  /\ SubSeq(names, 1, j - 1) \in Seq(Names)
             /\ SubSeq(names, j + 1, Len(names)) \in Seq(Names)
             /\ Turns(BytesOf(c), streamSize)
                  = (Each(KeptTable, SubSeq(names, 1, j - 1)) \o Kept(PacketTurn(Got(c, j))))
                      \o Each(KeptTable, SubSeq(names, j + 1, Len(names)))
<1> DEFINE names == c.packets
           n == Len(names)
           j == c.damage[1].packet
           one == Kept(PacketTurn(Got(c, j)))
           before == SubSeq(names, 1, j - 1)
           behind == SubSeq(names, j + 1, n)
           Parts == Seq(S)
           partsBefore == PartsFor(KeptTable, before)
           partsBehind == PartsFor(KeptTable, behind)
           parts == [k \in 1 .. n |-> Kept(PacketTurn(Got(c, k)))]
           upTo == Append(partsBefore, one)
           joined == upTo \o partsBehind
<1>1. /\ names \in Seq(Names) /\ n \in Nat /\ j \in 1 .. n
      /\ \A k \in 1 .. n : names[k] \in Names
  BY ChunkForms
<1>2. one \in Parts
  BY KeptIsSeq
<1>3. ASSUME NEW k \in 1 .. n, k # j
      PROVE  parts[k] = KeptTable[names[k]] /\ KeptTable[names[k]] \in Parts
  <2>1. Got(c, k) = Packets[c.packets[k]].bytes
    BY <1>3 DEF Got
  <2>2. KeptTable[names[k]] = Kept(TurnOf(names[k])) /\ TurnOf(names[k]) \in S
    BY <1>1 DEF KeptTable, HasTurns
  <2>3. Kept(TurnOf(names[k])) \in Parts
    BY <2>2, KeptIsSeq
  <2> QED
    BY <2>1, <2>2, <2>3 DEF TurnOf
<1>4. parts[j] = one
  BY <1>1
<1>5. DOMAIN parts = 1 .. n
  OBVIOUS
<1>6. parts \in Seq(Parts) /\ Len(parts) = n
  <2>1. \A k \in 1 .. n : parts[k] \in Parts
    BY <1>2, <1>3, <1>4
  <2>2. parts = [k \in 1 .. n |-> parts[k]] /\ n \in Nat
    BY <1>1
  <2> HIDE DEF parts, n, Parts
  <2> QED
    BY ONLY <2>1, <2>2, FunctionIsSeq
<1>7. IsTable(KeptTable, Names, S)
  <2>1. ASSUME NEW name \in Names PROVE Kept(TurnOf(name)) \in Seq(S)
    BY KeptIsSeq DEF HasTurns
  <2> QED
    BY <2>1 DEF IsTable, KeptTable
<1> HIDE DEF names, n, j, one, parts
<1>8. /\ before \in Seq(Names) /\ Len(before) = j - 1
      /\ \A i \in 1 .. j - 1 : before[i] = names[i]
  <2>1. 1 \in Int /\ j - 1 \in Int /\ 1 <= 1 /\ j - 1 <= Len(names) /\ 1 <= (j - 1) + 1
    BY <1>1 DEF n
  <2>2. names \in Seq(Names)
    BY <1>1
  <2>3. /\ before \in Seq(Names) /\ Len(before) = (j - 1) - 1 + 1
        /\ \A i \in 1 .. (j - 1) - 1 + 1 : before[i] = names[1 + i - 1]
    BY ONLY <2>1, <2>2, SubSeqPlaces
  <2> HIDE DEF before
  <2> QED
    BY <1>1, <2>3
<1>9. /\ behind \in Seq(Names) /\ Len(behind) = n - j
      /\ \A i \in 1 .. n - j : behind[i] = names[j + i]
  <2>1. j + 1 \in Int /\ n \in Int /\ 1 <= j + 1 /\ n <= Len(names) /\ j + 1 <= n + 1
    BY <1>1 DEF n
  <2>2. names \in Seq(Names)
    BY <1>1
  <2>3. /\ behind \in Seq(Names) /\ Len(behind) = n - (j + 1) + 1
        /\ \A i \in 1 .. n - (j + 1) + 1 : behind[i] = names[(j + 1) + i - 1]
    BY ONLY <2>1, <2>2, SubSeqPlaces
  <2> HIDE DEF behind
  <2>4. n - (j + 1) + 1 = n - j /\ \A i \in 1 .. n - j : (j + 1) + i - 1 = j + i
    BY <1>1
  <2> QED
    BY <2>3, <2>4
<1> HIDE DEF before, behind
<1>10. /\ partsBefore \in Seq(Parts) /\ Len(partsBefore) = Len(before)
       /\ \A i \in 1 .. Len(before) : partsBefore[i] = KeptTable[before[i]]
  <2>1. before \in Seq(Names)
    BY <1>8
  <2> QED
    BY ONLY <1>7, <2>1, PartsOf
<1>11. /\ partsBehind \in Seq(Parts) /\ Len(partsBehind) = Len(behind)
       /\ \A i \in 1 .. Len(behind) : partsBehind[i] = KeptTable[behind[i]]
  <2>1. behind \in Seq(Names)
    BY <1>9
  <2> QED
    BY ONLY <1>7, <2>1, PartsOf
<1> HIDE DEF partsBefore, partsBehind, Parts
<1>12. /\ upTo \in Seq(Parts) /\ Len(upTo) = Len(partsBefore) + 1
       /\ \A i \in 1 .. Len(partsBefore) : upTo[i] = partsBefore[i]
       /\ upTo[Len(partsBefore) + 1] = one
  <2>1. partsBefore \in Seq(Parts)
    BY <1>10
  <2> QED
    BY ONLY <2>1, <1>2, AppendProperties
<1> HIDE DEF upTo
<1>13. /\ joined \in Seq(Parts) /\ Len(joined) = Len(upTo) + Len(partsBehind)
       /\ \A i \in 1 .. Len(upTo) : joined[i] = upTo[i]
       /\ \A i \in 1 .. Len(partsBehind) : joined[Len(upTo) + i] = partsBehind[i]
  <2>1. upTo \in Seq(Parts) /\ partsBehind \in Seq(Parts)
    BY <1>11, <1>12
  <2> QED
    BY ONLY <2>1, ConcatPlaces
<1> HIDE DEF joined
<1>14. Len(partsBefore) = j - 1 /\ Len(upTo) = j /\ Len(partsBehind) = n - j /\ Len(joined) = n
  BY <1>1, <1>8, <1>9, <1>10, <1>11, <1>12, <1>13
<1>15. ASSUME NEW k \in 1 .. n PROVE parts[k] = joined[k]
  <2>1. CASE k < j
    <3>1. k \in 1 .. j - 1 /\ k \in 1 .. j /\ k # j
      BY <1>1, <2>1
    <3>2. joined[k] = partsBefore[k]
      BY <1>12, <1>13, <1>14, <3>1
    <3> QED
      BY <1>3, <1>8, <1>10, <3>1, <3>2
  <2>2. CASE k = j
    <3>1. k \in 1 .. j /\ (j - 1) + 1 = j
      BY <1>1, <2>2
    <3> QED
      BY <1>4, <1>12, <1>13, <1>14, <2>2, <3>1
  <2>3. CASE k > j
    <3>1. PICK i \in 1 .. n - j : k = j + i
      <4>1. k - j \in 1 .. n - j /\ k = j + (k - j)
        BY <1>1, <2>3
      <4> QED
        BY <4>1
    <3>2. joined[k] = partsBehind[i]
      BY <1>13, <1>14, <3>1
    <3>3. partsBehind[i] = KeptTable[names[k]]
      BY <1>9, <1>11, <3>1
    <3>4. k # j
      BY <1>1, <2>3
    <3> QED
      BY <1>3, <3>2, <3>3, <3>4
  <2> QED
    BY <1>1, <2>1, <2>2, <2>3
<1>16. parts = joined
  <2>1. parts \in Seq(Parts) /\ joined \in Seq(Parts) /\ Len(parts) = Len(joined)
    BY <1>6, <1>13, <1>14
  <2>2. \A k \in 1 .. Len(parts) : parts[k] = joined[k]
    BY <1>6, <1>15
  <2> QED
    BY ONLY <2>1, <2>2, SeqEqual
<1>17. FlattenSeq(joined) = (FlattenSeq(partsBefore) \o one) \o FlattenSeq(partsBehind)
  <2>1. upTo \in Seq(Seq(S)) /\ partsBehind \in Seq(Seq(S)) /\ partsBefore \in Seq(Seq(S)) /\ one \in Seq(S)
    BY <1>2, <1>10, <1>11, <1>12 DEF Parts
  <2>2. FlattenSeq(upTo \o partsBehind) = FlattenSeq(upTo) \o FlattenSeq(partsBehind)
    BY ONLY <2>1, FlattenConcat
  <2>3. FlattenSeq(Append(partsBefore, one)) = FlattenSeq(partsBefore) \o one
    BY ONLY <2>1, FlattenAppend
  <2> QED
    BY <2>2, <2>3 DEF joined, upTo
<1>18. Turns(BytesOf(c), streamSize) = FlattenSeq(parts)
  BY WholeTurns DEF parts, n, names
<1> QED
  BY <1>8, <1>9, <1>16, <1>17, <1>18
     DEF names, n, j, one, before, behind, partsBefore, partsBehind, Each

-----------------------------------------------------------------------------
(* What is read of one packet *)

ReadersOf(V) ==
  [bytes : Seq(Byte), byteOffset : Nat, bitOffset : 0 .. 7, error : BOOLEAN, value : V,
   data : Seq(Byte)]

\* r reads bytes and is on bit b behind the first i of them.
IsAt(r, bytes, i, b) ==
  /\ \E V : r \in ReadersOf(V)
  /\ r.bytes = bytes /\ r.byteOffset = i /\ r.bitOffset = b /\ r.error = FALSE

\* The bytes of a packet.
IsPacket(bytes) == bytes \in Seq(Byte) /\ Len(bytes) = 188

LEMMA RemainingAt ==
  ASSUME NEW r, NEW i \in Nat, NEW b \in 0 .. 7, NEW n \in 1 .. 32, i * 8 + b + n <= 1504,
         r.byteOffset = i, r.bitOffset = b, Length(r) = 188
  PROVE  ~(RemainingBits(r) < n)
<1>1. i < 188
  OBVIOUS
<1>2. RemainingBits(r) = (188 - i) * 8 - b
  BY <1>1 DEF RemainingBits
<1> QED
  BY <1>2

LEMMA OtherValues ==
  ASSUME NEW r, NEW V, r \in ReadersOf(V), NEW v
  PROVE  r \in ReadersOf(V \cup {v})
BY DEF ReadersOf

MovedTo(r, q, m, v) == [[r EXCEPT !.byteOffset = q, !.bitOffset = m] EXCEPT !.value = v]

LEMMA MovedAt ==
  ASSUME NEW r, NEW bytes, NEW i, NEW b, IsAt(r, bytes, i, b),
         NEW q \in Nat, NEW m \in 0 .. 7, NEW v
  PROVE  IsAt(MovedTo(r, q, m, v), bytes, q, m) /\ MovedTo(r, q, m, v).value = v
<1> DEFINE moved == [r EXCEPT !.byteOffset = q, !.bitOffset = m]
           s == [moved EXCEPT !.value = v]
<1>1. PICK U : r \in ReadersOf(U)
  BY DEF IsAt
<1> DEFINE V == U \cup {v}
<1>2. r \in ReadersOf(V) /\ v \in V
  BY <1>1, OtherValues
<1> HIDE DEF V
<1>3. /\ moved \in ReadersOf(V) /\ moved.bytes = r.bytes /\ moved.error = r.error
      /\ moved.byteOffset = q /\ moved.bitOffset = m
  BY <1>2 DEF ReadersOf
<1> HIDE DEF moved
<1>4. /\ s \in ReadersOf(V) /\ s.bytes = moved.bytes /\ s.error = moved.error
      /\ s.byteOffset = moved.byteOffset /\ s.bitOffset = moved.bitOffset /\ s.value = v
  BY <1>2, <1>3 DEF ReadersOf
<1> HIDE DEF s
<1>5. r.bytes = bytes /\ r.error = FALSE
  BY DEF IsAt
<1>6. s.bytes = bytes /\ s.byteOffset = q /\ s.bitOffset = m /\ s.error = FALSE
  BY <1>3, <1>4, <1>5
<1>7. \E W : s \in ReadersOf(W)
  BY <1>4
<1>8. IsAt(s, bytes, q, m)
  BY <1>6, <1>7, Zenon DEF IsAt
<1> QED
  BY <1>4, <1>8 DEF s, moved, MovedTo

LEMMA BitsAreRead ==
  ASSUME NEW r, NEW n \in Nat, n # 0, ~(n > 32), ~r.error, ~(RemainingBits(r) < n)
  PROVE  ReadBits(r, n) = [MovedBits(r, n) EXCEPT !.value = BitsAt(r, n)]
<1>1. ReadBits(r, n) = IF r.error \/ n = 0 \/ n > 32 \/ RemainingBits(r) < n THEN Failed(r)
                       ELSE [MovedBits(r, n) EXCEPT !.value = BitsAt(r, n)]
  BY Zenon DEF ReadBits
<1>2. ~(r.error \/ n = 0 \/ n > 32 \/ RemainingBits(r) < n)
  OBVIOUS
<1> QED
  BY <1>1, <1>2

LEMMA ReadBitsAt ==
  ASSUME NEW bytes, IsPacket(bytes), NEW r, NEW i \in Nat, NEW b \in 0 .. 7, IsAt(r, bytes, i, b),
         NEW n \in 1 .. 32, i * 8 + b + n <= 1504
  PROVE  /\ IsAt(ReadBits(r, n), bytes, (i * 8 + b + n) \div 8, (i * 8 + b + n) % 8)
         /\ ReadBits(r, n).value = BitsAt(r, n)
<1> DEFINE q == (i * 8 + b + n) \div 8
           m == (i * 8 + b + n) % 8
<1>1. q \in Nat /\ m \in 0 .. 7
  OBVIOUS
<1>2. r.bytes = bytes /\ r.byteOffset = i /\ r.bitOffset = b /\ r.error = FALSE
  BY DEF IsAt
<1>3. Length(r) = 188
  BY <1>2 DEF IsPacket, Length
<1>4. ~(RemainingBits(r) < n)
  BY <1>2, <1>3, RemainingAt
<1>5. ReadBits(r, n) = [MovedBits(r, n) EXCEPT !.value = BitsAt(r, n)]
  <2>1. n # 0 /\ ~(n > 32)
    OBVIOUS
  <2>2. ~r.error
    BY <1>2
  <2>3. ~(RemainingBits(r) < n) /\ n \in Nat
    BY <1>4
  <2> QED
    BY ONLY <2>1, <2>2, <2>3, BitsAreRead
<1>6. MovedBits(r, n) = [r EXCEPT !.byteOffset = q, !.bitOffset = m]
  BY <1>2 DEF MovedBits
<1> HIDE DEF q, m
<1> DEFINE v == BitsAt(r, n)
<1> HIDE DEF v
<1>7. IsAt(MovedTo(r, q, m, v), bytes, q, m) /\ MovedTo(r, q, m, v).value = v
  BY <1>1, MovedAt
<1>9. ReadBits(r, n) = MovedTo(r, q, m, v)
  BY <1>5, <1>6 DEF MovedTo, v
<1>8. IsAt(ReadBits(r, n), bytes, q, m) /\ ReadBits(r, n).value = BitsAt(r, n)
  BY <1>7, <1>9 DEF v
<1> QED
  BY <1>8 DEF q, m

LEMMA ByteReads ==
  ASSUME NEW bytes \in Seq(Byte), Len(bytes) \in Nat, 1 <= Len(bytes)
  PROVE  /\ IsAt(ReadUInt8(ReaderOf(bytes, FALSE)), bytes, 1, 0)
         /\ ReadUInt8(ReaderOf(bytes, FALSE)).value = bytes[1]
<1> DEFINE r == ReaderOf(bytes, FALSE)
           first == bytes[1]
           V == {0, first}
           s == [MovedBytes(r, 1) EXCEPT !.value = first]
<1>1. /\ r \in ReadersOf(V)
      /\ r.bytes = bytes /\ r.byteOffset = 0 /\ r.bitOffset = 0 /\ r.error = FALSE
  BY EmptySeq DEF ReaderOf, ReadersOf
<1> HIDE DEF r
<1>2. CanRead(r, 1) /\ ByteAt(r, 0) = first
  BY <1>1 DEF CanRead, ByteAt, Length
<1>3. ReadUInt8(r) = s
  BY <1>2 DEF ReadUInt8
<1>4. /\ MovedBytes(r, 1) \in ReadersOf(V) /\ MovedBytes(r, 1).bytes = bytes
      /\ MovedBytes(r, 1).byteOffset = 1 /\ MovedBytes(r, 1).bitOffset = 0
      /\ MovedBytes(r, 1).error = FALSE
  BY <1>1 DEF MovedBytes, ReadersOf
<1>5. /\ s \in ReadersOf(V) /\ s.bytes = bytes /\ s.byteOffset = 1 /\ s.bitOffset = 0
      /\ s.error = FALSE /\ s.value = first
  <2>1. first \in V
    OBVIOUS
  <2> HIDE DEF V
  <2> QED
    BY <1>4, <2>1 DEF ReadersOf
<1> HIDE DEF s
<1>6. \E W : s \in ReadersOf(W)
  BY <1>5
<1>7. IsAt(s, bytes, 1, 0)
  BY <1>5, <1>6, Zenon DEF IsAt
<1> QED
  BY <1>3, <1>5, <1>7 DEF r

LEMMA FirstByteRead ==
  ASSUME NEW bytes, IsPacket(bytes)
  PROVE  IsAt(ReadUInt8(Make(bytes)), bytes, 1, 0) /\ ReadUInt8(Make(bytes)).value = bytes[1]
<1>1. Len(bytes) \in Nat /\ 1 <= Len(bytes)
  BY DEF IsPacket
<1>2. Make(bytes) = ReaderOf(bytes, FALSE)
  BY DEF Make
<1>3. bytes \in Seq(Byte)
  BY DEF IsPacket
<1>4. /\ IsAt(ReadUInt8(ReaderOf(bytes, FALSE)), bytes, 1, 0)
      /\ ReadUInt8(ReaderOf(bytes, FALSE)).value = bytes[1]
  BY ONLY <1>1, <1>3, ByteReads
<1> QED
  BY <1>2, <1>4

LEMMA ByteIsAt ==
  ASSUME NEW r, NEW bytes, NEW i \in Nat, NEW k \in Nat, r.bytes = bytes, r.byteOffset = i,
         Length(r) = 188, i + k < 188
  PROVE  ByteAt(r, k) = bytes[i + k + 1]
BY DEF ByteAt

\* The adaptation mode is two bits of the fourth byte.
LEMMA ModeRead ==
  ASSUME NEW bytes, IsPacket(bytes)
  PROVE  ReadHeader(bytes).adaptationMode = (bytes[4] \div 16) % 4
<1> DEFINE sync     == ReadUInt8(Make(bytes))
           tei      == ReadBits(sync, 1)
           pusi     == ReadBits(tei, 1)
           priority == ReadBits(pusi, 1)
           pid      == ReadBits(priority, 13)
           scramble == ReadBits(pid, 2)
           mode     == ReadBits(scramble, 2)
<1>0. ReadHeader(bytes).adaptationMode = mode.value
  BY DEF ReadHeader
<1>1. IsAt(sync, bytes, 1, 0)
  BY FirstByteRead
<1> HIDE DEF sync
<1>2. IsAt(tei, bytes, 1, 1)
  <2>1. (1 * 8 + 0 + 1) \div 8 = 1 /\ (1 * 8 + 0 + 1) % 8 = 1
    OBVIOUS
  <2> QED
    BY <1>1, <2>1, ReadBitsAt
<1> HIDE DEF tei
<1>3. IsAt(pusi, bytes, 1, 2)
  <2>1. (1 * 8 + 1 + 1) \div 8 = 1 /\ (1 * 8 + 1 + 1) % 8 = 2
    OBVIOUS
  <2> QED
    BY <1>2, <2>1, ReadBitsAt
<1> HIDE DEF pusi
<1>4. IsAt(priority, bytes, 1, 3)
  <2>1. (1 * 8 + 2 + 1) \div 8 = 1 /\ (1 * 8 + 2 + 1) % 8 = 3
    OBVIOUS
  <2> QED
    BY <1>3, <2>1, ReadBitsAt
<1> HIDE DEF priority
<1>5. IsAt(pid, bytes, 3, 0)
  <2>1. (1 * 8 + 3 + 13) \div 8 = 3 /\ (1 * 8 + 3 + 13) % 8 = 0
    OBVIOUS
  <2> QED
    BY <1>4, <2>1, ReadBitsAt
<1> HIDE DEF pid
<1>6. IsAt(scramble, bytes, 3, 2)
  <2>1. (3 * 8 + 0 + 2) \div 8 = 3 /\ (3 * 8 + 0 + 2) % 8 = 2
    OBVIOUS
  <2> QED
    BY <1>5, <2>1, ReadBitsAt
<1> HIDE DEF scramble
<1>7. mode.value = BitsAt(scramble, 2)
  BY <1>6, ReadBitsAt
<1>8. BitsAt(scramble, 2) = ((bytes[4] * 65536 + bytes[5] * 256 + bytes[6]) \div 1048576) % 4
  <2>1. scramble.byteOffset = 3 /\ scramble.bitOffset = 2 /\ scramble.bytes = bytes
    BY <1>6 DEF IsAt
  <2>4. Length(scramble) = 188
    BY <2>1 DEF Length, IsPacket
  <2>2. ByteAt(scramble, 0) = bytes[4] /\ ByteAt(scramble, 1) = bytes[5] /\ ByteAt(scramble, 2) = bytes[6]
    <3>1. 3 + 0 + 1 = 4 /\ 3 + 1 + 1 = 5 /\ 3 + 2 + 1 = 6
      OBVIOUS
    <3> QED
      BY <2>1, <2>4, <3>1, ByteIsAt
  <2>3. 2 ^ 20 = 1048576 /\ 2 ^ 2 = 4 /\ 24 - 2 - 2 = 20
    OBVIOUS
  <2> QED
    BY <2>1, <2>2, <2>3 DEF BitsAt
<1>9. bytes[4] \in Byte /\ bytes[5] \in Byte /\ bytes[6] \in Byte
  BY ElementOfSeq DEF IsPacket
<1>10. ASSUME NEW x \in Byte, NEW y \in Byte, NEW z \in Byte
       PROVE  (x * 65536 + y * 256 + z) \div 1048576 = x \div 16
  BY DEF Byte
<1> QED
  BY <1>0, <1>7, <1>8, <1>9, <1>10

\* The bytes behind the header of a packet.
LEMMA RestOfPacket ==
  ASSUME NEW bytes, IsPacket(bytes)
  PROVE  /\ SubSeq(bytes, 5, 188) \in Seq(Byte) /\ Len(SubSeq(bytes, 5, 188)) = 184
         /\ \A i \in 1 .. 184 : SubSeq(bytes, 5, 188)[i] = bytes[4 + i]
<1> DEFINE rest == SubSeq(bytes, 5, 188)
<1>1. bytes \in Seq(Byte)
  BY DEF IsPacket
<1>2. 5 \in Int /\ 188 \in Int /\ 1 <= 5 /\ 188 <= Len(bytes) /\ 5 <= 188 + 1
  BY DEF IsPacket
<1>3. /\ rest \in Seq(Byte) /\ Len(rest) = 188 - 5 + 1
      /\ \A i \in 1 .. 188 - 5 + 1 : rest[i] = bytes[5 + i - 1]
  <2> DEFINE a == 5
             b == 188
  <2>1. a \in Int /\ b \in Int /\ 1 <= a /\ b <= Len(bytes) /\ a <= b + 1
    BY <1>2
  <2> HIDE DEF a, b
  <2>2. /\ SubSeq(bytes, a, b) \in Seq(Byte) /\ Len(SubSeq(bytes, a, b)) = b - a + 1
        /\ \A i \in 1 .. b - a + 1 : SubSeq(bytes, a, b)[i] = bytes[a + i - 1]
    BY ONLY <1>1, <2>1, SubSeqPlaces
  <2> QED
    BY <2>2 DEF a, b
<1> HIDE DEF rest
<1>4. ASSUME NEW i \in 1 .. 184 PROVE rest[i] = bytes[4 + i]
  <2>1. i \in 1 .. 188 - 5 + 1 /\ 5 + i - 1 = 4 + i
    OBVIOUS
  <2> QED
    BY <1>3, <2>1
<1>5. Len(rest) = 184
  BY <1>3
<1> QED
  BY <1>3, <1>4, <1>5 DEF rest

\* A field that is read has a length, the byte behind the header.
LEMMA FieldRead ==
  ASSUME NEW bytes, IsPacket(bytes)
  PROVE  \/ ReadAdaptationField(bytes) = <<>>
         \/ /\ ReadAdaptationField(bytes) # <<>>
            /\ ReadAdaptationField(bytes)[1].adaptationFieldLength \in Byte
<1> DEFINE rest   == SubSeq(bytes, 5, 188)
           made   == MakeWithBytes(rest, 184)
           length == ReadUInt8(made)
           byte   == IF length.value > 0 THEN ReadBits(length, 8) ELSE length
           flags  == IF length.value > 0 THEN FlagsOf(byte.value) ELSE {}
<1>1. rest \in Seq(Byte) /\ Len(rest) = 184 /\ \A i \in 1 .. 184 : rest[i] = bytes[4 + i]
  BY RestOfPacket
<1>2. rest[1] \in Byte /\ rest # <<>>
  <2> HIDE DEF rest
  <2>1. 1 \in 1 .. Len(rest)
    BY <1>1
  <2>2. rest[1] \in Byte
    <3>1. rest \in Seq(Byte)
      BY <1>1
    <3> QED
      BY ONLY <2>1, <3>1, ElementOfSeq
  <2>3. rest # <<>>
    BY ONLY <2>1
  <2> QED
    BY <2>2, <2>3
<1>3. ReadAdaptationField(bytes) = FieldOf(length.value, byte, flags)
  <2>1. Len(bytes) = 188
    BY DEF IsPacket
  <2> QED
    BY <2>1 DEF ReadAdaptationField, TS_PACKET_HEADER_SIZE
<1> HIDE DEF rest
<1>4. made = ReaderOf(rest, FALSE)
  <2>1. SubSeq(rest, 1, 184) = rest
    BY <1>1, SubSeqFull
  <2> QED
    BY <1>2, <2>1 DEF MakeWithBytes
<1>5. length.value = rest[1]
  <2>1. rest \in Seq(Byte) /\ Len(rest) \in Nat /\ 1 <= Len(rest)
    BY <1>1
  <2>2. ReadUInt8(ReaderOf(rest, FALSE)).value = rest[1]
    BY ONLY <2>1, ByteReads
  <2> QED
    BY <1>4, <2>2
<1> HIDE DEF length, byte, flags
<1> QED
  BY <1>2, <1>3, <1>5 DEF FieldOf

\* Packets that differ in their headers only have the same field.
LEMMA SameFieldRead ==
  ASSUME NEW bytes, IsPacket(bytes), NEW other, IsPacket(other),
         \A i \in 5 .. 188 : bytes[i] = other[i]
  PROVE  ReadAdaptationField(bytes) = ReadAdaptationField(other)
<1> DEFINE rest   == SubSeq(bytes, 5, 188)
           others == SubSeq(other, 5, 188)
<1>1. rest \in Seq(Byte) /\ Len(rest) = 184 /\ \A i \in 1 .. 184 : rest[i] = bytes[4 + i]
  BY RestOfPacket
<1>2. others \in Seq(Byte) /\ Len(others) = 184 /\ \A i \in 1 .. 184 : others[i] = other[4 + i]
  BY RestOfPacket
<1> HIDE DEF rest, others
<1>3. rest = others
  <2>1. ASSUME NEW i \in 1 .. 184 PROVE rest[i] = others[i]
    <3>1. 4 + i \in 5 .. 188
      OBVIOUS
    <3>2. rest[i] = bytes[4 + i]
      BY <1>1
    <3>3. others[i] = other[4 + i]
      BY <1>2
    <3>4. bytes[4 + i] = other[4 + i]
      BY <3>1
    <3> QED
      BY ONLY <3>2, <3>3, <3>4
  <2>2. rest \in Seq(Byte) /\ others \in Seq(Byte) /\ Len(rest) = Len(others)
    BY <1>1, <1>2
  <2>3. \A i \in 1 .. Len(rest) : rest[i] = others[i]
    BY <1>1, <2>1
  <2> QED
    BY ONLY <2>2, <2>3, SeqEqual
<1> DEFINE Field(tail) ==
             LET length == ReadUInt8(MakeWithBytes(tail, 184))
                 byte   == IF length.value > 0 THEN ReadBits(length, 8) ELSE length
             IN  FieldOf(length.value, byte, IF length.value > 0 THEN FlagsOf(byte.value) ELSE {})
<1>4. ASSUME NEW p, IsPacket(p) PROVE ReadAdaptationField(p) = Field(SubSeq(p, 5, 188))
  <2>1. Len(p) = 188
    BY <1>4 DEF IsPacket
  <2> QED
    BY <2>1 DEF ReadAdaptationField, TS_PACKET_HEADER_SIZE
<1> HIDE DEF Field
<1>5. ReadAdaptationField(bytes) = Field(rest) /\ ReadAdaptationField(other) = Field(others)
  BY <1>4 DEF rest, others
<1> QED
  BY <1>3, <1>5

LengthIn(field) == IF field = <<>> THEN 0 ELSE field[1].adaptationFieldLength

\* How long a packet is told to be by its header and its field.
LEMMA TurnOutcomes ==
  ASSUME NEW bytes, IsPacket(bytes), NEW header, header.adaptationMode \in 0 .. 3,
         NEW field, field = <<>> \/ HasField(header), LengthIn(field) \in Nat
  PROVE  LET turn == TurnWith(bytes, header, field)
         IN  /\ turn.outcome \in {"skipped", "nil", "read"}
             /\ header.adaptationMode \in {1, 3} => turn.outcome # "nil"
             /\ header.adaptationMode = 0 => turn.outcome # "read"
             /\ header.adaptationMode = 2 => /\ turn.outcome = "nil" => 5 + LengthIn(field) # 188
                                             /\ turn.outcome = "read" => 5 + LengthIn(field) = 188
                                             /\ turn.packet.payload = <<>>
<1> DEFINE mode   == header.adaptationMode
           hasField == HasField(header)
           length == LengthIn(field)
           offset == 4 + Bit(hasField) + length
           rest   == SubSeq(bytes, offset + 1, 188)
           payload == IF mode = 2 THEN <<>> ELSE <<rest>>
           size   == 4 + Bit(mode # 1) + length + (IF payload = <<>> THEN 0 ELSE Len(payload[1]))
           isSkipped == header.transportErrorIndicator \/ (payload # <<>> /\ offset >= 188)
           turn   == TurnWith(bytes, header, field)
<1> DEFINE outcome == IF isSkipped THEN "skipped" ELSE IF size # 188 THEN "nil" ELSE "read"
           packet == [header |-> header, adaptationField |-> field, payload |-> payload]
<1>0. turn = [outcome |-> outcome, packet |-> packet]
  BY Zenon DEF TurnWith, LengthIn, TS_PACKET_HEADER_SIZE, TS_PACKET_SIZE_188,
               TSAdaptationModeAdaptationOnly, TSAdaptationModePayloadOnly
<1>1. /\ turn.outcome = IF isSkipped THEN "skipped" ELSE IF size # 188 THEN "nil" ELSE "read"
      /\ turn.packet.payload = payload
  <2>1. packet.payload = payload
    <3> HIDE DEF payload
    <3> QED
      OBVIOUS
  <2>2. turn.outcome = outcome /\ turn.packet = packet
    <3> HIDE DEF turn, outcome, packet
    <3> QED
      BY <1>0
  <2> HIDE DEF turn, packet, payload
  <2> QED
    BY <2>1, <2>2
<1> HIDE DEF outcome, packet
<1>2. hasField <=> mode \in {2, 3}
  BY DEF HasField, TSAdaptationModeAdaptationOnly, TSAdaptationModeAdaptationAndPayload
<1>3. offset = IF mode \in {2, 3} THEN 5 + length ELSE 4 + length
  BY <1>2 DEF Bit
<1>4. (~(mode \in {2, 3}) => length = 0) /\ length \in Nat
  BY <1>2 DEF LengthIn
<1> HIDE DEF hasField, mode, offset, rest, turn, length
<1>5. offset < 188 /\ offset \in Nat => Len(rest) = 188 - offset
  <2>1. SUFFICES ASSUME offset < 188, offset \in Nat PROVE Len(rest) = 188 - offset
    OBVIOUS
  <2> DEFINE a == offset + 1
             b == 188
  <2>2. bytes \in Seq(Byte) /\ a \in Int /\ b \in Int /\ 1 <= a /\ b <= Len(bytes) /\ a <= b + 1
    BY <2>1 DEF IsPacket
  <2>3. b - a + 1 = 188 - offset
    BY <2>1
  <2> HIDE DEF a, b
  <2>4. Len(SubSeq(bytes, a, b)) = b - a + 1
    BY ONLY <2>2, SubSeqPlaces
  <2> QED
    BY <2>3, <2>4 DEF rest, a, b
<1>6. payload # <<>> <=> mode # 2
  OBVIOUS
<1>7. mode # 2 => size = 4 + Bit(mode # 1) + length + Len(rest)
  BY <1>6
<1>8. mode = 2 => size = 5 + length
  BY <1>4, <1>6 DEF Bit
<1>9. mode \in 0 .. 3
  BY DEF mode
<1> HIDE DEF payload, size
<1>10. CASE mode = 2
  BY <1>1, <1>6, <1>8, <1>10 DEF mode, turn, length, payload
<1>11. CASE mode \in {1, 3}
  <2>1. turn.outcome # "nil"
    <3>1. CASE offset >= 188
      <4>1. isSkipped
        BY <1>6, <1>11, <3>1
      <4> QED
        BY <1>1, <4>1
    <3>2. CASE ~(offset >= 188)
      <4>1. offset \in Nat /\ offset < 188
        BY <1>3, <1>4, <3>2
      <4>2. Bit(mode # 1) = IF mode = 3 THEN 1 ELSE 0
        BY <1>11 DEF Bit
      <4>3. size = 188
        BY <1>3, <1>4, <1>5, <1>7, <1>11, <4>1, <4>2
      <4> QED
        BY <1>1, <4>3
    <3> QED
      BY <3>1, <3>2
  <2> QED
    BY <1>1, <1>11, <2>1 DEF mode, turn
<1>12. CASE mode = 0
  <2>1. turn.outcome # "read"
    <3>1. length = 0 /\ offset = 4
      BY <1>3, <1>4, <1>12
    <3>3. offset < 188 /\ offset \in Nat /\ 188 - offset = 184
      BY <3>1
    <3>4. Len(rest) = 184 /\ Bit(mode # 1) = 1
      BY <1>5, <1>12, <3>3 DEF Bit
    <3>2. size = 189
      BY <1>7, <1>12, <3>1, <3>4
    <3> QED
      BY <1>1, <3>2
  <2> QED
    BY <1>1, <1>12, <2>1 DEF mode, turn
<1> QED
  BY <1>9, <1>10, <1>11, <1>12

ModeOf(bytes) == (bytes[4] \div 16) % 4

FieldLength(bytes) == LengthIn(ReadAdaptationField(bytes))

LEMMA PacketTurns ==
  ASSUME NEW bytes, IsPacket(bytes)
  PROVE  /\ ModeOf(bytes) \in 0 .. 3
         /\ PacketTurn(bytes).outcome \in {"skipped", "nil", "read"}
         /\ ModeOf(bytes) \in {1, 3} => PacketTurn(bytes).outcome # "nil"
         /\ ModeOf(bytes) = 0 => PacketTurn(bytes).outcome # "read"
         /\ ModeOf(bytes) = 2 =>
              /\ PacketTurn(bytes).outcome = "nil" => 5 + FieldLength(bytes) # 188
              /\ PacketTurn(bytes).outcome = "read" => 5 + FieldLength(bytes) = 188
              /\ PacketTurn(bytes).packet.payload = <<>>
<1> DEFINE header == ReadHeader(bytes)
           field  == IF HasField(header) THEN ReadAdaptationField(bytes) ELSE <<>>
           length == LengthIn(field)
           turn   == TurnWith(bytes, header, field)
<1>1. header.adaptationMode = ModeOf(bytes) /\ ModeOf(bytes) \in 0 .. 3
  <2>1. bytes[4] \in Nat
    <3>1. bytes \in Seq(Byte) /\ 4 \in 1 .. Len(bytes)
      BY DEF IsPacket
    <3>2. bytes[4] \in Byte
      BY ONLY <3>1, ElementOfSeq
    <3> QED
      BY <3>2 DEF Byte
  <2> QED
    BY <2>1, ModeRead DEF ModeOf
<1>2. field = <<>> \/ HasField(header)
  OBVIOUS
<1>3. length \in Nat
  <2>1. LengthIn(ReadAdaptationField(bytes)) \in Nat /\ LengthIn(<<>>) \in Nat
    <3>1. \A v \in Byte : v \in Nat
      BY DEF Byte
    <3> QED
      BY <3>1, FieldRead DEF LengthIn
  <2> HIDE DEF header
  <2> QED
    BY <2>1
<1>4. PacketTurn(bytes) = turn
  BY DEF PacketTurn
<1>5. ModeOf(bytes) = 2 => length = FieldLength(bytes)
  <2>1. ModeOf(bytes) = 2 => HasField(header)
    BY <1>1 DEF HasField, TSAdaptationModeAdaptationOnly
  <2> HIDE DEF header
  <2> QED
    BY <2>1 DEF FieldLength
<1> HIDE DEF header, field
<1>7. /\ turn.outcome \in {"skipped", "nil", "read"}
      /\ header.adaptationMode \in {1, 3} => turn.outcome # "nil"
      /\ header.adaptationMode = 0 => turn.outcome # "read"
      /\ header.adaptationMode = 2 => /\ turn.outcome = "nil" => 5 + length # 188
                                      /\ turn.outcome = "read" => 5 + length = 188
                                      /\ turn.packet.payload = <<>>
  BY <1>1, <1>2, <1>3, TurnOutcomes
<1> HIDE DEF turn, length
<1> QED
  BY <1>1, <1>4, <1>5, <1>7

\* A packet that is read is not made nil by one byte that is damaged, except for the byte of the
\* adaptation mode, and behind it when the packet has no payload.
LEMMA NilByDamage ==
  ASSUME NEW bytes, IsPacket(bytes), NEW got, IsPacket(got), NEW place \in Places,
         \A m \in Places : m # place => got[m] = bytes[m],
         PacketTurn(bytes).outcome = "read", PacketTurn(got).outcome = "nil"
  PROVE  place = 4 \/ (place > 4 /\ PacketTurn(bytes).packet.payload = <<>>)
<1>1. SUFFICES ASSUME place # 4
               PROVE  place > 4 /\ PacketTurn(bytes).packet.payload = <<>>
  OBVIOUS
<1>2. ModeOf(got) = ModeOf(bytes)
  <2>1. got[4] = bytes[4]
    BY <1>1 DEF Places
  <2> QED
    BY <2>1 DEF ModeOf
<1>3. ModeOf(bytes) = 2
  BY <1>2, PacketTurns
<1>4. PacketTurn(bytes).packet.payload = <<>>
  BY <1>3, PacketTurns
<1>5. CASE place < 4
  <2>1. \A i \in 5 .. 188 : got[i] = bytes[i]
    BY <1>5 DEF Places
  <2>2. ReadAdaptationField(got) = ReadAdaptationField(bytes)
    BY <2>1, SameFieldRead
  <2>3. FieldLength(got) = FieldLength(bytes)
    BY <2>2 DEF FieldLength
  <2> QED
    BY <1>2, <1>3, <2>3, PacketTurns
<1>6. place \in Nat
  BY DEF Places
<1> QED
  BY <1>1, <1>4, <1>5, <1>6

-----------------------------------------------------------------------------
(* The size of the packets *)

LEMMA FortySevenPackets ==
  ASSUME NEW n \in Nat, n % 47 # 0
  PROVE  (n * 204) % 188 # 0
<1>1. SUFFICES ASSUME (n * 204) % 188 = 0 PROVE FALSE
  OBVIOUS
<1> DEFINE k == (n * 204) \div 188
           m == 12 * (k - n) - n
<1>2. k \in Int /\ n * 204 = 188 * k
  BY <1>1
<1> HIDE DEF k
<1>3. m \in Int /\ n = 47 * m
  BY <1>2
<1> HIDE DEF m
<1> QED
  BY <1>3

\* A first chunk that tells the size does.
LEMMA SizeIsTold ==
  ASSUME NEW c \in Chunks, streamSize \in Sizes, Tells(c)
  PROVE  detectPacketSizeFromLength(Len(BytesOf(c))) = streamSize
<1> DEFINE n == Len(c.packets)
<1>1. n \in Nat /\ Len(BytesOf(c)) = n * streamSize
  BY ChunkForms, ChunkBytes DEF Tells
<1>2. streamSize = 204 => n % 47 # 0
  BY DEF Tells, TS_PACKET_SIZE_204
<1> HIDE DEF n
<1>3. CASE streamSize = 188
  <2>1. (n * 188) % 188 = 0
    BY <1>1
  <2> QED
    BY <1>1, <1>3, <2>1 DEF detectPacketSizeFromLength, TS_PACKET_SIZE_204, TS_PACKET_SIZE_188
<1>4. CASE streamSize = 204
  <2>1. (n * 204) % 204 = 0
    BY <1>1
  <2>2. (n * 204) % 188 # 0
    BY <1>1, <1>2, <1>4, FortySevenPackets
  <2> QED
    BY <1>1, <1>4, <2>1, <2>2 DEF detectPacketSizeFromLength, TS_PACKET_SIZE_204, TS_PACKET_SIZE_188
<1> QED
  BY <1>3, <1>4 DEF Sizes, TS_PACKET_SIZE_204, TS_PACKET_SIZE_188

\* A call returns what it reads, or raises an exception.
CallOf(c) ==
  LET turns == Turns(BytesOf(c), packetSize)
  IN  /\ chunk = <<c>>
      /\ IF NoneNil(turns) THEN pc = "returned" /\ received = Readings(turns)
                           ELSE pc = "exception"

\* A size that was told is that of the stream.
ReceptionInv ==
  /\ streamSize \in Sizes /\ packetSize \in Sizes \cup {0}
  /\ isSizeTold => packetSize = streamSize
  /\ chunk = <<>> \/ \E c \in Chunks : CallOf(c)

LEMMA ReceptionInit == Init => ReceptionInv
BY DEF Init, ReceptionInv, Sizes

LEMMA DemuxReceives ==
  ASSUME ReceptionInv, NEW c \in Chunks, Demux(c)
  PROVE  ReceptionInv'
<1>1. streamSize' = streamSize /\ streamSize \in Sizes /\ packetSize \in Sizes \cup {0}
  BY DEF ReceptionInv, Demux
<1>2. BytesOf(c)' = BytesOf(c)
  BY <1>1 DEF BytesOf, Stream
<1>3. packetSize' \in Sizes \cup {0}
  <2>1. detectPacketSizeFromLength(Len(BytesOf(c))) \in Sizes
    BY DEF detectPacketSizeFromLength, Sizes
  <2> QED
    BY <1>1, <2>1 DEF Demux
<1>4. isSizeTold' => packetSize' = streamSize
  <2>1. CASE packetSize = 0
    BY <1>1, <2>1, SizeIsTold DEF Demux
  <2>2. CASE packetSize # 0
    BY <2>2 DEF Demux, ReceptionInv
  <2> QED
    BY <2>1, <2>2
<1>5. CallOf(c)'
  <2> DEFINE turns == Turns(BytesOf(c), packetSize')
  <2>1. /\ chunk' = <<c>>
        /\ IF \E i \in DOMAIN turns : turns[i].outcome = "nil"
           THEN pc' = "exception"
           ELSE pc' = "returned" /\ received' = [i \in DOMAIN turns |-> Reading(turns[i].packet)]
    BY DEF Demux
  <2>2. turns = Turns(BytesOf(c), packetSize)'
    BY <1>2
  <2> HIDE DEF turns
  <2>3. /\ chunk' = <<c>>
        /\ IF NoneNil(turns) THEN pc' = "returned" /\ received' = Readings(turns)
                             ELSE pc' = "exception"
    BY <2>1 DEF NoneNil, Readings
  <2> QED
    BY <2>2, <2>3 DEF CallOf
<1> QED
  BY <1>1, <1>3, <1>4, <1>5 DEF ReceptionInv

LEMMA ReceptionStep == ReceptionInv /\ [Next]_vars => ReceptionInv'
<1> SUFFICES ASSUME ReceptionInv, [Next]_vars PROVE ReceptionInv'
  OBVIOUS
<1>1. ASSUME NEW c \in Chunks, Demux(c) PROVE ReceptionInv'
  BY <1>1, DemuxReceives
<1>2. CASE Return
  BY <1>2 DEF ReceptionInv, Return
<1>3. CASE UNCHANGED vars
  <2>1. ASSUME NEW c \in Chunks, CallOf(c) PROVE CallOf(c)'
    BY <1>3, <2>1 DEF vars, CallOf, BytesOf, Stream
  <2> QED
    BY <1>3, <2>1 DEF ReceptionInv, vars
<1> QED
  BY <1>1, <1>2, <1>3 DEF Next

LEMMA ReceptionHolds == Spec => []ReceptionInv
BY ReceptionInit, ReceptionStep, PTL DEF Spec

-----------------------------------------------------------------------------
(* Whole chunks *)

\* Once a first chunk has told the size, every chunk of whole packets is read as it was sent,
\* for packets and chunks of every content and length; each packet has to be what the demuxer
\* reads of it alone.
THEOREM ReadAsSent ==
  ASSUME \A name \in DOMAIN Packets : IsReadAlone(name)
  PROVE  Spec => []ChunksAreReadAsSent
<1>1. ReceptionInv => ChunksAreReadAsSent
  <2>1. SUFFICES ASSUME ReceptionInv, NEW i \in DOMAIN chunk,
                        isSizeTold, chunk[i].missing = 0, chunk[i].damage = <<>>
                 PROVE  pc = "returned" /\ received = ReadsOf(chunk[i].packets)
    BY DEF ChunksAreReadAsSent
  <2>2. PICK c \in Chunks : CallOf(c)
    BY <2>1 DEF ReceptionInv
  <2>3. chunk[i] = c /\ c.missing = 0 /\ c.damage = <<>>
    BY <2>1, <2>2 DEF CallOf
  <2>4. streamSize \in Sizes /\ packetSize = streamSize
    BY <2>1 DEF ReceptionInv
  <2> DEFINE S == {TurnOf(name) : name \in Names}
             turns == Turns(BytesOf(c), packetSize)
  <2>5. turns = Each(KeptTable, c.packets) /\ c.packets \in Seq(Names)
    BY <2>3, <2>4, UndamagedTurns, ChunkForms
  <2>6. HasTurns(S) /\ \A name \in Names : IsReadAlone(name)
    BY DEF HasTurns, Names
  <2> HIDE DEF S
  <2>7. NoneNil(turns) /\ Readings(turns) = ReadsOf(c.packets)
    <3>1. /\ NoneNil(Each(KeptTable, c.packets))
          /\ Readings(Each(KeptTable, c.packets)) = Each(ReadsTable, c.packets)
      BY <2>5, <2>6, KeptAreRead
    <3>2. ReadsOf(c.packets) = Each(ReadsTable, c.packets)
      BY <2>5, ReadsOfIsEach
    <3> QED
      BY <2>5, <3>1, <3>2
  <2> QED
    BY <2>2, <2>3, <2>7 DEF CallOf
<1> QED
  BY <1>1, ReceptionHolds, PTL

-----------------------------------------------------------------------------
(* Damaged chunks *)

LEMMA ThreeParts ==
  ASSUME NEW S, NEW a \in Seq(S), NEW x \in Seq(S), NEW b \in Seq(S), NEW s, s = (a \o x) \o b
  PROVE  /\ Len(s) - Len(a) - Len(b) = Len(x)
         /\ SubSeq(s, 1, Len(a)) = a
         /\ SubSeq(s, Len(a) + Len(x) + 1, Len(s)) = b
<1> DEFINE ax == a \o x
           p == Len(a)
           q == Len(x)
           m == Len(b)
<1>1. /\ ax \in Seq(S) /\ Len(ax) = p + q /\ \A i \in 1 .. p : ax[i] = a[i]
  BY ConcatPlaces
<1>2. p \in Nat /\ q \in Nat /\ m \in Nat
  BY LenProperties
<1> HIDE DEF ax
<1> DEFINE axb == ax \o b
<1>3. /\ axb \in Seq(S) /\ Len(axb) = Len(ax) + m
      /\ \A i \in 1 .. Len(ax) : axb[i] = ax[i]
      /\ \A i \in 1 .. m : axb[Len(ax) + i] = b[i]
  <2>1. ax \in Seq(S)
    BY <1>1
  <2> QED
    BY ONLY <2>1, b \in Seq(S), ConcatPlaces
<1>4. s = axb
  BY DEF ax
<1> HIDE DEF axb, p, q, m
<1>5. /\ s \in Seq(S) /\ Len(s) = p + q + m
      /\ \A i \in 1 .. p : s[i] = a[i]
      /\ \A i \in 1 .. m : s[p + q + i] = b[i]
  <2>1. ASSUME NEW i \in 1 .. p PROVE s[i] = a[i]
    <3>1. i \in 1 .. Len(ax)
      BY <1>1, <1>2
    <3> QED
      BY <1>1, <1>3, <1>4, <3>1
  <2>2. Len(s) = p + q + m
    BY <1>1, <1>2, <1>3, <1>4
  <2> QED
    BY <1>1, <1>3, <1>4, <2>1, <2>2
<1>6. SubSeq(s, 1, p) = a
  <2> DEFINE first == SubSeq(s, 1, p)
  <2>1. s \in Seq(S) /\ 1 \in Int /\ p \in Int /\ 1 <= 1 /\ p <= Len(s) /\ 1 <= p + 1
    BY <1>2, <1>5
  <2>2. /\ first \in Seq(S) /\ Len(first) = p - 1 + 1
        /\ \A i \in 1 .. p - 1 + 1 : first[i] = s[1 + i - 1]
    BY ONLY <2>1, SubSeqPlaces
  <2> HIDE DEF first
  <2>6. p - 1 + 1 = p /\ \A i \in 1 .. p : 1 + i - 1 = i
    BY <1>2
  <2>3. \A i \in 1 .. p : first[i] = a[i]
    <3>1. ASSUME NEW i \in 1 .. p PROVE first[i] = a[i]
      <4>1. first[i] = s[i]
        BY <2>2, <2>6
      <4> QED
        BY <1>5, <4>1
    <3> QED
      BY <3>1
  <2>4. first \in Seq(S) /\ Len(first) = Len(a) /\ \A i \in 1 .. Len(first) : first[i] = a[i]
    BY <2>2, <2>3, <2>6 DEF p
  <2>5. first = a
    BY ONLY <2>4, a \in Seq(S), SeqEqual
  <2> QED
    BY <2>5 DEF first
<1>7. SubSeq(s, p + q + 1, Len(s)) = b
  <2> DEFINE from == p + q + 1
             end  == Len(s)
             last == SubSeq(s, from, end)
  <2>1. s \in Seq(S) /\ from \in Int /\ end \in Int /\ 1 <= from /\ end <= Len(s) /\ from <= end + 1
    BY <1>2, <1>5
  <2>6. end - from + 1 = m /\ \A i \in 1 .. m : from + i - 1 = p + q + i
    BY <1>2, <1>5
  <2> HIDE DEF from, end
  <2>2. /\ last \in Seq(S) /\ Len(last) = end - from + 1
        /\ \A i \in 1 .. end - from + 1 : last[i] = s[from + i - 1]
    BY ONLY <2>1, SubSeqPlaces
  <2> HIDE DEF last
  <2>3. \A i \in 1 .. m : last[i] = b[i]
    <3>1. ASSUME NEW i \in 1 .. m PROVE last[i] = b[i]
      <4>1. last[i] = s[p + q + i]
        BY <2>2, <2>6
      <4> QED
        BY <1>5, <4>1
    <3> QED
      BY <3>1
  <2>4. last \in Seq(S) /\ Len(last) = Len(b) /\ \A i \in 1 .. Len(last) : last[i] = b[i]
    BY <2>2, <2>3, <2>6 DEF m
  <2>5. last = b
    BY ONLY <2>4, b \in Seq(S), SeqEqual
  <2> QED
    BY <2>5 DEF last, from, end
<1> QED
  BY <1>2, <1>5, <1>6, <1>7 DEF p, q, m

\* A byte of a packet that is damaged makes nil of it at these places only.
LEMMA DamageMakesNil ==
  ASSUME \A name \in Names : IsReadAlone(name),
         NEW c \in Chunks, c.damage # <<>>,
         PacketTurn(Got(c, c.damage[1].packet)).outcome = "nil"
  PROVE  LET reads == Packets[c.packets[c.damage[1].packet]].reads
         IN  \/ c.damage[1].byte = 4
             \/ reads = <<>>
             \/ c.damage[1].byte > 4 /\ reads[1].packet.payload = <<>>
<1> DEFINE j     == c.damage[1].packet
           place == c.damage[1].byte
           name  == c.packets[j]
           bytes == Packets[name].bytes
           got   == Got(c, j)
           turn  == PacketTurn(bytes)
           reads == Packets[name].reads
<1>1. j \in 1 .. Len(c.packets) /\ place \in Places /\ name \in Names
  BY ChunkForms
<1>2. IsPacket(bytes) /\ IsPacket(got)
  <2>1. IsPacket(bytes)
    BY <1>1, PacketsOfNames DEF IsPacket
  <2>2. IsPacket(got)
    BY <1>1, GotBytes DEF IsPacket
  <2> QED
    BY <2>1, <2>2
<1>3. \A m \in Places : m # place => got[m] = bytes[m]
  <2>1. \A m \in Places :
           got[m] = IF c.damage # <<>> /\ c.damage[1].packet = j /\ c.damage[1].byte = m
                    THEN c.damage[1].value ELSE bytes[m]
    <3> HIDE DEF j
    <3> QED
      BY <1>1, GotBytes
  <2>2. c.damage[1].byte = place
    OBVIOUS
  <2> HIDE DEF place, got, bytes, j
  <2>3. ASSUME NEW m \in Places, m # place PROVE got[m] = bytes[m]
    BY ONLY <2>1, <2>2, <2>3
  <2> QED
    BY <2>3
<1>4. /\ turn.outcome # "nil"
      /\ reads = [i \in DOMAIN Kept(turn) |-> Reading(Kept(turn)[i].packet)]
  BY <1>1 DEF IsReadAlone
<1>5. PacketTurn(got).outcome = "nil"
  OBVIOUS
<1> HIDE DEF j, place, name, bytes, got, turn, reads
<1>6. SUFFICES ASSUME reads # <<>>
               PROVE  place = 4 \/ (place > 4 /\ reads[1].packet.payload = <<>>)
  BY DEF j, place, name, reads
<1>7. turn.outcome # "skipped"
  <2>1. SUFFICES ASSUME turn.outcome = "skipped" PROVE FALSE
    OBVIOUS
  <2>2. Kept(turn) = <<>>
    BY <2>1 DEF Kept
  <2>3. reads = <<>>
    BY <1>4, <2>2
  <2> QED
    BY <1>6, <2>3
<1>8. turn.outcome = "read"
  BY <1>2, <1>4, <1>7, PacketTurns DEF turn
<1>9. reads[1].packet = turn.packet
  <2>1. Kept(turn) = <<turn>>
    BY <1>7 DEF Kept
  <2>2. reads[1] = Reading(turn.packet)
    BY <1>4, <2>1
  <2> QED
    BY <2>2 DEF Reading
<1>10. place = 4 \/ (place > 4 /\ PacketTurn(bytes).packet.payload = <<>>)
  BY <1>1, <1>2, <1>3, <1>5, <1>8, NilByDamage DEF turn
<1> QED
  BY <1>9, <1>10 DEF turn

\* What of a damaged chunk is read, or raises the exception.
LEMMA DamagedChunk ==
  ASSUME \A name \in Names : IsReadAlone(name),
         NEW c \in Chunks, streamSize \in Sizes, c.missing = 0, c.damage # <<>>
  PROVE  LET names  == c.packets
             j      == c.damage[1].packet
             turns  == Turns(BytesOf(c), streamSize)
             before == ReadsOf(SubSeq(names, 1, j - 1))
             behind == ReadsOf(SubSeq(names, j + 1, Len(names)))
             rest   == Len(Readings(turns)) - Len(before) - Len(behind)
         IN  /\ rest \in 0 .. 1
             /\ SubSeq(Readings(turns), 1, Len(before)) = before
             /\ SubSeq(Readings(turns), Len(before) + rest + 1, Len(Readings(turns))) = behind
             /\ ~NoneNil(turns) => PacketTurn(Got(c, j)).outcome = "nil"
<1> DEFINE names  == c.packets
           j      == c.damage[1].packet
           turn   == PacketTurn(Got(c, j))
           S      == {TurnOf(name) : name \in Names} \cup {turn}
           R      == ReadingsOf(S)
           namesBefore == SubSeq(names, 1, j - 1)
           namesBehind == SubSeq(names, j + 1, Len(names))
           a      == Each(KeptTable, namesBefore)
           x      == Kept(turn)
           b      == Each(KeptTable, namesBehind)
           turns  == Turns(BytesOf(c), streamSize)
<1>1. HasTurns(S) /\ turn \in S
  BY DEF HasTurns
<1> HIDE DEF S
<1>2. namesBefore \in Seq(Names) /\ namesBehind \in Seq(Names) /\ turns = (a \o x) \o b
  BY <1>1, DamagedTurns
<1>3. /\ a \in Seq(S) /\ NoneNil(a) /\ Readings(a) = Each(ReadsTable, namesBefore)
      /\ b \in Seq(S) /\ NoneNil(b) /\ Readings(b) = Each(ReadsTable, namesBehind)
  BY <1>1, <1>2, KeptAreRead
<1>4. Readings(a) = ReadsOf(namesBefore) /\ Readings(b) = ReadsOf(namesBehind)
  BY <1>2, <1>3, ReadsOfIsEach
<1>5. x \in Seq(S) /\ Len(x) \in 0 .. 1 /\ \A i \in DOMAIN x : x[i] = turn
  BY <1>1, KeptIsSeq
<1> HIDE DEF namesBefore, namesBehind, a, x, b, turns, turn, R
<1> DEFINE ax == a \o x
<1>6. ax \in Seq(S)
  BY <1>3, <1>5, ConcatPlaces
<1>7. Readings(turns) = (Readings(a) \o Readings(x)) \o Readings(b)
  <2>1. Readings(ax) = Readings(a) \o Readings(x)
    BY <1>3, <1>5, ReadingsConcat
  <2> HIDE DEF ax
  <2>2. Readings(ax \o b) = Readings(ax) \o Readings(b)
    BY <1>3, <1>6, ReadingsConcat
  <2>3. turns = ax \o b
    BY <1>2 DEF ax
  <2> QED
    BY <2>1, <2>2, <2>3
<1>8. Readings(a) \in Seq(R) /\ Readings(x) \in Seq(R) /\ Readings(b) \in Seq(R)
  BY <1>3, <1>5, ReadingsType DEF R
<1>9. Len(Readings(x)) = Len(x)
  BY <1>5, ReadingsType
<1>10. ~NoneNil(turns) => turn.outcome = "nil"
  <2>1. SUFFICES ASSUME ~NoneNil(turns) PROVE turn.outcome = "nil"
    OBVIOUS
  <2>2. turns = ax \o b
    BY <1>2
  <2>3. ~NoneNil(ax)
    <3> HIDE DEF ax
    <3> QED
      BY <1>3, <1>6, <2>1, <2>2, NoneNilConcat
  <2>4. ~NoneNil(x)
    BY <1>3, <1>5, <2>3, NoneNilConcat
  <2> QED
    BY <1>5, <2>4 DEF NoneNil
<1> DEFINE s == Readings(turns)
           ra == Readings(a)
           rb == Readings(b)
           rx == Readings(x)
<1>11. /\ Len(s) - Len(ra) - Len(rb) = Len(rx)
       /\ SubSeq(s, 1, Len(ra)) = ra
       /\ SubSeq(s, Len(ra) + Len(rx) + 1, Len(s)) = rb
  <2>1. ra \in Seq(R) /\ rx \in Seq(R) /\ rb \in Seq(R) /\ s = (ra \o rx) \o rb
    BY <1>7, <1>8
  <2> HIDE DEF s, ra, rx, rb
  <2> QED
    BY ONLY <2>1, ThreeParts
<1>12. ra = ReadsOf(namesBefore) /\ rb = ReadsOf(namesBehind)
  BY <1>4
<1> HIDE DEF s, ra, rb
<1>13. Len(rx) \in 0 .. 1
  BY <1>5, <1>9
<1> HIDE DEF rx
<1>14. LET rest == Len(s) - Len(ra) - Len(rb)
       IN  /\ rest \in 0 .. 1
           /\ SubSeq(s, 1, Len(ra)) = ra
           /\ SubSeq(s, Len(ra) + rest + 1, Len(s)) = rb
  BY <1>11, <1>13
<1> QED
  BY <1>10, <1>12, <1>14 DEF s, turns, turn, namesBefore, namesBehind

\* A damaged byte costs one packet at most, unless it makes a packet that is not full: for
\* packets and chunks of every content and length, under the same condition.
THEOREM DamageIsLocal ==
  ASSUME \A name \in DOMAIN Packets : IsReadAlone(name)
  PROVE  Spec => []DamageCostsOnePacket
<1>1. ReceptionInv => DamageCostsOnePacket
  <2>1. SUFFICES ASSUME ReceptionInv, NEW i \in DOMAIN chunk, NEW k \in DOMAIN chunk[i].damage,
                        isSizeTold, chunk[i].missing = 0
                 PROVE
                   LET names  == chunk[i].packets
                       j      == chunk[i].damage[k].packet
                       before == ReadsOf(SubSeq(names, 1, j - 1))
                       behind == ReadsOf(SubSeq(names, j + 1, Len(names)))
                       rest   == Len(received) - Len(before) - Len(behind)
                   IN  IF pc = "returned"
                       THEN /\ rest \in 0 .. 1
                            /\ SubSeq(received, 1, Len(before)) = before
                            /\ SubSeq(received, Len(before) + rest + 1, Len(received)) = behind
                       ELSE \/ chunk[i].damage[k].byte = TS_PACKET_HEADER_SIZE
                            \/ Packets[names[j]].reads = <<>>
                            \/ /\ chunk[i].damage[k].byte > TS_PACKET_HEADER_SIZE
                               /\ Packets[names[j]].reads[1].packet.payload = <<>>
    BY DEF DamageCostsOnePacket
  <2>2. PICK c \in Chunks : CallOf(c)
    BY <2>1 DEF ReceptionInv
  <2>3. chunk[i] = c /\ c.missing = 0
    BY <2>1, <2>2 DEF CallOf
  <2>4. k = 1 /\ c.damage # <<>>
    BY <2>1, <2>3, ChunkForms
  <2>5. streamSize \in Sizes /\ packetSize = streamSize
    BY <2>1 DEF ReceptionInv
  <2>6. \A name \in Names : IsReadAlone(name)
    BY DEF Names
  <2> DEFINE turns == Turns(BytesOf(c), streamSize)
  <2>7. IF NoneNil(turns) THEN pc = "returned" /\ received = Readings(turns)
                          ELSE pc = "exception"
    BY <2>2, <2>5 DEF CallOf
  <2>8. CASE NoneNil(turns)
    <3>1. pc = "returned" /\ received = Readings(turns)
      BY <2>7, <2>8
    <3> QED
      BY <2>3, <2>4, <2>5, <2>6, <3>1, DamagedChunk
  <2>9. CASE ~NoneNil(turns)
    <3>1. pc # "returned"
      BY <2>7, <2>9
    <3>2. PacketTurn(Got(c, c.damage[1].packet)).outcome = "nil"
      BY <2>3, <2>4, <2>5, <2>6, <2>9, DamagedChunk
    <3>3. LET reads == Packets[c.packets[c.damage[1].packet]].reads
          IN  \/ c.damage[1].byte = 4
              \/ reads = <<>>
              \/ c.damage[1].byte > 4 /\ reads[1].packet.payload = <<>>
      BY <2>4, <2>6, <3>2, DamageMakesNil
    <3> QED
      BY <2>3, <2>4, <3>1, <3>3 DEF TS_PACKET_HEADER_SIZE
  <2> QED
    BY <2>8, <2>9
<1> QED
  BY <1>1, ReceptionHolds, PTL

-----------------------------------------------------------------------------
(* Bits, read where they were written *)

LEMMA RemainingOn ==
  ASSUME NEW L \in Nat, NEW r, NEW i \in Nat, NEW b \in 0 .. 7, NEW n \in 1 .. 32,
         i * 8 + b + n <= L * 8, r.byteOffset = i, r.bitOffset = b, Length(r) = L
  PROVE  ~(RemainingBits(r) < n)
<1>1. i < L
  OBVIOUS
<1>2. RemainingBits(r) = (L - i) * 8 - b
  BY <1>1 DEF RemainingBits
<1> QED
  BY <1>2

\* The byte behind the first i.
ByteIn(bytes, i) == IF i < Len(bytes) THEN bytes[i + 1] ELSE 0

\* The n bits from bit b behind the first i bytes.
BitsIn(bytes, i, b, n) ==
  ((ByteIn(bytes, i) * 65536 + ByteIn(bytes, i + 1) * 256 + ByteIn(bytes, i + 2)) \div 2 ^ (24 - b - n))
      % 2 ^ n

LEMMA BitsInAt ==
  ASSUME NEW r, NEW bytes, NEW i \in Nat, NEW b, IsAt(r, bytes, i, b), NEW n
  PROVE  BitsAt(r, n) = BitsIn(bytes, i, b, n)
<1>1. r.bytes = bytes /\ r.byteOffset = i /\ r.bitOffset = b
  BY DEF IsAt
<1>2. ASSUME NEW k \in Nat PROVE ByteAt(r, k) = ByteIn(bytes, i + k)
  BY <1>1 DEF ByteAt, ByteIn, Length
<1>3. ByteAt(r, 0) = ByteIn(bytes, i) /\ ByteAt(r, 1) = ByteIn(bytes, i + 1) /\ ByteAt(r, 2) = ByteIn(bytes, i + 2)
  <2>1. i + 0 = i /\ 0 \in Nat /\ 1 \in Nat /\ 2 \in Nat
    OBVIOUS
  <2> QED
    BY ONLY <2>1, <1>2
<1> QED
  BY ONLY <1>1, <1>3 DEF BitsAt, BitsIn

LEMMA ReadBitsOn ==
  ASSUME NEW bytes \in Seq(Byte), NEW r, NEW i \in Nat, NEW b \in 0 .. 7, IsAt(r, bytes, i, b),
         NEW n \in 1 .. 32, NEW q \in Nat, NEW m \in 0 .. 7, q * 8 + m = i * 8 + b + n,
         q * 8 + m <= Len(bytes) * 8
  PROVE  /\ IsAt(ReadBits(r, n), bytes, q, m)
         /\ ReadBits(r, n).value = BitsIn(bytes, i, b, n)
         /\ IsAt(SkipBits(r, n), bytes, q, m)
<1>1. (i * 8 + b + n) \div 8 = q /\ (i * 8 + b + n) % 8 = m
  OBVIOUS
<1>2. r.bytes = bytes /\ r.byteOffset = i /\ r.bitOffset = b /\ r.error = FALSE
  BY DEF IsAt
<1>3. Length(r) = Len(bytes) /\ Len(bytes) \in Nat
  BY <1>2, LenProperties DEF Length
<1>4. ~(RemainingBits(r) < n)
  <2>1. i * 8 + b + n <= Len(bytes) * 8
    OBVIOUS
  <2> QED
    BY <1>2, <1>3, <2>1, RemainingOn
<1>5. ReadBits(r, n) = [MovedBits(r, n) EXCEPT !.value = BitsAt(r, n)]
  <2>1. n # 0 /\ ~(n > 32)
    OBVIOUS
  <2>2. ~r.error
    BY <1>2
  <2>3. ~(RemainingBits(r) < n) /\ n \in Nat
    BY <1>4
  <2> QED
    BY ONLY <2>1, <2>2, <2>3, BitsAreRead
<1>6. MovedBits(r, n) = [r EXCEPT !.byteOffset = q, !.bitOffset = m]
  BY <1>1, <1>2 DEF MovedBits
<1> DEFINE v == BitsAt(r, n)
<1> HIDE DEF v
<1>7. IsAt(MovedTo(r, q, m, v), bytes, q, m) /\ MovedTo(r, q, m, v).value = v
  BY MovedAt
<1>8. ReadBits(r, n) = MovedTo(r, q, m, v)
  BY <1>5, <1>6 DEF MovedTo, v
<1>9. v = BitsIn(bytes, i, b, n)
  BY BitsInAt DEF v
<1>10. SkipBits(r, n) = MovedBits(r, n)
  BY ONLY <1>2, <1>4 DEF SkipBits
<1>11. PICK U : r \in ReadersOf(U)
  BY DEF IsAt
<1> DEFINE s == [r EXCEPT !.byteOffset = q, !.bitOffset = m]
<1>12. /\ s \in ReadersOf(U) /\ s.bytes = bytes /\ s.error = FALSE
       /\ s.byteOffset = q /\ s.bitOffset = m
  BY <1>2, <1>11 DEF ReadersOf
<1> HIDE DEF s
<1>13. IsAt(s, bytes, q, m)
  <2>1. \E V : s \in ReadersOf(V)
    BY <1>12
  <2> QED
    BY <1>12, <2>1, Zenon DEF IsAt
<1> QED
  BY ONLY <1>6, <1>7, <1>8, <1>9, <1>10, <1>13 DEF s

LEMMA ByteInType ==
  ASSUME NEW bytes \in Seq(Byte), NEW i \in Nat
  PROVE  ByteIn(bytes, i) \in Byte /\ (i < Len(bytes) => ByteIn(bytes, i) = bytes[i + 1])
<1>1. CASE i < Len(bytes)
  <2>1. i + 1 \in 1 .. Len(bytes)
    BY <1>1, LenProperties
  <2>2. bytes[i + 1] \in Byte
    BY ONLY <2>1, bytes \in Seq(Byte), ElementOfSeq
  <2> QED
    BY <1>1, <2>2 DEF ByteIn
<1>2. CASE ~(i < Len(bytes))
  BY <1>2 DEF ByteIn, Byte
<1> QED
  BY <1>1, <1>2

\* What bits of three bytes are, for the places that the headers have them at.
LEMMA BitsOfBytes ==
  ASSUME NEW x \in Byte, NEW y \in Byte, NEW z \in Byte
  PROVE  LET window == x * 65536 + y * 256 + z
         IN  /\ (window \div 2 ^ 23) % 2 ^ 1 = x \div 128
             /\ (window \div 2 ^ 22) % 2 ^ 1 = (x \div 64) % 2
             /\ (window \div 2 ^ 21) % 2 ^ 1 = (x \div 32) % 2
             /\ (window \div 2 ^ 8) % 2 ^ 13 = (x % 32) * 256 + y
             /\ (window \div 2 ^ 22) % 2 ^ 2 = x \div 64
             /\ (window \div 2 ^ 20) % 2 ^ 2 = (x \div 16) % 4
             /\ (window \div 2 ^ 16) % 2 ^ 4 = x % 16
             /\ (window \div 2 ^ 16) % 2 ^ 8 = x
             /\ (window \div 2 ^ 8) % 2 ^ 9 = (x % 2) * 256 + y
<1> DEFINE window == x * 65536 + y * 256 + z
<1>1. /\ 2 ^ 23 = 8388608 /\ 2 ^ 22 = 4194304 /\ 2 ^ 21 = 2097152 /\ 2 ^ 20 = 1048576
      /\ 2 ^ 16 = 65536 /\ 2 ^ 13 = 8192 /\ 2 ^ 9 = 512 /\ 2 ^ 8 = 256 /\ 2 ^ 4 = 16 /\ 2 ^ 2 = 4 /\ 2 ^ 1 = 2
  OBVIOUS
<1>2. (window \div 8388608) % 2 = x \div 128
  BY DEF Byte
<1>3. (window \div 4194304) % 2 = (x \div 64) % 2
  BY DEF Byte
<1>4. (window \div 2097152) % 2 = (x \div 32) % 2
  BY DEF Byte
<1>5. (window \div 256) % 8192 = (x % 32) * 256 + y
  BY DEF Byte
<1>6. (window \div 4194304) % 4 = x \div 64
  BY DEF Byte
<1>7. (window \div 1048576) % 4 = (x \div 16) % 4
  BY DEF Byte
<1>8. (window \div 65536) % 16 = x % 16
  BY DEF Byte
<1>9. (window \div 65536) % 256 = x
  BY DEF Byte
<1>10. (window \div 256) % 512 = (x % 2) * 256 + y
  <2>1. window \div 256 = x * 256 + y
    BY DEF Byte
  <2>2. x * 256 + y = (x \div 2) * 512 + ((x % 2) * 256 + y)
    BY DEF Byte
  <2>3. (x % 2) * 256 + y \in 0 .. 511 /\ x \div 2 \in Nat
    BY DEF Byte
  <2>4. ASSUME NEW q \in Nat, NEW m \in 0 .. 511 PROVE (q * 512 + m) % 512 = m
    OBVIOUS
  <2> QED
    BY ONLY <2>1, <2>2, <2>3, <2>4
<1> HIDE DEF window
<1>11. /\ (window \div 2 ^ 23) % 2 ^ 1 = x \div 128
       /\ (window \div 2 ^ 22) % 2 ^ 1 = (x \div 64) % 2
       /\ (window \div 2 ^ 21) % 2 ^ 1 = (x \div 32) % 2
       /\ (window \div 2 ^ 8) % 2 ^ 13 = (x % 32) * 256 + y
       /\ (window \div 2 ^ 22) % 2 ^ 2 = x \div 64
       /\ (window \div 2 ^ 20) % 2 ^ 2 = (x \div 16) % 4
       /\ (window \div 2 ^ 16) % 2 ^ 4 = x % 16
       /\ (window \div 2 ^ 16) % 2 ^ 8 = x
       /\ (window \div 2 ^ 8) % 2 ^ 9 = (x % 2) * 256 + y
  BY ONLY <1>1, <1>2, <1>3, <1>4, <1>5, <1>6, <1>7, <1>8, <1>9, <1>10
<1> QED
  BY ONLY <1>11 DEF window

LEMMA BitsFromBytes ==
  ASSUME NEW bytes \in Seq(Byte), NEW i \in Nat, i + 1 < Len(bytes)
  PROVE  /\ BitsIn(bytes, i, 0, 1) = bytes[i + 1] \div 128
         /\ BitsIn(bytes, i, 1, 1) = (bytes[i + 1] \div 64) % 2
         /\ BitsIn(bytes, i, 2, 1) = (bytes[i + 1] \div 32) % 2
         /\ BitsIn(bytes, i, 3, 13) = (bytes[i + 1] % 32) * 256 + bytes[i + 2]
         /\ BitsIn(bytes, i, 0, 2) = bytes[i + 1] \div 64
         /\ BitsIn(bytes, i, 2, 2) = (bytes[i + 1] \div 16) % 4
         /\ BitsIn(bytes, i, 4, 4) = bytes[i + 1] % 16
         /\ BitsIn(bytes, i, 0, 8) = bytes[i + 1]
         /\ BitsIn(bytes, i, 7, 9) = (bytes[i + 1] % 2) * 256 + bytes[i + 2]
<1> DEFINE x == ByteIn(bytes, i)
           y == ByteIn(bytes, i + 1)
           z == ByteIn(bytes, i + 2)
<1>1. x \in Byte /\ y \in Byte /\ z \in Byte
  BY ByteInType
<1>2. x = bytes[i + 1] /\ y = bytes[i + 2]
  <2>1. i < Len(bytes) /\ (i + 1) + 1 = i + 2 /\ i + 1 \in Nat
    BY LenProperties
  <2> QED
    BY <2>1, ByteInType
<1>3. ASSUME NEW b, NEW n
      PROVE  BitsIn(bytes, i, b, n) = ((x * 65536 + y * 256 + z) \div 2 ^ (24 - b - n)) % 2 ^ n
  BY DEF BitsIn
<1> HIDE DEF x, y, z
<1>4. /\ 24 - 0 - 1 = 23 /\ 24 - 1 - 1 = 22 /\ 24 - 2 - 1 = 21 /\ 24 - 3 - 13 = 8 /\ 24 - 0 - 2 = 22
      /\ 24 - 2 - 2 = 20 /\ 24 - 4 - 4 = 16 /\ 24 - 0 - 8 = 16 /\ 24 - 7 - 9 = 8
  OBVIOUS
<1> DEFINE w == x * 65536 + y * 256 + z
<1>5. /\ (w \div 2 ^ 23) % 2 ^ 1 = x \div 128
      /\ (w \div 2 ^ 22) % 2 ^ 1 = (x \div 64) % 2
      /\ (w \div 2 ^ 21) % 2 ^ 1 = (x \div 32) % 2
      /\ (w \div 2 ^ 8) % 2 ^ 13 = (x % 32) * 256 + y
      /\ (w \div 2 ^ 22) % 2 ^ 2 = x \div 64
      /\ (w \div 2 ^ 20) % 2 ^ 2 = (x \div 16) % 4
      /\ (w \div 2 ^ 16) % 2 ^ 4 = x % 16
      /\ (w \div 2 ^ 16) % 2 ^ 8 = x
      /\ (w \div 2 ^ 8) % 2 ^ 9 = (x % 2) * 256 + y
  BY ONLY <1>1, BitsOfBytes
<1>6. ASSUME NEW b, NEW n, NEW k, 24 - b - n = k PROVE BitsIn(bytes, i, b, n) = (w \div 2 ^ k) % 2 ^ n
  BY ONLY <1>3, <1>6
<1> HIDE DEF w
<1>7. BitsIn(bytes, i, 0, 1) = x \div 128
  <2>1. BitsIn(bytes, i, 0, 1) = (w \div 2 ^ 23) % 2 ^ 1
    BY ONLY <1>4, <1>6
  <2> QED
    BY ONLY <1>5, <2>1
<1>8. BitsIn(bytes, i, 1, 1) = (x \div 64) % 2
  <2>1. BitsIn(bytes, i, 1, 1) = (w \div 2 ^ 22) % 2 ^ 1
    BY ONLY <1>4, <1>6
  <2> QED
    BY ONLY <1>5, <2>1
<1>9. BitsIn(bytes, i, 2, 1) = (x \div 32) % 2
  <2>1. BitsIn(bytes, i, 2, 1) = (w \div 2 ^ 21) % 2 ^ 1
    BY ONLY <1>4, <1>6
  <2> QED
    BY ONLY <1>5, <2>1
<1>10. BitsIn(bytes, i, 3, 13) = (x % 32) * 256 + y
  <2>1. BitsIn(bytes, i, 3, 13) = (w \div 2 ^ 8) % 2 ^ 13
    BY ONLY <1>4, <1>6
  <2> QED
    BY ONLY <1>5, <2>1
<1>11. BitsIn(bytes, i, 0, 2) = x \div 64
  <2>1. BitsIn(bytes, i, 0, 2) = (w \div 2 ^ 22) % 2 ^ 2
    BY ONLY <1>4, <1>6
  <2> QED
    BY ONLY <1>5, <2>1
<1>12. BitsIn(bytes, i, 2, 2) = (x \div 16) % 4
  <2>1. BitsIn(bytes, i, 2, 2) = (w \div 2 ^ 20) % 2 ^ 2
    BY ONLY <1>4, <1>6
  <2> QED
    BY ONLY <1>5, <2>1
<1>13. BitsIn(bytes, i, 4, 4) = x % 16
  <2>1. BitsIn(bytes, i, 4, 4) = (w \div 2 ^ 16) % 2 ^ 4
    BY ONLY <1>4, <1>6
  <2> QED
    BY ONLY <1>5, <2>1
<1>14. BitsIn(bytes, i, 0, 8) = x
  <2>1. BitsIn(bytes, i, 0, 8) = (w \div 2 ^ 16) % 2 ^ 8
    <3>1. 24 - 0 - 8 = 16
      OBVIOUS
    <3> QED
      BY ONLY <1>6, <3>1, Zenon
  <2> QED
    BY ONLY <1>5, <2>1
<1>15. BitsIn(bytes, i, 7, 9) = (x % 2) * 256 + y
  <2>1. BitsIn(bytes, i, 7, 9) = (w \div 2 ^ 8) % 2 ^ 9
    BY ONLY <1>4, <1>6
  <2> QED
    BY ONLY <1>5, <2>1
<1> QED
  BY ONLY <1>2, <1>7, <1>8, <1>9, <1>10, <1>11, <1>12, <1>13, <1>14, <1>15

-----------------------------------------------------------------------------
(* The header *)

\* A number of n bits, and a bit, read back.
LEMMA HeaderReads ==
  ASSUME NEW bytes, IsPacket(bytes)
  PROVE  ReadHeader(bytes) =
           [syncByte |-> bytes[1], transportErrorIndicator |-> bytes[2] \div 128 # 0,
            payloadUnitStartIndicator |-> (bytes[2] \div 64) % 2 # 0,
            transportPriority |-> (bytes[2] \div 32) % 2 # 0,
            pid |-> (bytes[2] % 32) * 256 + bytes[3], isScrambled |-> bytes[4] \div 64 # 0,
            adaptationMode |-> (bytes[4] \div 16) % 4, continuityCounter |-> bytes[4] % 16]
<1> DEFINE sync     == ReadUInt8(Make(bytes))
           tei      == ReadBits(sync, 1)
           pusi     == ReadBits(tei, 1)
           priority == ReadBits(pusi, 1)
           pid      == ReadBits(priority, 13)
           scramble == ReadBits(pid, 2)
           mode     == ReadBits(scramble, 2)
           cc       == ReadBits(mode, 4)
<1>0. ReadHeader(bytes) =
        [syncByte |-> sync.value, transportErrorIndicator |-> tei.value # 0,
         payloadUnitStartIndicator |-> pusi.value # 0, transportPriority |-> priority.value # 0,
         pid |-> pid.value, isScrambled |-> scramble.value # 0,
         adaptationMode |-> mode.value, continuityCounter |-> cc.value]
  BY Zenon DEF ReadHeader
<1>1. bytes \in Seq(Byte) /\ 32 <= Len(bytes) * 8 /\ 1 + 1 < Len(bytes) /\ 3 + 1 < Len(bytes)
  BY DEF IsPacket
<1>2. IsAt(sync, bytes, 1, 0) /\ sync.value = bytes[1]
  BY FirstByteRead
<1> HIDE DEF sync
<1> DEFINE Follows(r, i, b, n, q, m) ==
             /\ IsAt(ReadBits(r, n), bytes, q, m)
             /\ ReadBits(r, n).value = BitsIn(bytes, i, b, n)
<1>3. ASSUME NEW r, NEW i \in Nat, NEW b \in 0 .. 7, IsAt(r, bytes, i, b), NEW n \in 1 .. 32,
             NEW q \in Nat, NEW m \in 0 .. 7, q * 8 + m = i * 8 + b + n, q * 8 + m <= 32
      PROVE  Follows(r, i, b, n, q, m)
  <2>1. q * 8 + m <= Len(bytes) * 8
    BY <1>1, <1>3, LenProperties
  <2>2. bytes \in Seq(Byte) /\ IsAt(r, bytes, i, b) /\ q * 8 + m = i * 8 + b + n
    BY <1>1, <1>3
  <2>3. /\ IsAt(ReadBits(r, n), bytes, q, m)
        /\ ReadBits(r, n).value = BitsIn(bytes, i, b, n)
        /\ IsAt(SkipBits(r, n), bytes, q, m)
    BY <2>1, <2>2, ReadBitsOn
  <2> QED
    BY <2>3
<1>4. Follows(sync, 1, 0, 1, 1, 1)
  BY <1>2, <1>3
<1>5. Follows(tei, 1, 1, 1, 1, 2)
  BY <1>3, <1>4
<1>6. Follows(pusi, 1, 2, 1, 1, 3)
  BY <1>3, <1>5
<1>7. Follows(priority, 1, 3, 13, 3, 0)
  BY <1>3, <1>6
<1>8. Follows(pid, 3, 0, 2, 3, 2)
  BY <1>3, <1>7
<1>9. Follows(scramble, 3, 2, 2, 3, 4)
  BY <1>3, <1>8
<1>10. Follows(mode, 3, 4, 4, 4, 0)
  BY <1>3, <1>9
<1>11. /\ tei.value = BitsIn(bytes, 1, 0, 1) /\ pusi.value = BitsIn(bytes, 1, 1, 1)
       /\ priority.value = BitsIn(bytes, 1, 2, 1) /\ pid.value = BitsIn(bytes, 1, 3, 13)
       /\ scramble.value = BitsIn(bytes, 3, 0, 2) /\ mode.value = BitsIn(bytes, 3, 2, 2)
       /\ cc.value = BitsIn(bytes, 3, 4, 4)
  BY <1>4, <1>5, <1>6, <1>7, <1>8, <1>9, <1>10
<1> HIDE DEF tei, pusi, priority, pid, scramble, mode, cc
<1>12. /\ BitsIn(bytes, 1, 0, 1) = bytes[2] \div 128
       /\ BitsIn(bytes, 1, 1, 1) = (bytes[2] \div 64) % 2
       /\ BitsIn(bytes, 1, 2, 1) = (bytes[2] \div 32) % 2
       /\ BitsIn(bytes, 1, 3, 13) = (bytes[2] % 32) * 256 + bytes[3]
  <2>1. 1 \in Nat /\ 1 + 1 = 2 /\ 1 + 2 = 3
    OBVIOUS
  <2> QED
    BY ONLY <1>1, <2>1, BitsFromBytes
<1>13. /\ BitsIn(bytes, 3, 0, 2) = bytes[4] \div 64
       /\ BitsIn(bytes, 3, 2, 2) = (bytes[4] \div 16) % 4
       /\ BitsIn(bytes, 3, 4, 4) = bytes[4] % 16
  <2>1. 3 \in Nat /\ 3 + 1 = 4
    OBVIOUS
  <2> QED
    BY ONLY <1>1, <2>1, BitsFromBytes
<1>14. /\ sync.value = bytes[1] /\ tei.value = bytes[2] \div 128 /\ pusi.value = (bytes[2] \div 64) % 2
       /\ priority.value = (bytes[2] \div 32) % 2 /\ pid.value = (bytes[2] % 32) * 256 + bytes[3]
       /\ scramble.value = bytes[4] \div 64 /\ mode.value = (bytes[4] \div 16) % 4
       /\ cc.value = bytes[4] % 16
  BY ONLY <1>2, <1>11, <1>12, <1>13
<1> QED
  BY ONLY <1>0, <1>14

LEMMA HeaderIsRecord ==
  ASSUME NEW h \in TSPacketHeaders
  PROVE  h = [syncByte |-> h.syncByte, transportErrorIndicator |-> h.transportErrorIndicator,
              payloadUnitStartIndicator |-> h.payloadUnitStartIndicator,
              transportPriority |-> h.transportPriority, pid |-> h.pid,
              isScrambled |-> h.isScrambled, adaptationMode |-> h.adaptationMode,
              continuityCounter |-> h.continuityCounter]
BY Zenon DEF TSPacketHeaders

LEMMA HeaderFields ==
  ASSUME NEW h \in TSPacketHeaders
  PROVE  /\ h.syncByte \in Byte /\ h.pid \in Bits(13) /\ h.adaptationMode \in 0 .. 3
         /\ h.continuityCounter \in 0 .. 15
         /\ h.transportErrorIndicator \in BOOLEAN /\ h.payloadUnitStartIndicator \in BOOLEAN
         /\ h.transportPriority \in BOOLEAN /\ h.isScrambled \in BOOLEAN
<1>2. h.pid \in 0 .. 2 ^ 13 - 1
  BY DEF TSPacketHeaders, Bits
<1>3. h.adaptationMode \in 0 .. 3
  BY DEF TSPacketHeaders, TSAdaptationMode
<1>5. /\ h.transportErrorIndicator \in BOOLEAN /\ h.payloadUnitStartIndicator \in BOOLEAN
      /\ h.transportPriority \in BOOLEAN /\ h.isScrambled \in BOOLEAN
  BY Zenon DEF TSPacketHeaders
<1>6. h.pid \in Bits(13)
  BY ONLY <1>2, Zenon DEF Bits
<1>7. h.syncByte \in Byte /\ h.continuityCounter \in 0 .. 15
  BY DEF TSPacketHeaders
<1> QED
  BY ONLY <1>3, <1>5, <1>6, <1>7

LEMMA BitType ==
  \A c \in BOOLEAN : Bit(c) \in 0 .. 1 /\ (Bit(c) # 0) = c
BY DEF Bit

\* What is written of a header.
LEMMA HeaderIsWritten ==
  ASSUME NEW h \in TSPacketHeaders
  PROVE  LET w == HeaderBytes(h)
         IN  /\ w \in Seq(Byte) /\ Len(w) = 4 /\ w[1] = h.syncByte
             /\ w[2] \div 128 = Bit(h.transportErrorIndicator)
             /\ (w[2] \div 64) % 2 = Bit(h.payloadUnitStartIndicator)
             /\ (w[2] \div 32) % 2 = Bit(h.transportPriority)
             /\ (w[2] % 32) * 256 + w[3] = h.pid
             /\ w[4] \div 64 = Bit(h.isScrambled)
             /\ (w[4] \div 16) % 4 = h.adaptationMode
             /\ w[4] % 16 = h.continuityCounter
<1> DEFINE a == Bit(h.transportErrorIndicator)
           b == Bit(h.payloadUnitStartIndicator)
           c == Bit(h.transportPriority)
           d == Bit(h.isScrambled)
           e == h.pid \div 256
           m == h.adaptationMode
           cc == h.continuityCounter
           second == 128 * a + 64 * b + 32 * c + (e % 32)
           third == h.pid % 256
           fourth == 64 * d + 16 * m + (cc % 16)
           w == HeaderBytes(h)
<1>1. /\ a \in 0 .. 1 /\ b \in 0 .. 1 /\ c \in 0 .. 1 /\ d \in 0 .. 1
      /\ m \in 0 .. 3 /\ cc \in 0 .. 15 /\ h.pid \in Bits(13) /\ h.syncByte \in Byte
  BY HeaderFields, BitType
<1>2. w = <<h.syncByte, second, third, fourth>>
  BY Zenon DEF HeaderBytes
<1> HIDE DEF a, b, c, d, m, cc, w
<1>3. e \in 0 .. 31 /\ e * 256 + third = h.pid /\ third \in 0 .. 255 /\ e % 32 = e
  <2>1. ASSUME NEW n \in Bits(13)
        PROVE  n \div 256 \in 0 .. 31 /\ (n \div 256) * 256 + (n % 256) = n /\ n % 256 \in 0 .. 255
    <3>1. 2 ^ 13 - 1 = 8191
      OBVIOUS
    <3>2. n \in 0 .. 8191
      BY <3>1 DEF Bits
    <3> QED
      BY ONLY <3>2
  <2>2. \A n \in 0 .. 31 : n % 32 = n
    OBVIOUS
  <2> DEFINE pid == h.pid
  <2>3. pid \in Bits(13)
    BY <1>1
  <2> HIDE DEF pid
  <2>4. /\ pid \div 256 \in 0 .. 31 /\ (pid \div 256) * 256 + (pid % 256) = pid
        /\ pid % 256 \in 0 .. 255
    BY ONLY <2>1, <2>3
  <2>5. (pid \div 256) % 32 = pid \div 256
    BY ONLY <2>2, <2>4
  <2>6. e = pid \div 256 /\ third = pid % 256 /\ pid = h.pid
    BY DEF pid
  <2> QED
    BY <2>4, <2>5, <2>6
<1> HIDE DEF e, third
<1>4. /\ second \in 0 .. 255 /\ second \div 128 = a /\ (second \div 64) % 2 = b
      /\ (second \div 32) % 2 = c /\ second % 32 = e
  <2>1. second = 128 * a + 64 * b + 32 * c + e
    BY <1>3
  <2> HIDE DEF second
  <2>2. second \div 128 = a /\ second \in 0 .. 255
    BY ONLY <1>1, <1>3, <2>1
  <2>3. second \div 64 = 2 * a + b
    BY ONLY <1>1, <1>3, <2>1
  <2>4. second \div 32 = 2 * (2 * a + b) + c
    BY ONLY <1>1, <1>3, <2>1
  <2>5. second % 32 = e
    BY ONLY <1>1, <1>3, <2>1
  <2>6. (2 * a + b) % 2 = b
    BY ONLY <1>1
  <2>7. (2 * (2 * a + b) + c) % 2 = c
    BY ONLY <1>1
  <2> QED
    BY ONLY <2>2, <2>3, <2>4, <2>5, <2>6, <2>7
<1>5. /\ fourth \in 0 .. 255 /\ fourth \div 64 = d /\ (fourth \div 16) % 4 = m
      /\ fourth % 16 = cc
  <2>1. fourth = 64 * d + 16 * m + cc
    BY <1>1
  <2> HIDE DEF fourth
  <2>2. fourth \in 0 .. 255 /\ fourth \div 64 = d /\ fourth % 16 = cc
    BY ONLY <1>1, <2>1
  <2>3. fourth \div 16 = 4 * d + m
    BY ONLY <1>1, <2>1
  <2>4. (4 * d + m) % 4 = m
    BY ONLY <1>1
  <2> QED
    BY ONLY <2>2, <2>3, <2>4
<1> HIDE DEF second, fourth
<1>6. w \in Seq(Byte) /\ Len(w) = 4 /\ w[1] = h.syncByte /\ w[2] = second /\ w[3] = third /\ w[4] = fourth
  <2>1. second \in Byte /\ third \in Byte /\ fourth \in Byte
    BY <1>3, <1>4, <1>5 DEF Byte
  <2> QED
    BY ONLY <1>1, <1>2, <2>1
<1>7. (second % 32) * 256 + third = h.pid
  BY <1>3, <1>4
<1> QED
  BY <1>4, <1>5, <1>6, <1>7 DEF w, a, b, c, d, m, cc

\* A header is read as it was written.
LEMMA HeaderIsRead ==
  ASSUME NEW h \in TSPacketHeaders, NEW bytes, IsPacket(bytes),
         \A i \in 1 .. 4 : bytes[i] = HeaderBytes(h)[i]
  PROVE  ReadHeader(bytes) = h
<1> DEFINE w == HeaderBytes(h)
<1>1. bytes[1] = w[1] /\ bytes[2] = w[2] /\ bytes[3] = w[3] /\ bytes[4] = w[4]
  OBVIOUS
<1>2. /\ bytes[1] = h.syncByte
      /\ bytes[2] \div 128 = Bit(h.transportErrorIndicator)
      /\ (bytes[2] \div 64) % 2 = Bit(h.payloadUnitStartIndicator)
      /\ (bytes[2] \div 32) % 2 = Bit(h.transportPriority)
      /\ (bytes[2] % 32) * 256 + bytes[3] = h.pid
      /\ bytes[4] \div 64 = Bit(h.isScrambled)
      /\ (bytes[4] \div 16) % 4 = h.adaptationMode
      /\ bytes[4] % 16 = h.continuityCounter
  <2> HIDE DEF w
  <2> QED
    BY <1>1, HeaderIsWritten DEF w
<1>3. /\ (Bit(h.transportErrorIndicator) # 0) = h.transportErrorIndicator
      /\ (Bit(h.payloadUnitStartIndicator) # 0) = h.payloadUnitStartIndicator
      /\ (Bit(h.transportPriority) # 0) = h.transportPriority
      /\ (Bit(h.isScrambled) # 0) = h.isScrambled
  <2>1. /\ h.transportErrorIndicator \in BOOLEAN /\ h.payloadUnitStartIndicator \in BOOLEAN
        /\ h.transportPriority \in BOOLEAN /\ h.isScrambled \in BOOLEAN
    BY HeaderFields
  <2> QED
    BY ONLY <2>1, BitType, Zenon
<1>4. ReadHeader(bytes) =
        [syncByte |-> h.syncByte, transportErrorIndicator |-> Bit(h.transportErrorIndicator) # 0,
         payloadUnitStartIndicator |-> Bit(h.payloadUnitStartIndicator) # 0,
         transportPriority |-> Bit(h.transportPriority) # 0, pid |-> h.pid,
         isScrambled |-> Bit(h.isScrambled) # 0,
         adaptationMode |-> h.adaptationMode, continuityCounter |-> h.continuityCounter]
  BY <1>2, HeaderReads
<1> DEFINE t == Bit(h.transportErrorIndicator) # 0
           u == Bit(h.payloadUnitStartIndicator) # 0
           v == Bit(h.transportPriority) # 0
           x == Bit(h.isScrambled) # 0
<1>5. ReadHeader(bytes) =
        [syncByte |-> h.syncByte, transportErrorIndicator |-> t, payloadUnitStartIndicator |-> u,
         transportPriority |-> v, pid |-> h.pid, isScrambled |-> x,
         adaptationMode |-> h.adaptationMode, continuityCounter |-> h.continuityCounter]
  BY <1>4
<1>6. /\ t = h.transportErrorIndicator /\ u = h.payloadUnitStartIndicator
      /\ v = h.transportPriority /\ x = h.isScrambled
  BY <1>3
<1>7. h = [syncByte |-> h.syncByte, transportErrorIndicator |-> h.transportErrorIndicator,
           payloadUnitStartIndicator |-> h.payloadUnitStartIndicator,
           transportPriority |-> h.transportPriority, pid |-> h.pid,
           isScrambled |-> h.isScrambled, adaptationMode |-> h.adaptationMode,
           continuityCounter |-> h.continuityCounter]
  BY HeaderIsRecord
<1> HIDE DEF t, u, v, x
<1> QED
  BY ONLY <1>5, <1>6, <1>7

-----------------------------------------------------------------------------
(* The adaptation field *)

LEMMA FlagNamesAre ==
  DOMAIN FlagNames = 1 .. 8 /\ Range(FlagNames) = {FlagNames[i] : i \in 1 .. 8}
<1>1. DOMAIN FlagNames = 1 .. 8
  BY DEF FlagNames
<1> QED
  BY ONLY <1>1 DEF Range

\* The flags of a byte are those it was written from.
LEMMA FlagsAreRead ==
  ASSUME NEW flags \in SUBSET Range(FlagNames)
  PROVE  FlagsByte(flags) \in Byte /\ FlagsOf(FlagsByte(flags)) = flags
<1> DEFINE e(i) == Bit(FlagNames[i] \in flags)
           byte == FlagsByte(flags)
<1>1. ASSUME NEW i PROVE e(i) \in 0 .. 1
  BY DEF Bit
<1>2. byte = 128 * e(1) + 64 * e(2) + 32 * e(3) + 16 * e(4) + 8 * e(5) + 4 * e(6) + 2 * e(7) + e(8)
  <2>1. byte = 2 ^ (8 - 1) * e(1) + 2 ^ (8 - 2) * e(2) + 2 ^ (8 - 3) * e(3) + 2 ^ (8 - 4) * e(4)
                + 2 ^ (8 - 5) * e(5) + 2 ^ (8 - 6) * e(6) + 2 ^ (8 - 7) * e(7) + 2 ^ (8 - 8) * e(8)
    BY Zenon DEF FlagsByte
  <2> HIDE DEF e, byte
  <2>2. /\ 2 ^ (8 - 1) = 128 /\ 2 ^ (8 - 2) = 64 /\ 2 ^ (8 - 3) = 32 /\ 2 ^ (8 - 4) = 16
        /\ 2 ^ (8 - 5) = 8 /\ 2 ^ (8 - 6) = 4 /\ 2 ^ (8 - 7) = 2 /\ 2 ^ (8 - 8) = 1
    OBVIOUS
  <2>3. 1 * e(8) = e(8)
    BY <1>1
  <2> QED
    BY ONLY <2>1, <2>2, <2>3
<1>3. \A j \in 1 .. 8 : (byte \div 2 ^ (8 - j)) % 2 = e(j)
  <2> HIDE DEF byte
  <2> DEFINE e1 == e(1)
             e2 == e(2)
             e3 == e(3)
             e4 == e(4)
             e5 == e(5)
             e6 == e(6)
             e7 == e(7)
             e8 == e(8)
  <2>0. /\ e1 \in 0 .. 1 /\ e2 \in 0 .. 1 /\ e3 \in 0 .. 1 /\ e4 \in 0 .. 1 /\ e5 \in 0 .. 1
        /\ e6 \in 0 .. 1 /\ e7 \in 0 .. 1 /\ e8 \in 0 .. 1
    BY <1>1
  <2> HIDE DEF e1, e2, e3, e4, e5, e6, e7, e8
  <2>1. byte = 128 * e1 + 64 * e2 + 32 * e3 + 16 * e4 + 8 * e5 + 4 * e6 + 2 * e7 + e8
    BY <1>2 DEF e1, e2, e3, e4, e5, e6, e7, e8
  <2> DEFINE Halved(n) == n \div 2
  <2>2. /\ byte \div 2 ^ (8 - 1) = e1
        /\ byte \div 2 ^ (8 - 2) = 2 * e1 + e2
        /\ byte \div 2 ^ (8 - 3) = 4 * e1 + 2 * e2 + e3
        /\ byte \div 2 ^ (8 - 4) = 8 * e1 + 4 * e2 + 2 * e3 + e4
        /\ byte \div 2 ^ (8 - 5) = 16 * e1 + 8 * e2 + 4 * e3 + 2 * e4 + e5
        /\ byte \div 2 ^ (8 - 6) = 32 * e1 + 16 * e2 + 8 * e3 + 4 * e4 + 2 * e5 + e6
        /\ byte \div 2 ^ (8 - 7) = 64 * e1 + 32 * e2 + 16 * e3 + 8 * e4 + 4 * e5 + 2 * e6 + e7
        /\ byte \div 2 ^ (8 - 8) = byte
    <3>1. /\ 2 ^ (8 - 1) = 128 /\ 2 ^ (8 - 2) = 64 /\ 2 ^ (8 - 3) = 32 /\ 2 ^ (8 - 4) = 16
          /\ 2 ^ (8 - 5) = 8 /\ 2 ^ (8 - 6) = 4 /\ 2 ^ (8 - 7) = 2 /\ 2 ^ (8 - 8) = 1
      OBVIOUS
    <3>2. byte \div 128 = e1
      BY ONLY <2>0, <2>1
    <3>3. byte \div 64 = 2 * e1 + e2
      BY ONLY <2>0, <2>1
    <3>4. byte \div 32 = 4 * e1 + 2 * e2 + e3
      BY ONLY <2>0, <2>1
    <3>5. byte \div 16 = 8 * e1 + 4 * e2 + 2 * e3 + e4
      BY ONLY <2>0, <2>1
    <3>6. byte \div 8 = 16 * e1 + 8 * e2 + 4 * e3 + 2 * e4 + e5
      BY ONLY <2>0, <2>1
    <3>7. byte \div 4 = 32 * e1 + 16 * e2 + 8 * e3 + 4 * e4 + 2 * e5 + e6
      BY ONLY <2>0, <2>1
    <3>8. byte \div 2 = 64 * e1 + 32 * e2 + 16 * e3 + 8 * e4 + 4 * e5 + 2 * e6 + e7
      BY ONLY <2>0, <2>1
    <3>9. byte \div 1 = byte
      BY ONLY <2>0, <2>1
    <3> QED
      BY ONLY <3>1, <3>2, <3>3, <3>4, <3>5, <3>6, <3>7, <3>8, <3>9
  <2>3. ASSUME NEW n \in Nat, NEW b \in 0 .. 1 PROVE (2 * n + b) % 2 = b
    OBVIOUS
  <2>4. (byte \div 2 ^ (8 - 1)) % 2 = e1
    BY ONLY <2>0, <2>2
  <2>5. (byte \div 2 ^ (8 - 2)) % 2 = e2
    BY ONLY <2>0, <2>2
  <2>6. (byte \div 2 ^ (8 - 3)) % 2 = e3
    <3>1. 4 * e1 + 2 * e2 + e3 = 2 * (2 * e1 + e2) + e3 /\ 2 * e1 + e2 \in Nat
      BY ONLY <2>0
    <3> QED
      BY ONLY <2>0, <2>2, <2>3, <3>1
  <2>7. (byte \div 2 ^ (8 - 4)) % 2 = e4
    <3>1. 8 * e1 + 4 * e2 + 2 * e3 + e4 = 2 * (4 * e1 + 2 * e2 + e3) + e4 /\ 4 * e1 + 2 * e2 + e3 \in Nat
      BY ONLY <2>0
    <3> QED
      BY ONLY <2>0, <2>2, <2>3, <3>1
  <2>8. (byte \div 2 ^ (8 - 5)) % 2 = e5
    <3>1. /\ 16 * e1 + 8 * e2 + 4 * e3 + 2 * e4 + e5 = 2 * (8 * e1 + 4 * e2 + 2 * e3 + e4) + e5
          /\ 8 * e1 + 4 * e2 + 2 * e3 + e4 \in Nat
      BY ONLY <2>0
    <3> QED
      BY ONLY <2>0, <2>2, <2>3, <3>1
  <2>9. (byte \div 2 ^ (8 - 6)) % 2 = e6
    <3>1. /\ 32 * e1 + 16 * e2 + 8 * e3 + 4 * e4 + 2 * e5 + e6 = 2 * (16 * e1 + 8 * e2 + 4 * e3 + 2 * e4 + e5) + e6
          /\ 16 * e1 + 8 * e2 + 4 * e3 + 2 * e4 + e5 \in Nat
      BY ONLY <2>0
    <3> QED
      BY ONLY <2>0, <2>2, <2>3, <3>1
  <2>10. (byte \div 2 ^ (8 - 7)) % 2 = e7
    <3>1. /\ 64 * e1 + 32 * e2 + 16 * e3 + 8 * e4 + 4 * e5 + 2 * e6 + e7
                = 2 * (32 * e1 + 16 * e2 + 8 * e3 + 4 * e4 + 2 * e5 + e6) + e7
          /\ 32 * e1 + 16 * e2 + 8 * e3 + 4 * e4 + 2 * e5 + e6 \in Nat
      BY ONLY <2>0
    <3> QED
      BY ONLY <2>0, <2>2, <2>3, <3>1
  <2>11. (byte \div 2 ^ (8 - 8)) % 2 = e8
    <3>1. /\ byte = 2 * (64 * e1 + 32 * e2 + 16 * e3 + 8 * e4 + 4 * e5 + 2 * e6 + e7) + e8
          /\ 64 * e1 + 32 * e2 + 16 * e3 + 8 * e4 + 4 * e5 + 2 * e6 + e7 \in Nat
      BY ONLY <2>0, <2>1
    <3> QED
      BY ONLY <2>0, <2>2, <2>3, <3>1
  <2>12. ASSUME NEW j \in 1 .. 8
         PROVE  j = 1 \/ j = 2 \/ j = 3 \/ j = 4 \/ j = 5 \/ j = 6 \/ j = 7 \/ j = 8
    OBVIOUS
  <2>13. /\ (byte \div 2 ^ (8 - 1)) % 2 = e(1) /\ (byte \div 2 ^ (8 - 2)) % 2 = e(2)
         /\ (byte \div 2 ^ (8 - 3)) % 2 = e(3) /\ (byte \div 2 ^ (8 - 4)) % 2 = e(4)
         /\ (byte \div 2 ^ (8 - 5)) % 2 = e(5) /\ (byte \div 2 ^ (8 - 6)) % 2 = e(6)
         /\ (byte \div 2 ^ (8 - 7)) % 2 = e(7) /\ (byte \div 2 ^ (8 - 8)) % 2 = e(8)
    <3> HIDE DEF e
    <3> QED
      BY <2>4, <2>5, <2>6, <2>7, <2>8, <2>9, <2>10, <2>11, Zenon DEF e1, e2, e3, e4, e5, e6, e7, e8
  <2> HIDE DEF e
  <2> QED
    BY ONLY <2>12, <2>13, Zenon
<1>4. byte \in Byte
  <2> HIDE DEF e, byte
  <2>1. /\ e(1) \in 0 .. 1 /\ e(2) \in 0 .. 1 /\ e(3) \in 0 .. 1 /\ e(4) \in 0 .. 1 /\ e(5) \in 0 .. 1
        /\ e(6) \in 0 .. 1 /\ e(7) \in 0 .. 1 /\ e(8) \in 0 .. 1
    BY <1>1
  <2> QED
    BY ONLY <1>2, <2>1 DEF Byte
<1> HIDE DEF byte
<1>5. \A j \in 1 .. 8 : (byte \div 2 ^ (8 - j)) % 2 = 1 <=> FlagNames[j] \in flags
  <2>1. ASSUME NEW j \in 1 .. 8
        PROVE  (byte \div 2 ^ (8 - j)) % 2 = 1 <=> FlagNames[j] \in flags
    <3> DEFINE v == (byte \div 2 ^ (8 - j)) % 2
    <3>1. v = Bit(FlagNames[j] \in flags)
      BY <1>3
    <3> HIDE DEF v
    <3>2. v = IF FlagNames[j] \in flags THEN 1 ELSE 0
      BY <3>1, Zenon DEF Bit
    <3>3. v = 1 <=> FlagNames[j] \in flags
      BY ONLY <3>2
    <3> QED
      BY <3>3 DEF v
  <2> QED
    BY <2>1
<1>6. FlagsOf(byte) = {FlagNames[i] : i \in {j \in 1 .. 8 : FlagNames[j] \in flags}}
  <2>1. FlagsOf(byte) = {FlagNames[i] : i \in {j \in 1 .. 8 : (byte \div 2 ^ (8 - j)) % 2 = 1}}
    BY FlagNamesAre, Zenon DEF FlagsOf
  <2>2. {j \in 1 .. 8 : (byte \div 2 ^ (8 - j)) % 2 = 1} = {j \in 1 .. 8 : FlagNames[j] \in flags}
    BY ONLY <1>5, Zenon
  <2> QED
    BY ONLY <2>1, <2>2
<1>7. FlagsOf(byte) = flags
  <2>1. ASSUME NEW x \in flags PROVE x \in FlagsOf(byte)
    <3>1. PICK i \in 1 .. 8 : x = FlagNames[i]
      BY FlagNamesAre
    <3> QED
      BY ONLY <1>6, <2>1, <3>1
  <2>2. ASSUME NEW x \in FlagsOf(byte) PROVE x \in flags
    BY ONLY <1>6, <2>2
  <2> QED
    BY <2>1, <2>2
<1> QED
  BY <1>4, <1>7 DEF byte

\* A field as the muxer writes it, with no flag whose bytes getBytes does not write.
WrittenFlags == {"discontinuity", "randomAccess", "esPriority", "pcr"}

IsWrittenField(f) ==
  /\ f \in TSAdaptationFields /\ f.flags \subseteq WrittenFlags
  /\ "pcr" \notin f.flags => f.pcr = NoPcrValue
  /\ IF f.adaptationFieldLength = 0 THEN f.flags = {} /\ f.numberOfStuffedBytes = 0
     ELSE f.adaptationFieldLength = 1 + (IF "pcr" \in f.flags THEN 6 ELSE 0) + f.numberOfStuffedBytes

LEMMA FieldFields ==
  ASSUME NEW f, IsWrittenField(f)
  PROVE  /\ f.adaptationFieldLength \in Byte /\ f.flags \in SUBSET Range(FlagNames)
         /\ f.numberOfStuffedBytes \in Nat
         /\ f.pcr.base \in [1 .. 4 -> Byte] /\ f.pcr.lastBit \in 0 .. 1 /\ f.pcr.ext \in 0 .. 511
<1>1. f \in TSAdaptationFields
  BY DEF IsWrittenField
<1>2. /\ f.adaptationFieldLength \in Byte /\ f.flags \in SUBSET Range(FlagNames)
      /\ f.numberOfStuffedBytes \in Nat /\ f.pcr \in Pcrs
  BY ONLY <1>1 DEF TSAdaptationFields
<1> DEFINE pcr == f.pcr
<1>3. pcr \in Pcrs
  BY <1>2
<1> HIDE DEF pcr
<1>4. pcr.base \in [1 .. 4 -> Byte] /\ pcr.lastBit \in 0 .. 1 /\ pcr.ext \in 0 .. 2 ^ 9 - 1
  BY ONLY <1>3 DEF Pcrs, Bits
<1>5. pcr.ext \in 0 .. 511
  <2>1. 2 ^ 9 - 1 = 511
    OBVIOUS
  <2>2. ASSUME NEW last, last = 511, pcr.ext \in 0 .. last PROVE pcr.ext \in 0 .. 511
    BY ONLY <2>2
  <2> QED
    BY ONLY <1>4, <2>1, <2>2
<1> QED
  BY <1>2, <1>4, <1>5 DEF pcr

LEMMA FieldIsRecord ==
  ASSUME NEW f, f \in TSAdaptationFields
  PROVE  f = [adaptationFieldLength |-> f.adaptationFieldLength, flags |-> f.flags,
              pcr |-> f.pcr, numberOfStuffedBytes |-> f.numberOfStuffedBytes]
BY DEF TSAdaptationFields

LEMMA SingleByte ==
  ASSUME NEW x \in Byte
  PROVE  <<x>> \in Seq(Byte) /\ Len(<<x>>) = 1 /\ <<x>>[1] = x
OBVIOUS

LEMMA PcrIsWritten ==
  ASSUME NEW pcr, pcr.base \in [1 .. 4 -> Byte], pcr.lastBit \in 0 .. 1, pcr.ext \in 0 .. 511
  PROVE  LET w == PcrBytesOf(pcr)
         IN  /\ w \in Seq(Byte) /\ Len(w) = 6
             /\ \A k \in 1 .. 4 : w[k] = pcr.base[k]
             /\ w[5] \div 128 = pcr.lastBit /\ (w[5] % 2) * 256 + w[6] = pcr.ext
<1> DEFINE base == pcr.base
           bit == pcr.lastBit
           ext == pcr.ext
           fifth == 128 * bit + 126 + ext \div 256
           sixth == ext % 256
           end == <<fifth, sixth>>
           w == base \o end
<1>1. PcrBytesOf(pcr) = w
  BY Zenon DEF PcrBytesOf
<1>2. base \in [1 .. 4 -> Byte] /\ bit \in 0 .. 1 /\ ext \in 0 .. 511
  OBVIOUS
<1> HIDE DEF base, bit, ext
<1>3. /\ fifth \in Byte /\ sixth \in Byte /\ fifth \div 128 = bit /\ (fifth % 2) * 256 + sixth = ext
  <2> DEFINE high == ext \div 256
  <2>1. high \in 0 .. 1 /\ sixth \in 0 .. 255 /\ high * 256 + sixth = ext
    BY ONLY <1>2
  <2> HIDE DEF high, sixth
  <2>2. fifth = 128 * bit + 126 + high
    BY DEF high
  <2> HIDE DEF fifth
  <2>3. fifth \in 0 .. 255 /\ fifth \div 128 = bit
    BY ONLY <1>2, <2>1, <2>2
  <2>4. fifth % 2 = high
    <3>1. fifth = 2 * (64 * bit + 63) + high /\ 64 * bit + 63 \in Nat
      BY ONLY <1>2, <2>1, <2>2
    <3>2. ASSUME NEW n \in Nat, NEW b \in 0 .. 1 PROVE (2 * n + b) % 2 = b
      OBVIOUS
    <3> QED
      BY ONLY <2>1, <3>1, <3>2
  <2> QED
    BY ONLY <2>1, <2>3, <2>4 DEF Byte
<1> HIDE DEF fifth, sixth
<1>4. base \in Seq(Byte) /\ Len(base) = 4
  <2>1. base = [i \in 1 .. 4 |-> base[i]] /\ \A i \in 1 .. 4 : base[i] \in Byte
    BY ONLY <1>2
  <2>2. 4 \in Nat
    OBVIOUS
  <2> QED
    BY ONLY <2>1, <2>2, FunctionIsSeq
<1>5. end \in Seq(Byte) /\ Len(end) = 2 /\ end[1] = fifth /\ end[2] = sixth
  BY ONLY <1>3
<1> HIDE DEF end
<1>6. /\ w \in Seq(Byte) /\ Len(w) = Len(base) + Len(end)
      /\ \A i \in 1 .. Len(base) : w[i] = base[i]
      /\ \A i \in 1 .. Len(end) : w[Len(base) + i] = end[i]
  <2>1. base \in Seq(Byte) /\ end \in Seq(Byte)
    BY <1>4, <1>5
  <2> QED
    BY ONLY <2>1, ConcatPlaces
<1> HIDE DEF w
<1>7. w \in Seq(Byte) /\ Len(w) = 6 /\ (\A i \in 1 .. 4 : w[i] = base[i]) /\ w[5] = fifth /\ w[6] = sixth
  <2>1. 4 + 1 = 5 /\ 4 + 2 = 6 /\ 1 \in 1 .. 2 /\ 2 \in 1 .. 2
    OBVIOUS
  <2> QED
    BY ONLY <1>4, <1>5, <1>6, <2>1
<1> QED
  BY ONLY <1>1, <1>3, <1>7 DEF base, bit, ext

FieldHasPcr(f) == "pcr" \in f.flags

\* What is written of a field.
LEMMA FieldIsWritten ==
  ASSUME NEW f, IsWrittenField(f)
  PROVE  LET w == AdaptationFieldBytes(f)
         IN  /\ w \in Seq(Byte) /\ Len(w) = 1 + f.adaptationFieldLength
             /\ w[1] = f.adaptationFieldLength
             /\ f.adaptationFieldLength > 0 => w[2] = FlagsByte(f.flags)
             /\ FieldHasPcr(f) => /\ f.adaptationFieldLength >= 7
                                  /\ \A k \in 1 .. 4 : w[2 + k] = f.pcr.base[k]
                                  /\ w[7] \div 128 = f.pcr.lastBit
                                  /\ (w[7] % 2) * 256 + w[8] = f.pcr.ext
<1> DEFINE length == f.adaptationFieldLength
           n      == f.numberOfStuffedBytes
           first  == <<length>>
           second == <<FlagsByte(f.flags)>>
           pcr    == IF FieldHasPcr(f) THEN PcrBytesOf(f.pcr) ELSE <<>>
           filler == [i \in 1 .. n |-> 255]
           w      == AdaptationFieldBytes(f)
           p      == PcrBytesOf(f.pcr)
<1>1. /\ length \in Byte /\ n \in Nat /\ FlagsByte(f.flags) \in Byte
      /\ FieldHasPcr(f) => length # 0
      /\ length # 0 => length = 1 + (IF FieldHasPcr(f) THEN 6 ELSE 0) + n
  <2>1. length \in Byte /\ n \in Nat /\ f.flags \in SUBSET Range(FlagNames)
    BY FieldFields
  <2>2. FlagsByte(f.flags) \in Byte
    BY <2>1, FlagsAreRead
  <2>3. IF length = 0 THEN f.flags = {} /\ n = 0
        ELSE length = 1 + (IF FieldHasPcr(f) THEN 6 ELSE 0) + n
    BY Zenon DEF IsWrittenField, FieldHasPcr
  <2>4. FieldHasPcr(f) => f.flags # {}
    BY DEF FieldHasPcr
  <2> QED
    BY ONLY <2>1, <2>2, <2>3, <2>4
<1>2. /\ p \in Seq(Byte) /\ Len(p) = 6
      /\ \A k \in 1 .. 4 : p[k] = f.pcr.base[k]
      /\ p[5] \div 128 = f.pcr.lastBit /\ (p[5] % 2) * 256 + p[6] = f.pcr.ext
  BY FieldFields, PcrIsWritten
<1> HIDE DEF p
<1>3. w = IF length = 0 THEN first \o <<>> ELSE first \o ((second \o pcr) \o filler)
  BY Zenon DEF AdaptationFieldBytes, FieldHasPcr
<1> HIDE DEF w
<1>4. first \in Seq(Byte) /\ Len(first) = 1 /\ first[1] = length
  BY <1>1, SingleByte
<1>5. second \in Seq(Byte) /\ Len(second) = 1 /\ second[1] = FlagsByte(f.flags)
  BY <1>1, SingleByte
<1>6. CASE length = 0
  <2>1. w = first \o <<>> /\ first \o <<>> = first
    BY <1>3, <1>4, <1>6, ConcatEmptySeq
  <2>2. ~FieldHasPcr(f) /\ ~(length > 0)
    BY <1>1, <1>6
  <2>3. w = first
    BY <2>1
  <2> HIDE DEF length, first
  <2>4. w \in Seq(Byte) /\ Len(w) = 1 + length /\ w[1] = length
    BY ONLY <1>4, <1>6, <2>3
  <2> QED
    BY <2>2, <2>4 DEF w, length
<1>7. CASE length # 0
  <2>1. pcr \in Seq(Byte) /\ Len(pcr) = IF FieldHasPcr(f) THEN 6 ELSE 0
    <3>1. CASE FieldHasPcr(f)
      BY <1>2, <3>1 DEF p
    <3>2. CASE ~FieldHasPcr(f)
      BY <3>2, EmptySeq
    <3> QED
      BY <3>1, <3>2
  <2>2. filler \in Seq(Byte) /\ Len(filler) = n
    <3>1. 255 \in Byte
      BY DEF Byte
    <3>2. filler \in [1 .. n -> Byte]
      BY <3>1
    <3> HIDE DEF filler
    <3>3. filler \in Seq(Byte) /\ DOMAIN filler = 1 .. n
      BY <1>1, <3>2
    <3>4. DOMAIN filler = 1 .. Len(filler) /\ Len(filler) \in Nat
      BY ONLY <3>3, LenProperties
    <3> QED
      BY ONLY <1>1, <3>3, <3>4
  <2>3. w = first \o ((second \o pcr) \o filler)
    BY <1>3, <1>7
  <2> HIDE DEF length, n, first, second, pcr, filler
  <2> DEFINE a == second \o pcr
             b == a \o filler
  <2>4. /\ a \in Seq(Byte) /\ Len(a) = Len(second) + Len(pcr)
        /\ \A i \in 1 .. Len(second) : a[i] = second[i]
        /\ \A i \in 1 .. Len(pcr) : a[Len(second) + i] = pcr[i]
    <3>1. second \in Seq(Byte) /\ pcr \in Seq(Byte)
      BY <1>5, <2>1
    <3> QED
      BY ONLY <3>1, ConcatPlaces
  <2> HIDE DEF a
  <2>5. /\ b \in Seq(Byte) /\ Len(b) = Len(a) + Len(filler)
        /\ \A i \in 1 .. Len(a) : b[i] = a[i]
    <3>1. a \in Seq(Byte) /\ filler \in Seq(Byte)
      BY <2>2, <2>4
    <3> QED
      BY ONLY <3>1, ConcatPlaces
  <2> HIDE DEF b
  <2>6. /\ w \in Seq(Byte) /\ Len(w) = Len(first) + Len(b)
        /\ \A i \in 1 .. Len(first) : w[i] = first[i]
        /\ \A i \in 1 .. Len(b) : w[Len(first) + i] = b[i]
    <3>1. first \in Seq(Byte) /\ b \in Seq(Byte) /\ w = first \o b
      BY <1>4, <2>3, <2>5 DEF b, a
    <3> QED
      BY ONLY <3>1, ConcatPlaces
  <2> DEFINE m == IF FieldHasPcr(f) THEN 6 ELSE 0
  <2>7. m \in Nat /\ Len(pcr) = m /\ Len(a) = 1 + m /\ Len(b) = 1 + m + n /\ Len(w) = 2 + m + n /\ n \in Nat
    <3>1. m \in Nat /\ Len(pcr) = m
      BY ONLY <2>1
    <3> HIDE DEF m
    <3>2. n \in Nat
      BY <1>1
    <3> QED
      BY ONLY <1>4, <1>5, <2>2, <2>4, <2>5, <2>6, <3>1, <3>2
  <2>8. length = 1 + m + n
    BY <1>1, <1>7 DEF length, n
  <2> HIDE DEF m
  <2>9. w[1] = length /\ w[2] = FlagsByte(f.flags)
    <3>1. w[1] = length
      BY ONLY <1>4, <2>6
    <3>2. w[1 + 1] = b[1]
      BY ONLY <1>4, <2>6, <2>7
    <3>3. b[1] = a[1]
      BY ONLY <2>5, <2>7
    <3>4. a[1] = FlagsByte(f.flags)
      BY ONLY <1>5, <2>4
    <3> QED
      BY ONLY <3>1, <3>2, <3>3, <3>4
  <2>10. ASSUME FieldHasPcr(f), NEW k \in 1 .. 6 PROVE w[2 + k] = p[k]
    <3>1. m = 6 /\ pcr = p
      BY <2>10 DEF m, pcr, p
    <3>2. 1 + k \in 1 .. Len(a) /\ 1 + k \in 1 .. Len(b) /\ k \in 1 .. Len(pcr) /\ 2 + k = 1 + (1 + k)
      BY ONLY <2>7, <2>10, <3>1
    <3>3. w[1 + (1 + k)] = b[1 + k]
      BY ONLY <1>4, <2>6, <3>2
    <3>4. b[1 + k] = a[1 + k]
      BY ONLY <2>5, <3>2
    <3>5. a[1 + k] = pcr[k]
      BY ONLY <1>5, <2>4, <3>2
    <3> QED
      BY ONLY <3>1, <3>2, <3>3, <3>4, <3>5
  <2>11. ASSUME FieldHasPcr(f)
         PROVE  /\ length >= 7
                /\ \A k \in 1 .. 4 : w[2 + k] = f.pcr.base[k]
                /\ w[7] \div 128 = f.pcr.lastBit
                /\ (w[7] % 2) * 256 + w[8] = f.pcr.ext
    <3>1. m = 6
      BY <2>11 DEF m
    <3>2. length >= 7
      BY ONLY <2>7, <2>8, <3>1
    <3>3. ASSUME NEW k \in 1 .. 4 PROVE w[2 + k] = f.pcr.base[k]
      <4>1. k \in 1 .. 6
        OBVIOUS
      <4> QED
        BY <1>2, <2>10, <2>11, <4>1
    <3>4. w[7] = p[5] /\ w[8] = p[6]
      <4>1. 5 \in 1 .. 6 /\ 6 \in 1 .. 6 /\ 2 + 5 = 7 /\ 2 + 6 = 8
        OBVIOUS
      <4> QED
        BY ONLY <2>10, <2>11, <4>1
    <3> QED
      BY <1>2, <3>2, <3>3, <3>4
  <2>12. w \in Seq(Byte)
    BY <2>6
  <2>13. Len(w) = 1 + length
    BY ONLY <2>7, <2>8
  <2> QED
    BY <2>9, <2>11, <2>12, <2>13 DEF w, length
<1> QED
  BY <1>6, <1>7

LEMMA Bits32On ==
  ASSUME NEW bytes \in Seq(Byte), NEW r, NEW i \in Nat, IsAt(r, bytes, i, 0), i + 4 < Len(bytes)
  PROVE  /\ IsAt(ReadBits32(r), bytes, i + 4, 0)
         /\ ReadBits32(r).data = [k \in 1 .. 4 |-> bytes[i + k]]
<1>1. r.bytes = bytes /\ r.byteOffset = i /\ r.bitOffset = 0 /\ r.error = FALSE
  BY DEF IsAt
<1>2. Length(r) = Len(bytes) /\ Len(bytes) \in Nat
  BY <1>1, LenProperties DEF Length
<1>3. ~(RemainingBits(r) < 32)
  <2>1. i * 8 + 0 + 32 <= Len(bytes) * 8 /\ 0 \in 0 .. 7 /\ 32 \in 1 .. 32
    BY <1>2
  <2> QED
    BY <1>1, <1>2, <2>1, RemainingOn
<1> DEFINE d == [k \in 1 .. 4 |-> BitsAt(MovedBits(r, 8 * (k - 1)), 8)]
           q == i + 4
           s == [r EXCEPT !.byteOffset = q, !.bitOffset = 0]
           t == [s EXCEPT !.data = d]
<1>4. ASSUME NEW k \in 1 .. 4 PROVE d[k] = bytes[i + k] /\ bytes[i + k] \in Byte
  <2> DEFINE moved == MovedBits(r, 8 * (k - 1))
             j == i + k - 1
  <2>1. j \in Nat /\ j + 1 < Len(bytes) /\ j + 1 = i + k /\ i + k \in 1 .. Len(bytes)
    BY <1>2
  <2>2. moved = [r EXCEPT !.byteOffset = j, !.bitOffset = 0]
    <3>1. (i * 8 + 0 + 8 * (k - 1)) \div 8 = j /\ (i * 8 + 0 + 8 * (k - 1)) % 8 = 0
      OBVIOUS
    <3> QED
      BY <1>1, <3>1 DEF MovedBits
  <2> HIDE DEF moved, j
  <2>3. PICK U : r \in ReadersOf(U)
    BY DEF IsAt
  <2>4. moved.bytes = bytes /\ moved.byteOffset = j /\ moved.bitOffset = 0 /\ moved \in ReadersOf(U) /\ moved.error = FALSE
    BY ONLY <1>1, <2>1, <2>2, <2>3 DEF ReadersOf
  <2>5. IsAt(moved, bytes, j, 0)
    <3>1. \E V : moved \in ReadersOf(V)
      BY <2>4
    <3> QED
      BY <2>4, <3>1, Zenon DEF IsAt
  <2>6. BitsAt(moved, 8) = BitsIn(bytes, j, 0, 8)
    BY <2>1, <2>5, BitsInAt
  <2>7. BitsIn(bytes, j, 0, 8) = bytes[j + 1]
    BY <2>1, BitsFromBytes
  <2>8. bytes[i + k] \in Byte
    BY ONLY <2>1, bytes \in Seq(Byte), ElementOfSeq
  <2> QED
    BY <2>1, <2>6, <2>7, <2>8 DEF moved
<1>5. d = [k \in 1 .. 4 |-> bytes[i + k]]
  <2>1. \A k \in 1 .. 4 : BitsAt(MovedBits(r, 8 * (k - 1)), 8) = bytes[i + k]
    BY <1>4
  <2> QED
    BY <2>1
<1>6. d \in Seq(Byte)
  <2>1. \A k \in 1 .. 4 : d[k] \in Byte
    BY <1>4
  <2>2. d = [k \in 1 .. 4 |-> d[k]] /\ 4 \in Nat
    OBVIOUS
  <2> HIDE DEF d
  <2> QED
    BY ONLY <2>1, <2>2, FunctionIsSeq
<1>7. ReadBits32(r) = t
  <2>1. ReadBits32(r) = [MovedBits(r, 32) EXCEPT !.data = d]
    BY ONLY <1>1, <1>3 DEF ReadBits32
  <2>2. MovedBits(r, 32) = s
    <3>1. (i * 8 + 0 + 32) \div 8 = i + 4 /\ (i * 8 + 0 + 32) % 8 = 0
      OBVIOUS
    <3> QED
      BY <1>1, <3>1 DEF MovedBits
  <2> HIDE DEF d, s
  <2> QED
    BY <2>1, <2>2
<1> HIDE DEF d
<1>8. PICK U : r \in ReadersOf(U)
  BY DEF IsAt

<1>12. q \in Nat /\ 0 \in 0 .. 7
  OBVIOUS
<1> HIDE DEF q
<1>9. /\ s \in ReadersOf(U) /\ s.bytes = bytes /\ s.byteOffset = q /\ s.bitOffset = 0 /\ s.error = FALSE
  BY ONLY <1>1, <1>8, <1>12 DEF ReadersOf
<1> HIDE DEF s
<1>10. /\ t \in ReadersOf(U) /\ t.bytes = bytes /\ t.byteOffset = q /\ t.bitOffset = 0 /\ t.error = FALSE
       /\ t.data = d
  BY ONLY <1>6, <1>9 DEF ReadersOf
<1> HIDE DEF t
<1>11. IsAt(t, bytes, q, 0)
  <2>1. \E V : t \in ReadersOf(V)
    BY <1>10
  <2> QED
    BY <1>10, <2>1, Zenon DEF IsAt
<1> QED
  BY ONLY <1>5, <1>7, <1>10, <1>11 DEF q

LEMMA PcrReads ==
  ASSUME NEW bytes \in Seq(Byte), 8 < Len(bytes), NEW r, IsAt(r, bytes, 2, 0)
  PROVE  /\ PcrRead(r) = [base |-> [k \in 1 .. 4 |-> bytes[2 + k]], lastBit |-> bytes[7] \div 128,
                          ext |-> (bytes[7] % 2) * 256 + bytes[8]]
         /\ IsAt(ReadPcr(r), bytes, 8, 0)
<1> DEFINE base == ReadBits32(r)
           bit  == ReadBits(base, 1)
           skip == SkipBits(bit, 6)
           ext  == ReadBits(skip, 9)
<1>1. /\ IsAt(base, bytes, 6, 0) /\ base.data = [k \in 1 .. 4 |-> bytes[2 + k]]
  <2>1. 2 + 4 = 6 /\ 2 \in Nat /\ 2 + 4 < Len(bytes)
    OBVIOUS
  <2>2. IsAt(base, bytes, 2 + 4, 0) /\ base.data = [k \in 1 .. 4 |-> bytes[2 + k]]
    BY <2>1, Bits32On
  <2> QED
    BY ONLY <2>1, <2>2
<1> HIDE DEF base
<1>2. 64 <= Len(bytes) * 8
  BY LenProperties
<1> DEFINE Follows(x, i, b, n, q, m) ==
             /\ IsAt(ReadBits(x, n), bytes, q, m)
             /\ ReadBits(x, n).value = BitsIn(bytes, i, b, n)
             /\ IsAt(SkipBits(x, n), bytes, q, m)
<1>11. ASSUME NEW x, NEW i \in Nat, NEW b \in 0 .. 7, IsAt(x, bytes, i, b), NEW n \in 1 .. 32,
             NEW q \in Nat, NEW m \in 0 .. 7, q * 8 + m = i * 8 + b + n, q * 8 + m <= 64
      PROVE  Follows(x, i, b, n, q, m)
  <2>1. q * 8 + m <= Len(bytes) * 8
    BY <1>2, <1>11, LenProperties
  <2>2. bytes \in Seq(Byte) /\ IsAt(x, bytes, i, b) /\ q * 8 + m = i * 8 + b + n
    BY <1>11
  <2>3. /\ IsAt(ReadBits(x, n), bytes, q, m)
        /\ ReadBits(x, n).value = BitsIn(bytes, i, b, n)
        /\ IsAt(SkipBits(x, n), bytes, q, m)
    BY <2>1, <2>2, ReadBitsOn
  <2> QED
    BY <2>3
<1> HIDE DEF Follows
<1>3. Follows(base, 6, 0, 1, 6, 1)
  <2>1. IsAt(base, bytes, 6, 0)
    BY <1>1
  <2>2. 6 * 8 + 1 = 6 * 8 + 0 + 1 /\ 6 * 8 + 1 <= 64 /\ 6 \in Nat /\ 0 \in 0 .. 7 /\ 1 \in 1 .. 32 /\ 1 \in 0 .. 7
    OBVIOUS
  <2> QED
    BY ONLY <1>11, <2>1, <2>2
<1>31. IsAt(bit, bytes, 6, 1) /\ bit.value = BitsIn(bytes, 6, 0, 1)
  BY ONLY <1>3 DEF Follows
<1> HIDE DEF bit
<1>4. Follows(bit, 6, 1, 6, 6, 7)
  <2>1. 6 * 8 + 7 = 6 * 8 + 1 + 6 /\ 6 * 8 + 7 <= 64 /\ 6 \in Nat /\ 1 \in 0 .. 7 /\ 6 \in 1 .. 32 /\ 7 \in 0 .. 7
    OBVIOUS
  <2> QED
    BY ONLY <1>11, <1>31, <2>1
<1>41. IsAt(skip, bytes, 6, 7)
  BY ONLY <1>4 DEF Follows
<1> HIDE DEF skip
<1>5. Follows(skip, 6, 7, 9, 8, 0)
  <2>1. 8 * 8 + 0 = 6 * 8 + 7 + 9 /\ 8 * 8 + 0 <= 64 /\ 6 \in Nat /\ 8 \in Nat /\ 7 \in 0 .. 7 /\ 9 \in 1 .. 32 /\ 0 \in 0 .. 7
    OBVIOUS
  <2> QED
    BY ONLY <1>11, <1>41, <2>1
<1>51. IsAt(ext, bytes, 8, 0) /\ ext.value = BitsIn(bytes, 6, 7, 9)
  BY ONLY <1>5 DEF Follows
<1> HIDE DEF ext
<1>6. BitsIn(bytes, 6, 0, 1) = bytes[7] \div 128 /\ BitsIn(bytes, 6, 7, 9) = (bytes[7] % 2) * 256 + bytes[8]
  <2>1. 6 \in Nat /\ 6 + 1 = 7 /\ 6 + 2 = 8 /\ 6 + 1 < Len(bytes)
    OBVIOUS
  <2> QED
    BY ONLY <2>1, bytes \in Seq(Byte), BitsFromBytes
<1>7. IsAt(ext, bytes, 8, 0) /\ bit.value = bytes[7] \div 128 /\ ext.value = (bytes[7] % 2) * 256 + bytes[8]
  BY ONLY <1>31, <1>51, <1>6
<1>8. PcrRead(r) = [base |-> base.data, lastBit |-> bit.value, ext |-> ext.value] /\ ReadPcr(r) = ext
  BY Zenon DEF PcrRead, ReadPcr, base, bit, skip, ext
<1> QED
  BY ONLY <1>1, <1>7, <1>8

\* A clock reference is read as it was written.
LEMMA PcrIsRead ==
  ASSUME NEW bytes \in Seq(Byte), 8 < Len(bytes), NEW r, IsAt(r, bytes, 2, 0),
         NEW pcr \in Pcrs,
         \A k \in 1 .. 4 : bytes[2 + k] = pcr.base[k],
         bytes[7] \div 128 = pcr.lastBit, (bytes[7] % 2) * 256 + bytes[8] = pcr.ext
  PROVE  PcrRead(r) = pcr /\ IsAt(ReadPcr(r), bytes, 8, 0)
<1> DEFINE base == [k \in 1 .. 4 |-> bytes[2 + k]]
<1>1. /\ PcrRead(r) = [base |-> base, lastBit |-> bytes[7] \div 128, ext |-> (bytes[7] % 2) * 256 + bytes[8]]
      /\ IsAt(ReadPcr(r), bytes, 8, 0)
  BY PcrReads
<1>2. base = pcr.base
  <2>1. pcr.base \in [1 .. 4 -> Byte]
    BY DEF Pcrs
  <2>2. pcr.base = [k \in 1 .. 4 |-> pcr.base[k]]
    BY ONLY <2>1
  <2> QED
    BY <2>2
<1> HIDE DEF base
<1>3. PcrRead(r) = [base |-> pcr.base, lastBit |-> pcr.lastBit, ext |-> pcr.ext]
  BY <1>1, <1>2
<1>4. pcr = [base |-> pcr.base, lastBit |-> pcr.lastBit, ext |-> pcr.ext]
  BY DEF Pcrs
<1> QED
  BY ONLY <1>1, <1>3, <1>4

\* Where the reader of a field is behind the options that the muxer writes, and what it makes of them.
LEMMA FieldOfOptions ==
  ASSUME NEW length, NEW byte, NEW flags, flags \subseteq WrittenFlags
  PROVE  LET last == IF "pcr" \in flags THEN ReadPcr(byte) ELSE byte
             left == length - (last.byteOffset - 1)
         IN  FieldOf(length, byte, flags) =
               IF last.error THEN <<>>
               ELSE <<[adaptationFieldLength |-> length, flags |-> flags,
                       pcr |-> IF "pcr" \in flags THEN PcrRead(byte) ELSE NoPcrValue,
                       numberOfStuffedBytes |-> IF left > 0 THEN left ELSE 0]>>
<1> DEFINE last == IF "pcr" \in flags THEN ReadPcr(byte) ELSE byte
<1>1. /\ "oPcr" \notin flags /\ "splicingPoint" \notin flags
      /\ "transportPrivateData" \notin flags /\ "adaptationFieldExtension" \notin flags
  BY DEF WrittenFlags
<1>2. BehindOptions(flags, last) = last
  BY <1>1, Zenon DEF BehindOptions, SkipBitsIf, SkipCountedIf
<1> QED
  BY <1>2, Zenon DEF FieldOf

\* A field is read as it was written.
LEMMA FieldIsRead ==
  ASSUME NEW f, IsWrittenField(f), f.adaptationFieldLength <= 183, NEW bytes, IsPacket(bytes),
         \A i \in 1 .. 1 + f.adaptationFieldLength : bytes[4 + i] = AdaptationFieldBytes(f)[i]
  PROVE  ReadAdaptationField(bytes) = <<f>>
<1> DEFINE rest   == SubSeq(bytes, 5, 188)
           made   == MakeWithBytes(rest, 184)
           length == ReadUInt8(made)
           n      == f.adaptationFieldLength
           w      == AdaptationFieldBytes(f)
           hasPcr == "pcr" \in f.flags
<1>1. rest \in Seq(Byte) /\ Len(rest) = 184 /\ \A i \in 1 .. 184 : rest[i] = bytes[4 + i]
  BY RestOfPacket
<1>2. ReadAdaptationField(bytes)
        = FieldOf(length.value, IF length.value > 0 THEN ReadBits(length, 8) ELSE length,
                  IF length.value > 0 THEN FlagsOf((IF length.value > 0 THEN ReadBits(length, 8) ELSE length).value)
                  ELSE {})
  <2>1. Len(bytes) = 188
    BY DEF IsPacket
  <2> QED
    BY <2>1 DEF ReadAdaptationField, TS_PACKET_HEADER_SIZE
<1>3. n \in 0 .. 183 /\ n \in Byte
  <2>1. n \in Byte
    BY FieldFields
  <2> QED
    BY <2>1 DEF Byte
<1>4. /\ w[1] = n
      /\ n > 0 => w[2] = FlagsByte(f.flags)
      /\ hasPcr => /\ n >= 7
                   /\ \A k \in 1 .. 4 : w[2 + k] = f.pcr.base[k]
                   /\ w[7] \div 128 = f.pcr.lastBit
                   /\ (w[7] % 2) * 256 + w[8] = f.pcr.ext
  BY FieldIsWritten DEF FieldHasPcr
<1>5. \A i \in 1 .. 1 + n : rest[i] = w[i]
  <2>1. ASSUME NEW i \in 1 .. 1 + n PROVE rest[i] = w[i]
    <3>1. i \in 1 .. 184
      BY <1>3
    <3>2. rest[i] = bytes[4 + i]
      BY <1>1, <3>1
    <3>3. bytes[4 + i] = w[i]
      OBVIOUS
    <3> QED
      BY ONLY <3>2, <3>3
  <2> QED
    BY <2>1
<1>6. f.flags \subseteq WrittenFlags /\ (~hasPcr => f.pcr = NoPcrValue) /\ f.numberOfStuffedBytes \in Nat
      /\ (n = 0 => f.flags = {} /\ f.numberOfStuffedBytes = 0)
      /\ (n > 0 => n = 1 + (IF hasPcr THEN 6 ELSE 0) + f.numberOfStuffedBytes)
  <2>1. /\ f.flags \subseteq WrittenFlags /\ (~hasPcr => f.pcr = NoPcrValue)
        /\ IF n = 0 THEN f.flags = {} /\ f.numberOfStuffedBytes = 0
           ELSE n = 1 + (IF hasPcr THEN 6 ELSE 0) + f.numberOfStuffedBytes
    BY Zenon DEF IsWrittenField
  <2>2. n = 0 <=> ~(n > 0)
    BY <1>3
  <2>3. f.numberOfStuffedBytes \in Nat
    BY FieldFields
  <2> QED
    BY ONLY <2>1, <2>2, <2>3
<1>7. f.pcr \in Pcrs /\ f.flags \in SUBSET Range(FlagNames)
  <2>1. f \in TSAdaptationFields
    BY DEF IsWrittenField
  <2> QED
    BY ONLY <2>1 DEF TSAdaptationFields
<1> DEFINE written == [adaptationFieldLength |-> n, flags |-> f.flags, pcr |-> f.pcr,
                       numberOfStuffedBytes |-> f.numberOfStuffedBytes]
<1>8. f = written
  BY FieldIsRecord DEF IsWrittenField
<1>9. 8 < Len(rest) /\ 16 <= Len(rest) * 8 /\ rest # <<>> /\ 1 + 1 < Len(rest)
  <2> HIDE DEF rest
  <2>1. rest \in Seq(Byte) /\ Len(rest) = 184
    BY <1>1
  <2>2. ASSUME NEW m, m = 184, Len(rest) = m PROVE 8 < Len(rest) /\ 16 <= Len(rest) * 8 /\ 1 + 1 < Len(rest)
    BY ONLY <2>2
  <2>3. rest # <<>>
    <3>1. Len(<<>>) = 0
      OBVIOUS
    <3>2. ASSUME NEW m, m = 184, Len(rest) = m PROVE Len(rest) # 0
      BY ONLY <3>2
    <3> QED
      BY ONLY <2>1, <3>1, <3>2
  <2> QED
    BY ONLY <2>1, <2>2, <2>3
<1> HIDE DEF rest
<1>10. IsAt(length, rest, 1, 0) /\ length.value = rest[1]
  <2>1. SubSeq(rest, 1, 184) = rest
    BY <1>1, SubSeqFull
  <2>2. made = ReaderOf(rest, FALSE)
    BY <1>9, <2>1 DEF MakeWithBytes
  <2>3. rest \in Seq(Byte) /\ Len(rest) \in Nat /\ 1 <= Len(rest)
    BY <1>1
  <2>4. IsAt(ReadUInt8(ReaderOf(rest, FALSE)), rest, 1, 0) /\ ReadUInt8(ReaderOf(rest, FALSE)).value = rest[1]
    BY ONLY <2>3, ByteReads
  <2> QED
    BY <2>2, <2>4
<1> HIDE DEF made, length, w, n, written
<1>11. length.value = n
  <2>1. 1 \in 1 .. 1 + n
    BY <1>3
  <2> QED
    BY <1>4, <1>5, <1>10, <2>1
<1>12. CASE n = 0
  <2>1. ReadAdaptationField(bytes) = FieldOf(0, length, {})
    BY ONLY <1>2, <1>11, <1>12
  <2>2. length.error = FALSE /\ length.byteOffset = 1
    BY <1>10 DEF IsAt
  <2>3. 0 - (length.byteOffset - 1) = 0 /\ 0 \in Nat
    BY ONLY <2>2
  <2>5. FieldOf(0, length, {}) =
           <<[adaptationFieldLength |-> 0, flags |-> {}, pcr |-> NoPcrValue, numberOfStuffedBytes |-> 0]>>
    <3> DEFINE flags == {}
               left  == 0 - (length.byteOffset - 1)
               n0    == IF left > 0 THEN left ELSE 0
    <3>1. /\ flags \subseteq WrittenFlags /\ "pcr" \notin flags
      OBVIOUS
    <3>2. n0 = 0
      BY ONLY <2>3
    <3>3. FieldOf(0, length, flags) =
            IF length.error THEN <<>>
            ELSE <<[adaptationFieldLength |-> 0, flags |-> flags, pcr |-> NoPcrValue,
                    numberOfStuffedBytes |-> n0]>>
      <4> HIDE DEF flags
      <4> QED
        BY ONLY <3>1, FieldOfOptions, Zenon
    <3> HIDE DEF n0
    <3> QED
      BY ONLY <2>2, <3>2, <3>3
  <2>6. f.flags = {} /\ f.numberOfStuffedBytes = 0 /\ f.pcr = NoPcrValue
    BY <1>6, <1>12
  <2>7. <<written>> = <<[adaptationFieldLength |-> 0, flags |-> {}, pcr |-> NoPcrValue, numberOfStuffedBytes |-> 0]>>
    BY ONLY <1>12, <2>6 DEF written
  <2> QED
    BY ONLY <1>8, <2>1, <2>5, <2>7
<1>13. CASE n > 0
  <2> DEFINE byte == ReadBits(length, 8)
  <2>1. IsAt(byte, rest, 2, 0) /\ byte.value = rest[2]
    <3>1. rest \in Seq(Byte) /\ IsAt(length, rest, 1, 0)
      BY <1>1, <1>10
    <3> DEFINE Follows(q) == /\ IsAt(ReadBits(length, 8), rest, q, 0)
                             /\ ReadBits(length, 8).value = BitsIn(rest, 1, 0, 8)
                             /\ IsAt(SkipBits(length, 8), rest, q, 0)
    <3>4. ASSUME NEW i \in Nat, NEW q \in Nat, NEW k \in 1 .. 32, NEW b \in 0 .. 7,
                 IsAt(length, rest, i, b), q * 8 + b = i * 8 + b + k, q * 8 + b <= Len(rest) * 8
          PROVE  /\ IsAt(ReadBits(length, k), rest, q, b)
                 /\ ReadBits(length, k).value = BitsIn(rest, i, b, k)
                 /\ IsAt(SkipBits(length, k), rest, q, b)
      BY ONLY <3>1, <3>4, ReadBitsOn
    <3>5. 2 * 8 + 0 = 1 * 8 + 0 + 8 /\ 2 * 8 + 0 <= Len(rest) * 8
      BY ONLY <1>9
    <3>2. Follows(2)
      BY ONLY <3>1, <3>4, <3>5
    <3>3. BitsIn(rest, 1, 0, 8) = rest[1 + 1]
      BY ONLY <1>9, <3>1, BitsFromBytes
    <3> QED
      BY ONLY <3>2, <3>3
  <2>2. byte.value = FlagsByte(f.flags)
    <3>1. 2 \in 1 .. 1 + n
      BY <1>3, <1>13
    <3> QED
      BY <1>4, <1>5, <1>13, <2>1, <3>1
  <2> HIDE DEF byte
  <2>3. ReadAdaptationField(bytes) = FieldOf(n, byte, f.flags)
    <3>1. FlagsOf(byte.value) = f.flags
      BY <1>7, <2>2, FlagsAreRead
    <3>2. ReadAdaptationField(bytes) = FieldOf(n, byte, FlagsOf(byte.value))
      BY ONLY <1>2, <1>11, <1>13 DEF byte
    <3> QED
      BY ONLY <3>1, <3>2
  <2> DEFINE last == IF hasPcr THEN ReadPcr(byte) ELSE byte
  <2>4. hasPcr => PcrRead(byte) = f.pcr /\ IsAt(ReadPcr(byte), rest, 8, 0)
    <3>1. SUFFICES ASSUME hasPcr PROVE PcrRead(byte) = f.pcr /\ IsAt(ReadPcr(byte), rest, 8, 0)
      OBVIOUS
    <3>2. n >= 7
      BY <1>4, <3>1
    <3>3. ASSUME NEW k \in 1 .. 8 PROVE rest[k] = w[k]
      <4>1. k \in 1 .. 1 + n
        BY <1>3, <3>2
      <4> QED
        BY <1>5, <4>1
    <3>4. \A k \in 1 .. 4 : rest[2 + k] = f.pcr.base[k]
      <4>1. ASSUME NEW k \in 1 .. 4 PROVE rest[2 + k] = f.pcr.base[k]
        <5>1. 2 + k \in 1 .. 8
          OBVIOUS
        <5>2. rest[2 + k] = w[2 + k]
          BY <3>3, <5>1
        <5> QED
          BY <1>4, <3>1, <5>2
      <4> QED
        BY <4>1
    <3>5. rest[7] = w[7] /\ rest[8] = w[8]
      BY <3>3
    <3>6. rest[7] \div 128 = f.pcr.lastBit /\ (rest[7] % 2) * 256 + rest[8] = f.pcr.ext
      BY <1>4, <3>1, <3>5
    <3>7. rest \in Seq(Byte)
      BY <1>1
    <3> QED
      BY ONLY <1>7, <1>9, <2>1, <3>4, <3>6, <3>7, PcrIsRead
  <2>5. last.error = FALSE /\ last.byteOffset = IF hasPcr THEN 8 ELSE 2
    <3>1. byte.error = FALSE /\ byte.byteOffset = 2
      BY <2>1 DEF IsAt
    <3>2. hasPcr => ReadPcr(byte).error = FALSE /\ ReadPcr(byte).byteOffset = 8
      BY <2>4 DEF IsAt
    <3> QED
      BY <3>1, <3>2
  <2>6. n - (last.byteOffset - 1) = f.numberOfStuffedBytes
    <3> HIDE DEF last
    <3> QED
      BY <1>3, <1>6, <1>13, <2>5
  <2>7. last = IF "pcr" \in f.flags THEN ReadPcr(byte) ELSE byte
    OBVIOUS
  <2> HIDE DEF last
  <2>9. f.pcr = IF "pcr" \in f.flags THEN PcrRead(byte) ELSE NoPcrValue
    BY <1>6, <2>4
  <2>11. last.error = FALSE /\ f.flags \subseteq WrittenFlags /\ f.numberOfStuffedBytes \in Nat
    BY <1>6, <2>5
  <2>8. FieldOf(n, byte, f.flags) =
           <<[adaptationFieldLength |-> n, flags |-> f.flags, pcr |-> f.pcr,
              numberOfStuffedBytes |-> f.numberOfStuffedBytes]>>
    <3> DEFINE left  == n - (last.byteOffset - 1)
               stuffed == IF left > 0 THEN left ELSE 0
               pcr == IF "pcr" \in f.flags THEN PcrRead(byte) ELSE NoPcrValue
    <3>1. stuffed = f.numberOfStuffedBytes
      BY ONLY <2>6, <2>11
    <3>2. FieldOf(n, byte, f.flags) =
            IF last.error THEN <<>>
            ELSE <<[adaptationFieldLength |-> n, flags |-> f.flags, pcr |-> pcr,
                    numberOfStuffedBytes |-> stuffed]>>
      BY ONLY <2>7, <2>11, FieldOfOptions, Zenon
    <3>3. pcr = f.pcr
      BY <2>9
    <3> HIDE DEF stuffed, pcr
    <3> QED
      BY ONLY <2>11, <3>1, <3>2, <3>3
  <2>10. FieldOf(n, byte, f.flags) = <<written>>
    BY ONLY <2>8 DEF written
  <2> QED
    BY ONLY <1>8, <2>3, <2>10
<1> QED
  BY <1>3, <1>12, <1>13

-----------------------------------------------------------------------------
(* A whole packet *)

\* The bytes behind those of s.
LEMMA BehindConcat ==
  ASSUME NEW S, NEW s \in Seq(S), NEW t \in Seq(S), NEW n, Len(s \o t) = n
  PROVE  SubSeq(s \o t, Len(s) + 1, n) = t
<1> DEFINE st == s \o t
           sub == SubSeq(st, Len(s) + 1, n)
           a == Len(s) + 1
<1>1. /\ st \in Seq(S) /\ Len(st) = Len(s) + Len(t)
      /\ \A i \in 1 .. Len(t) : st[Len(s) + i] = t[i]
  BY ONLY ConcatPlaces, s \in Seq(S), t \in Seq(S)
<1>2. Len(s) \in Nat /\ Len(t) \in Nat /\ n = Len(s) + Len(t)
  BY <1>1, LenProperties
<1>3. a \in Int /\ n \in Int /\ 1 <= a /\ n <= Len(st) /\ a <= n + 1 /\ n - a + 1 = Len(t)
  BY <1>1, <1>2
<1> HIDE DEF st, a
<1>4. /\ SubSeq(st, a, n) \in Seq(S) /\ Len(SubSeq(st, a, n)) = n - a + 1
      /\ \A i \in 1 .. n - a + 1 : SubSeq(st, a, n)[i] = st[a + i - 1]
  BY ONLY <1>1, <1>3, SubSeqPlaces
<1>5. sub \in Seq(S) /\ Len(sub) = Len(t) /\ \A i \in 1 .. n - a + 1 : sub[i] = st[a + i - 1]
  BY ONLY <1>3, <1>4 DEF a
<1> HIDE DEF sub
<1>6. ASSUME NEW i \in 1 .. Len(t) PROVE sub[i] = t[i]
  <2>1. i \in 1 .. n - a + 1 /\ a + i - 1 = Len(s) + i
    BY ONLY <1>2, <1>3, <1>6 DEF a
  <2> QED
    BY ONLY <1>1, <1>5, <1>6, <2>1
<1>7. sub = t
  BY ONLY <1>5, <1>6, t \in Seq(S), SeqEqual
<1> QED
  BY ONLY <1>7 DEF sub, st, a

\* A turn on a packet without a transport error, whose field leaves a byte for a payload.
IsFilled(bytes, h, field, n, payload) ==
  /\ ~h.transportErrorIndicator /\ h.adaptationMode \in 1 .. 3
  /\ field # <<>> => field[1].adaptationFieldLength \in Nat
  /\ n \in Nat
  /\ n = Bit(HasField(h)) + (IF field = <<>> THEN 0 ELSE field[1].adaptationFieldLength)
  /\ h.adaptationMode = TSAdaptationModeAdaptationOnly => n = 184
  /\ h.adaptationMode # TSAdaptationModeAdaptationOnly =>
        n < 184 /\ payload = SubSeq(bytes, 4 + n + 1, 188) /\ Len(payload) = 184 - n

LEMMA TurnReads ==
  ASSUME NEW bytes, NEW h, NEW field, NEW n, NEW payload, IsFilled(bytes, h, field, n, payload)
  PROVE  TurnWith(bytes, h, field)
           = [outcome |-> "read",
              packet |-> [header |-> h, adaptationField |-> field,
                          payload |-> IF h.adaptationMode = TSAdaptationModeAdaptationOnly THEN <<>>
                                      ELSE <<payload>>]]
<1> DEFINE length == IF field = <<>> THEN 0 ELSE field[1].adaptationFieldLength
           bit    == Bit(HasField(h))
           other  == Bit(h.adaptationMode # TSAdaptationModePayloadOnly)
           offset == TS_PACKET_HEADER_SIZE + bit + length
           only   == h.adaptationMode = TSAdaptationModeAdaptationOnly
           read   == IF only THEN <<>> ELSE <<SubSeq(bytes, offset + 1, TS_PACKET_SIZE_188)>>
           size   == TS_PACKET_HEADER_SIZE + other + length + (IF read = <<>> THEN 0 ELSE Len(read[1]))
           isSkipped == h.transportErrorIndicator \/ (read # <<>> /\ offset >= TS_PACKET_SIZE_188)
<1>1. TurnWith(bytes, h, field)
        = [outcome |-> IF isSkipped THEN "skipped" ELSE IF size # TS_PACKET_SIZE_188 THEN "nil" ELSE "read",
           packet  |-> [header |-> h, adaptationField |-> field, payload |-> read]]
  BY Zenon DEF TurnWith
<1>8. /\ ~h.transportErrorIndicator /\ h.adaptationMode \in 1 .. 3
      /\ field # <<>> => field[1].adaptationFieldLength \in Nat
      /\ n \in Nat /\ n = bit + length
      /\ only => n = 184
      /\ ~only => n < 184 /\ payload = SubSeq(bytes, 4 + n + 1, 188) /\ Len(payload) = 184 - n
  BY Zenon DEF IsFilled
<1>2. bit = other /\ bit \in 0 .. 1
  BY <1>8 DEF Bit, HasField, TSAdaptationModePayloadOnly, TSAdaptationModeAdaptationOnly,
         TSAdaptationModeAdaptationAndPayload
<1>3. n = bit + length /\ length \in Nat /\ n \in Nat
  BY <1>8
<1> HIDE DEF bit, other, length
<1>4. offset = 4 + n
  <2>1. offset = 4 + bit + length
    BY DEF TS_PACKET_HEADER_SIZE
  <2> QED
    BY <1>2, <1>3, <2>1
<1>5. read = IF only THEN <<>> ELSE <<payload>>
  BY <1>4, <1>8 DEF TS_PACKET_SIZE_188
<1>6. ~isSkipped /\ size = 188
  <2>4. TS_PACKET_HEADER_SIZE + other + length = 4 + n
    BY <1>2, <1>3 DEF TS_PACKET_HEADER_SIZE
  <2>1. size = 4 + n + (IF read = <<>> THEN 0 ELSE Len(read[1]))
    BY <2>4, Zenon
  <2> HIDE DEF size, offset, read
  <2>2. CASE only
    <3>1. read = <<>> /\ n = 184
      BY <1>5, <1>8, <2>2
    <3> QED
      BY <1>8, <2>1, <3>1
  <2>3. CASE ~only
    <3>1. read # <<>> /\ read[1] = payload /\ n < 184 /\ Len(payload) = 184 - n
      BY <1>5, <1>8, <2>3
    <3>2. size = 4 + n + (184 - n) /\ ~(offset >= 188)
      BY <1>3, <1>4, <2>1, <3>1
    <3> QED
      BY <1>3, <1>8, <3>2 DEF TS_PACKET_SIZE_188
  <2> QED
    BY <2>2, <2>3
<1> HIDE DEF isSkipped, size, read, only
<1>7. TurnWith(bytes, h, field) = [outcome |-> "read", packet |-> [header |-> h, adaptationField |-> field, payload |-> read]]
  BY <1>1, <1>6 DEF TS_PACKET_SIZE_188
<1> QED
  BY ONLY <1>5, <1>7 DEF only

\* A packet that is full, and whose parts are those that its header announces, is read as written.
AreParts(bytes, h, field, f, a, payload) ==
  /\ h \in TSPacketHeaders /\ ~h.transportErrorIndicator /\ h.adaptationMode \in 1 .. 3
  /\ a \in Seq(Byte) /\ payload \in Seq(Byte)
  /\ IF HasField(h) THEN field = <<f>> /\ IsWrittenField(f) /\ a = AdaptationFieldBytes(f)
     ELSE field = <<>> /\ a = <<>>
  /\ h.adaptationMode = TSAdaptationModeAdaptationOnly <=> payload = <<>>
  /\ bytes = (HeaderBytes(h) \o a) \o payload /\ Len(bytes) = 188

LEMMA PartsAreRead ==
  ASSUME NEW bytes, NEW h, NEW field, NEW f, NEW a, NEW payload,
         AreParts(bytes, h, field, f, a, payload)
  PROVE  PacketTurn(bytes)
           = [outcome |-> "read",
              packet |-> [header |-> h, adaptationField |-> field,
                          payload |-> IF h.adaptationMode = TSAdaptationModeAdaptationOnly THEN <<>>
                                      ELSE <<payload>>]]
<1>15. /\ h \in TSPacketHeaders /\ ~h.transportErrorIndicator /\ h.adaptationMode \in 1 .. 3
       /\ a \in Seq(Byte) /\ payload \in Seq(Byte)
       /\ IF HasField(h) THEN field = <<f>> /\ IsWrittenField(f) /\ a = AdaptationFieldBytes(f)
          ELSE field = <<>> /\ a = <<>>
       /\ h.adaptationMode = TSAdaptationModeAdaptationOnly <=> payload = <<>>
       /\ bytes = (HeaderBytes(h) \o a) \o payload /\ Len(bytes) = 188
  BY Zenon DEF AreParts
<1> DEFINE w == HeaderBytes(h)
           wa == w \o a
           n == Len(a)
<1>1. w \in Seq(Byte) /\ Len(w) = 4
  BY <1>15, HeaderIsWritten
<1>2. /\ wa \in Seq(Byte) /\ Len(wa) = Len(w) + Len(a)
      /\ \A i \in 1 .. Len(w) : wa[i] = w[i]
      /\ \A i \in 1 .. Len(a) : wa[Len(w) + i] = a[i]
  <2>1. w \in Seq(Byte) /\ a \in Seq(Byte)
    BY <1>1, <1>15
  <2> HIDE DEF w
  <2> QED
    BY ONLY <2>1, ConcatPlaces
<1>9. bytes = wa \o payload
  BY <1>15
<1> HIDE DEF wa
<1>3. /\ wa \o payload \in Seq(Byte) /\ Len(wa \o payload) = Len(wa) + Len(payload)
      /\ \A i \in 1 .. Len(wa) : (wa \o payload)[i] = wa[i]
  <2>1. wa \in Seq(Byte) /\ payload \in Seq(Byte)
    BY <1>2, <1>15
  <2> QED
    BY ONLY <2>1, ConcatPlaces
<1>4. IsPacket(bytes)
  BY <1>3, <1>9, <1>15 DEF IsPacket
<1>5. n \in Nat /\ Len(payload) \in Nat /\ Len(wa) = 4 + n /\ 4 + n + Len(payload) = 188
  <2>1. n \in Nat /\ Len(payload) \in Nat
    BY <1>15, LenProperties
  <2> HIDE DEF n, w
  <2>2. Len(wa) = 4 + n
    BY <1>1, <1>2 DEF n
  <2> QED
    BY <1>3, <1>9, <1>15, <2>1, <2>2
<1> HIDE DEF w
<1>6. ReadHeader(bytes) = h
  <2>1. ASSUME NEW i \in 1 .. 4 PROVE bytes[i] = HeaderBytes(h)[i]
    <3>1. i \in 1 .. Len(w) /\ i \in 1 .. Len(wa)
      BY <1>1, <1>5
    <3>2. bytes[i] = w[i]
      BY ONLY <1>2, <1>3, <1>9, <3>1
    <3> QED
      BY ONLY <3>2 DEF w
  <2> QED
    <3>1. h \in TSPacketHeaders
      BY <1>15
    <3> QED
      BY ONLY <1>4, <2>1, <3>1, HeaderIsRead
<1>7. ASSUME HasField(h)
      PROVE  /\ field = <<f>> /\ f.adaptationFieldLength \in Nat /\ n = 1 + f.adaptationFieldLength
             /\ ReadAdaptationField(bytes) = <<f>>
  <2>1. field = <<f>> /\ IsWrittenField(f) /\ a = AdaptationFieldBytes(f)
    BY <1>7, <1>15
  <2>2. n = 1 + f.adaptationFieldLength /\ f.adaptationFieldLength \in Nat
    <3>1. Len(AdaptationFieldBytes(f)) = 1 + f.adaptationFieldLength
      BY <2>1, FieldIsWritten
    <3>2. f.adaptationFieldLength \in Byte
      BY <2>1, FieldFields
    <3>4. ASSUME NEW x \in Byte PROVE x \in Nat
      BY DEF Byte
    <3>3. f.adaptationFieldLength \in Nat
      BY ONLY <3>2, <3>4
    <3> QED
      BY <2>1, <3>1, <3>3
  <2>3. f.adaptationFieldLength <= 183
    <3> HIDE DEF n
    <3> QED
      BY ONLY <1>5, <2>2
  <2>4. ASSUME NEW i \in 1 .. 1 + f.adaptationFieldLength PROVE bytes[4 + i] = AdaptationFieldBytes(f)[i]
    <3>1. i \in 1 .. Len(a)
      BY <2>2
    <3>2. 4 + i \in 1 .. Len(wa) /\ i \in Nat
      BY <1>5, <2>2
    <3>3. wa[Len(w) + i] = a[i] /\ Len(w) + i = 4 + i
      BY ONLY <1>1, <1>2, <3>1, <3>2
    <3>4. bytes[4 + i] = wa[4 + i]
      BY ONLY <1>3, <1>9, <3>2
    <3> QED
      BY ONLY <2>1, <3>3, <3>4
  <2>5. ReadAdaptationField(bytes) = <<f>>
    BY ONLY <1>4, <2>1, <2>3, <2>4, FieldIsRead
  <2> QED
    BY <2>1, <2>2, <2>5
<1>8. ASSUME ~HasField(h) PROVE field = <<>> /\ n = 0
  BY <1>8, <1>15
<1>10. PacketTurn(bytes) = TurnWith(bytes, h, field)
  <2>1. field = IF HasField(h) THEN ReadAdaptationField(bytes) ELSE <<>>
    BY <1>7, <1>8
  <2> QED
    BY <1>6, <2>1, Zenon DEF PacketTurn
<1> HIDE DEF n
<1>11. /\ n = Bit(HasField(h)) + (IF field = <<>> THEN 0 ELSE field[1].adaptationFieldLength)
       /\ field # <<>> => field[1].adaptationFieldLength \in Nat
  <2>1. CASE HasField(h)
    <3>3. field = <<f>>
      BY <1>7, <2>1
    <3>1. field # <<>> /\ field[1] = f
      BY ONLY <3>3
    <3>2. Bit(HasField(h)) = 1
      BY <2>1 DEF Bit
    <3> QED
      BY <1>7, <2>1, <3>1, <3>2
  <2>2. CASE ~HasField(h)
    BY <1>8, <2>2 DEF Bit
  <2> QED
    BY <2>1, <2>2
<1> DEFINE only == h.adaptationMode = TSAdaptationModeAdaptationOnly
<1>12. only => n = 184
  <2>1. only => payload = <<>>
    BY <1>15
  <2>2. Len(<<>>) = 0
    OBVIOUS
  <2> QED
    BY ONLY <1>5, <2>1, <2>2
<1>13. ~only => n < 184 /\ Len(payload) = 184 - n
  <2>1. ~only => Len(payload) # 0
    BY <1>15, EmptySeq
  <2> QED
    BY ONLY <1>5, <2>1
<1>14. payload = SubSeq(bytes, 4 + n + 1, 188)
  <2>1. wa \in Seq(Byte) /\ payload \in Seq(Byte)
    BY <1>2, <1>15
  <2>2. Len(wa \o payload) = 188
    BY <1>9, <1>15
  <2>3. SubSeq(wa \o payload, Len(wa) + 1, 188) = payload
    BY ONLY <2>1, <2>2, BehindConcat
  <2> QED
    BY ONLY <1>5, <1>9, <2>3
<1> QED
  <2>1. TurnWith(bytes, h, field)
          = [outcome |-> "read",
             packet |-> [header |-> h, adaptationField |-> field, payload |-> IF only THEN <<>> ELSE <<payload>>]]
    <3>1. ~h.transportErrorIndicator /\ h.adaptationMode \in 1 .. 3 /\ n \in Nat
      BY <1>5, <1>15
    <3>2. IsFilled(bytes, h, field, n, payload)
      BY ONLY <3>1, <1>11, <1>12, <1>13, <1>14, Zenon DEF IsFilled
    <3> QED
      BY ONLY <3>2, TurnReads
  <2> HIDE DEF only
  <2>2. PacketTurn(bytes)
          = [outcome |-> "read",
             packet |-> [header |-> h, adaptationField |-> field, payload |-> IF only THEN <<>> ELSE <<payload>>]]
    BY ONLY <1>10, <2>1
  <2> QED
    BY ONLY <2>2 DEF only

LEMMA FlattenNone == FlattenSeq(<<>>) = <<>>
BY DEF FlattenSeq

LEMMA FlattenOne ==
  ASSUME NEW S, NEW x \in Seq(S)
  PROVE  FlattenSeq(<<x>>) = x
<1>1. <<>> \in Seq(Seq(S)) /\ Append(<<>>, x) = <<x>>
  OBVIOUS
<1>2. FlattenSeq(Append(<<>>, x)) = FlattenSeq(<<>>) \o x
  BY ONLY <1>1, x \in Seq(S), FlattenAppend
<1>3. <<>> \o x = x
  BY ONLY x \in Seq(S), ConcatEmptySeq
<1> QED
  BY <1>1, <1>2, <1>3, FlattenNone

\* A turn on the bytes of a packet reads that packet.
IsReadBack(packet) == PacketTurn(BytesOfPacket(packet)) = [outcome |-> "read", packet |-> packet]

IsWritten(packet, h, field, f, payload) ==
  /\ h \in TSPacketHeaders /\ ~h.transportErrorIndicator /\ h.adaptationMode \in 1 .. 3
  /\ IF HasField(h) THEN field = <<f>> /\ IsWrittenField(f) ELSE field = <<>>
  /\ payload \in Seq(Byte)
  /\ h.adaptationMode = TSAdaptationModeAdaptationOnly <=> payload = <<>>
  /\ packet = [header |-> h, adaptationField |-> field,
               payload |-> IF h.adaptationMode = TSAdaptationModeAdaptationOnly THEN <<>>
                           ELSE <<payload>>]
  /\ 4 + (IF HasField(h) THEN 1 + f.adaptationFieldLength ELSE 0) + Len(payload) = 188

LEMMA WrittenIsRead ==
  ASSUME NEW packet, NEW h, NEW field, NEW f, NEW payload, IsWritten(packet, h, field, f, payload)
  PROVE  IsReadBack(packet)
<1>15. /\ h \in TSPacketHeaders /\ ~h.transportErrorIndicator /\ h.adaptationMode \in 1 .. 3
       /\ IF HasField(h) THEN field = <<f>> /\ IsWrittenField(f) ELSE field = <<>>
       /\ payload \in Seq(Byte)
       /\ h.adaptationMode = TSAdaptationModeAdaptationOnly <=> payload = <<>>
       /\ packet = [header |-> h, adaptationField |-> field,
                    payload |-> IF h.adaptationMode = TSAdaptationModeAdaptationOnly THEN <<>>
                                ELSE <<payload>>]
       /\ 4 + (IF HasField(h) THEN 1 + f.adaptationFieldLength ELSE 0) + Len(payload) = 188
  BY Zenon DEF IsWritten
<1> DEFINE w == HeaderBytes(h)
           a == IF HasField(h) THEN AdaptationFieldBytes(f) ELSE <<>>
           only == h.adaptationMode = TSAdaptationModeAdaptationOnly
           bytes == (w \o a) \o payload
           writes == [i \in DOMAIN field |-> AdaptationFieldBytes(field[i])]
           parts == IF only THEN <<>> ELSE <<payload>>
<1>1. w \in Seq(Byte) /\ Len(w) = 4
  BY <1>15, HeaderIsWritten
<1>2. a \in Seq(Byte) /\ Len(a) \in Nat /\ Len(a) = IF HasField(h) THEN 1 + f.adaptationFieldLength ELSE 0
  <2>1. CASE HasField(h)
    <3>1. AdaptationFieldBytes(f) \in Seq(Byte) /\ Len(AdaptationFieldBytes(f)) = 1 + f.adaptationFieldLength
      BY <1>15, <2>1, FieldIsWritten
    <3>2. Len(AdaptationFieldBytes(f)) \in Nat
      BY ONLY <3>1, LenProperties
    <3> QED
      BY <2>1, <3>1, <3>2
  <2>2. CASE ~HasField(h)
    <3>1. <<>> \in Seq(Byte) /\ Len(<<>>) = 0
      OBVIOUS
    <3> QED
      BY <2>2, <3>1
  <2> QED
    BY <2>1, <2>2
<1>3. FlattenSeq(writes) = a
  <2>1. CASE HasField(h)
    <3>1. field = <<f>>
      BY <1>15, <2>1
    <3>2. DOMAIN field = 1 .. 1 /\ field[1] = f
      BY ONLY <3>1
    <3> DEFINE one == AdaptationFieldBytes(f)
    <3>3. writes = <<one>>
      <4>1. writes = [i \in 1 .. 1 |-> one]
        BY ONLY <3>2
      <4> HIDE DEF one, writes
      <4> QED
        BY ONLY <4>1
    <3>4. one \in Seq(Byte) /\ a = one
      BY <1>2, <2>1
    <3> HIDE DEF one, a, writes
    <3> QED
      BY ONLY <3>3, <3>4, FlattenOne
  <2>2. CASE ~HasField(h)
    <3>1. field = <<>>
      BY <1>15, <2>2
    <3>2. writes = <<>>
      BY ONLY <3>1
    <3> QED
      BY <2>2, <3>2, FlattenNone
  <2> QED
    BY <2>1, <2>2
<1>4. FlattenSeq(parts) = payload
  <2>1. CASE only
    <3>1. payload = <<>>
      BY <1>15, <2>1
    <3> QED
      BY <2>1, <3>1, FlattenNone
  <2>2. CASE ~only
    <3>1. payload \in Seq(Byte)
      BY <1>15
    <3>2. FlattenSeq(<<payload>>) = payload
      BY ONLY <3>1, FlattenOne
    <3> QED
      BY <2>2, <3>2
  <2> QED
    BY <2>1, <2>2
<1>5. packet.header = h /\ packet.adaptationField = field /\ packet.payload = parts
  <2>1. packet = [header |-> h, adaptationField |-> field, payload |-> parts]
    BY <1>15, Zenon
  <2> HIDE DEF parts
  <2> QED
    BY ONLY <2>1
<1>6. BytesOfPacket(packet) = (w \o FlattenSeq(writes)) \o FlattenSeq(parts)
  BY ONLY <1>5, Zenon DEF BytesOfPacket, writes
<1>7. BytesOfPacket(packet) = bytes
  BY ONLY <1>3, <1>4, <1>6
<1>8. Len(bytes) = 188
  <2> DEFINE wa == w \o a
  <2>1. w \in Seq(Byte) /\ a \in Seq(Byte) /\ payload \in Seq(Byte)
    BY <1>1, <1>2, <1>15
  <2> HIDE DEF w, a
  <2>2. wa \in Seq(Byte) /\ Len(wa) = Len(w) + Len(a)
    BY ONLY <2>1, ConcatPlaces
  <2> HIDE DEF wa
  <2>3. wa \in Seq(Byte) /\ payload \in Seq(Byte)
    BY <2>1, <2>2
  <2>4. Len(wa \o payload) = Len(wa) + Len(payload)
    BY ONLY <2>3, ConcatPlaces
  <2>5. Len(wa \o payload) = 4 + Len(a) + Len(payload)
    BY ONLY <1>1, <2>2, <2>4
  <2>6. 4 + Len(a) + Len(payload) = 188
    <3>1. 4 + (IF HasField(h) THEN 1 + f.adaptationFieldLength ELSE 0) + Len(payload) = 188
      BY <1>15
    <3> QED
      BY ONLY <1>2, <3>1
  <2> QED
    BY <2>5, <2>6 DEF wa
<1>9. IF HasField(h) THEN field = <<f>> /\ IsWrittenField(f) /\ a = AdaptationFieldBytes(f)
      ELSE field = <<>> /\ a = <<>>
  BY <1>15
<1> HIDE DEF w, a, writes
<1>10. PacketTurn(bytes)
         = [outcome |-> "read", packet |-> [header |-> h, adaptationField |-> field, payload |-> parts]]
  <2>1. a \in Seq(Byte)
    BY <1>2
  <2> HIDE DEF bytes
  <2>2. bytes = (HeaderBytes(h) \o a) \o payload
    BY DEF bytes, w
  <2>3. AreParts(bytes, h, field, f, a, payload)
    BY <1>8, <1>9, <1>15, <2>1, <2>2, Zenon DEF AreParts
  <2> QED
    BY ONLY <2>3, PartsAreRead
<1> HIDE DEF bytes
<1>11. packet = [header |-> h, adaptationField |-> field, payload |-> parts]
  BY <1>15, Zenon
<1> HIDE DEF parts
<1>12. PacketTurn(BytesOfPacket(packet)) = [outcome |-> "read", packet |-> packet]
  BY ONLY <1>7, <1>10, <1>11
<1> QED
  BY ONLY <1>12, Zenon DEF IsReadBack

-----------------------------------------------------------------------------
(* The packets of the muxer *)

\* A packet cut from a payload of so many bytes.
IsCutField(f) ==
  /\ f.length \in 0 .. 183 /\ f.stuffed \in Nat
  /\ f.disc \in BOOLEAN /\ f.rai \in BOOLEAN /\ f.pcr \in BOOLEAN
  /\ IF f.length = 0 THEN ~f.disc /\ ~f.rai /\ ~f.pcr /\ f.stuffed = 0
     ELSE f.length = 1 + PcrBytes(f.pcr) + f.stuffed

IsCut(p, size) ==
  /\ p.cc \in 0 .. 15 /\ p.pusi \in BOOLEAN /\ p.payload \in BOOLEAN
  /\ p.field # <<>> => p.field = <<p.field[1]>> /\ IsCutField(p.field[1])
  /\ p.from \in Nat /\ p.bytes \in Nat /\ p.from + p.bytes <= size
  /\ IF p.payload THEN p.bytes > 0 ELSE p.bytes = 0 /\ p.field # <<>>
  /\ 4 + (IF p.field = <<>> THEN 0 ELSE 1 + p.field[1].length) + p.bytes = 188

\* The field of a packet for the rest of a payload.
LEMMA FieldIsCut ==
  ASSUME NEW hasPcr \in BOOLEAN, NEW disc \in BOOLEAN, NEW rai \in BOOLEAN, NEW remaining \in Nat,
         hasPcr \/ disc \/ rai \/ remaining < 184
  PROVE  LET f == AdaptationField(hasPcr, disc, rai, remaining)
         IN  /\ IsCutField(f)
             /\ FieldBytes(<<f>>) = 1 + f.length
             /\ f.length + 1 + Smaller(PacketSpace - FieldBytes(<<f>>), remaining) = 184
             /\ remaining > 0 => Smaller(PacketSpace - FieldBytes(<<f>>), remaining) > 0
             /\ Smaller(PacketSpace - FieldBytes(<<f>>), remaining) \in 0 .. remaining
             /\ hasPcr /\ remaining = 0 => f.length = 183
<1> DEFINE f == AdaptationField(hasPcr, disc, rai, remaining)
           k == PcrBytes(hasPcr)
           space == 182 - k
           put == Smaller(space, remaining)
           stuffed == space - put
           single == ~(hasPcr \/ disc \/ rai) /\ remaining = 183
           length == IF single THEN 0 ELSE 1 + k + stuffed
           stuffs == IF single THEN 0 ELSE stuffed
<1>1. f = [length |-> length, disc |-> disc, rai |-> rai, pcr |-> hasPcr, stuffed |-> stuffs]
  <2>1. PacketSpace - 2 = 182
    BY DEF PacketSpace, TS_PACKET_SIZE_188, TS_PACKET_HEADER_SIZE
  <2> QED
    BY ONLY <2>1, Zenon DEF AdaptationField
<1>2. k \in {0, 6} /\ (hasPcr <=> k = 6)
  BY DEF PcrBytes
<1> HIDE DEF k
<1>3. put \in 0 .. 182 /\ put <= remaining /\ (remaining > 0 => put > 0) /\ stuffed \in Nat
      /\ (put = remaining \/ stuffed = 0) /\ k + put + stuffed = 182 /\ (remaining = 0 => put = 0)
  BY <1>2 DEF Smaller
<1> HIDE DEF put
<1>4. length \in 0 .. 183 /\ stuffs \in Nat
  BY <1>2, <1>3
<1>5. length = 0 <=> single
  BY <1>2, <1>3
<1>6. ~single => length = 1 + k + stuffs
  OBVIOUS
<1>7. single => stuffs = 0
  OBVIOUS
<1>10. single => ~hasPcr /\ ~disc /\ ~rai /\ remaining = 183
  OBVIOUS
<1>11. length = IF single THEN 0 ELSE 183 - put
  BY <1>2, <1>3
<1> HIDE DEF length, stuffs, stuffed, f, single
<1>8. /\ f.length = length /\ f.stuffed = stuffs /\ f.pcr = hasPcr /\ f.disc = disc /\ f.rai = rai
  BY ONLY <1>1
<1>9. IsCutField(f)
  <2>1. k = PcrBytes(f.pcr)
    BY <1>8, Zenon DEF k
  <2> QED
    BY <1>4, <1>5, <1>6, <1>7, <1>8, <1>10, <2>1 DEF IsCutField
<1>12. FieldBytes(<<f>>) = 1 + length
  <2>1. <<f>> # <<>> /\ <<f>>[1] = f
    OBVIOUS
  <2>2. FieldBytes(<<f>>) = IF length = 0 THEN 1 ELSE 2 + k + stuffs
    BY ONLY <1>8, <2>1, Zenon DEF FieldBytes, k
  <2> QED
    BY <1>2, <1>4, <1>5, <1>6, <2>2
<1> DEFINE left == PacketSpace - FieldBytes(<<f>>)
<1>13. left = 183 - length
  BY <1>4, <1>12 DEF PacketSpace, TS_PACKET_SIZE_188, TS_PACKET_HEADER_SIZE
<1> HIDE DEF left
<1>14. Smaller(left, remaining) = 183 - length /\ (remaining > 0 => Smaller(left, remaining) > 0)
       /\ Smaller(left, remaining) \in 0 .. remaining
  BY <1>3, <1>10, <1>11, <1>13 DEF Smaller
<1>15. hasPcr /\ remaining = 0 => length = 183
  BY <1>3, <1>10, <1>11
<1>16. length + 1 + Smaller(left, remaining) = 184
  BY <1>4, <1>14
<1> QED
  BY <1>8, <1>9, <1>12, <1>14, <1>15, <1>16 DEF f, left

LEMMA PacketIsCut ==
  ASSUME NEW length \in Nat, NEW remaining \in 1 .. length, NEW isFirst \in BOOLEAN, NEW flags,
         flags.pcr \in BOOLEAN, flags.disc \in BOOLEAN, flags.rai \in BOOLEAN, NEW cc \in 0 .. 15
  PROVE  IsCut(PacketOf(length, remaining, isFirst, flags, cc), length)
<1> DEFINE p == PacketOf(length, remaining, isFirst, flags, cc)
           hasPcr == flags.pcr /\ isFirst
           disc == flags.disc /\ isFirst
           rai  == flags.rai /\ isFirst
           hasField == hasPcr \/ disc \/ rai \/ remaining < PacketSpace
           f == AdaptationField(hasPcr, disc, rai, remaining)
           field == IF hasField THEN <<f>> ELSE <<>>
           put == Smaller(PacketSpace - FieldBytes(field), remaining)
           from == length - remaining
<1>1. p = [cc |-> cc, pusi |-> isFirst, payload |-> TRUE, field |-> field, from |-> from, bytes |-> put]
  BY Zenon DEF PacketOf
<1>2. hasPcr \in BOOLEAN /\ disc \in BOOLEAN /\ rai \in BOOLEAN
  OBVIOUS
<1>3. PacketSpace = 184
  BY DEF PacketSpace, TS_PACKET_SIZE_188, TS_PACKET_HEADER_SIZE
<1> HIDE DEF hasPcr, disc, rai
<1>4. /\ field # <<>> => field = <<field[1]>> /\ IsCutField(field[1])
      /\ (IF field = <<>> THEN 0 ELSE 1 + field[1].length) + put = 184
      /\ (IF field = <<>> THEN 0 ELSE 1 + field[1].length) \in Nat
      /\ put > 0 /\ put \in Nat /\ put <= remaining
  <2>1. CASE hasField
    <3>1. field = <<f>> /\ field # <<>> /\ field[1] = f
      BY <2>1
    <3>2. hasPcr \/ disc \/ rai \/ remaining < 184
      BY <1>3, <2>1
    <3>3. remaining \in Nat /\ remaining > 0
      OBVIOUS
    <3> HIDE DEF field
    <3> DEFINE n == Smaller(PacketSpace - FieldBytes(<<f>>), remaining)
    <3>4. IsCutField(f) /\ f.length + 1 + n = 184 /\ n > 0
      BY ONLY <1>2, <3>2, <3>3, FieldIsCut
    <3>5. put = n
      BY <3>1
    <3> HIDE DEF n, put, f
    <3>6. f.length \in 0 .. 183
      BY ONLY <3>4, Zenon DEF IsCutField
    <3>7. ASSUME NEW k \in 0 .. 183, NEW m \in 0 .. remaining, m > 0, k + 1 + m = 184
          PROVE  m \in Nat /\ 1 + k + m = 184 /\ m <= remaining
      BY <3>7
    <3>8. n \in 0 .. remaining
      BY ONLY <1>2, <3>2, <3>3, FieldIsCut DEF n, f
    <3> QED
      BY ONLY <3>1, <3>4, <3>5, <3>6, <3>7, <3>8
  <2>2. CASE ~hasField
    <3>1. field = <<>> /\ remaining >= 184
      BY <1>3, <2>2
    <3>2. put = 184
      BY <1>3, <3>1 DEF FieldBytes, Smaller
    <3> QED
      BY ONLY <3>1, <3>2, remaining \in 1 .. length
  <2> QED
    BY <2>1, <2>2
<1>6. from \in Nat /\ from + put <= length
  BY <1>4
<1> HIDE DEF field, put, from, p
<1>7. /\ p.cc = cc /\ p.pusi = isFirst /\ p.payload = TRUE /\ p.field = field /\ p.from = from /\ p.bytes = put
  BY ONLY <1>1
<1>8. 4 + (IF field = <<>> THEN 0 ELSE 1 + field[1].length) + put = 188
  <2> DEFINE s == IF field = <<>> THEN 0 ELSE 1 + field[1].length
  <2>1. s \in Nat /\ put \in Nat /\ s + put = 184
    BY ONLY <1>4
  <2> HIDE DEF s
  <2>2. 4 + s + put = 188
    BY ONLY <2>1
  <2> QED
    BY <2>2 DEF s
<1> QED
  BY <1>4, <1>6, <1>7, <1>8, Zenon DEF IsCut, p

LEMMA PcrPacketIsCut ==
  ASSUME NEW cc \in 0 .. 15, NEW size \in Nat
  PROVE  IsCut(PcrPacketOf(cc), size)
<1> DEFINE f == AdaptationField(TRUE, FALSE, FALSE, 0)
           p == PcrPacketOf(cc)
<1>1. IsCutField(f) /\ f.length = 183
  <2>1. f = [length |-> 183, disc |-> FALSE, rai |-> FALSE, pcr |-> TRUE, stuffed |-> 176]
    BY DEF AdaptationField, PcrBytes, Smaller, PacketSpace, TS_PACKET_SIZE_188, TS_PACKET_HEADER_SIZE
  <2> HIDE DEF f
  <2>2. f.length = 183 /\ f.disc = FALSE /\ f.rai = FALSE /\ f.pcr = TRUE /\ f.stuffed = 176
    BY ONLY <2>1
  <2>3. PcrBytes(f.pcr) = 6
    BY <2>2 DEF PcrBytes
  <2>4. f.length \in 0 .. 183 /\ f.stuffed \in Nat /\ f.length # 0
        /\ f.length = 1 + PcrBytes(f.pcr) + f.stuffed
    BY ONLY <2>2, <2>3
  <2>5. f.disc \in BOOLEAN /\ f.rai \in BOOLEAN /\ f.pcr \in BOOLEAN
    BY ONLY <2>2
  <2> QED
    BY ONLY <2>2, <2>4, <2>5, Zenon DEF IsCutField
<1> HIDE DEF f
<1>2. p = [cc |-> cc, pusi |-> FALSE, payload |-> FALSE, field |-> <<f>>, from |-> 0, bytes |-> 0]
  BY Zenon DEF PcrPacketOf, f
<1> HIDE DEF p
<1>3. /\ p.cc = cc /\ p.pusi = FALSE /\ p.payload = FALSE /\ p.field = <<f>> /\ p.from = 0 /\ p.bytes = 0
  BY ONLY <1>2
<1>4. p.field # <<>> /\ p.field[1] = f
  BY ONLY <1>3
<1>5. p.from \in Nat /\ p.bytes \in Nat /\ p.from + p.bytes <= size /\ p.cc \in 0 .. 15
  BY ONLY <1>3, cc \in 0 .. 15, size \in Nat
<1>6. 4 + (IF p.field = <<>> THEN 0 ELSE 1 + p.field[1].length) + p.bytes = 188
  <2>1. p.field[1].length = 183 /\ p.bytes = 0
    BY <1>1, <1>3, <1>4
  <2>2. 4 + (1 + 183) + 0 = 188
    OBVIOUS
  <2> QED
    BY ONLY <1>4, <2>1, <2>2
<1>7. p.field = <<p.field[1]>> /\ IsCutField(p.field[1])
  BY <1>1, <1>3, <1>4
<1>8. p.pusi \in BOOLEAN /\ p.payload \in BOOLEAN /\ ~p.payload /\ p.bytes = 0
  BY <1>3
<1> QED
  BY <1>4, <1>5, <1>6, <1>7, <1>8, Zenon DEF IsCut, p

\* The field of a packet, with a clock reference if it has one.
FlagsFrom(f) ==
  {flag \in Range(FlagNames) : \/ flag = "discontinuity" /\ f.disc
                               \/ flag = "randomAccess" /\ f.rai
                               \/ flag = "pcr" /\ f.pcr}

FieldFrom(f, pcr) ==
  [adaptationFieldLength |-> f.length, flags |-> FlagsFrom(f),
   pcr |-> IF f.pcr THEN pcr ELSE NoPcrValue, numberOfStuffedBytes |-> f.stuffed]

LEMMA FieldFromIsWritten ==
  ASSUME NEW f, IsCutField(f), NEW pcr \in Pcrs
  PROVE  IsWrittenField(FieldFrom(f, pcr)) /\ FieldFrom(f, pcr).adaptationFieldLength = f.length
<1> DEFINE flags == FlagsFrom(f)
           value == IF f.pcr THEN pcr ELSE NoPcrValue
           g     == FieldFrom(f, pcr)
<1>1. /\ f.length \in 0 .. 183 /\ f.stuffed \in Nat
      /\ f.disc \in BOOLEAN /\ f.rai \in BOOLEAN /\ f.pcr \in BOOLEAN
      /\ IF f.length = 0 THEN ~f.disc /\ ~f.rai /\ ~f.pcr /\ f.stuffed = 0
         ELSE f.length = 1 + PcrBytes(f.pcr) + f.stuffed
  BY Zenon DEF IsCutField
<1>2. flags \in SUBSET Range(FlagNames) /\ flags \subseteq WrittenFlags
  BY DEF FlagsFrom, WrittenFlags
<1>3. "pcr" \in flags <=> f.pcr
  <2>1. "pcr" \in Range(FlagNames)
    <3>1. FlagNames[4] = "pcr" /\ 4 \in 1 .. 8
      BY DEF FlagNames
    <3> QED
      BY <3>1, FlagNamesAre
  <2>2. ASSUME "pcr" \in flags PROVE f.pcr
    BY ONLY <2>2 DEF FlagsFrom
  <2>3. ASSUME f.pcr PROVE "pcr" \in flags
    BY ONLY <2>1, <2>3, Zenon DEF FlagsFrom
  <2> QED
    BY <2>2, <2>3, <1>1
<1>4. value \in Pcrs /\ (~f.pcr => value = NoPcrValue)
  <2>1. NoPcrValue \in Pcrs
    <3>1. <<0, 0, 0, 0>> \in [1 .. 4 -> Byte] /\ 0 \in 0 .. 1
      BY DEF Byte
    <3>2. 0 \in Bits(9)
      <4>1. 2 ^ 9 - 1 = 511
        OBVIOUS
      <4>2. ASSUME NEW last, last = 511 PROVE 0 \in 0 .. last
        BY ONLY <4>2
      <4> QED
        BY ONLY <4>1, <4>2 DEF Bits
    <3> DEFINE base == <<0, 0, 0, 0>>
    <3>3. base \in [1 .. 4 -> Byte]
      BY <3>1
    <3> HIDE DEF base
    <3>4. [base |-> base, lastBit |-> 0, ext |-> 0] \in Pcrs
      BY ONLY <3>1, <3>2, <3>3 DEF Pcrs
    <3> QED
      BY ONLY <3>4, Zenon DEF NoPcrValue, base
  <2> QED
    BY <2>1
<1>5. f.length = 0 => flags = {}
  <2>1. ASSUME f.length = 0, NEW flag \in flags PROVE FALSE
    BY <1>1, <2>1 DEF FlagsFrom
  <2> QED
    BY <2>1
<1>6. g = [adaptationFieldLength |-> f.length, flags |-> flags, pcr |-> value, numberOfStuffedBytes |-> f.stuffed]
  BY Zenon DEF FieldFrom
<1> HIDE DEF flags, value, g
<1>7. /\ g.adaptationFieldLength = f.length /\ g.flags = flags /\ g.pcr = value
      /\ g.numberOfStuffedBytes = f.stuffed
  BY ONLY <1>6
<1>8. g \in TSAdaptationFields
  <2>1. f.length \in Byte
    BY ONLY <1>1 DEF Byte
  <2>2. f.stuffed \in Nat
    BY <1>1
  <2> QED
    BY ONLY <1>2, <1>4, <1>6, <2>1, <2>2 DEF TSAdaptationFields
<1>9. IF f.length = 0 THEN flags = {} /\ f.stuffed = 0
      ELSE f.length = 1 + (IF "pcr" \in flags THEN 6 ELSE 0) + f.stuffed
  <2>1. PcrBytes(f.pcr) = IF "pcr" \in flags THEN 6 ELSE 0
    BY ONLY <1>3, Zenon DEF PcrBytes
  <2> QED
    BY ONLY <1>1, <1>5, <2>1, Zenon
<1>10. "pcr" \notin flags => value = NoPcrValue
  BY <1>3, <1>4
<1>11. IsWrittenField(g)
  BY ONLY <1>2, <1>7, <1>8, <1>9, <1>10, Zenon DEF IsWrittenField
<1> QED
  BY <1>7, <1>11 DEF g

\* A packet cut from a payload is read as it was written: its header, its field, and its bytes.
LEMMA CutIsRead ==
  ASSUME NEW payload \in Seq(Byte), NEW p, IsCut(p, Len(payload)), NEW pid \in Bits(13), NEW pcr \in Pcrs
  PROVE  IsReadBack(MuxedPacket(p, pid, pcr, payload))
<1> DEFINE packet == MuxedPacket(p, pid, pcr, payload)
           mode == IF ~p.payload THEN TSAdaptationModeAdaptationOnly
                   ELSE IF p.field = <<>> THEN TSAdaptationModePayloadOnly
                   ELSE TSAdaptationModeAdaptationAndPayload
           h == [syncByte |-> TS_PACKET_HEADER_SYNC_BYTE, transportErrorIndicator |-> FALSE,
                 payloadUnitStartIndicator |-> p.pusi, transportPriority |-> FALSE, pid |-> pid,
                 isScrambled |-> FALSE, continuityCounter |-> p.cc, adaptationMode |-> mode]
           field == [i \in DOMAIN p.field |-> FieldFrom(p.field[i], pcr)]
           cut   == SubSeq(payload, p.from + 1, p.from + p.bytes)
           bytes == IF p.payload THEN cut ELSE <<>>
           parts == IF p.payload THEN <<cut>> ELSE <<>>
           f == FieldFrom(p.field[1], pcr)
<1>1. packet = [header |-> h, adaptationField |-> field, payload |-> parts]
  BY DEF MuxedPacket, FieldFrom, FlagsFrom
<1>2. /\ p.cc \in 0 .. 15 /\ p.pusi \in BOOLEAN /\ p.payload \in BOOLEAN
      /\ p.field # <<>> => p.field = <<p.field[1]>> /\ IsCutField(p.field[1])
      /\ p.from \in Nat /\ p.bytes \in Nat /\ p.from + p.bytes <= Len(payload)
      /\ IF p.payload THEN p.bytes > 0 ELSE p.bytes = 0 /\ p.field # <<>>
      /\ 4 + (IF p.field = <<>> THEN 0 ELSE 1 + p.field[1].length) + p.bytes = 188
  BY ONLY IsCut(p, Len(payload)) DEF IsCut
<1>3. mode \in 1 .. 3 /\ (mode = 2 <=> ~p.payload) /\ (mode \in {2, 3} <=> p.field # <<>>)
  BY <1>2 DEF TSAdaptationModeAdaptationOnly, TSAdaptationModePayloadOnly, TSAdaptationModeAdaptationAndPayload
<1> HIDE DEF mode
<1>4. h \in TSPacketHeaders /\ ~h.transportErrorIndicator /\ h.adaptationMode = mode
  <2>1. pid \in Bits(13)
    OBVIOUS
  <2>2. TS_PACKET_HEADER_SYNC_BYTE \in Byte
    BY DEF TS_PACKET_HEADER_SYNC_BYTE, Byte
  <2>3. mode \in TSAdaptationMode
    BY <1>3 DEF TSAdaptationMode
  <2>4. p.cc \in 0 .. 15 /\ p.pusi \in BOOLEAN
    BY <1>2
  <2>5. h \in TSPacketHeaders
    BY ONLY <2>1, <2>2, <2>3, <2>4 DEF TSPacketHeaders
  <2> QED
    BY <2>5
<1> HIDE DEF h
<1>5. HasField(h) <=> p.field # <<>>
  BY <1>3, <1>4 DEF HasField, TSAdaptationModeAdaptationOnly, TSAdaptationModeAdaptationAndPayload
<1>6. /\ IF HasField(h) THEN field = <<f>> /\ IsWrittenField(f) /\ f.adaptationFieldLength = p.field[1].length
         ELSE field = <<>>
  <2>1. CASE p.field # <<>>
    <3> DEFINE g == p.field[1]
    <3>1. p.field = <<g>> /\ IsCutField(g)
      BY <1>2, <2>1
    <3> HIDE DEF g
    <3>2. DOMAIN p.field = 1 .. 1 /\ p.field[1] = g
      BY ONLY <3>1
    <3>3. field = <<f>>
      <4>1. field = [i \in 1 .. 1 |-> f]
        BY ONLY <3>2
      <4> HIDE DEF f, field
      <4> QED
        BY ONLY <4>1
    <3>4. IsWrittenField(f) /\ f.adaptationFieldLength = g.length
      BY <3>1, <3>2, FieldFromIsWritten
    <3> QED
      BY <1>5, <2>1, <3>3, <3>4 DEF g
  <2>2. CASE p.field = <<>>
    <3>1. field = <<>>
      BY ONLY <2>2
    <3> QED
      BY <1>5, <2>2, <3>1
  <2> QED
    BY <2>1, <2>2
<1>7. cut \in Seq(Byte) /\ Len(cut) = p.bytes
  <2> DEFINE a == p.from + 1
             b == p.from + p.bytes
  <2>1. a \in Int /\ b \in Int /\ 1 <= a /\ b <= Len(payload) /\ a <= b + 1 /\ b - a + 1 = p.bytes
    <3>1. p.from \in Nat /\ p.bytes \in Nat /\ p.from + p.bytes <= Len(payload)
      BY <1>2
    <3>2. Len(payload) \in Nat
      BY LenProperties
    <3>3. ASSUME NEW x \in Nat, NEW y \in Nat, NEW n \in Nat, x + y <= n
          PROVE  /\ x + 1 \in Int /\ x + y \in Int /\ 1 <= x + 1 /\ x + y <= n /\ x + 1 <= x + y + 1
                 /\ (x + y) - (x + 1) + 1 = y
      BY ONLY <3>3
    <3> QED
      BY ONLY <3>1, <3>2, <3>3 DEF a, b
  <2> HIDE DEF a, b
  <2>2. SubSeq(payload, a, b) \in Seq(Byte) /\ Len(SubSeq(payload, a, b)) = b - a + 1
    BY ONLY <2>1, payload \in Seq(Byte), SubSeqPlaces
  <2> QED
    BY ONLY <2>1, <2>2 DEF a, b
<1> HIDE DEF cut, f, field
<1>8. /\ bytes \in Seq(Byte) /\ Len(bytes) = p.bytes
      /\ h.adaptationMode = TSAdaptationModeAdaptationOnly <=> bytes = <<>>
  <2>1. Len(<<>>) = 0 /\ <<>> \in Seq(Byte)
    OBVIOUS
  <2>2. h.adaptationMode = TSAdaptationModeAdaptationOnly <=> ~p.payload
    BY <1>3, <1>4 DEF TSAdaptationModeAdaptationOnly
  <2>3. p.payload => cut # <<>>
    <3>1. p.payload => p.bytes # 0
      BY <1>2
    <3> QED
      BY ONLY <1>7, <2>1, <3>1
  <2> QED
    BY <1>2, <1>7, <2>1, <2>2, <2>3
<1>9. packet = [header |-> h, adaptationField |-> field,
                payload |-> IF h.adaptationMode = TSAdaptationModeAdaptationOnly THEN <<>> ELSE <<bytes>>]
  <2>1. parts = IF h.adaptationMode = TSAdaptationModeAdaptationOnly THEN <<>> ELSE <<bytes>>
    BY <1>3, <1>4 DEF TSAdaptationModeAdaptationOnly
  <2> HIDE DEF packet, parts
  <2> QED
    BY ONLY <1>1, <2>1
<1>10. 4 + (IF HasField(h) THEN 1 + f.adaptationFieldLength ELSE 0) + Len(bytes) = 188
  <2>1. (IF HasField(h) THEN 1 + f.adaptationFieldLength ELSE 0)
          = IF p.field = <<>> THEN 0 ELSE 1 + p.field[1].length
    BY <1>5, <1>6
  <2> HIDE DEF bytes
  <2> QED
    BY ONLY <1>2, <1>8, <2>1
<1>11. h.adaptationMode \in 1 .. 3 /\ IF HasField(h) THEN field = <<f>> /\ IsWrittenField(f) ELSE field = <<>>
  BY <1>3, <1>4, <1>6
<1> HIDE DEF packet, bytes
<1>12. IsWritten(packet, h, field, f, bytes)
  BY ONLY <1>4, <1>8, <1>9, <1>10, <1>11 DEF IsWritten
<1>13. IsReadBack(packet)
  BY ONLY <1>12, WrittenIsRead
<1> QED
  BY <1>13 DEF packet

\* Every packet that packetizePayload cuts from a payload is read as it was written.
THEOREM PacketsAreRead ==
  ASSUME NEW payload \in Seq(Byte), NEW remaining \in 1 .. Len(payload), NEW isFirst \in BOOLEAN,
         NEW flags, flags.pcr \in BOOLEAN, flags.disc \in BOOLEAN, flags.rai \in BOOLEAN,
         NEW cc \in 0 .. 15, NEW pid \in Bits(13), NEW pcr \in Pcrs
  PROVE  IsReadBack(MuxedPacket(PacketOf(Len(payload), remaining, isFirst, flags, cc),
                                pid, pcr, payload))
<1> DEFINE p == PacketOf(Len(payload), remaining, isFirst, flags, cc)
<1>1. Len(payload) \in Nat
  BY LenProperties
<1>2. IsCut(p, Len(payload))
  BY <1>1, PacketIsCut
<1> HIDE DEF p
<1>3. IsReadBack(MuxedPacket(p, pid, pcr, payload))
  BY ONLY payload \in Seq(Byte), pid \in Bits(13), pcr \in Pcrs, <1>2, CutIsRead
<1> QED
  BY <1>3 DEF p

\* So is the packet that carries a clock reference and nothing else.
THEOREM PcrPacketIsRead ==
  ASSUME NEW cc \in 0 .. 15, NEW pid \in Bits(13), NEW pcr \in Pcrs
  PROVE  IsReadBack(MuxedPacket(PcrPacketOf(cc), pid, pcr, <<>>))
<1> DEFINE p == PcrPacketOf(cc)
           payload == <<>>
<1>1. payload \in Seq(Byte) /\ Len(payload) \in Nat
  OBVIOUS
<1>2. IsCut(p, Len(payload))
  <2> HIDE DEF payload
  <2> QED
    BY <1>1, PcrPacketIsCut
<1> HIDE DEF p, payload
<1>3. IsReadBack(MuxedPacket(p, pid, pcr, payload))
  BY ONLY <1>1, pid \in Bits(13), pcr \in Pcrs, <1>2, CutIsRead
<1> QED
  BY <1>3 DEF p, payload

-----------------------------------------------------------------------------
(* Whole bytes, and times *)

\* Whole bytes, read where a reader is on.
LEMMA MovedOn ==
  ASSUME NEW r, NEW bytes, NEW i \in Nat, IsAt(r, bytes, i, 0), NEW k \in Nat,
         NEW s, s = MovedBytes(r, k)
  PROVE  IsAt(s, bytes, i + k, 0)
<1>1. r.bytes = bytes /\ r.byteOffset = i /\ r.bitOffset = 0 /\ r.error = FALSE
  BY DEF IsAt
<1>2. PICK U : r \in ReadersOf(U)
  BY DEF IsAt
<1> DEFINE q == i + k
<1>3. q \in Nat
  OBVIOUS
<1>4. s = [r EXCEPT !.byteOffset = q]
  BY <1>1 DEF MovedBytes
<1> HIDE DEF q
<1>5. s \in ReadersOf(U) /\ s.bytes = bytes /\ s.byteOffset = q /\ s.bitOffset = 0 /\ s.error = FALSE
  BY ONLY <1>1, <1>2, <1>3, <1>4 DEF ReadersOf
<1>6. IsAt(s, bytes, q, 0)
  BY <1>5, Zenon DEF IsAt
<1> QED
  BY <1>6 DEF q

LEMMA ValueOn ==
  ASSUME NEW m, NEW bytes, NEW q, IsAt(m, bytes, q, 0), NEW v, NEW s, s = [m EXCEPT !.value = v]
  PROVE  IsAt(s, bytes, q, 0) /\ s.value = v
<1>1. m.bytes = bytes /\ m.byteOffset = q /\ m.bitOffset = 0 /\ m.error = FALSE
  BY DEF IsAt
<1>2. PICK U : m \in ReadersOf(U)
  BY DEF IsAt
<1>3. /\ s \in ReadersOf({v}) /\ s.bytes = bytes /\ s.byteOffset = q /\ s.bitOffset = 0
      /\ s.error = FALSE /\ s.value = v
  <2>1. s = [m EXCEPT !.value = v]
    OBVIOUS
  <2> QED
    BY ONLY <1>1, <1>2, <2>1 DEF ReadersOf
<1> QED
  BY <1>3, Zenon DEF IsAt

LEMMA DataOn ==
  ASSUME NEW m, NEW bytes, NEW q, IsAt(m, bytes, q, 0), NEW d \in Seq(Byte), NEW s, s = [m EXCEPT !.data = d]
  PROVE  IsAt(s, bytes, q, 0) /\ s.data = d
<1>1. m.bytes = bytes /\ m.byteOffset = q /\ m.bitOffset = 0 /\ m.error = FALSE
  BY DEF IsAt
<1>2. PICK U : m \in ReadersOf(U)
  BY DEF IsAt
<1>3. /\ s \in ReadersOf(U) /\ s.bytes = bytes /\ s.byteOffset = q /\ s.bitOffset = 0
      /\ s.error = FALSE /\ s.data = d
  <2>1. s = [m EXCEPT !.data = d] /\ d \in Seq(Byte)
    OBVIOUS
  <2> QED
    BY ONLY <1>1, <1>2, <2>1 DEF ReadersOf
<1> QED
  BY <1>3, Zenon DEF IsAt

LEMMA BytesOn ==
  ASSUME NEW bytes \in Seq(Byte), NEW r, NEW i \in Nat, IsAt(r, bytes, i, 0)
  PROVE  /\ i + 1 <= Len(bytes) =>
              /\ IsAt(ReadUInt8(r), bytes, i + 1, 0) /\ ReadUInt8(r).value = bytes[i + 1]
              /\ IsAt(Skip(r, 1), bytes, i + 1, 0)
         /\ i + 2 <= Len(bytes) =>
              /\ IsAt(ReadUInt16BE(r), bytes, i + 2, 0)
              /\ ReadUInt16BE(r).value = bytes[i + 1] * 256 + bytes[i + 2]
         /\ i + 3 <= Len(bytes) =>
              /\ IsAt(ReadData(r, 3), bytes, i + 3, 0)
              /\ ReadData(r, 3).data = SubSeq(bytes, i + 1, i + 3)
<1>1. r.bytes = bytes /\ r.byteOffset = i /\ r.bitOffset = 0 /\ r.error = FALSE
  BY DEF IsAt
<1>2. Length(r) = Len(bytes) /\ Len(bytes) \in Nat
  BY <1>1, LenProperties DEF Length
<1>3. ASSUME NEW k \in Nat, i + k <= Len(bytes)
      PROVE  CanRead(r, k) /\ IsAt(MovedBytes(r, k), bytes, i + k, 0)
  <2>1. CanRead(r, k)
    BY <1>1, <1>2, <1>3 DEF CanRead
  <2>2. IsAt(MovedBytes(r, k), bytes, i + k, 0)
    BY MovedOn
  <2> QED
    BY <2>1, <2>2
<1>4. ASSUME i + 1 <= Len(bytes)
      PROVE  /\ IsAt(ReadUInt8(r), bytes, i + 1, 0) /\ ReadUInt8(r).value = bytes[i + 1]
             /\ IsAt(Skip(r, 1), bytes, i + 1, 0)
  <2>1. CanRead(r, 1) /\ IsAt(MovedBytes(r, 1), bytes, i + 1, 0)
    BY <1>3, <1>4
  <2>2. ByteAt(r, 0) = bytes[i + 1]
    BY <1>1, <1>2, <1>4 DEF ByteAt
  <2> DEFINE v == bytes[i + 1]
             q == i + 1
  <2>3. ReadUInt8(r) = [MovedBytes(r, 1) EXCEPT !.value = v] /\ Skip(r, 1) = MovedBytes(r, 1)
    BY ONLY <2>1, <2>2 DEF ReadUInt8, Skip
  <2>4. IsAt(MovedBytes(r, 1), bytes, q, 0)
    BY <2>1
  <2> HIDE DEF v, q
  <2>5. IsAt(ReadUInt8(r), bytes, q, 0) /\ ReadUInt8(r).value = v
    BY ONLY <2>4, <2>3, ValueOn
  <2> QED
    BY ONLY <2>1, <2>3, <2>5 DEF v, q
<1>5. ASSUME i + 2 <= Len(bytes)
      PROVE  /\ IsAt(ReadUInt16BE(r), bytes, i + 2, 0)
             /\ ReadUInt16BE(r).value = bytes[i + 1] * 256 + bytes[i + 2]
  <2>1. CanRead(r, 2) /\ IsAt(MovedBytes(r, 2), bytes, i + 2, 0)
    BY <1>3, <1>5
  <2>2. ByteAt(r, 0) = bytes[i + 1] /\ ByteAt(r, 1) = bytes[i + 2]
    BY <1>1, <1>2, <1>5 DEF ByteAt
  <2> DEFINE v == bytes[i + 1] * 256 + bytes[i + 2]
  <2>3. ReadUInt16BE(r) = [MovedBytes(r, 2) EXCEPT !.value = v]
    BY ONLY <2>1, <2>2 DEF ReadUInt16BE
  <2> HIDE DEF v
  <2>4. IsAt(ReadUInt16BE(r), bytes, i + 2, 0) /\ ReadUInt16BE(r).value = v
    BY ONLY <2>1, <2>3, ValueOn
  <2> QED
    BY <2>4 DEF v
<1>6. ASSUME i + 3 <= Len(bytes)
      PROVE  /\ IsAt(ReadData(r, 3), bytes, i + 3, 0)
             /\ ReadData(r, 3).data = SubSeq(bytes, i + 1, i + 3)
  <2>1. CanRead(r, 3) /\ IsAt(MovedBytes(r, 3), bytes, i + 3, 0)
    BY <1>3, <1>6
  <2> DEFINE a == i + 1
             b == i + 3
             d == SubSeq(bytes, a, b)
  <2>2. a \in Int /\ b \in Int /\ 1 <= a /\ b <= Len(bytes) /\ a <= b + 1
    BY <1>6
  <2> HIDE DEF a, b
  <2>3. d \in Seq(Byte)
    BY ONLY bytes \in Seq(Byte), <2>2, SubSeqPlaces
  <2>4. ReadData(r, 3) = [MovedBytes(r, 3) EXCEPT !.data = d]
    BY ONLY <1>1, <2>1 DEF ReadData, NextBytes, a, b
  <2> HIDE DEF d
  <2>5. IsAt(ReadData(r, 3), bytes, i + 3, 0) /\ ReadData(r, 3).data = d
    BY ONLY <2>1, <2>3, <2>4, DataOn
  <2> QED
    BY <2>5 DEF d, a, b
<1> QED
  BY <1>4, <1>5, <1>6

\* What bits of three bytes are, for the places that times have them at.
LEMMA TimeBitsOfBytes ==
  ASSUME NEW x \in Byte, NEW y \in Byte, NEW z \in Byte
  PROVE  LET window == x * 65536 + y * 256 + z
         IN  /\ (window \div 2 ^ 20) % 2 ^ 4 = x \div 16
             /\ (window \div 2 ^ 17) % 2 ^ 3 = (x \div 2) % 8
             /\ (window \div 2 ^ 16) % 2 ^ 1 = x % 2
             /\ (window \div 2 ^ 9) % 2 ^ 15 = x * 128 + y \div 2
<1> DEFINE window == x * 65536 + y * 256 + z
<1>1. /\ 2 ^ 20 = 1048576 /\ 2 ^ 17 = 131072 /\ 2 ^ 16 = 65536 /\ 2 ^ 15 = 32768 /\ 2 ^ 9 = 512
      /\ 2 ^ 4 = 16 /\ 2 ^ 3 = 8 /\ 2 ^ 1 = 2
  OBVIOUS
<1>2. (window \div 1048576) % 16 = x \div 16
  BY DEF Byte
<1>3. (window \div 131072) % 8 = (x \div 2) % 8
  BY DEF Byte
<1>4. (window \div 65536) % 2 = x % 2
  BY DEF Byte
<1>5. (window \div 512) % 32768 = x * 128 + y \div 2
  <2> DEFINE m == x * 128 + y \div 2
  <2>1. window \div 512 = m
    BY DEF Byte
  <2>2. m \in 0 .. 32767
    BY DEF Byte
  <2> HIDE DEF window, m
  <2>3. m % 32768 = m
    BY ONLY <2>2
  <2> QED
    BY ONLY <2>1, <2>3 DEF m
<1> HIDE DEF window
<1>6. /\ (window \div 2 ^ 20) % 2 ^ 4 = x \div 16
      /\ (window \div 2 ^ 17) % 2 ^ 3 = (x \div 2) % 8
      /\ (window \div 2 ^ 16) % 2 ^ 1 = x % 2
      /\ (window \div 2 ^ 9) % 2 ^ 15 = x * 128 + y \div 2
  BY ONLY <1>1, <1>2, <1>3, <1>4, <1>5
<1> QED
  BY ONLY <1>6 DEF window

LEMMA TimeBits ==
  ASSUME NEW bytes \in Seq(Byte), NEW i \in Nat, i < Len(bytes)
  PROVE  /\ BitsIn(bytes, i, 0, 4) = bytes[i + 1] \div 16
         /\ BitsIn(bytes, i, 4, 3) = (bytes[i + 1] \div 2) % 8
         /\ BitsIn(bytes, i, 7, 1) = bytes[i + 1] % 2
         /\ i + 1 < Len(bytes) => BitsIn(bytes, i, 0, 15) = bytes[i + 1] * 128 + bytes[i + 2] \div 2
<1> DEFINE x == ByteIn(bytes, i)
           y == ByteIn(bytes, i + 1)
           z == ByteIn(bytes, i + 2)
<1>1. x \in Byte /\ y \in Byte /\ z \in Byte
  BY ByteInType
<1>2. x = bytes[i + 1] /\ (i + 1 < Len(bytes) => y = bytes[i + 2])
  <2>1. i < Len(bytes) /\ (i + 1) + 1 = i + 2 /\ i + 1 \in Nat
    BY LenProperties
  <2> QED
    BY <2>1, ByteInType
<1>3. ASSUME NEW b, NEW n
      PROVE  BitsIn(bytes, i, b, n) = ((x * 65536 + y * 256 + z) \div 2 ^ (24 - b - n)) % 2 ^ n
  BY DEF BitsIn
<1> HIDE DEF x, y, z
<1>4. 24 - 0 - 4 = 20 /\ 24 - 4 - 3 = 17 /\ 24 - 7 - 1 = 16 /\ 24 - 0 - 15 = 9
  OBVIOUS
<1> DEFINE w == x * 65536 + y * 256 + z
<1>5. /\ (w \div 2 ^ 20) % 2 ^ 4 = x \div 16
      /\ (w \div 2 ^ 17) % 2 ^ 3 = (x \div 2) % 8
      /\ (w \div 2 ^ 16) % 2 ^ 1 = x % 2
      /\ (w \div 2 ^ 9) % 2 ^ 15 = x * 128 + y \div 2
  BY ONLY <1>1, TimeBitsOfBytes
<1>6. ASSUME NEW b, NEW n, NEW k, 24 - b - n = k PROVE BitsIn(bytes, i, b, n) = (w \div 2 ^ k) % 2 ^ n
  BY ONLY <1>3, <1>6
<1> HIDE DEF w
<1>7. BitsIn(bytes, i, 0, 4) = x \div 16
  <2>1. BitsIn(bytes, i, 0, 4) = (w \div 2 ^ 20) % 2 ^ 4
    BY ONLY <1>4, <1>6
  <2> QED
    BY ONLY <1>5, <2>1
<1>8. BitsIn(bytes, i, 4, 3) = (x \div 2) % 8
  <2>1. BitsIn(bytes, i, 4, 3) = (w \div 2 ^ 17) % 2 ^ 3
    BY ONLY <1>4, <1>6
  <2> QED
    BY ONLY <1>5, <2>1
<1>9. BitsIn(bytes, i, 7, 1) = x % 2
  <2>1. BitsIn(bytes, i, 7, 1) = (w \div 2 ^ 16) % 2 ^ 1
    BY ONLY <1>4, <1>6
  <2> QED
    BY ONLY <1>5, <2>1
<1>10. BitsIn(bytes, i, 0, 15) = x * 128 + y \div 2
  <2>1. BitsIn(bytes, i, 0, 15) = (w \div 2 ^ 9) % 2 ^ 15
    BY ONLY <1>4, <1>6
  <2> QED
    BY ONLY <1>5, <2>1
<1> QED
  BY ONLY <1>2, <1>7, <1>8, <1>9, <1>10

\* The two bytes of a group of fifteen bits and a marker.
LEMMA GroupIsWritten ==
  ASSUME NEW n \in Bits(15), NEW a, a = n \div 128, NEW b, b = 2 * (n % 128) + 1
  PROVE  a \in Byte /\ b \in Byte /\ a * 128 + b \div 2 = n /\ b % 2 = 1
<1>1. n \in 0 .. 32767
  <2> DEFINE last == 2 ^ 15 - 1
  <2>1. last = 32767
    OBVIOUS
  <2>2. n \in 0 .. last
    BY Zenon DEF Bits
  <2> HIDE DEF last
  <2> QED
    BY ONLY <2>1, <2>2
<1> DEFINE c == n % 128
<1>4. a \in 0 .. 255 /\ n = 128 * a + c /\ c \in 0 .. 127 /\ b = 2 * c + 1
  <2>1. n = 128 * (n \div 128) + (n % 128) /\ n % 128 \in 0 .. 127 /\ n \div 128 \in Int
    BY ONLY <1>1
  <2>2. a = n \div 128 /\ b = 2 * (n % 128) + 1 /\ c = n % 128
    OBVIOUS
  <2> HIDE DEF c
  <2>3. a \in Int /\ c \in 0 .. 127 /\ n = 128 * a + c /\ b = 2 * c + 1
    BY ONLY <2>1, <2>2
  <2>4. a \in 0 .. 255
    <3>1. a \in Int /\ c \in Int /\ 0 <= c /\ c < 128 /\ 0 <= 128 * a + c /\ 128 * a + c < 32768
      BY ONLY <1>1, <2>3
    <3>2. 0 <= a
      BY ONLY <3>1
    <3>3. a < 256
      BY ONLY <3>1
    <3> QED
      BY ONLY <3>1, <3>2, <3>3
  <2> QED
    BY ONLY <2>3, <2>4
<1> HIDE DEF c
<1>5. b \div 2 = c /\ b % 2 = 1 /\ b \in 0 .. 255
  BY ONLY <1>4
<1>6. a * 128 + b \div 2 = n
  BY ONLY <1>4, <1>5
<1> QED
  BY ONLY <1>4, <1>5, <1>6 DEF Byte

\* The byte of a prefix, a group of three bits and a marker.
LEMMA PrefixIsWritten ==
  ASSUME NEW prefix \in 1 .. 3, NEW h \in Bits(3), NEW a, a = 16 * prefix + 2 * h + 1
  PROVE  a \in Byte /\ a \div 16 = prefix /\ (a \div 2) % 8 = h /\ a % 2 = 1
<1>1. h \in 0 .. 7
  <2>1. 2 ^ 3 - 1 = 7
    OBVIOUS
  <2> QED
    BY <2>1 DEF Bits
<1>2. a \in 0 .. 255 /\ a \div 16 = prefix /\ a % 2 = 1
  BY <1>1
<1>3. a \div 2 = 8 * prefix + h
  BY <1>1
<1>4. (8 * prefix + h) % 8 = h
  BY <1>1
<1> QED
  BY ONLY <1>2, <1>3, <1>4 DEF Byte

\* What is written of a time.
LEMMA TimestampIsWritten ==
  ASSUME NEW prefix \in 1 .. 3, NEW t \in Timestamps
  PROVE  LET w == TimestampBytes(prefix, t)
         IN  /\ w \in Seq(Byte) /\ Len(w) = 5
             /\ w[1] \div 16 = prefix /\ (w[1] \div 2) % 8 = t.bits32_30 /\ w[1] % 2 = 1
             /\ w[2] * 128 + w[3] \div 2 = t.bits29_15 /\ w[3] % 2 = 1
             /\ w[4] * 128 + w[5] \div 2 = t.bits14_0 /\ w[5] % 2 = 1
<1> DEFINE h == t.bits32_30
           m == t.bits29_15
           l == t.bits14_0
           first == 16 * prefix + 2 * h + 1
           second == m \div 128
           third == 2 * (m % 128) + 1
           fourth == l \div 128
           fifth == 2 * (l % 128) + 1
           w == TimestampBytes(prefix, t)
<1>1. h \in Bits(3) /\ m \in Bits(15) /\ l \in Bits(15)
  BY DEF Timestamps
<1>2. w = <<first, second, third, fourth, fifth>>
  BY Zenon DEF TimestampBytes
<1> HIDE DEF h, m, l, w
<1>3. first \in Byte /\ first \div 16 = prefix /\ (first \div 2) % 8 = h /\ first % 2 = 1
  BY <1>1, PrefixIsWritten
<1>4. second = m \div 128 /\ third = 2 * (m % 128) + 1 /\ fourth = l \div 128 /\ fifth = 2 * (l % 128) + 1
  OBVIOUS
<1> HIDE DEF first, second, third, fourth, fifth
<1>5. second \in Byte /\ third \in Byte /\ second * 128 + third \div 2 = m /\ third % 2 = 1
  BY ONLY <1>1, <1>4, GroupIsWritten
<1>6. fourth \in Byte /\ fifth \in Byte /\ fourth * 128 + fifth \div 2 = l /\ fifth % 2 = 1
  BY ONLY <1>1, <1>4, GroupIsWritten
<1>7. /\ w \in Seq(Byte) /\ Len(w) = 5 /\ w[1] = first /\ w[2] = second /\ w[3] = third
      /\ w[4] = fourth /\ w[5] = fifth
  BY ONLY <1>2, <1>3, <1>5, <1>6
<1> QED
  BY <1>3, <1>5, <1>6, <1>7 DEF w, h, m, l

\* Bytes that hold a time from the place i.
HoldTime(bytes, i, prefix, t) ==
  /\ i + 5 <= Len(bytes)
  /\ \A k \in 1 .. 5 : bytes[i + k] = TimestampBytes(prefix, t)[k]

\* A time is read as it was written.
LEMMA TimestampIsRead ==
  ASSUME NEW bytes \in Seq(Byte), NEW i \in Nat, NEW r, IsAt(r, bytes, i, 0),
         NEW prefix \in 1 .. 3, NEW t \in Timestamps, HoldTime(bytes, i, prefix, t)
  PROVE  LET read == ParseTimestamp(r, prefix)
         IN  IsAt(read.reader, bytes, i + 5, 0) /\ read.time = <<t>>
<1> DEFINE p  == ReadBits(r, 4)
           h  == ReadBits(p, 3)
           hm == ReadBits(h, 1)
           m  == ReadBits(hm, 15)
           mm == ReadBits(m, 1)
           l  == ReadBits(mm, 15)
           lm == ReadBits(l, 1)
           w  == TimestampBytes(prefix, t)
<1>1. i + 5 <= Len(bytes) /\ Len(bytes) \in Nat
  BY LenProperties DEF HoldTime
<1>2. /\ bytes[i + 1] = w[1] /\ bytes[i + 2] = w[2] /\ bytes[i + 3] = w[3] /\ bytes[i + 4] = w[4]
      /\ bytes[i + 5] = w[5]
  BY DEF HoldTime
<1> DEFINE Follows(x, j, b, n, q, c) ==
             /\ IsAt(ReadBits(x, n), bytes, q, c)
             /\ ReadBits(x, n).value = BitsIn(bytes, j, b, n)
<1>3. ASSUME NEW x, NEW j \in Nat, NEW b \in 0 .. 7, IsAt(x, bytes, j, b), NEW n \in 1 .. 32,
             NEW q \in Nat, NEW c \in 0 .. 7, q * 8 + c = j * 8 + b + n, q * 8 + c <= (i + 5) * 8
      PROVE  Follows(x, j, b, n, q, c)
  <2>1. q * 8 + c <= Len(bytes) * 8
    BY <1>1, <1>3
  <2>2. bytes \in Seq(Byte) /\ IsAt(x, bytes, j, b) /\ q * 8 + c = j * 8 + b + n
    BY <1>3
  <2>3. /\ IsAt(ReadBits(x, n), bytes, q, c)
        /\ ReadBits(x, n).value = BitsIn(bytes, j, b, n)
        /\ IsAt(SkipBits(x, n), bytes, q, c)
    BY <2>1, <2>2, ReadBitsOn
  <2> QED
    BY <2>3
<1> HIDE DEF Follows
<1>4. Follows(r, i, 0, 4, i, 4)
  BY <1>3
<1>5. IsAt(p, bytes, i, 4) /\ p.value = BitsIn(bytes, i, 0, 4)
  BY ONLY <1>4 DEF Follows
<1> HIDE DEF p
<1>6. Follows(p, i, 4, 3, i, 7)
  BY <1>3, <1>5
<1>7. IsAt(h, bytes, i, 7) /\ h.value = BitsIn(bytes, i, 4, 3)
  BY ONLY <1>6 DEF Follows
<1> HIDE DEF h
<1>8. Follows(h, i, 7, 1, i + 1, 0)
  BY <1>3, <1>7
<1>9. IsAt(hm, bytes, i + 1, 0) /\ hm.value = BitsIn(bytes, i, 7, 1)
  BY ONLY <1>8 DEF Follows
<1> HIDE DEF hm
<1>10. Follows(hm, i + 1, 0, 15, i + 2, 7)
  BY <1>3, <1>9
<1>11. IsAt(m, bytes, i + 2, 7) /\ m.value = BitsIn(bytes, i + 1, 0, 15)
  BY ONLY <1>10 DEF Follows
<1> HIDE DEF m
<1>12. Follows(m, i + 2, 7, 1, i + 3, 0)
  BY <1>3, <1>11
<1>13. IsAt(mm, bytes, i + 3, 0) /\ mm.value = BitsIn(bytes, i + 2, 7, 1)
  BY ONLY <1>12 DEF Follows
<1> HIDE DEF mm
<1>14. Follows(mm, i + 3, 0, 15, i + 4, 7)
  BY <1>3, <1>13
<1>15. IsAt(l, bytes, i + 4, 7) /\ l.value = BitsIn(bytes, i + 3, 0, 15)
  BY ONLY <1>14 DEF Follows
<1> HIDE DEF l
<1>16. Follows(l, i + 4, 7, 1, i + 5, 0)
  BY <1>3, <1>15
<1>17. IsAt(lm, bytes, i + 5, 0) /\ lm.value = BitsIn(bytes, i + 4, 7, 1)
  BY ONLY <1>16 DEF Follows
<1> HIDE DEF lm, w
<1>18. /\ BitsIn(bytes, i, 0, 4) = w[1] \div 16 /\ BitsIn(bytes, i, 4, 3) = (w[1] \div 2) % 8
       /\ BitsIn(bytes, i, 7, 1) = w[1] % 2
  <2>1. i \in Nat /\ i < Len(bytes)
    BY <1>1
  <2> QED
    BY <1>2, <2>1, TimeBits
<1>19. ASSUME NEW j \in Nat, j + 1 < Len(bytes)
       PROVE  /\ BitsIn(bytes, j, 0, 15) = bytes[j + 1] * 128 + bytes[j + 2] \div 2
              /\ BitsIn(bytes, j + 1, 7, 1) = bytes[j + 2] % 2
  <2>1. j < Len(bytes) /\ j + 1 \in Nat /\ (j + 1) + 1 = j + 2
    BY <1>1, <1>19
  <2>2. BitsIn(bytes, j, 0, 15) = bytes[j + 1] * 128 + bytes[j + 2] \div 2
    BY <1>19, <2>1, TimeBits
  <2>3. BitsIn(bytes, j + 1, 7, 1) = bytes[(j + 1) + 1] % 2
    BY <1>19, <2>1, TimeBits
  <2> QED
    BY <2>1, <2>2, <2>3
<1>20. BitsIn(bytes, i + 1, 0, 15) = w[2] * 128 + w[3] \div 2 /\ BitsIn(bytes, i + 2, 7, 1) = w[3] % 2
  <2>1. i + 1 \in Nat /\ (i + 1) + 1 < Len(bytes) /\ (i + 1) + 1 = i + 2 /\ (i + 1) + 2 = i + 3
    BY <1>1
  <2> QED
    BY ONLY <1>2, <1>19, <2>1
<1>21. BitsIn(bytes, i + 3, 0, 15) = w[4] * 128 + w[5] \div 2 /\ BitsIn(bytes, i + 4, 7, 1) = w[5] % 2
  <2>1. i + 3 \in Nat /\ (i + 3) + 1 < Len(bytes) /\ (i + 3) + 1 = i + 4 /\ (i + 3) + 2 = i + 5
    BY <1>1
  <2> QED
    BY ONLY <1>2, <1>19, <2>1
<1>22. /\ p.value = prefix /\ h.value = t.bits32_30 /\ hm.value = 1 /\ m.value = t.bits29_15
       /\ mm.value = 1 /\ l.value = t.bits14_0 /\ lm.value = 1
  <2>1. /\ w[1] \div 16 = prefix /\ (w[1] \div 2) % 8 = t.bits32_30 /\ w[1] % 2 = 1
        /\ w[2] * 128 + w[3] \div 2 = t.bits29_15 /\ w[3] % 2 = 1
        /\ w[4] * 128 + w[5] \div 2 = t.bits14_0 /\ w[5] % 2 = 1
    BY TimestampIsWritten DEF w
  <2> QED
    BY ONLY <1>5, <1>7, <1>9, <1>11, <1>13, <1>15, <1>17, <1>18, <1>20, <1>21, <2>1
<1>23. HasBits(r, 40) /\ ~lm.error
  <2>1. r.byteOffset = i /\ r.bitOffset = 0 /\ Length(r) = Len(bytes) /\ lm.error = FALSE
    BY <1>17 DEF IsAt, Length
  <2>2. RemainingBits(r) = (Len(bytes) - i) * 8 - 0
    BY <1>1, <2>1 DEF RemainingBits
  <2> QED
    BY <1>1, <2>1, <2>2 DEF HasBits
<1> DEFINE read == ParseTimestamp(r, prefix)
<1>24. read = [reader |-> lm, time |-> <<[bits32_30 |-> h.value, bits29_15 |-> m.value, bits14_0 |-> l.value]>>]
  BY ONLY <1>22, <1>23 DEF ParseTimestamp, ReadGroup, p, h, hm, m, mm, l, lm
<1>25. t = [bits32_30 |-> h.value, bits29_15 |-> m.value, bits14_0 |-> l.value]
  <2>1. t = [bits32_30 |-> t.bits32_30, bits29_15 |-> t.bits29_15, bits14_0 |-> t.bits14_0]
    BY DEF Timestamps
  <2> QED
    BY ONLY <1>22, <2>1
<1> HIDE DEF read
<1>26. read.reader = lm /\ read.time = <<t>>
  BY ONLY <1>24, <1>25
<1> QED
  BY <1>17, <1>26 DEF read

-----------------------------------------------------------------------------
(* The PES header *)

\* Bytes that begin with the PES header of a unit.
PtsPrefix(au) == IF HasDts(au) THEN 3 ELSE 2

HasPes(bytes, au) ==
  /\ bytes \in Seq(Byte) /\ 9 + TimestampsLength(au) <= Len(bytes)
  /\ bytes[1] = 0 /\ bytes[2] = 0 /\ bytes[3] = 1
  /\ bytes[4] = streamIdFromStreamType(au.streamType)
  /\ bytes[5] * 256 + bytes[6] = PesPacketLength(au)
  /\ bytes[8] \div 128 # 0 <=> au.pts # <<>>
  /\ (bytes[8] \div 64) % 2 # 0 <=> HasDts(au)
  /\ bytes[9] = TimestampsLength(au)
  /\ au.pts # <<>> => HoldTime(bytes, 9, PtsPrefix(au), au.pts[1])
  /\ HasDts(au) => HoldTime(bytes, 14, 1, au.dts[1])

LEMMA TimestampsLengths ==
  ASSUME NEW au
  PROVE  /\ au.pts = <<>> => TimestampsLength(au) = 0 /\ ~HasDts(au)
         /\ au.pts # <<>> /\ ~HasDts(au) => TimestampsLength(au) = 5
         /\ HasDts(au) => TimestampsLength(au) = 10 /\ au.pts # <<>> /\ au.dts # <<>>
         /\ TimestampsLength(au) \in 0 .. 10
<1>1. au.pts = <<>> => TimestampsLength(au) = 0 /\ ~HasDts(au)
  BY Zenon DEF TimestampsLength, HasDts
<1>2. au.pts # <<>> /\ ~HasDts(au) => TimestampsLength(au) = 5
  BY DEF TimestampsLength, TIMESTAMP_LENGTH
<1>3. HasDts(au) => TimestampsLength(au) = 10 /\ au.pts # <<>> /\ au.dts # <<>>
  <2>1. HasDts(au) => au.pts # <<>> /\ au.dts # <<>>
    BY Zenon DEF HasDts
  <2>2. HasDts(au) => TimestampsLength(au) = 2 * 5
    BY <2>1, Zenon DEF TimestampsLength, TIMESTAMP_LENGTH
  <2>3. 2 * 5 = 10
    OBVIOUS
  <2> QED
    BY ONLY <2>1, <2>2, <2>3
<1>4. TimestampsLength(au) = 0 \/ TimestampsLength(au) = 5 \/ TimestampsLength(au) = 10
  BY <1>1, <1>2, <1>3, Zenon
<1>5. TimestampsLength(au) \in 0 .. 10
  BY ONLY <1>4
<1> QED
  BY ONLY <1>1, <1>2, <1>3, <1>5, Zenon

LEMMA LengthIsWritten ==
  ASSUME NEW au, au.compressedData \in Seq(Byte)
  PROVE  LET length == PesPacketLength(au)
         IN  /\ length \div 256 \in Byte /\ length % 256 \in Byte
             /\ (length \div 256) * 256 + (length % 256) = length
<1> DEFINE length == PesPacketLength(au)
           total == 3 + TimestampsLength(au) + Len(au.compressedData)
<1>1. total \in Nat
  BY TimestampsLengths, LenProperties
<1>2. length = IF total > 65535 THEN 0 ELSE total
  BY DEF PesPacketLength
<1> HIDE DEF total, length
<1>3. length \in Nat /\ length < 65536
  BY ONLY <1>1, <1>2
<1> DEFINE q == length \div 256
           m == length % 256
<1>4. q \in Int /\ m \in 0 .. 255 /\ q * 256 + m = length
  BY ONLY <1>3
<1> HIDE DEF q, m
<1>5. 0 <= q /\ q < 256
  BY ONLY <1>3, <1>4
<1>6. q \in Byte /\ m \in Byte /\ q * 256 + m = length
  BY ONLY <1>4, <1>5 DEF Byte
<1> QED
  BY ONLY <1>6 DEF q, m, length

\* What is written of a unit begins with its PES header.
LEMMA PesIsWritten ==
  ASSUME NEW au \in TSAccessUnits
  PROVE  HasPes(PesPacket(au), au) /\ Len(PesPacket(au)) = 9 + TimestampsLength(au) + Len(au.compressedData)
<1> DEFINE length == PesPacketLength(au)
           prefix == PtsPrefix(au)
           flags == IF au.pts = <<>> THEN 0 ELSE 64 * prefix
           id == streamIdFromStreamType(au.streamType)
           high == length \div 256
           low == length % 256
           n == TimestampsLength(au)
           head == <<0, 0, 1, id, high, low, 132, flags, n>>
           p == IF au.pts # <<>> THEN TimestampBytes(prefix, au.pts[1]) ELSE <<>>
           d == IF HasDts(au) THEN TimestampBytes(1, au.dts[1]) ELSE <<>>
           data == au.compressedData
           w == PesPacket(au)
<1>1. w = ((head \o p) \o d) \o data
  BY Zenon DEF PesPacket, PtsPrefix
<1>2. data \in Seq(Byte) /\ au.pts \in Seq(Timestamps) /\ au.dts \in Seq(Timestamps)
  BY DEF TSAccessUnits
<1>3. high \in Byte /\ low \in Byte /\ high * 256 + low = length
  BY <1>2, LengthIsWritten
<1>4. n \in 0 .. 10
  BY TimestampsLengths
<1>5. id \in Byte
  BY DEF streamIdFromStreamType, Byte
<1>6. prefix \in 1 .. 3 /\ (HasDts(au) => prefix = 3) /\ (~HasDts(au) => prefix = 2)
  BY DEF PtsPrefix
<1>7. /\ flags \in Byte /\ (flags \div 128 # 0 <=> au.pts # <<>>)
      /\ ((flags \div 64) % 2 # 0 <=> HasDts(au))
  <2>1. CASE au.pts = <<>>
    <3>1. flags = 0 /\ ~HasDts(au)
      BY <2>1, TimestampsLengths
    <3> HIDE DEF flags
    <3> QED
      BY ONLY <2>1, <3>1 DEF Byte
  <2>2. CASE au.pts # <<>> /\ HasDts(au)
    <3>1. flags = 192
      BY <1>6, <2>2
    <3> HIDE DEF flags
    <3> QED
      BY ONLY <2>2, <3>1 DEF Byte
  <2>3. CASE au.pts # <<>> /\ ~HasDts(au)
    <3>1. flags = 128
      BY <1>6, <2>3
    <3> HIDE DEF flags
    <3> QED
      BY ONLY <2>3, <3>1 DEF Byte
  <2> QED
    BY ONLY <2>1, <2>2, <2>3
<1> HIDE DEF length, prefix, flags, id, high, low, n, data, w
<1>8. /\ head \in Seq(Byte) /\ Len(head) = 9
      /\ head[1] = 0 /\ head[2] = 0 /\ head[3] = 1 /\ head[4] = id /\ head[5] = high /\ head[6] = low
      /\ head[8] = flags /\ head[9] = n
  BY ONLY <1>3, <1>4, <1>5, <1>7 DEF Byte
<1>9. p \in Seq(Byte) /\ Len(p) = IF au.pts # <<>> THEN 5 ELSE 0
  <2>1. CASE au.pts # <<>>
    <3>1. au.pts[1] \in Timestamps
      BY <1>2, <2>1, LenProperties, EmptySeq, ElementOfSeq
    <3> QED
      BY <1>6, <2>1, <3>1, TimestampIsWritten
  <2>2. CASE au.pts = <<>>
    BY <2>2
  <2> QED
    BY <2>1, <2>2
<1>10. d \in Seq(Byte) /\ Len(d) = IF HasDts(au) THEN 5 ELSE 0
  <2>1. CASE HasDts(au)
    <3>0. au.dts # <<>>
      BY <2>1, TimestampsLengths
    <3>1. au.dts[1] \in Timestamps
      BY <1>2, <3>0, LenProperties, EmptySeq, ElementOfSeq
    <3>2. 1 \in 1 .. 3
      OBVIOUS
    <3> QED
      BY <2>1, <3>1, <3>2, TimestampIsWritten
  <2>2. CASE ~HasDts(au)
    BY <2>2
  <2> QED
    BY <2>1, <2>2
<1>11. n = Len(p) + Len(d)
  <2> DEFINE k == Len(p)
             m == Len(d)
  <2>1. /\ k = IF au.pts # <<>> THEN 5 ELSE 0
        /\ m = IF HasDts(au) THEN 5 ELSE 0
    BY <1>9, <1>10
  <2>2. /\ au.pts = <<>> => n = 0 /\ ~HasDts(au)
        /\ au.pts # <<>> /\ ~HasDts(au) => n = 5
        /\ HasDts(au) => n = 10 /\ au.pts # <<>>
    BY TimestampsLengths, Zenon DEF n
  <2> HIDE DEF k, m
  <2>3. n = k + m
    BY ONLY <2>1, <2>2
  <2> QED
    BY ONLY <2>3 DEF k, m
<1> HIDE DEF head, p, d
<1> DEFINE hp == head \o p
           hpd == hp \o d
<1>12. /\ hp \in Seq(Byte) /\ Len(hp) = 9 + Len(p)
       /\ \A i \in 1 .. 9 : hp[i] = head[i]
       /\ \A i \in 1 .. Len(p) : hp[9 + i] = p[i]
  <2>1. head \in Seq(Byte) /\ p \in Seq(Byte)
    BY <1>8, <1>9
  <2>2. /\ head \o p \in Seq(Byte) /\ Len(head \o p) = Len(head) + Len(p)
        /\ \A i \in 1 .. Len(head) : (head \o p)[i] = head[i]
        /\ \A i \in 1 .. Len(p) : (head \o p)[Len(head) + i] = p[i]
    BY ONLY <2>1, ConcatPlaces
  <2>3. Len(head) = 9
    BY <1>8
  <2> QED
    BY ONLY <2>2, <2>3 DEF hp
<1> HIDE DEF hp
<1>13. /\ hpd \in Seq(Byte) /\ Len(hpd) = 9 + Len(p) + Len(d)
       /\ \A i \in 1 .. 9 + Len(p) : hpd[i] = hp[i]
       /\ \A i \in 1 .. Len(d) : hpd[9 + Len(p) + i] = d[i]
  <2>1. hp \in Seq(Byte) /\ d \in Seq(Byte)
    BY <1>10, <1>12
  <2>2. /\ hp \o d \in Seq(Byte) /\ Len(hp \o d) = Len(hp) + Len(d)
        /\ \A i \in 1 .. Len(hp) : (hp \o d)[i] = hp[i]
        /\ \A i \in 1 .. Len(d) : (hp \o d)[Len(hp) + i] = d[i]
    BY ONLY <2>1, ConcatPlaces
  <2>3. Len(hp) = 9 + Len(p)
    BY <1>12
  <2> QED
    BY ONLY <2>2, <2>3 DEF hpd
<1> HIDE DEF hpd
<1>14. /\ w \in Seq(Byte) /\ Len(w) = 9 + n + Len(data)
       /\ \A i \in 1 .. 9 + n : w[i] = hpd[i]
  <2>1. w = hpd \o data
    BY <1>1 DEF hp, hpd
  <2>2. /\ w \in Seq(Byte) /\ Len(w) = Len(hpd) + Len(data)
        /\ \A i \in 1 .. Len(hpd) : w[i] = hpd[i]
    <3>1. hpd \in Seq(Byte) /\ data \in Seq(Byte)
      BY <1>2, <1>13
    <3> QED
      BY ONLY <2>1, <3>1, ConcatPlaces
  <2>3. Len(hpd) = 9 + n
    BY <1>9, <1>10, <1>11, <1>13, LenProperties
  <2> QED
    BY <2>2, <2>3
<1>15. \A i \in 1 .. 9 : w[i] = head[i]
  <2>1. SUFFICES ASSUME NEW i \in 1 .. 9 PROVE w[i] = head[i]
    OBVIOUS
  <2>2. Len(p) \in Nat
    BY <1>9, LenProperties
  <2>3. i \in 1 .. 9 + Len(p) /\ i \in 1 .. 9 + n
    BY ONLY <1>4, <2>2, i \in 1 .. 9
  <2> QED
    BY ONLY <1>12, <1>13, <1>14, <2>3, i \in 1 .. 9
<1>16. au.pts # <<>> => HoldTime(w, 9, prefix, au.pts[1])
  <2>1. SUFFICES ASSUME au.pts # <<>> PROVE HoldTime(w, 9, prefix, au.pts[1])
    OBVIOUS
  <2>2. p = TimestampBytes(prefix, au.pts[1]) /\ Len(p) = 5
    BY <1>9, <2>1 DEF p
  <2>3. Len(d) \in Nat /\ Len(data) \in Nat /\ n = 5 + Len(d)
    BY <1>2, <1>10, <1>11, <2>2, LenProperties
  <2>4. ASSUME NEW k \in 1 .. 5 PROVE w[9 + k] = p[k]
    <3>1. 9 + k \in 1 .. 9 + n /\ 9 + k \in 1 .. 9 + Len(p) /\ k \in 1 .. Len(p)
      BY <2>2, <2>3
    <3> QED
      BY ONLY <1>12, <1>13, <1>14, <3>1
  <2>5. 9 + 5 <= Len(w)
    BY ONLY <1>14, <2>3
  <2> QED
    BY <2>2, <2>4, <2>5 DEF HoldTime
<1>17. HasDts(au) => HoldTime(w, 14, 1, au.dts[1])
  <2>1. SUFFICES ASSUME HasDts(au) PROVE HoldTime(w, 14, 1, au.dts[1])
    OBVIOUS
  <2>2. d = TimestampBytes(1, au.dts[1]) /\ Len(d) = 5 /\ Len(p) = 5 /\ n = 10
    <3>1. d = TimestampBytes(1, au.dts[1])
      BY <2>1 DEF d
    <3>2. au.pts # <<>> /\ n = 10
      BY <2>1, TimestampsLengths DEF n
    <3>3. Len(d) = 5 /\ Len(p) = 5
      BY ONLY <1>9, <1>10, <2>1, <3>2
    <3> QED
      BY ONLY <3>1, <3>2, <3>3
  <2>3. Len(data) \in Nat
    BY <1>2, LenProperties
  <2>4. ASSUME NEW k \in 1 .. 5 PROVE w[14 + k] = d[k]
    <3> DEFINE x == Len(p)
               y == Len(d)
    <3>2. x = 5 /\ y = 5 /\ n = 10
      BY <2>2
    <3> HIDE DEF x, y
    <3>3. 14 + k \in 1 .. 9 + n /\ 14 + k = 9 + x + k /\ k \in 1 .. y
      BY ONLY <3>2, k \in 1 .. 5
    <3>1. 14 + k \in 1 .. 9 + n /\ 14 + k = 9 + Len(p) + k /\ k \in 1 .. Len(d)
      BY ONLY <3>3 DEF x, y
    <3> QED
      BY ONLY <1>13, <1>14, <3>1
  <2>5. 14 + 5 <= Len(w)
    BY ONLY <1>14, <2>2, <2>3
  <2> QED
    BY <2>2, <2>4, <2>5 DEF HoldTime
<1>18. 9 + n <= Len(w)
  <2>1. Len(data) \in Nat
    BY <1>2, LenProperties
  <2> QED
    BY ONLY <1>4, <1>14, <2>1
<1>19. /\ w[1] = 0 /\ w[2] = 0 /\ w[3] = 1 /\ w[4] = id /\ w[5] = high /\ w[6] = low
       /\ w[8] = flags /\ w[9] = n
  BY ONLY <1>8, <1>15
<1>20. HasPes(w, au)
  <2>1. w[5] * 256 + w[6] = length
    BY <1>3, <1>19
  <2>2. (w[8] \div 128 # 0 <=> au.pts # <<>>) /\ ((w[8] \div 64) % 2 # 0 <=> HasDts(au))
    BY ONLY <1>7, <1>19
  <2>3. w \in Seq(Byte)
    BY <1>14
  <2> QED
    BY <1>16, <1>17, <1>18, <1>19, <2>1, <2>2, <2>3, Zenon DEF HasPes, n, id, length, prefix
<1> QED
  BY ONLY <1>14, <1>20 DEF w, n, data

\* So does what begins like it.
LEMMA StartHasPes ==
  ASSUME NEW w, NEW au, HasPes(w, au), NEW bytes \in Seq(Byte), 9 + TimestampsLength(au) <= Len(bytes),
         \A k \in 1 .. 9 + TimestampsLength(au) : bytes[k] = w[k]
  PROVE  HasPes(bytes, au)
<1> DEFINE n == TimestampsLength(au)
<1>1. n \in 0 .. 10 /\ (au.pts # <<>> => n >= 5) /\ (HasDts(au) => n = 10)
  BY TimestampsLengths
<1>2. 9 + n <= Len(bytes) /\ \A k \in 1 .. 9 + n : bytes[k] = w[k]
  OBVIOUS
<1> HIDE DEF n
<1>3. /\ bytes[1] = w[1] /\ bytes[2] = w[2] /\ bytes[3] = w[3] /\ bytes[4] = w[4] /\ bytes[5] = w[5]
      /\ bytes[6] = w[6] /\ bytes[8] = w[8] /\ bytes[9] = w[9]
  BY ONLY <1>1, <1>2
<1>4. Len(bytes) \in Nat
  BY LenProperties
<1>5. ASSUME NEW i \in Nat, i + 5 <= 9 + n, NEW prefix, NEW t, HoldTime(w, i, prefix, t)
      PROVE  HoldTime(bytes, i, prefix, t)
  <2>1. i + 5 <= Len(bytes)
    BY ONLY <1>1, <1>2, <1>4, <1>5
  <2>2. ASSUME NEW k \in 1 .. 5 PROVE bytes[i + k] = w[i + k]
    <3>1. i + k \in 1 .. 9 + n
      BY ONLY <1>1, <1>5, k \in 1 .. 5
    <3> QED
      BY ONLY <1>2, <3>1
  <2> QED
    BY <1>5, <2>1, <2>2 DEF HoldTime
<1>6. au.pts # <<>> => HoldTime(bytes, 9, PtsPrefix(au), au.pts[1])
  <2>1. SUFFICES ASSUME au.pts # <<>> PROVE HoldTime(bytes, 9, PtsPrefix(au), au.pts[1])
    OBVIOUS
  <2>2. 9 + 5 <= 9 + n /\ 9 \in Nat
    BY ONLY <1>1, <2>1
  <2>3. HoldTime(w, 9, PtsPrefix(au), au.pts[1])
    BY <2>1, Zenon DEF HasPes
  <2> QED
    BY ONLY <1>5, <2>2, <2>3
<1>7. HasDts(au) => HoldTime(bytes, 14, 1, au.dts[1])
  <2>1. SUFFICES ASSUME HasDts(au) PROVE HoldTime(bytes, 14, 1, au.dts[1])
    OBVIOUS
  <2>2. 14 + 5 <= 9 + n /\ 14 \in Nat
    BY ONLY <1>1, <2>1
  <2>3. HoldTime(w, 14, 1, au.dts[1])
    BY <2>1, Zenon DEF HasPes
  <2> QED
    BY ONLY <1>5, <2>2, <2>3
<1>8. /\ w[1] = 0 /\ w[2] = 0 /\ w[3] = 1 /\ w[4] = streamIdFromStreamType(au.streamType)
      /\ w[5] * 256 + w[6] = PesPacketLength(au)
      /\ (w[8] \div 128 # 0 <=> au.pts # <<>>) /\ ((w[8] \div 64) % 2 # 0 <=> HasDts(au))
      /\ w[9] = TimestampsLength(au)
  BY Zenon DEF HasPes
<1>9. /\ bytes[1] = 0 /\ bytes[2] = 0 /\ bytes[3] = 1 /\ bytes[4] = streamIdFromStreamType(au.streamType)
      /\ bytes[5] * 256 + bytes[6] = PesPacketLength(au)
      /\ (bytes[8] \div 128 # 0 <=> au.pts # <<>>) /\ ((bytes[8] \div 64) % 2 # 0 <=> HasDts(au))
      /\ bytes[9] = TimestampsLength(au)
  BY ONLY <1>3, <1>8
<1> QED
  BY <1>6, <1>7, <1>9, Zenon DEF HasPes

\* What is read of a PES packet that begins with the header of a unit.
PesRead(au, disc) ==
  <<[pts |-> au.pts, dts |-> IF HasDts(au) THEN au.dts ELSE <<>>, isDiscontinuous |-> disc,
     payloadOffset |-> 9 + TimestampsLength(au), pesPacketLength |-> PesPacketLength(au)]>>

LEMMA MadeAt ==
  ASSUME NEW bytes \in Seq(Byte)
  PROVE  IsAt(Make(bytes), bytes, 0, 0)
<1> DEFINE r == Make(bytes)
<1>1. r = [bytes |-> bytes, byteOffset |-> 0, bitOffset |-> 0, error |-> FALSE, value |-> 0, data |-> <<>>]
  BY Zenon DEF Make, ReaderOf
<1>2. <<>> \in Seq(Byte)
  OBVIOUS
<1> HIDE DEF r
<1>3. r \in ReadersOf({0}) /\ r.bytes = bytes /\ r.byteOffset = 0 /\ r.bitOffset = 0 /\ r.error = FALSE
  BY ONLY <1>1, <1>2, bytes \in Seq(Byte) DEF ReadersOf
<1>4. IsAt(r, bytes, 0, 0)
  BY <1>3, Zenon DEF IsAt
<1> QED
  BY <1>4 DEF r

\* A sequence of at most one.
LEMMA AtMostOne ==
  ASSUME NEW S, NEW s \in Seq(S), Len(s) <= 1
  PROVE  s # <<>> => s[1] \in S /\ s = <<s[1]>>
<1>1. SUFFICES ASSUME s # <<>> PROVE s[1] \in S /\ s = <<s[1]>>
  OBVIOUS
<1>2. Len(s) = 1
  <2> DEFINE n == Len(s)
  <2>1. n \in Nat
    BY LenProperties
  <2>2. n # 0
    BY <1>1, EmptySeq
  <2>3. n <= 1
    OBVIOUS
  <2> HIDE DEF n
  <2>4. n = 1
    BY ONLY <2>1, <2>2, <2>3
  <2> QED
    BY ONLY <2>4 DEF n
<1>3. s[1] \in S
  BY <1>2, ElementOfSeq
<1> QED
  BY <1>2, <1>3

LEMMA PesIsRead ==
  ASSUME NEW au \in TSAccessUnits, Len(au.pts) <= 1, Len(au.dts) <= 1,
         NEW bytes, HasPes(bytes, au), NEW disc
  PROVE  ParseFromPayload(bytes, disc) = PesRead(au, disc)
<1> DEFINE startCode == ReadData(Make(bytes), 3)
           streamId  == ReadUInt8(startCode)
           length    == ReadUInt16BE(streamId)
           skipped   == Skip(length, 1)
           hasPts    == ReadBits(skipped, 1)
           hasDts    == ReadBits(hasPts, 1)
           more      == SkipBits(hasDts, 6)
           dataLength == ReadUInt8(more)
           n == TimestampsLength(au)
           id == streamIdFromStreamType(au.streamType)
<1>1. /\ bytes \in Seq(Byte) /\ 9 + n <= Len(bytes)
      /\ bytes[1] = 0 /\ bytes[2] = 0 /\ bytes[3] = 1 /\ bytes[4] = id
      /\ bytes[5] * 256 + bytes[6] = PesPacketLength(au)
      /\ (bytes[8] \div 128 # 0 <=> au.pts # <<>>) /\ ((bytes[8] \div 64) % 2 # 0 <=> HasDts(au))
      /\ bytes[9] = n
  BY Zenon DEF HasPes
<1>2. n \in 0 .. 10 /\ Len(bytes) \in Nat
  BY <1>1, TimestampsLengths, LenProperties
<1> HIDE DEF n, id
<1>3. 9 <= Len(bytes) /\ ~(Len(bytes) < 6) /\ ~(Len(bytes) < 9)
  BY ONLY <1>1, <1>2
<1>4. IsAt(Make(bytes), bytes, 0, 0)
  BY <1>1, MadeAt
<1>5. IsAt(startCode, bytes, 3, 0) /\ startCode.data = <<0, 0, 1>>
  <2>1. 0 + 3 <= Len(bytes) /\ 0 + 3 = 3 /\ 0 + 1 = 1 /\ 0 \in Nat
    BY ONLY <1>2, <1>3
  <2>2. /\ IsAt(ReadData(Make(bytes), 3), bytes, 0 + 3, 0)
        /\ ReadData(Make(bytes), 3).data = SubSeq(bytes, 0 + 1, 0 + 3)
    BY ONLY <1>1, <1>4, <2>1, BytesOn
  <2>3. SubSeq(bytes, 1, 3) = <<0, 0, 1>>
    <3> DEFINE s == SubSeq(bytes, 1, 3)
    <3>1. bytes \in Seq(Byte) /\ 1 \in Int /\ 3 \in Int /\ 1 <= 1 /\ 3 <= Len(bytes) /\ 1 <= 3 + 1
      BY <1>1, <1>2, <1>3
    <3>2. s \in Seq(Byte) /\ Len(s) = 3 - 1 + 1 /\ \A i \in 1 .. 3 - 1 + 1 : s[i] = bytes[1 + i - 1]
      BY ONLY <3>1, SubSeqPlaces
    <3> HIDE DEF s
    <3>3. Len(s) = 3 /\ s[1] = 0 /\ s[2] = 0 /\ s[3] = 1
      BY ONLY <1>1, <3>2
    <3>4. s \in Seq(Byte)
      BY <3>2
    <3>5. s = <<0, 0, 1>>
      BY ONLY <3>3, <3>4
    <3> QED
      BY <3>5 DEF s
  <2> QED
    BY ONLY <2>1, <2>2, <2>3
<1> HIDE DEF startCode
<1>6. IsAt(streamId, bytes, 4, 0) /\ streamId.value = id
  <2>1. 3 + 1 <= Len(bytes) /\ 3 + 1 = 4 /\ 3 \in Nat
    BY ONLY <1>2, <1>3
  <2>2. IsAt(ReadUInt8(startCode), bytes, 3 + 1, 0) /\ ReadUInt8(startCode).value = bytes[3 + 1]
    BY ONLY <1>1, <1>5, <2>1, BytesOn
  <2> QED
    BY ONLY <1>1, <2>1, <2>2
<1> HIDE DEF streamId
<1>7. IsAt(length, bytes, 6, 0) /\ length.value = PesPacketLength(au)
  <2> DEFINE i == 4
  <2>1. i + 2 <= Len(bytes) /\ i + 2 = 6 /\ i + 1 = 5 /\ i \in Nat
    BY ONLY <1>2, <1>3
  <2>2. IsAt(streamId, bytes, i, 0) /\ bytes \in Seq(Byte)
    BY <1>1, <1>6
  <2> HIDE DEF i
  <2>3. IsAt(ReadUInt16BE(streamId), bytes, i + 2, 0) /\ ReadUInt16BE(streamId).value = bytes[i + 1] * 256 + bytes[i + 2]
    BY ONLY <2>1, <2>2, BytesOn
  <2> QED
    BY ONLY <1>1, <2>1, <2>3
<1> HIDE DEF length
<1>8. IsAt(skipped, bytes, 7, 0)
  <2>1. 6 + 1 <= Len(bytes) /\ 6 + 1 = 7 /\ 6 \in Nat
    BY ONLY <1>2, <1>3
  <2>2. IsAt(Skip(length, 1), bytes, 6 + 1, 0)
    BY ONLY <1>1, <1>7, <2>1, BytesOn
  <2> QED
    BY ONLY <2>1, <2>2
<1> HIDE DEF skipped
<1> DEFINE Follows(x, b, k, q, c) ==
             /\ IsAt(ReadBits(x, k), bytes, q, c)
             /\ ReadBits(x, k).value = BitsIn(bytes, 7, b, k)
             /\ IsAt(SkipBits(x, k), bytes, q, c)
<1>9. ASSUME NEW x, NEW b \in 0 .. 7, IsAt(x, bytes, 7, b), NEW k \in 1 .. 32,
             NEW q \in Nat, NEW c \in 0 .. 7, q * 8 + c = 7 * 8 + b + k, q * 8 + c <= 64
      PROVE  Follows(x, b, k, q, c)
  <2>1. q * 8 + c <= Len(bytes) * 8 /\ 7 \in Nat
    BY <1>2, <1>3, <1>9
  <2>2. bytes \in Seq(Byte) /\ IsAt(x, bytes, 7, b) /\ q * 8 + c = 7 * 8 + b + k
    BY <1>1, <1>9
  <2>3. /\ IsAt(ReadBits(x, k), bytes, q, c)
        /\ ReadBits(x, k).value = BitsIn(bytes, 7, b, k)
        /\ IsAt(SkipBits(x, k), bytes, q, c)
    BY <2>1, <2>2, ReadBitsOn
  <2> QED
    BY <2>3
<1> HIDE DEF Follows
<1>10. BitsIn(bytes, 7, 0, 1) = bytes[8] \div 128 /\ BitsIn(bytes, 7, 1, 1) = (bytes[8] \div 64) % 2
  <2>1. 7 \in Nat /\ 7 + 1 < Len(bytes) /\ 7 + 1 = 8
    BY ONLY <1>2, <1>3
  <2> QED
    BY ONLY <1>1, <2>1, BitsFromBytes
<1>11. IsAt(hasPts, bytes, 7, 1) /\ (hasPts.value # 0 <=> au.pts # <<>>)
  <2>1. 7 * 8 + 1 = 7 * 8 + 0 + 1 /\ 7 * 8 + 1 <= 64 /\ 7 \in Nat /\ 0 \in 0 .. 7 /\ 1 \in 1 .. 32 /\ 1 \in 0 .. 7
    OBVIOUS
  <2>2. Follows(skipped, 0, 1, 7, 1)
    BY ONLY <1>8, <1>9, <2>1
  <2> QED
    BY ONLY <1>1, <1>10, <2>2 DEF Follows
<1> HIDE DEF hasPts
<1>12. IsAt(hasDts, bytes, 7, 2) /\ (hasDts.value # 0 <=> HasDts(au))
  <2>1. 7 * 8 + 2 = 7 * 8 + 1 + 1 /\ 7 * 8 + 2 <= 64 /\ 7 \in Nat /\ 1 \in 0 .. 7 /\ 1 \in 1 .. 32 /\ 2 \in 0 .. 7
    OBVIOUS
  <2>2. Follows(hasPts, 1, 1, 7, 2)
    BY ONLY <1>11, <1>9, <2>1
  <2> QED
    BY ONLY <1>1, <1>10, <2>2 DEF Follows
<1> HIDE DEF hasDts
<1>13. IsAt(more, bytes, 8, 0)
  <2>1. 8 * 8 + 0 = 7 * 8 + 2 + 6 /\ 8 * 8 + 0 <= 64 /\ 8 \in Nat /\ 2 \in 0 .. 7 /\ 6 \in 1 .. 32 /\ 0 \in 0 .. 7
    OBVIOUS
  <2>2. Follows(hasDts, 2, 6, 8, 0)
    BY ONLY <1>12, <1>9, <2>1
  <2> QED
    BY ONLY <2>2 DEF Follows
<1> HIDE DEF more
<1>14. IsAt(dataLength, bytes, 9, 0) /\ dataLength.value = n
  <2>1. 8 + 1 <= Len(bytes) /\ 8 + 1 = 9 /\ 8 \in Nat
    BY ONLY <1>2, <1>3
  <2>2. IsAt(ReadUInt8(more), bytes, 8 + 1, 0) /\ ReadUInt8(more).value = bytes[8 + 1]
    BY ONLY <1>1, <1>13, <2>1, BytesOn
  <2> QED
    BY ONLY <1>1, <2>1, <2>2
<1> HIDE DEF dataLength
<1> DEFINE prefix == IF hasDts.value # 0 THEN 3 ELSE 2
           pts    == ParseTimestamp(dataLength, prefix)
           dts    == ParseTimestamp(pts.reader, 1)
<1>15. prefix = PtsPrefix(au) /\ prefix \in 1 .. 3
  BY ONLY <1>12 DEF PtsPrefix
<1> HIDE DEF prefix
<1>16. au.pts # <<>> => IsAt(pts.reader, bytes, 14, 0) /\ pts.time = au.pts
  <2>1. SUFFICES ASSUME au.pts # <<>> PROVE IsAt(pts.reader, bytes, 14, 0) /\ pts.time = au.pts
    OBVIOUS
  <2>2. au.pts[1] \in Timestamps /\ au.pts = <<au.pts[1]>>
    <3>1. au.pts \in Seq(Timestamps)
      BY DEF TSAccessUnits
    <3> QED
      BY <2>1, <3>1, AtMostOne
  <2>3. HoldTime(bytes, 9, prefix, au.pts[1])
    BY <2>1, <1>15, Zenon DEF HasPes
  <2>4. 9 \in Nat /\ 9 + 5 = 14
    OBVIOUS
  <2> DEFINE t == au.pts[1]
  <2>5. t \in Timestamps /\ HoldTime(bytes, 9, prefix, t)
    BY <2>2, <2>3
  <2> HIDE DEF t
  <2>6. IsAt(pts.reader, bytes, 9 + 5, 0) /\ pts.time = <<t>>
    BY ONLY <1>1, <1>14, <1>15, <2>4, <2>5, TimestampIsRead
  <2>7. IsAt(pts.reader, bytes, 14, 0)
    BY ONLY <2>4, <2>6
  <2>8. pts.time = au.pts
    BY ONLY <2>2, <2>6 DEF t
  <2> QED
    BY ONLY <2>7, <2>8
<1>17. HasDts(au) => dts.time = au.dts /\ au.pts # <<>>
  <2>1. SUFFICES ASSUME HasDts(au) PROVE dts.time = au.dts /\ au.pts # <<>>
    OBVIOUS
  <2>2. au.dts # <<>> /\ au.pts # <<>>
    BY <2>1, TimestampsLengths
  <2>3. au.dts[1] \in Timestamps /\ au.dts = <<au.dts[1]>>
    <3>1. au.dts \in Seq(Timestamps)
      BY DEF TSAccessUnits
    <3> QED
      BY <2>2, <3>1, AtMostOne
  <2> DEFINE t == au.dts[1]
             r == pts.reader
  <2>4. t \in Timestamps /\ HoldTime(bytes, 14, 1, t)
    BY <2>1, <2>3, Zenon DEF HasPes
  <2>5. 14 \in Nat /\ 1 \in 1 .. 3
    OBVIOUS
  <2>6. IsAt(r, bytes, 14, 0)
    BY <1>16, <2>2
  <2> HIDE DEF t, r
  <2>7. ParseTimestamp(r, 1).time = <<t>>
    BY ONLY <1>1, <2>4, <2>5, <2>6, TimestampIsRead
  <2>8. dts.time = au.dts
    BY ONLY <2>3, <2>7 DEF t, r
  <2> QED
    BY ONLY <2>2, <2>8
<1>18. ~streamIdHasNoOptionalHeader(streamId.value)
  <2>1. id \in {189, 192, 224}
    BY DEF id, streamIdFromStreamType
  <2> QED
    BY ONLY <1>6, <2>1 DEF streamIdHasNoOptionalHeader
<1>19. ~(\/ Len(bytes) < 9
         \/ 9 + dataLength.value > Len(bytes)
         \/ hasPts.value # 0 /\ Len(bytes) < 9 + TIMESTAMP_LENGTH
         \/ hasDts.value # 0 /\ Len(bytes) < 9 + 2 * TIMESTAMP_LENGTH)
  <2>1. (hasPts.value # 0 => n >= 5) /\ (hasDts.value # 0 => n = 10)
    <3>1. (au.pts # <<>> => n >= 5) /\ (HasDts(au) => n = 10)
      BY TimestampsLengths DEF n
    <3> QED
      BY ONLY <1>11, <1>12, <3>1
  <2>2. TIMESTAMP_LENGTH = 5
    BY DEF TIMESTAMP_LENGTH
  <2> QED
    BY ONLY <1>1, <1>2, <1>3, <1>14, <2>1, <2>2
<1> DEFINE presented == IF hasPts.value # 0 THEN pts.time ELSE <<>>
           decoded == IF hasPts.value # 0 /\ hasDts.value # 0 THEN dts.time ELSE <<>>
           read == ParseFromPayload(bytes, disc)
<1> HIDE DEF pts, dts
<1>20. presented = au.pts /\ decoded = IF HasDts(au) THEN au.dts ELSE <<>>
  BY ONLY <1>11, <1>12, <1>16, <1>17
<1>21. read = <<[pts |-> presented, dts |-> decoded, isDiscontinuous |-> disc,
                 payloadOffset |-> 9 + dataLength.value, pesPacketLength |-> length.value]>>
  <2>1. ~(Len(bytes) < 6 \/ startCode.data # <<0, 0, 1>>)
    BY ONLY <1>3, <1>5
  <2> QED
    BY ONLY <2>1, <1>18, <1>19, Zenon DEF ParseFromPayload, pts, dts, prefix, dataLength, more, hasDts, hasPts,
       skipped, length, streamId, startCode
<1> HIDE DEF presented, decoded, read
<1>22. read = PesRead(au, disc)
  BY ONLY <1>7, <1>14, <1>20, <1>21, Zenon DEF PesRead, n
<1> QED
  BY <1>22 DEF read

-----------------------------------------------------------------------------
(* The first packet of an access unit *)

\* The first packet of a payload carries its first 176 bytes at least, or all of them.
AreFlags(flags) == flags.pcr \in BOOLEAN /\ flags.disc \in BOOLEAN /\ flags.rai \in BOOLEAN

IsBegin(n, length) == length \in Nat \ {0} /\ n \in Nat /\ n <= length /\ n <= 176

IsFirstOf(p, length, flags, n) ==
  /\ p.from = 0 /\ p.bytes \in Nat /\ n <= p.bytes /\ p.bytes <= length
  /\ p.payload = TRUE /\ p.pusi = TRUE
  /\ p.field = <<>> => ~flags.disc
  /\ p.field # <<>> => p.field = <<p.field[1]>> /\ p.field[1].disc = flags.disc

LEMMA FirstBytesFit ==
  ASSUME NEW length, NEW flags, AreFlags(flags), NEW cc, NEW n, IsBegin(n, length)
  PROVE  IsFirstOf(PacketOf(length, length, TRUE, flags, cc), length, flags, n)
<1> DEFINE p == PacketOf(length, length, TRUE, flags, cc)
           hasFlags == flags.pcr \/ flags.disc \/ flags.rai
           f == AdaptationField(flags.pcr, flags.disc, flags.rai, length)
           field == IF hasFlags \/ length < PacketSpace THEN <<f>> ELSE <<>>
           k == PcrBytes(flags.pcr)
           space == PacketSpace - 2 - k
           stuffed == space - Smaller(space, length)
           single == ~hasFlags /\ length = 183
           put == Smaller(PacketSpace - FieldBytes(field), length)
<1>0. /\ flags.pcr \in BOOLEAN /\ flags.disc \in BOOLEAN /\ flags.rai \in BOOLEAN
      /\ length \in Nat \ {0} /\ n \in Nat /\ n <= length /\ n <= 176
  BY Zenon DEF AreFlags, IsBegin
<1>1. p = [cc |-> cc, pusi |-> TRUE, payload |-> TRUE, field |-> field, from |-> length - length, bytes |-> put]
  <2>1. /\ flags.pcr /\ TRUE <=> flags.pcr
        /\ flags.disc /\ TRUE <=> flags.disc
        /\ flags.rai /\ TRUE <=> flags.rai
    BY <1>0
  <2> QED
    BY <1>0, <2>1, Zenon DEF PacketOf
<1>2. f = [length |-> IF single THEN 0 ELSE 1 + k + stuffed, disc |-> flags.disc, rai |-> flags.rai,
           pcr |-> flags.pcr, stuffed |-> IF single THEN 0 ELSE stuffed]
  BY Zenon DEF AdaptationField
<1>3. k \in {0, 6} /\ PacketSpace = 184
  BY DEF PcrBytes, PacketSpace, TS_PACKET_SIZE_188, TS_PACKET_HEADER_SIZE
<1> HIDE DEF f, p, k
<1>4. /\ f.length = (IF single THEN 0 ELSE 1 + k + stuffed) /\ f.disc = flags.disc
      /\ f.pcr = flags.pcr /\ f.stuffed = IF single THEN 0 ELSE stuffed
  BY ONLY <1>2
<1>5. FieldBytes(<<f>>) = IF f.length = 0 THEN 1 ELSE 2 + k + f.stuffed
  <2>1. <<f>> # <<>> /\ <<f>>[1] = f
    OBVIOUS
  <2> QED
    BY ONLY <1>4, <2>1, Zenon DEF FieldBytes, k
<1>6. put \in Nat /\ n <= put /\ put <= length
  <2>1. CASE hasFlags \/ length < PacketSpace
    <3>1. field = <<f>>
      BY <2>1
    <3>2. Smaller(space, length) \in Nat /\ Smaller(space, length) <= space /\ space \in {182, 176}
          /\ (Smaller(space, length) = space \/ Smaller(space, length) = length) /\ Smaller(space, length) <= length
      BY <1>0, <1>3 DEF Smaller
    <3> HIDE DEF field
    <3>3. CASE single
      <4>1. FieldBytes(<<f>>) = 1
        BY <1>4, <1>5, <3>3
      <4>2. put = 183 /\ length = 183
        BY <1>0, <1>3, <3>1, <3>3, <4>1 DEF Smaller
      <4> HIDE DEF put
      <4> QED
        BY ONLY <4>2, <1>0
    <3>4. CASE ~single
      <4> DEFINE least == Smaller(space, length)
      <4>1. f.stuffed = space - least /\ f.length = 1 + k + (space - least)
        BY <1>4, <3>4
      <4>2. k \in Nat /\ space = 182 - k /\ least \in Nat /\ least <= space /\ space \in Int
            /\ (least = space \/ least = length) /\ space >= 176 /\ least <= length
        BY <1>3, <3>2
      <4> HIDE DEF least, space
      <4>3. FieldBytes(<<f>>) = 2 + k + (space - least)
        BY ONLY <1>5, <4>1, <4>2
      <4>4. PacketSpace - FieldBytes(<<f>>) = least
        BY ONLY <1>3, <4>2, <4>3
      <4>5. put = Smaller(least, length)
        BY <3>1, <4>4
      <4>6. put = least
        BY ONLY <4>2, <4>5, <1>0 DEF Smaller
      <4> HIDE DEF put
      <4> QED
        BY ONLY <4>2, <4>6, <1>0
    <3> QED
      BY <3>3, <3>4
  <2>2. CASE ~(hasFlags \/ length < PacketSpace)
    <3>1. field = <<>> /\ length >= 184
      BY <1>0, <1>3, <2>2
    <3>2. put = 184
      BY <1>0, <1>3, <3>1 DEF FieldBytes, Smaller
    <3> HIDE DEF put
    <3> QED
      BY ONLY <3>1, <3>2, <1>0
  <2> QED
    BY <2>1, <2>2
<1>7. /\ field = <<>> => ~flags.disc
      /\ field # <<>> => field = <<field[1]>> /\ field[1].disc = flags.disc
  <2>1. field = <<f>> \/ (field = <<>> /\ ~flags.disc)
    BY <1>0
  <2> HIDE DEF field
  <2>2. <<f>> # <<>> /\ <<f>>[1] = f
    OBVIOUS
  <2> QED
    BY ONLY <1>4, <2>1, <2>2
<1> HIDE DEF field, put
<1>8. /\ p.pusi = TRUE /\ p.payload = TRUE /\ p.field = field /\ p.from = length - length /\ p.bytes = put
  BY ONLY <1>1
<1>9. length - length = 0
  BY <1>0
<1> QED
  BY <1>0, <1>6, <1>7, <1>8, <1>9, Zenon DEF p, IsFirstOf

FirstPacketOf(au, flags, cc, pid, pcr) ==
  LET payload == PesPacket(au)
      length  == Len(payload)
  IN  MuxedPacket(PacketOf(length, length, TRUE, flags, cc), pid, pcr, payload)

\* The PES header of the first packet of an access unit is read as it was written, with its times
\* to the last bit, whatever else the packet carries: a decode time only behind a presentation time.
THEOREM TimesAreRead ==
  ASSUME NEW au \in TSAccessUnits, Len(au.pts) <= 1, Len(au.dts) <= 1,
         NEW flags, flags.pcr \in BOOLEAN, flags.disc \in BOOLEAN, flags.rai \in BOOLEAN,
         NEW cc \in 0 .. 15, NEW pid \in Bits(13), NEW pcr \in Pcrs
  PROVE  PesHeaderOf(FirstPacketOf(au, flags, cc, pid, pcr)) = PesRead(au, flags.disc)
<1> DEFINE payload == PesPacket(au)
           length == Len(payload)
           n == 9 + TimestampsLength(au)
           p == PacketOf(length, length, TRUE, flags, cc)
           cut == SubSeq(payload, p.from + 1, p.from + p.bytes)
           parts == IF p.payload THEN <<cut>> ELSE <<>>
           packet == MuxedPacket(p, pid, pcr, payload)
<1>1. HasPes(payload, au) /\ length = 9 + TimestampsLength(au) + Len(au.compressedData)
  BY PesIsWritten
<1>2. payload \in Seq(Byte)
  BY <1>1, Zenon DEF HasPes
<1>3. n \in Nat /\ n <= 176 /\ n <= length /\ length \in Nat \ {0}
  <2>1. au.compressedData \in Seq(Byte)
    BY DEF TSAccessUnits
  <2>2. Len(au.compressedData) \in Nat /\ TimestampsLength(au) \in 0 .. 10
    BY <2>1, LenProperties, TimestampsLengths
  <2> DEFINE x == TimestampsLength(au)
             y == Len(au.compressedData)
  <2>3. x \in 0 .. 10 /\ y \in Nat
    BY <2>2
  <2>4. length = 9 + x + y /\ n = 9 + x
    BY <1>1
  <2> HIDE DEF payload, length, n, x, y
  <2> QED
    BY ONLY <2>3, <2>4
<1> HIDE DEF payload, length, n
<1>4. /\ p.from = 0 /\ p.bytes \in Nat /\ n <= p.bytes /\ p.bytes <= length
      /\ p.payload = TRUE /\ p.pusi = TRUE
      /\ p.field = <<>> => ~flags.disc
      /\ p.field # <<>> => p.field = <<p.field[1]>> /\ p.field[1].disc = flags.disc
  <2>1. AreFlags(flags) /\ IsBegin(n, length)
    BY <1>3, Zenon DEF AreFlags, IsBegin
  <2>2. IsFirstOf(p, length, flags, n)
    BY <2>1, FirstBytesFit, Zenon
  <2> QED
    BY ONLY <2>2, Zenon DEF IsFirstOf
<1> HIDE DEF p
<1>5. cut \in Seq(Byte) /\ HasPes(cut, au)
  <2> DEFINE a == p.from + 1
             b == p.from + p.bytes
  <2>1. a = 1 /\ b = p.bytes /\ a \in Int /\ b \in Int /\ 1 <= a /\ b <= Len(payload) /\ a <= b + 1
    BY <1>4 DEF length
  <2>2. n <= b - a + 1 /\ b - a + 1 \in Nat
    BY ONLY <1>3, <1>4, <2>1
  <2> HIDE DEF a, b
  <2>3. /\ SubSeq(payload, a, b) \in Seq(Byte) /\ Len(SubSeq(payload, a, b)) = b - a + 1
        /\ \A i \in 1 .. b - a + 1 : SubSeq(payload, a, b)[i] = payload[a + i - 1]
    BY ONLY <1>2, <2>1, SubSeqPlaces
  <2> DEFINE c == SubSeq(payload, a, b)
  <2>4. c \in Seq(Byte) /\ n <= Len(c)
    BY <2>2, <2>3
  <2>5. ASSUME NEW i \in 1 .. n PROVE c[i] = payload[i]
    <3>1. i \in 1 .. b - a + 1 /\ a + i - 1 = i
      BY ONLY <1>3, <2>1, <2>2, i \in 1 .. n
    <3> QED
      BY ONLY <2>3, <3>1
  <2> HIDE DEF c
  <2>6. HasPes(c, au)
    BY <1>1, <2>4, <2>5, StartHasPes DEF n
  <2> QED
    BY <2>4, <2>6 DEF c, a, b
<1> HIDE DEF cut
<1>6. ParseFromPayload(cut, flags.disc) = PesRead(au, flags.disc)
  BY <1>5, PesIsRead
<1>7. FlattenSeq(parts) = cut
  <2>1. parts = <<cut>>
    BY <1>4
  <2> QED
    BY <1>5, <2>1, FlattenOne
<1> DEFINE field == [i \in DOMAIN p.field |->
                       [adaptationFieldLength |-> p.field[i].length, flags |-> FlagsFrom(p.field[i]),
                        pcr |-> IF p.field[i].pcr THEN pcr ELSE NoPcrValue,
                        numberOfStuffedBytes |-> p.field[i].stuffed]]
<1>8. packet.header.payloadUnitStartIndicator = TRUE /\ packet.adaptationField = field /\ packet.payload = parts
  BY <1>4 DEF MuxedPacket, FlagsFrom, cut
<1> HIDE DEF parts, packet
<1>9. (\E i \in DOMAIN packet.adaptationField : "discontinuity" \in packet.adaptationField[i].flags) = flags.disc
  <2>1. DOMAIN field = DOMAIN p.field /\ \A i \in DOMAIN p.field : field[i].flags = FlagsFrom(p.field[i])
    OBVIOUS
  <2> HIDE DEF field
  <2>2. ASSUME NEW f PROVE "discontinuity" \in FlagsFrom(f) <=> f.disc
    <3>1. "discontinuity" \in Range(FlagNames)
      <4>1. FlagNames[1] = "discontinuity" /\ 1 \in 1 .. 8
        BY DEF FlagNames
      <4> QED
        BY <4>1, FlagNamesAre
    <3> QED
      BY ONLY <3>1 DEF FlagsFrom
  <2>3. CASE p.field = <<>>
    <3>1. DOMAIN p.field = {}
      BY <2>3
    <3> QED
      BY <1>4, <1>8, <2>1, <2>3, <3>1
  <2>4. CASE p.field # <<>>
    <3> DEFINE f == p.field[1]
    <3>1. p.field = <<f>> /\ f.disc = flags.disc
      BY <1>4, <2>4
    <3> HIDE DEF f
    <3>2. DOMAIN p.field = {1} /\ p.field[1] = f
      BY ONLY <3>1
    <3>3. DOMAIN field = {1} /\ field[1].flags = FlagsFrom(f)
      BY ONLY <2>1, <3>2
    <3>4. (\E i \in DOMAIN field : "discontinuity" \in field[i].flags) <=> f.disc
      BY ONLY <2>2, <3>3
    <3> QED
      BY <1>8, <3>1, <3>4
  <2> QED
    BY <2>3, <2>4
<1>10. PesHeaderOf(packet) = ParseFromPayload(cut, flags.disc)
  BY ONLY <1>7, <1>8, <1>9 DEF PesHeaderOf
<1>11. FirstPacketOf(au, flags, cc, pid, pcr) = packet
  BY Zenon DEF FirstPacketOf, packet, p, payload, length
<1> QED
  BY ONLY <1>6, <1>10, <1>11

-----------------------------------------------------------------------------
(* Chunks of what the muxer sends *)

PacketFlags == [pcr : BOOLEAN, disc : BOOLEAN, rai : BOOLEAN]

\* What the muxer sends, and the PES header that is in it: the first packet of a unit;
BeginsUnit(packet, pesHeader) ==
  \E au \in TSAccessUnits, flags \in PacketFlags, cc \in 0 .. 15, pid \in Bits(13), pcr \in Pcrs :
    /\ Len(au.pts) <= 1 /\ Len(au.dts) <= 1
    /\ packet = FirstPacketOf(au, flags, cc, pid, pcr)
    /\ pesHeader = PesRead(au, flags.disc)

\* any packet of a unit or a table;
IsPartOf(packet, isFirst) ==
  \E payload \in Seq(Byte), flags \in PacketFlags, cc \in 0 .. 15, pid \in Bits(13), pcr \in Pcrs :
    \E remaining \in 1 .. Len(payload) :
      packet = MuxedPacket(PacketOf(Len(payload), remaining, isFirst, flags, cc), pid, pcr, payload)

\* a clock reference on its own.
IsPcrPacket(packet) ==
  \E cc \in 0 .. 15, pid \in Bits(13), pcr \in Pcrs :
    packet = MuxedPacket(PcrPacketOf(cc), pid, pcr, <<>>)

\* The first packet of a table has no PES header, and goes to no stream builder: what one would
\* make of it is left open.
IsMuxed(packet, pesHeader) ==
  \/ BeginsUnit(packet, pesHeader)
  \/ IsPartOf(packet, FALSE) /\ pesHeader = <<>>
  \/ IsPartOf(packet, TRUE) /\ pesHeader = PesHeaderOf(packet)
  \/ IsPcrPacket(packet) /\ pesHeader = <<>>

\* All of them are read as they were written, with that header.
LEMMA PartIsRead ==
  ASSUME NEW packet, NEW isFirst \in BOOLEAN, IsPartOf(packet, isFirst)
  PROVE  IsReadBack(packet)
<1>1. PICK payload \in Seq(Byte), flags \in PacketFlags, cc \in 0 .. 15, pid \in Bits(13), pcr \in Pcrs :
        \E remaining \in 1 .. Len(payload) :
          packet = MuxedPacket(PacketOf(Len(payload), remaining, isFirst, flags, cc), pid, pcr, payload)
  BY Zenon DEF IsPartOf
<1>2. PICK remaining \in 1 .. Len(payload) :
        packet = MuxedPacket(PacketOf(Len(payload), remaining, isFirst, flags, cc), pid, pcr, payload)
  BY Zenon, <1>1
<1>3. flags.pcr \in BOOLEAN /\ flags.disc \in BOOLEAN /\ flags.rai \in BOOLEAN
  BY ONLY flags \in PacketFlags DEF PacketFlags
<1>4. IsReadBack(MuxedPacket(PacketOf(Len(payload), remaining, isFirst, flags, cc), pid, pcr, payload))
  BY ONLY <1>3, payload \in Seq(Byte), remaining \in 1 .. Len(payload), isFirst \in BOOLEAN,
          cc \in 0 .. 15, pid \in Bits(13), pcr \in Pcrs, PacketsAreRead
<1> QED
  BY ONLY <1>2, <1>4, Zenon

LEMMA UnitIsPayload ==
  ASSUME NEW au \in TSAccessUnits, Len(au.pts) <= 1, Len(au.dts) <= 1
  PROVE  PesPacket(au) \in Seq(Byte) /\ Len(PesPacket(au)) \in 1 .. Len(PesPacket(au))
<1>1. HasPes(PesPacket(au), au) /\ Len(PesPacket(au)) = 9 + TimestampsLength(au) + Len(au.compressedData)
  BY PesIsWritten
<1>2. TimestampsLength(au) \in Nat /\ Len(au.compressedData) \in Nat
  <2>1. au.compressedData \in Seq(Byte)
    BY DEF TSAccessUnits
  <2>2. Len(au.compressedData) \in Nat
    BY ONLY <2>1, LenProperties
  <2> QED
    BY ONLY <2>2 DEF TimestampsLength, TIMESTAMP_LENGTH
<1>3. PesPacket(au) \in Seq(Byte)
  BY ONLY <1>1, Zenon DEF HasPes
<1> QED
  BY ONLY <1>1, <1>2, <1>3

LEMMA BeginIsRead ==
  ASSUME NEW packet, NEW pesHeader, BeginsUnit(packet, pesHeader)
  PROVE  IsReadBack(packet) /\ pesHeader = PesHeaderOf(packet)
<1>1. PICK au \in TSAccessUnits, flags \in PacketFlags, cc \in 0 .. 15, pid \in Bits(13), pcr \in Pcrs :
        /\ Len(au.pts) <= 1 /\ Len(au.dts) <= 1
        /\ packet = FirstPacketOf(au, flags, cc, pid, pcr)
        /\ pesHeader = PesRead(au, flags.disc)
  BY Zenon DEF BeginsUnit
<1> DEFINE payload == PesPacket(au)
           length == Len(payload)
<1>2. payload \in Seq(Byte) /\ length \in 1 .. length
  BY ONLY au \in TSAccessUnits, <1>1, UnitIsPayload
<1>3. packet = MuxedPacket(PacketOf(length, length, TRUE, flags, cc), pid, pcr, payload)
  BY ONLY <1>1, Zenon DEF FirstPacketOf
<1> HIDE DEF payload
<1>4. IsPartOf(packet, TRUE)
  BY ONLY <1>2, <1>3, flags \in PacketFlags, cc \in 0 .. 15, pid \in Bits(13), pcr \in Pcrs, Zenon
     DEF IsPartOf
<1>5. IsReadBack(packet)
  BY ONLY <1>4, PartIsRead
<1>6. PesHeaderOf(FirstPacketOf(au, flags, cc, pid, pcr)) = PesRead(au, flags.disc)
  <2>1. Len(au.pts) <= 1 /\ Len(au.dts) <= 1
    BY ONLY <1>1
  <2>2. flags.pcr \in BOOLEAN /\ flags.disc \in BOOLEAN /\ flags.rai \in BOOLEAN
    BY ONLY flags \in PacketFlags DEF PacketFlags
  <2> QED
    BY ONLY <2>1, <2>2, au \in TSAccessUnits, cc \in 0 .. 15, pid \in Bits(13), pcr \in Pcrs,
            TimesAreRead
<1> QED
  BY ONLY <1>1, <1>5, <1>6, Zenon

\* No PES packet begins in a packet without the mark.
LEMMA UnmarkedHasNoHeader ==
  ASSUME NEW packet, IsPartOf(packet, FALSE) \/ IsPcrPacket(packet)
  PROVE  PesHeaderOf(packet) = <<>>
<1>1. packet.header.payloadUnitStartIndicator = FALSE
  <2>1. CASE IsPartOf(packet, FALSE)
    BY ONLY <2>1 DEF IsPartOf, MuxedPacket, PacketOf
  <2>2. CASE IsPcrPacket(packet)
    BY ONLY <2>2 DEF IsPcrPacket, MuxedPacket, PcrPacketOf
  <2> QED
    BY <2>1, <2>2
<1> QED
  BY ONLY <1>1, Zenon DEF PesHeaderOf

LEMMA MuxedIsRead ==
  ASSUME NEW packet, NEW pesHeader, IsMuxed(packet, pesHeader)
  PROVE  IsReadBack(packet) /\ pesHeader = PesHeaderOf(packet)
<1>1. CASE BeginsUnit(packet, pesHeader)
  BY ONLY <1>1, BeginIsRead
<1>2. CASE IsPartOf(packet, FALSE) /\ pesHeader = <<>>
  <2>1. FALSE \in BOOLEAN
    OBVIOUS
  <2> QED
    BY ONLY <1>2, <2>1, PartIsRead, UnmarkedHasNoHeader, Zenon
<1>3. CASE IsPartOf(packet, TRUE) /\ pesHeader = PesHeaderOf(packet)
  <2>1. TRUE \in BOOLEAN
    OBVIOUS
  <2> QED
    BY ONLY <1>3, <2>1, PartIsRead, Zenon
<1>4. CASE IsPcrPacket(packet) /\ pesHeader = <<>>
  <2>1. PICK cc \in 0 .. 15, pid \in Bits(13), pcr \in Pcrs :
          packet = MuxedPacket(PcrPacketOf(cc), pid, pcr, <<>>)
    BY ONLY <1>4, Zenon DEF IsPcrPacket
  <2>2. IsReadBack(MuxedPacket(PcrPacketOf(cc), pid, pcr, <<>>))
    BY ONLY cc \in 0 .. 15, pid \in Bits(13), pcr \in Pcrs, PcrPacketIsRead, Zenon
  <2> QED
    BY ONLY <1>4, <2>1, <2>2, UnmarkedHasNoHeader, Zenon
<1> QED
  BY <1>1, <1>2, <1>3, <1>4, Zenon DEF IsMuxed

\* A null packet is a part of a payload of nothing but 255, with the null PID.
NullPayload == [i \in 1 .. 184 |-> 255]

NullPacket ==
  MuxedPacket(PacketOf(184, 184, FALSE, [pcr |-> FALSE, disc |-> FALSE, rai |-> FALSE], 0),
              8191, NoPcrValue, NullPayload)

LEMMA NullParts ==
  /\ NullPayload \in Seq(Byte) /\ Len(NullPayload) = 184 /\ SubSeq(NullPayload, 1, 184) = NullPayload
  /\ NullPacket = [header |-> [syncByte |-> 71, transportErrorIndicator |-> FALSE,
                               payloadUnitStartIndicator |-> FALSE, transportPriority |-> FALSE,
                               pid |-> 8191, isScrambled |-> FALSE, continuityCounter |-> 0,
                               adaptationMode |-> 1],
                   adaptationField |-> <<>>, payload |-> <<NullPayload>>]
<1> DEFINE flags == [pcr |-> FALSE, disc |-> FALSE, rai |-> FALSE]
           p == PacketOf(184, 184, FALSE, flags, 0)
<1>1. NullPayload \in Seq(Byte) /\ Len(NullPayload) = 184
  BY DEF NullPayload, Byte, Bits
<1>2. SubSeq(NullPayload, 1, 184) = NullPayload
  BY DEF NullPayload
<1>3. p = [cc |-> 0, pusi |-> FALSE, payload |-> TRUE, field |-> <<>>, from |-> 0, bytes |-> 184]
  BY DEF PacketOf, PacketSpace, FieldBytes, Smaller, TS_PACKET_SIZE_188, TS_PACKET_HEADER_SIZE
<1>4. NullPacket = MuxedPacket(p, 8191, NoPcrValue, NullPayload)
  BY Zenon DEF NullPacket
<1> HIDE DEF p
<1>5. NullPacket = [header |-> [syncByte |-> 71, transportErrorIndicator |-> FALSE,
                               payloadUnitStartIndicator |-> FALSE, transportPriority |-> FALSE,
                               pid |-> 8191, isScrambled |-> FALSE, continuityCounter |-> 0,
                               adaptationMode |-> 1],
                   adaptationField |-> <<>>, payload |-> <<NullPayload>>]
  <2> DEFINE field(i) == FieldFrom(p.field[i], NoPcrValue)
             header == [syncByte |-> TS_PACKET_HEADER_SYNC_BYTE, transportErrorIndicator |-> FALSE,
                        payloadUnitStartIndicator |-> p.pusi, transportPriority |-> FALSE,
                        pid |-> 8191, isScrambled |-> FALSE, continuityCounter |-> p.cc,
                        adaptationMode |-> IF ~p.payload THEN TSAdaptationModeAdaptationOnly
                                           ELSE IF p.field = <<>> THEN TSAdaptationModePayloadOnly
                                           ELSE TSAdaptationModeAdaptationAndPayload]
             cut == SubSeq(NullPayload, p.from + 1, p.from + p.bytes)
  <2>1. NullPacket = [header |-> header, adaptationField |-> [i \in DOMAIN p.field |-> field(i)],
                      payload |-> IF p.payload THEN <<cut>> ELSE <<>>]
    BY <1>4 DEF MuxedPacket, FieldFrom, FlagsFrom
  <2> HIDE DEF field
  <2>2. [i \in DOMAIN p.field |-> field(i)] = <<>>
    BY ONLY <1>3
  <2>3. p.from + 1 = 1 /\ p.from + p.bytes = 184 /\ p.payload = TRUE
    BY ONLY <1>3
  <2>4. cut = NullPayload
    BY ONLY <1>2, <2>3
  <2>5. header = [syncByte |-> 71, transportErrorIndicator |-> FALSE,
                  payloadUnitStartIndicator |-> FALSE, transportPriority |-> FALSE,
                  pid |-> 8191, isScrambled |-> FALSE, continuityCounter |-> 0,
                  adaptationMode |-> 1]
    BY ONLY <1>3 DEF TSAdaptationModePayloadOnly, TS_PACKET_HEADER_SYNC_BYTE
  <2> HIDE DEF header, cut
  <2>6. (IF p.payload THEN <<cut>> ELSE <<>>) = <<NullPayload>>
    BY ONLY <2>3, <2>4
  <2>7. NullPacket = [header |-> header, adaptationField |-> <<>>, payload |-> <<NullPayload>>]
    <3> DEFINE fields == [i \in DOMAIN p.field |-> field(i)]
               parts == IF p.payload THEN <<cut>> ELSE <<>>
    <3>1. /\ NullPacket = [header |-> header, adaptationField |-> fields, payload |-> parts]
          /\ fields = <<>> /\ parts = <<NullPayload>>
      BY ONLY <2>1, <2>2, <2>6
    <3> HIDE DEF fields, parts
    <3> QED
      BY ONLY <3>1
  <2> QED
    BY ONLY <2>5, <2>7
<1> QED
  BY <1>1, <1>2, <1>5

LEMMA NullIsWritten == BytesOfPacket(NullPacket) = nullPacketData
<1> DEFINE h == NullPacket.header
<1>1. HeaderBytes(h) = <<71, 31, 255, 16>>
  BY NullParts DEF HeaderBytes, Bit
<1>2. [i \in DOMAIN NullPacket.adaptationField |-> AdaptationFieldBytes(NullPacket.adaptationField[i])] = <<>>
  <2> DEFINE b(x) == AdaptationFieldBytes(x)
  <2> HIDE DEF b
  <2>1. NullPacket.adaptationField = <<>>
    BY NullParts
  <2>2. [i \in DOMAIN <<>> |-> b(<<>>[i])] = <<>>
    OBVIOUS
  <2> QED
    BY ONLY <2>1, <2>2 DEF b
<1>3. FlattenSeq(NullPacket.payload) = NullPayload
  <2>1. NullPacket.payload = <<NullPayload>> /\ NullPayload \in Seq(Byte)
    BY NullParts
  <2>2. FlattenSeq(<<NullPayload>>) = NullPayload
    BY ONLY <2>1, FlattenOne
  <2> QED
    BY ONLY <2>1, <2>2
<1>4. <<71, 31, 255, 16>> \o <<>> = <<71, 31, 255, 16>>
  OBVIOUS
<1>5. BytesOfPacket(NullPacket) = <<71, 31, 255, 16>> \o <<>> \o NullPayload
  BY ONLY <1>1, <1>2, <1>3, FlattenNone, Zenon DEF BytesOfPacket
<1>6. NullPayload = [i \in 1 .. PacketSpace |-> 255]
  BY DEF NullPayload, PacketSpace, TS_PACKET_SIZE_188, TS_PACKET_HEADER_SIZE
<1> QED
  BY ONLY <1>4, <1>5, <1>6, Zenon DEF nullPacketData, TS_PACKET_HEADER_SYNC_BYTE

LEMMA NullIsPart == IsPartOf(NullPacket, FALSE)
<1> DEFINE flags == [pcr |-> FALSE, disc |-> FALSE, rai |-> FALSE]
<1>1. NullPayload \in Seq(Byte) /\ Len(NullPayload) = 184 /\ 184 \in 1 .. Len(NullPayload)
  BY NullParts
<1>2. flags \in PacketFlags /\ 0 \in 0 .. 15
  BY DEF PacketFlags
<1>3. NoPcrValue \in Pcrs
  BY DEF NoPcrValue, Pcrs, Byte, Bits
<1>4. 8191 \in Bits(13)
  BY DEF Bits
<1> DEFINE pid == 8191
           n == 184
<1>5. NullPacket = MuxedPacket(PacketOf(Len(NullPayload), n, FALSE, flags, 0), pid, NoPcrValue,
                             NullPayload)
  BY <1>1 DEF NullPacket
<1>6. n \in 1 .. Len(NullPayload) /\ pid \in Bits(13)
  BY <1>1, <1>4
<1> HIDE DEF flags, n, pid
<1> QED
  BY ONLY <1>1, <1>2, <1>3, <1>5, <1>6, Zenon DEF IsPartOf

LEMMA NullIsMuxed == IsMuxed(NullPacket, <<>>) /\ BytesOfPacket(NullPacket) = nullPacketData
BY NullIsPart, NullIsWritten, Zenon DEF IsMuxed

\* A packet with what is to be read of it, as the muxer sends it.
IsSentByMuxer(sent) ==
  \E packet \in TSPackets, pesHeader \in Seq(TSPesHeaders) :
    /\ IsMuxed(packet, pesHeader)
    /\ sent = [bytes |-> BytesOfPacket(packet),
               reads |-> <<[packet |-> packet, pesHeader |-> pesHeader]>>]

LEMMA SentIsReadAlone ==
  ASSUME NEW name \in DOMAIN Packets, IsSentByMuxer(Packets[name])
  PROVE  IsReadAlone(name)
<1> DEFINE sent == Packets[name]
           turn == PacketTurn(sent.bytes)
<1>1. PICK packet \in TSPackets, pesHeader \in Seq(TSPesHeaders) :
        /\ IsMuxed(packet, pesHeader)
        /\ sent = [bytes |-> BytesOfPacket(packet),
                   reads |-> <<[packet |-> packet, pesHeader |-> pesHeader]>>]
  BY Zenon DEF IsSentByMuxer
<1>2. sent.bytes = BytesOfPacket(packet) /\ sent.reads = <<[packet |-> packet, pesHeader |-> pesHeader]>>
  <2> HIDE DEF sent
  <2> QED
    BY ONLY <1>1
<1>3. IsReadBack(packet) /\ pesHeader = PesHeaderOf(packet)
  BY ONLY <1>1, MuxedIsRead
<1> HIDE DEF sent
<1>4. turn = [outcome |-> "read", packet |-> packet]
  BY ONLY <1>2, <1>3, Zenon DEF IsReadBack
<1> HIDE DEF turn
<1>5. turn.outcome = "read" /\ turn.packet = packet /\ turn.outcome # "nil" /\ turn.outcome # "skipped"
  BY ONLY <1>4
<1>6. Kept(turn) = <<turn>>
  BY ONLY <1>5, Zenon DEF Kept
<1>7. sent.reads = <<Reading(turn.packet)>>
  BY ONLY <1>2, <1>3, <1>5, Zenon DEF Reading
<1>8. [i \in DOMAIN Kept(turn) |-> Reading(Kept(turn)[i].packet)] = <<Reading(turn.packet)>>
  <2> DEFINE r(x) == Reading(x)
  <2> HIDE DEF r
  <2>1. [i \in DOMAIN <<turn>> |-> r(<<turn>>[i].packet)] = <<r(turn.packet)>>
    OBVIOUS
  <2> QED
    BY ONLY <2>1, <1>6 DEF r
<1>9. turn.outcome # "nil" /\ sent.reads = [i \in DOMAIN Kept(turn) |-> Reading(Kept(turn)[i].packet)]
  BY ONLY <1>5, <1>7, <1>8
<1> QED
  BY <1>9, Zenon DEF IsReadAlone, turn, sent

\* What the muxer sends, in chunks of any number of packets, is read as it was sent, and so are
\* the packets around a damaged byte: of ReadAsSent and DamageIsLocal nothing is left to assume
\* but which packets there are.
THEOREM MuxedChunksAreRead ==
  ASSUME \A name \in DOMAIN Packets : IsSentByMuxer(Packets[name])
  PROVE  Spec => [](ChunksAreReadAsSent /\ DamageCostsOnePacket)
<1>1. \A name \in DOMAIN Packets : IsReadAlone(name)
  BY SentIsReadAlone
<1>2. Spec => []ChunksAreReadAsSent
  BY <1>1, ReadAsSent
<1>3. Spec => []DamageCostsOnePacket
  BY <1>1, DamageIsLocal
<1> QED
  BY <1>2, <1>3, PTL

=============================================================================

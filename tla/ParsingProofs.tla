--------------------------- MODULE ParsingProofs ---------------------------
(***************************************************************************)
(* The parsers of SectionParsing, for every table and whatever has become  *)
(* of its section.                                                         *)
(***************************************************************************)
EXTENDS SectionParsing, SequenceTheorems, WellFoundedInduction, TLAPS

-----------------------------------------------------------------------------
(* Induction *)

LEMMA LessThanNat == IsWellFoundedOn({p \in Nat \X Nat : p[1] < p[2]}, Nat)
BY NatLessThanWellFounded DEF OpToRel

LEMMA InductionOverNat ==
  ASSUME NEW S, 0 \in S, \A n \in Nat : n \in S => n + 1 \in S
  PROVE  Nat \subseteq S
<1> DEFINE R == {p \in Nat \X Nat : p[1] < p[2]}
           T == Nat \ S
<1>1. SUFFICES ASSUME T # {} PROVE FALSE
  OBVIOUS
<1>2. \E x \in T : \A y \in T : ~ (<<y, x>> \in R)
  <2> HIDE DEF T
  <2>1. T \subseteq Nat
    BY DEF T
  <2> HIDE DEF R
  <2>2. IsWellFoundedOn(R, Nat)
    BY LessThanNat DEF R
  <2> QED
    BY <1>1, <2>1, <2>2, WFMin
<1>3. PICK x \in T : \A y \in T : ~ (<<y, x>> \in R)
  BY <1>2
<1>4. x \in Nat /\ x # 0 /\ x - 1 \in Nat /\ x - 1 < x /\ (x - 1) + 1 = x
  BY <1>3
<1>5. x - 1 \in T
  BY <1>3, <1>4
<1> QED
  BY <1>3, <1>4, <1>5

IsFlat(f, seqs) == f = [i \in 1 .. Len(seqs) |-> IF i = 1 THEN seqs[i] ELSE f[i-1] \o seqs[i]]

LEMMA FlattenDef ==
  ASSUME NEW seqs, Len(seqs) # 0
  PROVE  FlattenSeq(seqs) = (CHOOSE f : IsFlat(f, seqs))[Len(seqs)]
BY DEF FlattenSeq, IsFlat

FlattensTo(f, seqs, n) ==
  /\ f = [i \in 1 .. n |-> f[i]]
  /\ \A i \in 1 .. n : f[i] = IF i = 1 THEN seqs[i] ELSE f[i-1] \o seqs[i]

LEMMA FlattenGoesOn ==
  ASSUME NEW seqs, NEW n \in Nat, NEW f, FlattensTo(f, seqs, n)
  PROVE  \E g : FlattensTo(g, seqs, n + 1)
<1> DEFINE new == IF n = 0 THEN seqs[1] ELSE f[n] \o seqs[n + 1]
           g == [i \in 1 .. n + 1 |-> IF i \in 1 .. n THEN f[i] ELSE new]
<1>1. ASSUME NEW i \in 1 .. n + 1
      PROVE  g[i] = IF i = 1 THEN seqs[i] ELSE g[i-1] \o seqs[i]
  <2>1. CASE i \in 1 .. n
    <3>1. g[i] = f[i] /\ (i # 1 => i - 1 \in 1 .. n /\ g[i-1] = f[i-1])
      BY <2>1
    <3>2. f[i] = IF i = 1 THEN seqs[i] ELSE f[i-1] \o seqs[i]
      BY <2>1 DEF FlattensTo
    <3> QED
      BY <3>1, <3>2
  <2>2. CASE i = n + 1
    <3>1. g[i] = new /\ (n # 0 => n \in 1 .. n + 1 /\ g[n] = f[n]) /\ i - 1 = n
      BY <2>2
    <3> HIDE DEF g
    <3> QED
      BY <2>2, <3>1
  <2> QED
    BY <2>1, <2>2
<1>2. g = [i \in 1 .. n + 1 |-> g[i]]
  OBVIOUS
<1> HIDE DEF g
<1> QED
  BY <1>1, <1>2 DEF FlattensTo

LEMMA FlatExists ==
  ASSUME NEW seqs, Len(seqs) \in Nat
  PROVE  \E f : IsFlat(f, seqs)
<1> DEFINE T == {n \in Nat : \E f : FlattensTo(f, seqs, n)}
<1>1. 0 \in T
  <2>1. FlattensTo([i \in 1 .. 0 |-> i], seqs, 0)
    BY DEF FlattensTo
  <2> QED
    BY <2>1
<1>2. \A n \in Nat : n \in T => n + 1 \in T
  BY FlattenGoesOn
<1>3. Nat \subseteq T
  <2> HIDE DEF T
  <2> QED
    BY <1>1, <1>2, InductionOverNat
<1>4. PICK f : FlattensTo(f, seqs, Len(seqs))
  BY <1>3
<1>5. IsFlat(f, seqs)
  BY <1>4 DEF FlattensTo, IsFlat
<1> QED
  BY <1>5

\* Its elements are those of its parts.
LEMMA FlattenedType ==
  ASSUME NEW S, NEW seqs \in Seq(Seq(S))
  PROVE  FlattenSeq(seqs) \in Seq(S)
<1>1. CASE Len(seqs) = 0
  <2>1. FlattenSeq(seqs) = seqs /\ seqs = <<>>
    BY <1>1, EmptySeq DEF FlattenSeq
  <2> QED
    BY <2>1
<1>2. CASE Len(seqs) # 0
  <2> DEFINE f == CHOOSE f : IsFlat(f, seqs)
             IsSeqAt(n) == n \in 1 .. Len(seqs) => f[n] \in Seq(S)
             T == {n \in Nat : IsSeqAt(n)}
  <2> HIDE DEF f
  <2>1. FlattensTo(f, seqs, Len(seqs))
    <3>1. IsFlat(f, seqs)
      BY FlatExists DEF f
    <3> QED
      BY ONLY <3>1 DEF IsFlat, FlattensTo
  <2>2. ASSUME NEW n \in Nat, IsSeqAt(n), n + 1 \in 1 .. Len(seqs)
        PROVE  f[n + 1] \in Seq(S)
    <3>1. Len(seqs) \in Nat /\ seqs[n + 1] \in Seq(S)
      BY <2>2, ElementOfSeq, LenProperties
    <3>2. f[n + 1] = IF n = 0 THEN seqs[n + 1] ELSE f[n] \o seqs[n + 1]
      <4>1. PICK i \in 1 .. Len(seqs) : i = n + 1
        BY <2>2
      <4>2. f[i] = IF i = 1 THEN seqs[i] ELSE f[i-1] \o seqs[i]
        BY <2>1, <4>1 DEF FlattensTo
      <4>3. i - 1 = n /\ (i = 1 <=> n = 0)
        BY ONLY <4>1, n \in Nat
      <4> QED
        BY ONLY <4>1, <4>2, <4>3
    <3>3. n = 0 \/ f[n] \in Seq(S)
      BY ONLY <2>2, <3>1, n \in Nat
    <3> QED
      BY ONLY <3>1, <3>2, <3>3, ConcatProperties
  <2>3. 0 \in T
    OBVIOUS
  <2>6. \A n \in Nat : n \in T => n + 1 \in T
    <3>1. \A n \in Nat : IsSeqAt(n) => IsSeqAt(n + 1)
      BY <2>2
    <3> HIDE DEF IsSeqAt
    <3> QED
      BY <3>1
  <2>4. Nat \subseteq T
    <3> HIDE DEF T
    <3> QED
      BY <2>3, <2>6, InductionOverNat
  <2>5. f[Len(seqs)] \in Seq(S)
    BY <1>2, <2>4
  <2> QED
    BY <1>2, <2>5, FlattenDef DEF f
<1> QED
  BY <1>1, <1>2

-----------------------------------------------------------------------------
(* Readers *)

\* A reader is on one of its bits, or behind the last one.
IsReader(r) == r \in Readers /\ Position(r) <= Length(r) * 8

\* s is r after a call that reads n bits, or fails.
Reads(r, s, n) ==
  /\ IsReader(s) /\ s.bytes = r.bytes
  /\ Position(s) >= Position(r)
  /\ r.error => s.error /\ Position(s) = Position(r)
  /\ ~s.error => Position(s) = Position(r) + n

LEMMA ReaderFields ==
  ASSUME NEW r \in Readers
  PROVE  /\ r.bytes \in Seq(Byte) /\ r.byteOffset \in Nat /\ r.bitOffset \in 0 .. 7
         /\ r.error \in BOOLEAN /\ r.value \in Nat /\ r.data \in Seq(Byte)
         /\ Length(r) \in Nat /\ Position(r) \in Nat
<1>1. /\ r.bytes \in Seq(Byte) /\ r.byteOffset \in Nat /\ r.bitOffset \in 0 .. 7
      /\ r.error \in BOOLEAN /\ r.value \in Nat /\ r.data \in Seq(Byte)
  BY DEF Readers
<1>2. Length(r) \in Nat
  BY <1>1, LenProperties DEF Length
<1>3. Position(r) \in Nat
  BY <1>1 DEF Position
<1> QED
  BY <1>1, <1>2, <1>3

LEMMA ReadsOn ==
  ASSUME NEW r, NEW s, NEW t, NEW m \in Nat, NEW n \in Nat, IsReader(r),
         Reads(r, s, m), Reads(s, t, n)
  PROVE  Reads(r, t, m + n)
<1>1. Position(r) \in Nat /\ Position(s) \in Nat /\ Position(t) \in Nat
  BY ReaderFields DEF Reads, IsReader
<1> QED
  BY <1>1 DEF Reads

LEMMA PowersOfTwo == \A n \in 0 .. 24 : 2 ^ n \in Nat \ {0}
<1>0. 2 ^ 0 \in Nat \ {0}
  OBVIOUS
<1>1. 2 ^ 1 \in Nat \ {0}
  OBVIOUS
<1>2. 2 ^ 2 \in Nat \ {0}
  OBVIOUS
<1>3. 2 ^ 3 \in Nat \ {0}
  OBVIOUS
<1>4. 2 ^ 4 \in Nat \ {0}
  OBVIOUS
<1>5. 2 ^ 5 \in Nat \ {0}
  OBVIOUS
<1>6. 2 ^ 6 \in Nat \ {0}
  OBVIOUS
<1>7. 2 ^ 7 \in Nat \ {0}
  OBVIOUS
<1>8. 2 ^ 8 \in Nat \ {0}
  OBVIOUS
<1>9. 2 ^ 9 \in Nat \ {0}
  OBVIOUS
<1>10. 2 ^ 10 \in Nat \ {0}
  OBVIOUS
<1>11. 2 ^ 11 \in Nat \ {0}
  OBVIOUS
<1>12. 2 ^ 12 \in Nat \ {0}
  OBVIOUS
<1>13. 2 ^ 13 \in Nat \ {0}
  OBVIOUS
<1>14. 2 ^ 14 \in Nat \ {0}
  OBVIOUS
<1>15. 2 ^ 15 \in Nat \ {0}
  OBVIOUS
<1>16. 2 ^ 16 \in Nat \ {0}
  OBVIOUS
<1>17. 2 ^ 17 \in Nat \ {0}
  OBVIOUS
<1>18. 2 ^ 18 \in Nat \ {0}
  OBVIOUS
<1>19. 2 ^ 19 \in Nat \ {0}
  OBVIOUS
<1>20. 2 ^ 20 \in Nat \ {0}
  OBVIOUS
<1>21. 2 ^ 21 \in Nat \ {0}
  OBVIOUS
<1>22. 2 ^ 22 \in Nat \ {0}
  OBVIOUS
<1>23. 2 ^ 23 \in Nat \ {0}
  OBVIOUS
<1>24. 2 ^ 24 \in Nat \ {0}
  OBVIOUS
<1>25. ASSUME NEW n \in 0 .. 24 PROVE 2 ^ n \in Nat \ {0}
  <2>1. \/ n = 0 \/ n = 1 \/ n = 2 \/ n = 3 \/ n = 4 \/ n = 5 \/ n = 6 \/ n = 7 \/ n = 8 \/ n = 9
        \/ n = 10 \/ n = 11 \/ n = 12 \/ n = 13 \/ n = 14 \/ n = 15 \/ n = 16 \/ n = 17
        \/ n = 18 \/ n = 19 \/ n = 20 \/ n = 21 \/ n = 22 \/ n = 23 \/ n = 24
    OBVIOUS
  <2> DEFINE S == Nat \ {0}
  <2> HIDE DEF S
  <2> QED
    BY <2>1, <1>0, <1>1, <1>2, <1>3, <1>4, <1>5, <1>6, <1>7, <1>8, <1>9, <1>10, <1>11, <1>12, <1>13, <1>14, <1>15, <1>16, <1>17, <1>18, <1>19, <1>20, <1>21, <1>22, <1>23, <1>24, Zenon DEF S
<1> QED
  BY <1>25

LEMMA BytesAreBytes ==
  ASSUME NEW r \in Readers, NEW i \in Nat
  PROVE  ByteAt(r, i) \in Byte
<1>1. r.bytes \in Seq(Byte) /\ r.byteOffset \in Nat /\ Length(r) \in Nat
  BY ReaderFields
<1>2. CASE r.byteOffset + i < Length(r)
  <2>1. r.byteOffset + i + 1 \in 1 .. Len(r.bytes)
    BY <1>1, <1>2 DEF Length
  <2>2. r.bytes[r.byteOffset + i + 1] \in Byte
    BY <1>1, <2>1, ElementOfSeq
  <2> QED
    BY <1>2, <2>2 DEF ByteAt
<1>3. CASE ~(r.byteOffset + i < Length(r))
  BY <1>3 DEF ByteAt, Byte
<1> QED
  BY <1>2, <1>3

LEMMA DivMod ==
  ASSUME NEW a \in Nat, NEW b \in Nat \ {0}, NEW c \in Nat \ {0}
  PROVE  (a \div b) % c \in Nat
OBVIOUS

\* Up to 17 bits lie in three bytes, wherever they begin.
LEMMA BitsAreNumbers ==
  ASSUME NEW r \in Readers, NEW n \in 1 .. 17
  PROVE  BitsAt(r, n) \in Nat
<1> DEFINE window == ByteAt(r, 0) * 65536 + ByteAt(r, 1) * 256 + ByteAt(r, 2)
           places == 24 - r.bitOffset - n
<1>1. window \in Nat
  <2>1. ByteAt(r, 0) \in Nat /\ ByteAt(r, 1) \in Nat /\ ByteAt(r, 2) \in Nat
    BY BytesAreBytes DEF Byte
  <2> QED
    BY <2>1
<1>2. places \in 0 .. 24 /\ n \in 0 .. 24
  <2>1. r.bitOffset \in 0 .. 7
    BY ReaderFields
  <2> QED
    BY <2>1
<1>3. BitsAt(r, n) = (window \div 2 ^ places) % 2 ^ n
  BY DEF BitsAt
<1> HIDE DEF window, places
<1>4. 2 ^ places \in Nat \ {0} /\ 2 ^ n \in Nat \ {0}
  BY <1>2, PowersOfTwo
<1> QED
  BY <1>1, <1>3, <1>4, DivMod

\* A call that fails leaves its reader where it is.
LEMMA FailedReads ==
  ASSUME NEW r, IsReader(r), NEW n
  PROVE  Reads(r, Failed(r), n) /\ Reads(r, [r EXCEPT !.error = TRUE], n)
<1> DEFINE s == Failed(r)
           t == [r EXCEPT !.error = TRUE]
<1>1. /\ s \in Readers /\ t \in Readers
      /\ s.bytes = r.bytes /\ s.byteOffset = r.byteOffset /\ s.bitOffset = r.bitOffset /\ s.error = TRUE
      /\ t.bytes = r.bytes /\ t.byteOffset = r.byteOffset /\ t.bitOffset = r.bitOffset /\ t.error = TRUE
  BY EmptySeq DEF Failed, IsReader, Readers
<1> HIDE DEF s, t
<1>2. Position(r) \in Nat /\ Position(s) = Position(r) /\ Position(t) = Position(r)
      /\ Length(s) = Length(r) /\ Length(t) = Length(r)
  BY <1>1, ReaderFields DEF IsReader, Position, Length
<1> QED
  BY <1>1, <1>2 DEF Reads, IsReader, s, t

LEMMA OffsetsOf ==
  ASSUME NEW place \in Nat
  PROVE  /\ place \div 8 \in Nat /\ place % 8 \in 0 .. 7
         /\ (place \div 8) * 8 + (place % 8) = place
OBVIOUS

\* The bits that remain are those up to the end.
LEMMA RemainingIsRest ==
  ASSUME NEW r, IsReader(r)
  PROVE  RemainingBits(r) = Length(r) * 8 - Position(r)
<1>1. /\ r.byteOffset \in Nat /\ r.bitOffset \in 0 .. 7 /\ Length(r) \in Nat
      /\ Position(r) = r.byteOffset * 8 + r.bitOffset /\ Position(r) <= Length(r) * 8
  BY ReaderFields DEF IsReader, Position
<1> QED
  BY <1>1 DEF RemainingBits

LEMMA MovedReads ==
  ASSUME NEW r, IsReader(r), ~r.error, NEW n \in Nat, RemainingBits(r) >= n
  PROVE  /\ Reads(r, MovedBits(r, n), n)
         /\ \A v \in Nat : Reads(r, [MovedBits(r, n) EXCEPT !.value = v], n)
         /\ \A d \in Seq(Byte) : Reads(r, [MovedBits(r, n) EXCEPT !.data = d], n)
<1> DEFINE s == MovedBits(r, n)
           place == r.byteOffset * 8 + r.bitOffset + n
<1>1. /\ r.byteOffset \in Nat /\ r.bitOffset \in 0 .. 7 /\ Length(r) \in Nat /\ Position(r) \in Nat
      /\ Position(r) = r.byteOffset * 8 + r.bitOffset /\ Position(r) + n <= Length(r) * 8
  BY RemainingIsRest, ReaderFields DEF IsReader, Position
<1>2. place \in Nat /\ place = Position(r) + n
  BY <1>1
<1>3. s = [r EXCEPT !.byteOffset = place \div 8, !.bitOffset = place % 8]
  BY DEF MovedBits
<1> HIDE DEF s, place
<1>4. place \div 8 \in Nat /\ place % 8 \in 0 .. 7 /\ (place \div 8) * 8 + (place % 8) = place
  BY <1>2, OffsetsOf
<1>5. /\ s \in Readers /\ s.bytes = r.bytes /\ s.error = r.error
      /\ s.byteOffset = place \div 8 /\ s.bitOffset = place % 8
  BY <1>3, <1>4 DEF IsReader, Readers
<1>6. r.error = FALSE
  BY DEF IsReader, Readers
<1>7. ASSUME NEW t \in Readers, t.bytes = s.bytes, t.error = s.error,
             t.byteOffset = s.byteOffset, t.bitOffset = s.bitOffset
      PROVE  Reads(r, t, n)
  <2>1. Position(t) = place /\ Length(t) = Length(r)
    BY <1>4, <1>5, <1>7 DEF Position, Length
  <2> QED
    BY <1>1, <1>2, <1>5, <1>6, <1>7, <2>1 DEF Reads, IsReader
<1>8. Reads(r, s, n)
  BY <1>5, <1>7
<1>9. ASSUME NEW v \in Nat PROVE Reads(r, [s EXCEPT !.value = v], n)
  <2> DEFINE t == [s EXCEPT !.value = v]
  <2>1. t \in Readers /\ t.bytes = s.bytes /\ t.error = s.error
        /\ t.byteOffset = s.byteOffset /\ t.bitOffset = s.bitOffset
    BY <1>5 DEF Readers
  <2> HIDE DEF t
  <2>2. Reads(r, t, n)
    BY <1>7, <2>1
  <2> QED
    BY <2>2 DEF t
<1>10. ASSUME NEW d \in Seq(Byte) PROVE Reads(r, [s EXCEPT !.data = d], n)
  <2> DEFINE t == [s EXCEPT !.data = d]
  <2>1. t \in Readers /\ t.bytes = s.bytes /\ t.error = s.error
        /\ t.byteOffset = s.byteOffset /\ t.bitOffset = s.bitOffset
    BY <1>5 DEF Readers
  <2> HIDE DEF t
  <2>2. Reads(r, t, n)
    BY <1>7, <2>1
  <2> QED
    BY <2>2 DEF t
<1> QED
  BY <1>8, <1>9, <1>10 DEF s

LEMMA MovedBytesReads ==
  ASSUME NEW r, IsReader(r), NEW n \in Nat, CanRead(r, n)
  PROVE  /\ Reads(r, MovedBytes(r, n), 8 * n)
         /\ \A v \in Nat : Reads(r, [MovedBytes(r, n) EXCEPT !.value = v], 8 * n)
         /\ \A d \in Seq(Byte) : Reads(r, [MovedBytes(r, n) EXCEPT !.data = d], 8 * n)
<1> DEFINE s == MovedBytes(r, n)
           at == r.byteOffset + n
<1>1. /\ r.byteOffset \in Nat /\ Length(r) \in Nat /\ Position(r) \in Nat
      /\ Position(r) = r.byteOffset * 8 /\ r.bitOffset = 0 /\ r.error = FALSE
  BY ReaderFields DEF IsReader, Position, CanRead
<1>2. at \in Nat /\ at <= Length(r) /\ at * 8 = Position(r) + 8 * n
  BY <1>1 DEF CanRead
<1>3. s = [r EXCEPT !.byteOffset = at]
  BY DEF MovedBytes
<1> HIDE DEF s, at
<1>4. /\ s \in Readers /\ s.bytes = r.bytes /\ s.error = FALSE
      /\ s.byteOffset = at /\ s.bitOffset = 0
  BY <1>1, <1>2, <1>3 DEF IsReader, Readers
<1>5. ASSUME NEW t \in Readers, t.bytes = s.bytes, t.error = s.error,
             t.byteOffset = s.byteOffset, t.bitOffset = s.bitOffset
      PROVE  Reads(r, t, 8 * n)
  <2>1. Position(t) = at * 8 /\ Length(t) = Length(r)
    BY <1>2, <1>4, <1>5 DEF Position, Length
  <2> QED
    BY <1>1, <1>2, <1>4, <1>5, <2>1 DEF Reads, IsReader
<1>6. Reads(r, s, 8 * n)
  BY <1>4, <1>5
<1>7. ASSUME NEW v \in Nat PROVE Reads(r, [s EXCEPT !.value = v], 8 * n)
  <2> DEFINE t == [s EXCEPT !.value = v]
  <2>1. t \in Readers /\ t.bytes = s.bytes /\ t.error = s.error
        /\ t.byteOffset = s.byteOffset /\ t.bitOffset = s.bitOffset
    BY <1>4 DEF Readers
  <2> HIDE DEF t
  <2>2. Reads(r, t, 8 * n)
    BY <1>5, <2>1
  <2> QED
    BY <2>2 DEF t
<1>8. ASSUME NEW d \in Seq(Byte) PROVE Reads(r, [s EXCEPT !.data = d], 8 * n)
  <2> DEFINE t == [s EXCEPT !.data = d]
  <2>1. t \in Readers /\ t.bytes = s.bytes /\ t.error = s.error
        /\ t.byteOffset = s.byteOffset /\ t.bitOffset = s.bitOffset
    BY <1>4 DEF Readers
  <2> HIDE DEF t
  <2>2. Reads(r, t, 8 * n)
    BY <1>5, <2>1
  <2> QED
    BY <2>2 DEF t
<1> QED
  BY <1>6, <1>7, <1>8 DEF s

\* The calls.
LEMMA ReadBitsReads ==
  ASSUME NEW r, IsReader(r), NEW n \in 1 .. 17
  PROVE  Reads(r, ReadBits(r, n), n)
<1>1. n \in Nat /\ n # 0 /\ ~(n > 32) /\ RemainingBits(r) \in Int
  <2>1. Length(r) \in Nat /\ Position(r) \in Nat
    BY ReaderFields DEF IsReader
  <2> QED
    BY <2>1, RemainingIsRest
<1>2. CASE r.error \/ RemainingBits(r) < n
  <2>1. ReadBits(r, n) = Failed(r)
    BY <1>2 DEF ReadBits
  <2> QED
    BY <2>1, FailedReads
<1>3. CASE ~r.error /\ RemainingBits(r) >= n
  <2>1. ReadBits(r, n) = [MovedBits(r, n) EXCEPT !.value = BitsAt(r, n)]
    BY <1>1, <1>3 DEF ReadBits
  <2>2. BitsAt(r, n) \in Nat
    BY BitsAreNumbers DEF IsReader
  <2> QED
    BY <1>1, <1>3, <2>1, <2>2, MovedReads
<1> QED
  BY <1>1, <1>2, <1>3

LEMMA SkipBitsReads ==
  ASSUME NEW r, IsReader(r), NEW n \in Nat
  PROVE  Reads(r, SkipBits(r, n), n)
<1>1. RemainingBits(r) \in Int /\ Position(r) \in Nat
  <2>1. Length(r) \in Nat /\ Position(r) \in Nat
    BY ReaderFields DEF IsReader
  <2> QED
    BY <2>1, RemainingIsRest
<1>2. CASE r.error
  BY <1>1, <1>2 DEF SkipBits, Reads
<1>3. CASE ~r.error /\ RemainingBits(r) < n
  BY <1>3, FailedReads DEF SkipBits
<1>4. CASE ~r.error /\ RemainingBits(r) >= n
  BY <1>1, <1>4, MovedReads DEF SkipBits
<1> QED
  BY <1>1, <1>2, <1>3, <1>4

LEMMA SkipReads ==
  ASSUME NEW r, IsReader(r), NEW n \in Nat
  PROVE  Reads(r, Skip(r, n), 8 * n)
BY MovedBytesReads, FailedReads DEF Skip

LEMMA ReadUInt8Reads ==
  ASSUME NEW r, IsReader(r)
  PROVE  Reads(r, ReadUInt8(r), 8) /\ ReadUInt8(r).value \in Byte
<1>1. ByteAt(r, 0) \in Byte /\ ByteAt(r, 0) \in Nat
  BY BytesAreBytes DEF IsReader, Byte
<1>2. CASE CanRead(r, 1)
  <2>1. ReadUInt8(r) = [MovedBytes(r, 1) EXCEPT !.value = ByteAt(r, 0)]
    BY <1>2 DEF ReadUInt8
  <2>2. MovedBytes(r, 1) \in Readers
    BY <1>2, MovedBytesReads DEF Reads, IsReader
  <2>3. ReadUInt8(r).value = ByteAt(r, 0)
    BY <2>1, <2>2 DEF Readers
  <2>4. Reads(r, ReadUInt8(r), 8 * 1)
    BY <1>1, <1>2, <2>1, MovedBytesReads
  <2> QED
    BY <1>1, <2>3, <2>4
<1>3. CASE ~CanRead(r, 1)
  <2>1. ReadUInt8(r) = Failed(r)
    BY <1>3 DEF ReadUInt8
  <2>2. Failed(r).value \in Byte
    BY DEF Failed, IsReader, Readers, Byte
  <2> QED
    BY <2>1, <2>2, FailedReads
<1> QED
  BY <1>2, <1>3

LEMMA ReadUInt16BEReads ==
  ASSUME NEW r, IsReader(r)
  PROVE  Reads(r, ReadUInt16BE(r), 16)
<1>1. ByteAt(r, 0) * 256 + ByteAt(r, 1) \in Nat
  <2>1. ByteAt(r, 0) \in Nat /\ ByteAt(r, 1) \in Nat
    BY BytesAreBytes DEF IsReader, Byte
  <2> QED
    BY <2>1
<1>2. CASE CanRead(r, 2)
  <2>1. Reads(r, ReadUInt16BE(r), 8 * 2)
    BY <1>1, <1>2, MovedBytesReads DEF ReadUInt16BE
  <2> QED
    BY <2>1
<1>3. CASE ~CanRead(r, 2)
  BY <1>3, FailedReads DEF ReadUInt16BE
<1> QED
  BY <1>2, <1>3

LEMMA NextBytesAreBytes ==
  ASSUME NEW r, IsReader(r), NEW n \in Nat, CanRead(r, n)
  PROVE  NextBytes(r, n) \in Seq(Byte) /\ Len(NextBytes(r, n)) = n
<1>1. r.bytes \in Seq(Byte) /\ r.byteOffset \in Nat /\ r.byteOffset + n <= Len(r.bytes)
      /\ Len(r.bytes) \in Nat
  BY ReaderFields DEF IsReader, CanRead, Length
<1>2. /\ SubSeq(r.bytes, r.byteOffset + 1, r.byteOffset + n) \in Seq(Byte)
      /\ Len(SubSeq(r.bytes, r.byteOffset + 1, r.byteOffset + n)) = n
  <2> DEFINE m == r.byteOffset + 1
             k == r.byteOffset + n
  <2>1. m \in Int /\ k \in Int /\ m .. k \subseteq 1 .. Len(r.bytes)
    BY <1>1
  <2>2. k - m + 1 = n /\ (m <= k <=> n # 0)
    BY <1>1
  <2> HIDE DEF m, k
  <2>3. \A i \in m .. k : r.bytes[i] \in Byte
    BY <1>1, <2>1, ElementOfSeq
  <2>4. SubSeq(r.bytes, m, k) \in Seq(Byte) /\ Len(SubSeq(r.bytes, m, k)) = IF m <= k THEN k - m + 1 ELSE 0
    BY <2>1, <2>3, SubSeqProperties
  <2> QED
    BY <2>2, <2>4 DEF m, k
<1> QED
  BY <1>2 DEF NextBytes

LEMMA ReadDataReads ==
  ASSUME NEW r, IsReader(r), NEW n \in Nat
  PROVE  Reads(r, ReadData(r, n), 8 * n)
<1>1. CASE CanRead(r, n)
  BY <1>1, NextBytesAreBytes, MovedBytesReads DEF ReadData
<1>2. CASE ~CanRead(r, n)
  BY <1>2, FailedReads DEF ReadData
<1> QED
  BY <1>1, <1>2

-----------------------------------------------------------------------------
(* Readers that the parsers make *)

\* r is new, on the first of its bytes.
IsNew(r, length) == IsReader(r) /\ Position(r) = 0 /\ Length(r) = length

LEMMA NewReader ==
  ASSUME NEW bytes \in Seq(Byte), NEW error \in BOOLEAN
  PROVE  IsNew(ReaderOf(bytes, error), Len(bytes)) /\ ReaderOf(bytes, error).error = error
<1> DEFINE r == ReaderOf(bytes, error)
<1>1. /\ r \in Readers /\ r.bytes = bytes /\ r.error = error
      /\ r.byteOffset = 0 /\ r.bitOffset = 0
  BY EmptySeq DEF ReaderOf, Readers
<1> HIDE DEF r
<1>2. Position(r) = 0 /\ Length(r) = Len(bytes) /\ Len(bytes) \in Nat
  BY <1>1, LenProperties DEF Position, Length
<1> QED
  BY <1>1, <1>2 DEF IsNew, IsReader, r

LEMMA EmptyReader == IsNew(Make(<<>>), 0) /\ IsNew(ReaderOf(<<>>, TRUE), 0) /\ Make(<<>>).error = FALSE
BY NewReader, EmptySeq DEF Make

LEMMA MadeReader ==
  ASSUME NEW bytes \in Seq(Byte)
  PROVE  IsReader(Make(bytes))
BY NewReader DEF Make, IsNew

LEMMA MadeWithBytes ==
  ASSUME NEW bytes \in Seq(Byte), NEW n \in 0 .. Len(bytes)
  PROVE  IsReader(MakeWithBytes(bytes, n))
<1>1. Len(bytes) \in Nat /\ n \in Int /\ \A i \in 1 .. n : bytes[i] \in Byte
  BY LenProperties, ElementOfSeq
<1>2. SubSeq(bytes, 1, n) \in Seq(Byte)
  BY <1>1, SubSeqProperties
<1> QED
  BY <1>2, EmptyReader, NewReader DEF MakeWithBytes, IsNew

\* What is behind the first n bytes, as another reader gets it.
LEMMA RestOf ==
  ASSUME NEW bytes \in Seq(Byte), NEW n \in Nat, n <= Len(bytes)
  PROVE  /\ SubSeq(bytes, n + 1, Len(bytes)) \in Seq(Byte)
         /\ Len(SubSeq(bytes, n + 1, Len(bytes))) = Len(bytes) - n
<1> DEFINE m == n + 1
           k == Len(bytes)
<1>1. Len(bytes) \in Nat
  BY LenProperties
<1>2. m \in Int /\ k \in Int /\ m .. k \subseteq 1 .. Len(bytes)
      /\ (IF m <= k THEN k - m + 1 ELSE 0) = k - n
  BY <1>1
<1> HIDE DEF m, k
<1>3. \A i \in m .. k : bytes[i] \in Byte
  BY <1>2, ElementOfSeq
<1>4. SubSeq(bytes, m, k) \in Seq(Byte) /\ Len(SubSeq(bytes, m, k)) = k - n
  BY <1>2, <1>3, SubSeqProperties
<1> QED
  BY <1>4 DEF m, k

\* The reader of a table that is found behind its first n bytes.
LEMMA ReaderBehind ==
  ASSUME NEW bytes \in Seq(Byte), NEW n \in Nat, NEW m \in Nat, n + m <= Len(bytes)
  PROVE  IsReader(MakeWithBytes(SubSeq(bytes, n + 1, Len(bytes)), m))
<1>1. Len(bytes) \in Nat
  BY LenProperties
<1>2. /\ SubSeq(bytes, n + 1, Len(bytes)) \in Seq(Byte)
      /\ Len(SubSeq(bytes, n + 1, Len(bytes))) = Len(bytes) - n
  BY <1>1, RestOf
<1>3. m \in 0 .. Len(bytes) - n
  BY <1>1
<1> QED
  BY <1>2, <1>3, MadeWithBytes

LEMMA SubReaderIsNew ==
  ASSUME NEW r, IsReader(r), NEW n \in Nat
  PROVE  IsNew(SubReader(r, n), IF CanRead(r, n) THEN n ELSE 0)
BY NextBytesAreBytes, NewReader, EmptyReader DEF SubReader, Make

\* A number of a PMT's header.
LEMMA TwoByteFieldIsNumber ==
  ASSUME NEW bytes \in Seq(Byte), NEW n \in Nat, NEW bits \in 1 .. 16
  PROVE  TwoByteField(bytes, n, bits) \in Nat
<1> DEFINE two == SubSeq(bytes, n + 1, n + 2)
           r == MakeWithBytes(two, 2)
           s == SkipBits(r, 16 - bits)
<1>1. CASE Len(bytes) < n + 2
  BY <1>1 DEF TwoByteField
<1>2. CASE ~(Len(bytes) < n + 2)
  <2>1. Len(bytes) \in Nat
    BY LenProperties
  <2>2. n + 1 .. n + 2 \subseteq 1 .. Len(bytes)
    BY <1>2, <2>1
  <2>3. \A i \in n + 1 .. n + 2 : bytes[i] \in Byte
    BY <2>2, ElementOfSeq
  <2>4. two \in Seq(Byte) /\ Len(two) = 2
    <3>1. n + 1 \in Int /\ n + 2 \in Int /\ (IF n + 1 <= n + 2 THEN (n + 2) - (n + 1) + 1 ELSE 0) = 2
      OBVIOUS
    <3> QED
      BY <2>3, <3>1, SubSeqProperties
  <2> HIDE DEF two
  <2>5. IsReader(r)
    BY <2>4, MadeWithBytes
  <2> HIDE DEF r
  <2>6. IsReader(s)
    <3>1. 16 - bits \in Nat
      OBVIOUS
    <3> QED
      BY <2>5, <3>1, SkipBitsReads DEF Reads
  <2> HIDE DEF s
  <2>7. ReadBits(s, bits) \in Readers
    <3>1. bits \in 1 .. 17
      OBVIOUS
    <3>2. Reads(s, ReadBits(s, bits), bits)
      BY <2>6, <3>1, ReadBitsReads
    <3> QED
      BY <3>2 DEF Reads, IsReader
  <2> QED
    BY <1>2, <2>7, ReaderFields DEF TwoByteField, two, r, s
<1> QED
  BY <1>1, <1>2

LEMMA PartReaders ==
  ASSUME NEW bytes \in Seq(Byte)
  PROVE  /\ Len(bytes) >= PatHeaderLength => IsReader(PatReader(bytes))
         /\ IsReader(ProgramInfoReader(bytes)) /\ IsReader(StreamsReader(bytes))
         /\ IsReader(SdtReader(bytes)) /\ IsReader(NumChannels(bytes))
<1>1. Len(bytes) \in Nat
  BY LenProperties
<1>2. ASSUME Len(bytes) >= PatHeaderLength PROVE IsReader(PatReader(bytes))
  <2>1. 5 + (Len(bytes) - 5) <= Len(bytes) /\ Len(bytes) - 5 \in Nat
    BY <1>1, <1>2 DEF PatHeaderLength
  <2> QED
    BY <2>1, ReaderBehind DEF PatReader, PatHeaderLength
<1>3. programInfoLength(bytes) \in Nat
  BY TwoByteFieldIsNumber DEF programInfoLength
<1>4. IsReader(ProgramInfoReader(bytes))
  <2> DEFINE n == programInfoLength(bytes)
  <2>1. CASE n = 0 \/ 9 + n > Len(bytes)
    BY <2>1, EmptyReader DEF ProgramInfoReader, PmtHeaderLength, IsNew
  <2>2. CASE ~(n = 0 \/ 9 + n > Len(bytes))
    <3>1. 9 + n <= Len(bytes)
      BY <1>1, <1>3, <2>2
    <3>2. IsReader(MakeWithBytes(SubSeq(bytes, 9 + 1, Len(bytes)), n))
      BY <1>3, <3>1, ReaderBehind
    <3> QED
      BY <2>2, <3>2 DEF ProgramInfoReader, PmtHeaderLength
  <2> QED
    BY <2>1, <2>2
<1>5. IsReader(StreamsReader(bytes))
  <2> DEFINE n == EsDataStart(bytes)
  <2>1. n \in Nat
    BY <1>3 DEF EsDataStart, PmtHeaderLength
  <2>2. CASE n >= Len(bytes)
    BY <2>2, EmptyReader DEF StreamsReader, IsNew
  <2>3. CASE ~(n >= Len(bytes))
    <3> HIDE DEF n
    <3>1. n + (Len(bytes) - n) <= Len(bytes) /\ Len(bytes) - n \in Nat
      BY <1>1, <2>1, <2>3
    <3>2. IsReader(MakeWithBytes(SubSeq(bytes, n + 1, Len(bytes)), Len(bytes) - n))
      BY <2>1, <3>1, ReaderBehind
    <3> QED
      BY <2>3, <3>2 DEF StreamsReader, n
  <2> QED
    BY <2>2, <2>3
<1>6. IsReader(SdtReader(bytes))
  BY MadeReader, SkipReads DEF SdtReader, SdtHeaderLength, Reads
<1>7. IsReader(NumChannels(bytes))
  BY MadeReader, SkipReads, ReadUInt8Reads DEF NumChannels, Reads
<1> QED
  BY <1>2, <1>4, <1>5, <1>6, <1>7

-----------------------------------------------------------------------------
(* Turns of the loops *)

LEMMA DataDropped ==
  ASSUME NEW r, IsReader(r)
  PROVE  Reads(r, [r EXCEPT !.data = <<>>], 0)
<1> DEFINE s == [r EXCEPT !.data = <<>>]
<1>1. /\ s \in Readers /\ s.bytes = r.bytes /\ s.error = r.error
      /\ s.byteOffset = r.byteOffset /\ s.bitOffset = r.bitOffset
  BY EmptySeq DEF Readers, IsReader
<1>2. Position(s) = Position(r) /\ Length(s) = Length(r) /\ Position(r) \in Nat
  BY <1>1, ReaderFields DEF IsReader, Position, Length
<1> HIDE DEF s
<1>3. (s.error <=> r.error) /\ r.error \in BOOLEAN
  BY <1>1, ReaderFields DEF IsReader
<1>4. Reads(r, s, 0)
  BY <1>1, <1>2, <1>3 DEF Reads, IsReader
<1> QED
  BY <1>4 DEF s

\* A turn of the PAT's loop reads 32 bits.
LEMMA ProgramTurnReads ==
  ASSUME NEW r, IsReader(r)
  PROVE  Reads(r, ReadProgram(r).reader, 32)
<1> DEFINE number == ReadUInt16BE(r)
           skip   == SkipBits(number, 3)
           pid    == ReadBits(skip, 13)
<1>1. Reads(r, number, 16)
  BY ReadUInt16BEReads
<1>2. ReadProgram(r).reader = pid
  BY DEF ReadProgram
<1> HIDE DEF number
<1>3. Reads(number, skip, 3)
  BY <1>1, SkipBitsReads DEF Reads
<1> HIDE DEF skip
<1>4. Reads(skip, pid, 13)
  <2>1. 13 \in 1 .. 17 /\ IsReader(skip)
    BY <1>3 DEF Reads
  <2> QED
    BY <2>1, ReadBitsReads
<1> HIDE DEF pid
<1>5. Reads(r, skip, 16 + 3)
  BY <1>1, <1>3, ReadsOn
<1>6. Reads(r, pid, 19 + 13)
  BY <1>4, <1>5, ReadsOn
<1> QED
  BY <1>2, <1>6

\* A turn of the PMT's loop reads 40 bits.
LEMMA StreamTurnReads ==
  ASSUME NEW r, IsReader(r)
  PROVE  Reads(r, ReadStream(r).reader, 40) /\ ReadStream(r).descriptorsLength \in Nat
<1> DEFINE type   == ReadUInt8(r)
           skip   == SkipBits(type, 3)
           pid    == ReadBits(skip, 13)
           over   == SkipBits(pid, 4)
           length == ReadBits(over, 12)
<1>1. Reads(r, type, 8)
  BY ReadUInt8Reads
<1>2. ReadStream(r).reader = length /\ ReadStream(r).descriptorsLength = length.value
  BY DEF ReadStream
<1> HIDE DEF type
<1>3. Reads(type, skip, 3)
  BY <1>1, SkipBitsReads DEF Reads
<1> HIDE DEF skip
<1>4. Reads(skip, pid, 13)
  <2>1. 13 \in 1 .. 17 /\ IsReader(skip)
    BY <1>3 DEF Reads
  <2> QED
    BY <2>1, ReadBitsReads
<1> HIDE DEF pid
<1>5. Reads(pid, over, 4)
  BY <1>4, SkipBitsReads DEF Reads
<1> HIDE DEF over
<1>6. Reads(over, length, 12)
  <2>1. 12 \in 1 .. 17 /\ IsReader(over)
    BY <1>5 DEF Reads
  <2> QED
    BY <2>1, ReadBitsReads
<1> HIDE DEF length
<1>7. Reads(r, skip, 8 + 3)
  BY <1>1, <1>3, ReadsOn
<1>8. Reads(r, pid, 11 + 13)
  BY <1>4, <1>7, ReadsOn
<1>9. Reads(r, over, 24 + 4)
  BY <1>5, <1>8, ReadsOn
<1>10. Reads(r, length, 28 + 12)
  BY <1>6, <1>9, ReadsOn
<1>11. length.value \in Nat
  BY <1>10, ReaderFields DEF Reads, IsReader
<1> QED
  BY <1>2, <1>10, <1>11

\* A turn of the SDT's loop reads 40 bits.
LEMMA ServiceTurnReads ==
  ASSUME NEW r, IsReader(r)
  PROVE  Reads(r, ReadService(r).reader, 40)
<1> DEFINE id     == ReadUInt16BE(r)
           flags  == ReadUInt8(id)
           status == ReadUInt16BE(flags)
<1>1. Reads(r, id, 16)
  BY ReadUInt16BEReads
<1>2. ReadService(r).reader = status
  BY DEF ReadService
<1> HIDE DEF id
<1>3. Reads(id, flags, 8)
  BY <1>1, ReadUInt8Reads DEF Reads
<1> HIDE DEF flags
<1>4. Reads(flags, status, 16)
  BY <1>3, ReadUInt16BEReads DEF Reads
<1> HIDE DEF status
<1>5. Reads(r, flags, 16 + 8)
  BY <1>1, <1>3, ReadsOn
<1>6. Reads(r, status, 24 + 16)
  BY <1>4, <1>5, ReadsOn
<1> QED
  BY <1>2, <1>6

\* A turn of the VCT's loop reads 256 bits.
LEMMA ChannelTurnReads ==
  ASSUME NEW r, IsReader(r)
  PROVE  Reads(r, ReadChannel(r).reader, 256) /\ ReadChannel(r).descriptorsLength \in Nat
<1> DEFINE skip == SkipBits(r, 246)
           length == ReadBits(skip, 10)
<1>1. ReadChannel(r).reader = Skip(r, 32) /\ ReadChannel(r).descriptorsLength = length.value
  BY DEF ReadChannel, ChannelField, ChannelLength
<1>2. Reads(r, Skip(r, 32), 8 * 32)
  BY SkipReads
<1>3. IsReader(skip)
  BY SkipBitsReads DEF Reads
<1> HIDE DEF skip
<1>4. Reads(skip, length, 10)
  <2>1. 10 \in 1 .. 17
    OBVIOUS
  <2> QED
    BY <1>3, <2>1, ReadBitsReads
<1>5. length.value \in Nat
  BY <1>4, ReaderFields DEF Reads, IsReader
<1> QED
  BY <1>1, <1>2, <1>5

\* A turn of a descriptor loop reads 16 bits or more.
LEMMA DescriptorTurnReads ==
  ASSUME NEW r, IsReader(r)
  PROVE  \E n \in Nat \ {0} : Reads(r, DescriptorTurn(r).reader, n)
<1> DEFINE tag    == ReadUInt8(r)
           length == ReadUInt8(tag)
           data   == ReadData(length, length.value)
           none   == [length EXCEPT !.data = <<>>]
<1>1. Reads(r, tag, 8)
  BY ReadUInt8Reads
<1>2. DescriptorTurn(r).reader \in {length, data, none}
  BY DEF DescriptorTurn
<1> HIDE DEF tag
<1>3. Reads(tag, length, 8) /\ length.value \in Byte
  BY <1>1, ReadUInt8Reads DEF Reads
<1> HIDE DEF length
<1>4. Reads(r, length, 8 + 8)
  BY <1>1, <1>3, ReadsOn
<1>5. IsReader(length) /\ length.value \in Nat /\ 8 * length.value \in Nat
  BY <1>3 DEF Reads, Byte
<1>6. Reads(length, data, 8 * length.value) /\ Reads(length, none, 0)
  BY <1>5, ReadDataReads, DataDropped
<1> HIDE DEF data, none
<1>7. Reads(r, data, 16 + 8 * length.value) /\ Reads(r, none, 16 + 0)
  BY <1>4, <1>5, <1>6, ReadsOn
<1>8. 16 + 8 * length.value \in Nat \ {0} /\ 16 + 0 \in Nat \ {0} /\ 16 \in Nat \ {0}
  BY <1>5
<1> QED
  BY <1>2, <1>4, <1>7, <1>8

\* The bytes that are set aside, and the reader that they are taken from.
LEMMA SetAside ==
  ASSUME NEW r, IsReader(r), NEW n \in Nat
  PROVE  /\ Reads(r, AfterSubReader(r, n), 8 * n)
         /\ IsNew(SubReader(r, n), IF AfterSubReader(r, n).error THEN 0 ELSE n)
<1>1. Reads(r, AfterSubReader(r, n), 8 * n)
  BY SkipReads DEF AfterSubReader
<1>2. CanRead(r, n) <=> ~AfterSubReader(r, n).error
  <2>1. CASE CanRead(r, n)
    <3>1. AfterSubReader(r, n) = MovedBytes(r, n) /\ ~r.error
      BY <2>1 DEF AfterSubReader, Skip, CanRead
    <3>2. MovedBytes(r, n).error = r.error
      BY DEF MovedBytes, IsReader, Readers
    <3> QED
      BY <2>1, <3>1, <3>2
  <2>2. CASE ~CanRead(r, n)
    <3>1. AfterSubReader(r, n) = [r EXCEPT !.error = TRUE]
      BY <2>2 DEF AfterSubReader, Skip
    <3>2. [r EXCEPT !.error = TRUE].error = TRUE
      BY DEF IsReader, Readers
    <3> QED
      BY <2>2, <3>1, <3>2
  <2> QED
    BY <2>1, <2>2
<1>3. IsNew(SubReader(r, n), IF CanRead(r, n) THEN n ELSE 0)
  BY SubReaderIsNew
<1>4. (IF CanRead(r, n) THEN n ELSE 0) = (IF AfterSubReader(r, n).error THEN 0 ELSE n)
  BY <1>2
<1> QED
  BY <1>1, <1>3, <1>4


-----------------------------------------------------------------------------
(* What comes of a section *)

LEMMA SectionOfIsBytes ==
  ASSUME NEW t \in Tables
  PROVE  SectionOf(t) \in Seq(Byte)
<1>1. t.head \in Seq(Byte)
  BY TablesAssumption
<1>2. \A i \in DOMAIN t.entries : t.entries[i].bytes \in Seq(Byte)
  BY TablesAssumption
<1> DEFINE parts == [i \in DOMAIN t.entries |-> t.entries[i].bytes]
<1>3. parts \in Seq(Seq(Byte))
  <2>1. DOMAIN t.entries = 1 .. Len(t.entries) /\ Len(t.entries) \in Nat
    <3>1. t.entries \in Seq(Range(t.entries))
      BY TablesAssumption
    <3> QED
      BY <3>1, LenProperties
  <2>2. parts = [i \in 1 .. Len(t.entries) |-> t.entries[i].bytes]
    BY <2>1
  <2> QED
    BY <1>2, <2>1, <2>2
<1> QED
  BY <1>1, <1>3, FlattenedType, ConcatProperties DEF SectionOf, BytesOf

LEMMA DamagedIsBytes ==
  ASSUME NEW bytes \in Seq(Byte), NEW damaged \in Damages(bytes)
  PROVE  damaged \in Seq(Byte)
<1> DEFINE changed  == {[bytes EXCEPT ![i] = b] : i \in DOMAIN bytes, b \in DamagedBytes}
           cut      == {SubSeq(bytes, 1, n) : n \in 0 .. Len(bytes)}
           extended == {bytes \o [i \in 1 .. n |-> 255] : n \in 1 .. MaxForeign}
<1>0. Damages(bytes) = UNION {changed, cut, extended}
  BY DEF Damages
<1>1. CASE damaged \in changed
  <2>1. PICK i \in DOMAIN bytes, b \in DamagedBytes : damaged = [bytes EXCEPT ![i] = b]
    BY <1>1
  <2>2. b \in Byte
    BY <2>1, TablesAssumption
  <2> QED
    BY <2>1, <2>2, ExceptSeq
<1>2. CASE damaged \in cut
  <2>1. PICK n \in 0 .. Len(bytes) : damaged = SubSeq(bytes, 1, n)
    BY <1>2
  <2>2. Len(bytes) \in Nat
    BY LenProperties
  <2>3. n \in Int /\ \A i \in 1 .. n : bytes[i] \in Byte
    BY <2>2, ElementOfSeq
  <2> QED
    BY <2>1, <2>3, SubSeqProperties
<1>3. CASE damaged \in extended
  <2>1. PICK n \in 1 .. MaxForeign : damaged = bytes \o [i \in 1 .. n |-> 255]
    BY <1>3
  <2>2. n \in Nat
    BY <2>1
  <2>3. [i \in 1 .. n |-> 255] \in Seq(Byte)
    BY <2>2 DEF Byte
  <2> QED
    BY <2>1, <2>3, ConcatProperties
<1> HIDE DEF changed, cut, extended
<1> QED
  BY <1>0, <1>1, <1>2, <1>3


-----------------------------------------------------------------------------
(* The steps of ByteStream *)

LEMMA StreamOpens ==
  ASSUME PartsRead' = PartsRead + 1, IsReader(reader'), IsNew(descReader', 0)
  PROVE  Stream!Next
<1>1. /\ Length(reader') \in Nat /\ Position(reader') \in Nat /\ reader'.error \in BOOLEAN
      /\ Position(reader') <= Length(reader') * 8
      /\ Length(descReader') = 0 /\ Position(descReader') = 0
  BY ReaderFields DEF IsReader, IsNew
<1>2. /\ Length(reader') * 8 \in Nat /\ Position(reader') \in 0 .. Length(reader') * 8
      /\ Length(descReader') * 8 = 0
  BY <1>1
<1>3. Stream!Open
  BY <1>1, <1>2 DEF Stream!Open
<1> QED
  BY <1>3 DEF Stream!Next

\* A read of n bits, of which the last m bytes are set aside, or one that fails.
LEMMA StreamGoesOn ==
  ASSUME PartsRead' = PartsRead, IsReader(reader), NEW n \in Nat \ {0}, NEW m \in Nat, 8 * m < n,
         Reads(reader, reader', n), IsNew(descReader', IF reader'.error THEN 0 ELSE m),
         reader.error => IsNew(descReader, 0)
  PROVE  [Stream!Next]_Stream!vars
<1>1. /\ Length(reader) \in Nat /\ Position(reader) \in Nat /\ reader.error \in BOOLEAN
      /\ Length(reader') = Length(reader)
      /\ Position(reader') \in Nat /\ reader'.error \in BOOLEAN
      /\ Position(reader') <= Length(reader) * 8
      /\ Position(descReader') = 0
  BY ReaderFields DEF IsReader, IsNew, Reads, Length
<1>2. CASE reader.error
  <2>1. /\ Position(reader') = Position(reader) /\ reader'.error = reader.error
        /\ Length(descReader) = 0 /\ Position(descReader) = 0
    BY <1>1, <1>2 DEF Reads, IsNew
  <2>2. Length(descReader') = 0
    BY <2>1, <1>2 DEF IsNew
  <2>3. UNCHANGED Stream!vars
    BY <1>1, <2>1, <2>2 DEF Stream!vars
  <2> QED
    BY <2>3
<1>3. CASE ~reader.error /\ reader'.error
  <2>1. Length(descReader') * 8 = 0
    BY <1>3 DEF IsNew
  <2>2. Position(reader') \in Position(reader) .. Length(reader) * 8
    BY <1>1 DEF Reads
  <2>3. Stream!Fail
    BY <1>1, <1>3, <2>1, <2>2 DEF Stream!Fail
  <2> QED
    BY <2>3 DEF Stream!Next
<1>4. CASE ~reader.error /\ ~reader'.error
  <2>1. Length(descReader') = m /\ Position(reader') = Position(reader) + n
    BY <1>4 DEF IsNew, Reads
  <2>2. /\ Position(reader') \in Position(reader) + 1 .. Length(reader) * 8
        /\ Length(descReader') * 8 \in 0 .. Position(reader') - Position(reader) - 1
    BY <1>1, <2>1
  <2>3. Stream!Read
    BY <1>1, <1>4, <2>2 DEF Stream!Read
  <2> QED
    BY <2>3 DEF Stream!Next
<1> QED
  BY <1>1, <1>2, <1>3, <1>4

\* A read of what was set aside.
LEMMA StreamGoesOnAside ==
  ASSUME PartsRead' = PartsRead, IsReader(descReader), NEW n \in Nat,
         Reads(descReader, descReader', n), reader' = reader
  PROVE  [Stream!Next]_Stream!vars
<1>1. /\ Length(descReader) \in Nat /\ Position(descReader) \in Nat
      /\ Length(descReader') = Length(descReader) /\ Position(descReader') \in Nat
      /\ Position(descReader') <= Length(descReader) * 8
      /\ Position(descReader') >= Position(descReader)
  BY ReaderFields DEF IsReader, Reads, Length
<1>2. CASE Position(descReader') = Position(descReader)
  BY <1>1, <1>2 DEF Stream!vars
<1>3. CASE Position(descReader') # Position(descReader)
  <2>1. Position(descReader') \in Position(descReader) + 1 .. Length(descReader) * 8
    BY <1>1, <1>3
  <2>2. Stream!ReadInner
    BY <1>1, <2>1 DEF Stream!ReadInner
  <2> QED
    BY <2>2 DEF Stream!Next
<1> QED
  BY <1>2, <1>3


-----------------------------------------------------------------------------
(* The inductive invariant *)

\* Nothing is set aside: of a section whose reading has failed or has not begun, and of one
\* whose entries have no bytes of their own.
NothingAside ==
  reader.error \/ pc \in {"start", "nil", "programDescriptors"} \/ kind \notin {"PMT", "VCT"}

ReaderInv ==
  /\ section \in Seq(Byte)
  /\ pc \in {"start", "nil", "programDescriptors", "entries", "descriptors", "done"}
  /\ pc = "programDescriptors" => kind = "PMT"
  /\ IsReader(reader) /\ IsReader(descReader)
  /\ NothingAside => IsNew(descReader, 0)

StreamStep == [Stream!Next]_Stream!vars

LEMMA InitReaderInv == Init => ReaderInv /\ Stream!Init
<1> SUFFICES ASSUME Init PROVE ReaderInv /\ Stream!Init
  OBVIOUS
<1>1. section \in Seq(Byte)
  <2>1. written \in Tables /\ section \in Damages(SectionOf(written))
    BY DEF Init
  <2> QED
    BY <2>1, SectionOfIsBytes, DamagedIsBytes
<1>2. pc = "start" /\ reader = Make(<<>>) /\ descReader = Make(<<>>)
  BY DEF Init
<1>3. /\ IsNew(reader, 0) /\ IsNew(descReader, 0) /\ reader.error = FALSE
  BY <1>2, EmptyReader
<1>4. ReaderInv
  BY <1>1, <1>2, <1>3 DEF ReaderInv, IsNew
<1>5. Stream!Init
  <2>1. PartsRead = 0
    BY <1>2 DEF PartsRead
  <2>2. Length(reader) * 8 = 0 /\ Length(descReader) * 8 = 0
        /\ Position(reader) = 0 /\ Position(descReader) = 0
    BY <1>3 DEF IsNew
  <2> QED
    BY <1>3, <2>1, <2>2 DEF Stream!Init
<1> QED
  BY <1>4, <1>5

\* A part is opened.
LEMMA OpensStep ==
  ASSUME ReaderInv, NothingAside, section' = section, PartsRead' = PartsRead + 1,
         IsReader(reader'), descReader' = descReader,
         pc' \in {"programDescriptors", "entries", "done"},
         pc' = "programDescriptors" => kind' = "PMT"
  PROVE  ReaderInv' /\ StreamStep
<1>1. IsNew(descReader', 0) /\ IsReader(descReader') /\ section' \in Seq(Byte)
  BY DEF ReaderInv
<1>2. ReaderInv'
  BY <1>1 DEF ReaderInv
<1>3. StreamStep
  BY <1>1, StreamOpens DEF StreamStep
<1> QED
  BY <1>2, <1>3

LEMMA RefuseStep ==
  ASSUME ReaderInv, Refuse
  PROVE  ReaderInv' /\ StreamStep
<1>1. /\ pc = "start" /\ pc' = "nil"
      /\ section' = section /\ reader' = reader /\ descReader' = descReader
      /\ written' = written
  BY DEF Refuse
<1>2. ReaderInv'
  BY <1>1 DEF ReaderInv, NothingAside, kind
<1>3. PartsRead' = PartsRead
  BY <1>1 DEF PartsRead
<1>4. StreamStep
  BY <1>1, <1>3 DEF StreamStep, Stream!vars
<1> QED
  BY <1>2, <1>4

LEMMA BeginStep ==
  ASSUME ReaderInv, NEW r, NEW enough \in BOOLEAN, NEW next, NEW announced,
         Begin(r, enough, next, announced), enough => IsReader(r),
         next \in {"programDescriptors", "entries"}, next = "programDescriptors" <=> kind = "PMT",
         kind = "PMT" => enough
  PROVE  ReaderInv' /\ StreamStep
<1>1. /\ pc = "start" /\ reader' = (IF enough THEN r ELSE Make(<<>>))
      /\ pc' = (IF enough THEN next ELSE "done")
      /\ section' = section /\ descReader' = descReader /\ written' = written
  BY DEF Begin
<1>2. IsReader(reader')
  BY <1>1, EmptyReader DEF IsNew
<1>3. PartsRead' = PartsRead + 1 /\ kind' = kind
  BY <1>1 DEF PartsRead, kind
<1>4. NothingAside
  BY <1>1 DEF NothingAside
<1> QED
  BY <1>1, <1>2, <1>3, <1>4, OpensStep

LEMMA BeginTableStep ==
  ASSUME ReaderInv, BeginPat \/ BeginPmt \/ BeginSdt \/ BeginVct
  PROVE  ReaderInv' /\ StreamStep
<1>0. section \in Seq(Byte) /\ Len(section) \in Nat
  BY LenProperties DEF ReaderInv
<1>1. CASE BeginPat
  <2>1. Len(section) >= PatHeaderLength => IsReader(PatReader(section))
    BY <1>0, PartReaders
  <2>2. (Len(section) >= PatHeaderLength) \in BOOLEAN
    OBVIOUS
  <2>3. PICK announced :
          Begin(PatReader(section), Len(section) >= PatHeaderLength, "entries", announced)
    BY <1>1 DEF BeginPat
  <2>4. kind = "PAT"
    BY <1>1 DEF BeginPat
  <2> QED
    BY <2>1, <2>2, <2>3, <2>4, BeginStep
<1>2. CASE BeginPmt
  <2>1. Begin(ProgramInfoReader(section), TRUE, "programDescriptors", 0) /\ kind = "PMT"
    BY <1>2 DEF BeginPmt
  <2>2. IsReader(ProgramInfoReader(section))
    BY <1>0, PartReaders
  <2> QED
    BY <2>1, <2>2, BeginStep
<1>3. CASE BeginSdt
  <2>1. Begin(SdtReader(section), Len(section) >= SdtHeaderLength, "entries", 0) /\ kind = "SDT"
    BY <1>3 DEF BeginSdt
  <2>2. IsReader(SdtReader(section)) /\ (Len(section) >= SdtHeaderLength) \in BOOLEAN
    BY <1>0, PartReaders
  <2> QED
    BY <2>1, <2>2, BeginStep
<1>4. CASE BeginVct
  <2> DEFINE count == NumChannels(section)
  <2>1. Begin(count, ~count.error, "entries", count.value) /\ kind = "VCT"
    BY <1>4 DEF BeginVct
  <2>2. IsReader(count) /\ (~count.error) \in BOOLEAN
    BY <1>0, PartReaders
  <2> HIDE DEF count
  <2> QED
    BY <2>1, <2>2, BeginStep
<1> QED
  BY <1>1, <1>2, <1>3, <1>4


\* A part is read, and bytes behind it may be set aside.
LEMMA ReadsStep ==
  ASSUME ReaderInv, NEW n \in Nat \ {0}, NEW m \in Nat, 8 * m < n, Reads(reader, reader', n),
         IsNew(descReader', IF reader'.error THEN 0 ELSE m),
         kind \notin {"PMT", "VCT"} => m = 0,
         pc = "programDescriptors" => m = 0 /\ pc' = pc,
         pc \in {"programDescriptors", "entries", "descriptors"},
         pc' \in {"programDescriptors", "entries", "descriptors", "done"},
         pc' = "programDescriptors" => pc = "programDescriptors",
         section' = section, written' = written
  PROVE  ReaderInv' /\ StreamStep
<1>1. /\ IsReader(reader) /\ (reader.error => IsNew(descReader, 0))
      /\ reader.error \in BOOLEAN /\ section' \in Seq(Byte)
  BY ReaderFields DEF ReaderInv, NothingAside, IsReader
<1>2. PartsRead' = PartsRead /\ kind' = kind
  BY DEF PartsRead, kind
<1>3. StreamStep
  BY <1>1, <1>2, StreamGoesOn DEF StreamStep
<1>4. NothingAside' => IsNew(descReader', 0)
  BY <1>2 DEF NothingAside
<1>5. IsReader(reader') /\ IsReader(descReader')
  BY DEF Reads, IsNew
<1>6. ReaderInv'
  BY <1>1, <1>2, <1>4, <1>5 DEF ReaderInv
<1> QED
  BY <1>3, <1>6

\* What was set aside is read.
LEMMA ReadsAsideStep ==
  ASSUME ReaderInv, NEW n \in Nat, Reads(descReader, descReader', n), reader' = reader,
         pc = "descriptors", pc' \in {"entries", "descriptors"},
         section' = section, written' = written
  PROVE  ReaderInv' /\ StreamStep
<1>1. IsReader(descReader) /\ IsReader(descReader') /\ section' \in Seq(Byte)
  BY DEF ReaderInv, Reads
<1>2. PartsRead' = PartsRead /\ kind' = kind
  BY DEF PartsRead, kind
<1>3. StreamStep
  BY <1>1, <1>2, StreamGoesOnAside DEF StreamStep
<1>4. IsNew(descReader, 0) => IsNew(descReader', 0)
  <2>1. ASSUME IsNew(descReader, 0) PROVE IsNew(descReader', 0)
    <3>1. Length(descReader') = 0 /\ Position(descReader') <= 0 /\ Position(descReader') \in Nat
      BY <1>1, <2>1, ReaderFields DEF IsNew, Reads, IsReader, Length
    <3> QED
      BY <1>1, <3>1 DEF IsNew
  <2> QED
    BY <2>1
<1>5. NothingAside' => NothingAside
  BY <1>2 DEF NothingAside
<1>6. ReaderInv'
  BY <1>1, <1>2, <1>4, <1>5 DEF ReaderInv
<1> QED
  BY <1>3, <1>6

\* Nothing is read.
LEMMA TurnsStep ==
  ASSUME ReaderInv, reader' = reader, descReader' = descReader,
         pc \in {"entries", "descriptors"}, pc' \in {"entries", "done"},
         section' = section, written' = written
  PROVE  ReaderInv' /\ StreamStep
<1>1. PartsRead' = PartsRead /\ kind' = kind
  BY DEF PartsRead, kind
<1>2. NothingAside' => NothingAside
  BY <1>1 DEF NothingAside
<1>3. ReaderInv'
  BY <1>1, <1>2 DEF ReaderInv
<1>4. StreamStep
  BY <1>1 DEF StreamStep, Stream!vars
<1> QED
  BY <1>3, <1>4

LEMMA ReadProgramDescriptorStep ==
  ASSUME ReaderInv, ReadProgramDescriptor
  PROVE  ReaderInv' /\ StreamStep
<1> DEFINE turn == DescriptorTurn(reader)
<1>1. /\ pc = "programDescriptors"
      /\ reader' = (IF turn.truncated THEN StreamsReader(section) ELSE turn.reader)
      /\ pc' = (IF turn.truncated THEN "entries" ELSE pc)
      /\ section' = section /\ descReader' = descReader /\ written' = written
  BY DEF ReadProgramDescriptor
<1>2. NothingAside /\ kind = "PMT" /\ IsReader(reader) /\ section \in Seq(Byte)
      /\ IsNew(descReader, 0)
  BY <1>1 DEF NothingAside, ReaderInv
<1>3. PICK n \in Nat \ {0} : Reads(reader, turn.reader, n)
  BY <1>2, DescriptorTurnReads
<1> HIDE DEF turn
<1>4. CASE turn.truncated
  <2>1. IsReader(reader') /\ pc' = "entries"
    BY <1>1, <1>2, <1>4, PartReaders
  <2>2. PartsRead' = PartsRead + 1
    BY <1>1, <1>2, <2>1 DEF PartsRead, kind
  <2> QED
    BY <1>1, <1>2, <2>1, <2>2, OpensStep
<1>5. CASE ~turn.truncated
  <2>1. Reads(reader, reader', n) /\ pc' = pc
    BY <1>1, <1>3, <1>5
  <2>2. IsNew(descReader', IF reader'.error THEN 0 ELSE 0) /\ 0 \in Nat /\ 8 * 0 < n
    BY <1>1, <1>2
  <2> QED
    BY <1>1, <2>1, <2>2, ReadsStep
<1> QED
  BY <1>4, <1>5

LEMMA BeginStreamsStep ==
  ASSUME ReaderInv, BeginStreams
  PROVE  ReaderInv' /\ StreamStep
<1>1. /\ pc = "programDescriptors" /\ pc' = "entries" /\ reader' = StreamsReader(section)
      /\ section' = section /\ descReader' = descReader /\ written' = written
  BY DEF BeginStreams
<1>2. NothingAside /\ kind = "PMT" /\ section \in Seq(Byte)
  BY <1>1 DEF NothingAside, ReaderInv
<1>3. IsReader(reader')
  BY <1>1, <1>2, PartReaders
<1>4. PartsRead' = PartsRead + 1
  BY <1>1, <1>2 DEF PartsRead, kind
<1> QED
  BY <1>1, <1>2, <1>3, <1>4, OpensStep

LEMMA ReadDescriptorStep ==
  ASSUME ReaderInv, ReadDescriptor
  PROVE  ReaderInv' /\ StreamStep
<1> DEFINE turn == DescriptorTurn(DescriptorReader)
<1>1. /\ pc = "descriptors" /\ DescriptorReaderMoves(turn.reader)
      /\ section' = section /\ written' = written
  BY DEF ReadDescriptor
<1>2. pc' \in {"entries", "descriptors"}
  BY <1>1 DEF ReadDescriptor, Complete
<1>3. CASE kind = "SDT"
  <2>1. turn = DescriptorTurn(reader) /\ reader' = turn.reader /\ descReader' = descReader
    BY <1>1, <1>3 DEF DescriptorReader, DescriptorReaderMoves
  <2>2. IsReader(reader) /\ IsNew(descReader, 0)
    BY <1>3 DEF ReaderInv, NothingAside
  <2>3. PICK n \in Nat \ {0} : Reads(reader, reader', n)
    BY <2>1, <2>2, DescriptorTurnReads
  <2>4. IsNew(descReader', IF reader'.error THEN 0 ELSE 0) /\ 0 \in Nat /\ 8 * 0 < n
    BY <2>1, <2>2
  <2> QED
    BY <1>1, <1>2, <2>3, <2>4, ReadsStep
<1>4. CASE kind # "SDT"
  <2>1. turn = DescriptorTurn(descReader) /\ descReader' = turn.reader /\ reader' = reader
    BY <1>1, <1>4 DEF DescriptorReader, DescriptorReaderMoves
  <2>2. IsReader(descReader)
    BY DEF ReaderInv
  <2>3. PICK n \in Nat \ {0} : Reads(descReader, descReader', n)
    BY <2>1, <2>2, DescriptorTurnReads
  <2> QED
    BY <1>1, <1>2, <2>1, <2>3, ReadsAsideStep
<1> QED
  BY <1>3, <1>4

LEMMA EndStep ==
  ASSUME ReaderInv, EndDescriptors \/ EndEntries
  PROVE  ReaderInv' /\ StreamStep
<1>1. /\ pc \in {"entries", "descriptors"} /\ pc' \in {"entries", "done"}
      /\ section' = section /\ written' = written
      /\ reader' = reader /\ descReader' = descReader
  BY DEF EndDescriptors, EndEntries, Complete
<1> QED
  BY <1>1, TurnsStep


LEMMA BreakStep ==
  ASSUME ReaderInv, NEW r, NEW n \in Nat \ {0}, Reads(reader, r, n), Break(r), pc = "entries",
         section' = section, written' = written
  PROVE  ReaderInv' /\ StreamStep
<1>1. pc' = "done" /\ reader' = r /\ descReader' = Make(<<>>)
  BY DEF Break
<1>2. Reads(reader, reader', n)
  BY <1>1
<1>3. IsNew(descReader', IF reader'.error THEN 0 ELSE 0) /\ 0 \in Nat /\ 8 * 0 < n
  BY <1>1, EmptyReader
<1> QED
  BY <1>1, <1>2, <1>3, ReadsStep

\* An entry whose descriptors have bytes of their own.
LEMMA DescendStep ==
  ASSUME ReaderInv, NEW turn, NEW n \in Nat \ {0}, Reads(reader, turn.reader, n),
         turn.descriptorsLength \in Nat,
         Descend(turn, AfterSubReader(turn.reader, turn.descriptorsLength),
                 SubReader(turn.reader, turn.descriptorsLength), 0),
         pc = "entries", kind \in {"PMT", "VCT"}, section' = section, written' = written
  PROVE  ReaderInv' /\ StreamStep
<1> DEFINE m == turn.descriptorsLength
<1>1. /\ reader' = AfterSubReader(turn.reader, m) /\ descReader' = SubReader(turn.reader, m)
      /\ pc' \in {"entries", "descriptors"}
  BY DEF Descend, Complete
<1>2. IsReader(turn.reader) /\ IsReader(reader) /\ m \in Nat
  BY DEF Reads, ReaderInv
<1> HIDE DEF m
<1>3. /\ Reads(turn.reader, reader', 8 * m)
      /\ IsNew(descReader', IF reader'.error THEN 0 ELSE m)
  BY <1>1, <1>2, SetAside
<1>4. 8 * m \in Nat /\ n + 8 * m \in Nat \ {0} /\ 8 * m < n + 8 * m
  BY <1>2
<1>5. Reads(reader, reader', n + 8 * m)
  BY <1>2, <1>3, <1>4, ReadsOn
<1> QED
  BY <1>1, <1>2, <1>3, <1>4, <1>5, ReadsStep

LEMMA ReadPatProgramStep ==
  ASSUME ReaderInv, ReadPatProgram
  PROVE  ReaderInv' /\ StreamStep
<1> DEFINE turn == ReadProgram(reader)
<1>1. kind = "PAT" /\ pc = "entries" /\ section' = section /\ written' = written
  BY DEF ReadPatProgram
<1>2. IsReader(reader) /\ IsNew(descReader, 0)
  BY <1>1 DEF ReaderInv, NothingAside
<1>3. Reads(reader, turn.reader, 32) /\ 32 \in Nat \ {0}
  BY <1>2, ProgramTurnReads
<1>4. CASE turn.reader.error
  <2>1. Break(turn.reader)
    BY <1>4 DEF ReadPatProgram
  <2> QED
    BY <1>1, <1>3, <2>1, BreakStep
<1>5. CASE ~turn.reader.error
  <2>1. reader' = turn.reader /\ pc' = pc /\ descReader' = descReader
    BY <1>5 DEF ReadPatProgram
  <2>2. /\ Reads(reader, reader', 32) /\ 0 \in Nat /\ 8 * 0 < 32
        /\ IsNew(descReader', IF reader'.error THEN 0 ELSE 0)
    BY <1>2, <1>3, <2>1
  <2> QED
    BY <1>1, <1>3, <2>1, <2>2, ReadsStep
<1> QED
  BY <1>4, <1>5

LEMMA ReadPmtStreamStep ==
  ASSUME ReaderInv, ReadPmtStream
  PROVE  ReaderInv' /\ StreamStep
<1> DEFINE turn == ReadStream(reader)
<1>1. kind = "PMT" /\ pc = "entries" /\ section' = section /\ written' = written
  BY DEF ReadPmtStream
<1>2. IsReader(reader)
  BY DEF ReaderInv
<1>3. Reads(reader, turn.reader, 40) /\ 40 \in Nat \ {0} /\ turn.descriptorsLength \in Nat
  BY <1>2, StreamTurnReads
<1>4. CASE turn.reader.error
  <2>1. Break(turn.reader)
    BY <1>4 DEF ReadPmtStream
  <2> QED
    BY <1>1, <1>3, <2>1, BreakStep
<1>5. CASE ~turn.reader.error
  <2>1. Descend(turn, AfterSubReader(turn.reader, turn.descriptorsLength),
                SubReader(turn.reader, turn.descriptorsLength), 0)
    BY <1>5 DEF ReadPmtStream
  <2> HIDE DEF turn
  <2> QED
    BY <1>1, <1>3, <2>1, DescendStep
<1> QED
  BY <1>4, <1>5

LEMMA ReadVctChannelStep ==
  ASSUME ReaderInv, ReadVctChannel
  PROVE  ReaderInv' /\ StreamStep
<1> DEFINE turn == ReadChannel(reader)
           short == RemainingBytes(turn.reader) < turn.descriptorsLength
<1>1. kind = "VCT" /\ pc = "entries" /\ section' = section /\ written' = written
  BY DEF ReadVctChannel
<1>2. IsReader(reader)
  BY DEF ReaderInv
<1>3. Reads(reader, turn.reader, 256) /\ 256 \in Nat \ {0} /\ turn.descriptorsLength \in Nat
  BY <1>2, ChannelTurnReads
<1>4. CASE turn.reader.error \/ short
  <2>1. Break(turn.reader)
    BY <1>4 DEF ReadVctChannel
  <2> QED
    BY <1>1, <1>3, <2>1, BreakStep
<1>5. CASE ~(turn.reader.error \/ short)
  <2>1. Descend(turn, AfterSubReader(turn.reader, turn.descriptorsLength),
                SubReader(turn.reader, turn.descriptorsLength), 0)
    BY <1>5 DEF ReadVctChannel
  <2> HIDE DEF turn
  <2> QED
    BY <1>1, <1>3, <2>1, DescendStep
<1> QED
  BY <1>4, <1>5

LEMMA ReadSdtServiceStep ==
  ASSUME ReaderInv, ReadSdtService
  PROVE  ReaderInv' /\ StreamStep
<1> DEFINE turn == ReadService(reader)
<1>1. kind = "SDT" /\ pc = "entries" /\ section' = section /\ written' = written
  BY DEF ReadSdtService
<1>2. IsReader(reader) /\ IsNew(descReader, 0)
  BY <1>1 DEF ReaderInv, NothingAside
<1>3. Reads(reader, turn.reader, 40) /\ 40 \in Nat \ {0}
  BY <1>2, ServiceTurnReads
<1>4. CASE turn.reader.error
  <2>1. Break(turn.reader)
    BY <1>4 DEF ReadSdtService
  <2> QED
    BY <1>1, <1>3, <2>1, BreakStep
<1>5. CASE ~turn.reader.error
  <2>1. PICK end : Descend(turn, turn.reader, descReader, end)
    BY <1>5 DEF ReadSdtService
  <2>2. reader' = turn.reader /\ descReader' = descReader /\ pc' \in {"entries", "descriptors"}
    BY <1>1, <2>1 DEF Descend, Complete
  <2>3. /\ Reads(reader, reader', 40) /\ 0 \in Nat /\ 8 * 0 < 40
        /\ IsNew(descReader', IF reader'.error THEN 0 ELSE 0)
    BY <1>2, <1>3, <2>2
  <2> QED
    BY <1>1, <1>3, <2>2, <2>3, ReadsStep
<1> QED
  BY <1>4, <1>5

LEMMA ReaderStep == ReaderInv /\ [Next]_vars => ReaderInv' /\ StreamStep
<1> SUFFICES ASSUME ReaderInv, [Next]_vars PROVE ReaderInv' /\ StreamStep
  OBVIOUS
<1>1. CASE Refuse
  BY <1>1, RefuseStep
<1>2. CASE BeginPat \/ BeginPmt \/ BeginSdt \/ BeginVct
  BY <1>2, BeginTableStep
<1>3. CASE ReadProgramDescriptor
  BY <1>3, ReadProgramDescriptorStep
<1>4. CASE BeginStreams
  BY <1>4, BeginStreamsStep
<1>5. CASE ReadDescriptor
  BY <1>5, ReadDescriptorStep
<1>6. CASE EndDescriptors \/ EndEntries
  BY <1>6, EndStep
<1>7. CASE ReadPatProgram
  BY <1>7, ReadPatProgramStep
<1>8. CASE ReadPmtStream
  BY <1>8, ReadPmtStreamStep
<1>9. CASE ReadSdtService
  BY <1>9, ReadSdtServiceStep
<1>10. CASE ReadVctChannel
  BY <1>10, ReadVctChannelStep
<1>11. CASE UNCHANGED vars
  <2>1. ReaderInv'
    BY <1>11 DEF vars, ReaderInv, NothingAside, kind
  <2>2. StreamStep
    <3>1. PartsRead' = PartsRead /\ reader' = reader /\ descReader' = descReader
      BY <1>11 DEF vars, PartsRead, kind
    <3> QED
      BY <3>1 DEF StreamStep, Stream!vars
  <2> QED
    BY <2>1, <2>2
<1> QED
  BY <1>1, <1>2, <1>3, <1>4, <1>5, <1>6, <1>7, <1>8, <1>9, <1>10, <1>11 DEF Next, Turn, Return

-----------------------------------------------------------------------------
(* Forward *)

\* ReadersGoForward: whatever a PAT, PMT, SDT or VCT section has become, the parsers read the
\* parts of it forward, never past the end of the bytes a reader was made of, set aside for
\* the descriptors of an entry only bytes that they just passed, and move nothing once reading
\* has failed.
THEOREM ParsersGoForward == Spec => ReadersGoForward
<1>1. Init => ReaderInv /\ Stream!Init
  BY InitReaderInv
<1>2. ReaderInv /\ [Next]_vars => ReaderInv' /\ [Stream!Next]_Stream!vars
  BY ReaderStep DEF StreamStep
<1>3. Spec => Stream!Init /\ [][Stream!Next]_Stream!vars
  BY <1>1, <1>2, PTL DEF Spec
<1> QED
  BY <1>3 DEF ReadersGoForward, Stream!Spec

-----------------------------------------------------------------------------
(* What the calls of a reader return *)

LEMMA LessThanDivisor ==
  ASSUME NEW a \in Nat, NEW b \in Nat \ {0}
  PROVE  a % b \in 0 .. b - 1
OBVIOUS

LEMMA TwoBytes ==
  ASSUME NEW a \in Byte, NEW b \in Byte
  PROVE  a * 256 + b \in Bits(16)
<1>1. a \in Nat /\ b \in Nat /\ a <= 255 /\ b <= 255
  BY DEF Byte
<1>2. 2 ^ 16 = 65536
  OBVIOUS
<1> DEFINE power == 2 ^ 16
<1> HIDE DEF power
<1>3. a * 256 + b \in 0 .. power - 1
  BY <1>1, <1>2 DEF power
<1> QED
  BY <1>3 DEF Bits, power

\* n bits are a number below 2^n.
LEMMA BitsFit ==
  ASSUME NEW r \in Readers, NEW n \in 1 .. 17
  PROVE  BitsAt(r, n) \in Bits(n)
<1> DEFINE window == ByteAt(r, 0) * 65536 + ByteAt(r, 1) * 256 + ByteAt(r, 2)
           places == 24 - r.bitOffset - n
<1>1. window \in Nat
  <2>1. ByteAt(r, 0) \in Nat /\ ByteAt(r, 1) \in Nat /\ ByteAt(r, 2) \in Nat
    BY BytesAreBytes DEF Byte
  <2> QED
    BY <2>1
<1>2. places \in 0 .. 24 /\ n \in 0 .. 24
  <2>1. r.bitOffset \in 0 .. 7
    BY ReaderFields
  <2> QED
    BY <2>1
<1>3. BitsAt(r, n) = (window \div 2 ^ places) % 2 ^ n
  BY DEF BitsAt
<1> HIDE DEF window, places
<1>4. 2 ^ places \in Nat \ {0} /\ 2 ^ n \in Nat \ {0}
  BY <1>2, PowersOfTwo
<1>5. window \div 2 ^ places \in Nat
  BY <1>1, <1>4
<1> QED
  BY <1>3, <1>4, <1>5, LessThanDivisor DEF Bits

LEMMA ReadBitsFits ==
  ASSUME NEW r, IsReader(r), NEW n \in 1 .. 17
  PROVE  ReadBits(r, n).value \in Bits(n)
<1>1. n \in 0 .. 24 /\ n # 0 /\ ~(n > 32)
  OBVIOUS
<1>2. 0 \in Bits(n)
  <2>1. 2 ^ n \in Nat \ {0}
    BY <1>1, PowersOfTwo
  <2> QED
    BY <2>1 DEF Bits
<1>3. CASE r.error \/ RemainingBits(r) < n
  <2>1. ReadBits(r, n) = Failed(r)
    BY <1>3 DEF ReadBits
  <2>2. Failed(r).value = 0
    BY DEF Failed, IsReader, Readers
  <2> QED
    BY <1>2, <2>1, <2>2
<1>4. CASE ~(r.error \/ RemainingBits(r) < n)
  <2>1. ReadBits(r, n) = [MovedBits(r, n) EXCEPT !.value = BitsAt(r, n)]
    BY <1>1, <1>4 DEF ReadBits
  <2>2. ReadBits(r, n).value = BitsAt(r, n)
    BY <2>1 DEF MovedBits, IsReader, Readers
  <2> QED
    BY <2>2, BitsFit DEF IsReader
<1> QED
  BY <1>3, <1>4

LEMMA ReadUInt16BEFits ==
  ASSUME NEW r, IsReader(r)
  PROVE  ReadUInt16BE(r).value \in Bits(16)
<1>1. ByteAt(r, 0) * 256 + ByteAt(r, 1) \in Bits(16)
  <2>1. ByteAt(r, 0) \in Byte /\ ByteAt(r, 1) \in Byte
    BY BytesAreBytes DEF IsReader
  <2> QED
    BY <2>1, TwoBytes
<1>2. CASE CanRead(r, 2)
  <2>1. ReadUInt16BE(r) = [MovedBytes(r, 2) EXCEPT !.value = ByteAt(r, 0) * 256 + ByteAt(r, 1)]
    BY <1>2 DEF ReadUInt16BE
  <2>2. MovedBytes(r, 2) \in Readers
    BY <1>2, MovedBytesReads DEF Reads, IsReader
  <2>3. ReadUInt16BE(r).value = ByteAt(r, 0) * 256 + ByteAt(r, 1)
    BY <2>1, <2>2 DEF Readers
  <2> QED
    BY <1>1, <2>3, Zenon
<1>3. CASE ~CanRead(r, 2)
  <2>1. ReadUInt16BE(r) = Failed(r)
    BY <1>3 DEF ReadUInt16BE
  <2>2. Failed(r).value = 0
    BY DEF Failed, IsReader, Readers
  <2>3. 0 * 256 + 0 \in Bits(16)
    BY TwoBytes DEF Byte
  <2> QED
    BY <2>1, <2>2, <2>3
<1> QED
  BY <1>2, <1>3, Zenon

\* The bytes asked for, or none.
LEMMA ReadDataGives ==
  ASSUME NEW r, IsReader(r), NEW n \in Nat
  PROVE  ReadData(r, n).data \in Seq(Byte) /\ Len(ReadData(r, n).data) \in {0, n}
<1>1. CASE CanRead(r, n)
  <2>1. ReadData(r, n) = [MovedBytes(r, n) EXCEPT !.data = NextBytes(r, n)]
    BY <1>1 DEF ReadData
  <2>2. MovedBytes(r, n) \in Readers
    BY <1>1, MovedBytesReads DEF Reads, IsReader
  <2>3. ReadData(r, n).data = NextBytes(r, n)
    BY <2>1, <2>2 DEF Readers
  <2> QED
    BY <1>1, <2>3, NextBytesAreBytes
<1>2. CASE ~CanRead(r, n)
  <2>1. ReadData(r, n) = Failed(r)
    BY <1>2 DEF ReadData
  <2>2. Failed(r).data = <<>>
    BY DEF Failed, IsReader, Readers
  <2> QED
    BY <2>1, <2>2, EmptySeq
<1> QED
  BY <1>1, <1>2

LEMMA RemainingIsNat ==
  ASSUME NEW r, IsReader(r)
  PROVE  RemainingBytes(r) \in Nat
<1>1. r.byteOffset \in Nat /\ Length(r) \in Nat
  BY ReaderFields DEF IsReader
<1> QED
  BY <1>1 DEF RemainingBytes

\* After a call there is a reader, with data.
LEMMA ReadsGives ==
  ASSUME NEW r, NEW s, NEW n, Reads(r, s, n)
  PROVE  IsReader(s) /\ s.value \in Nat /\ s.data \in Seq(Byte) /\ s.byteOffset \in Nat
BY ReaderFields DEF Reads, IsReader

-----------------------------------------------------------------------------
(* The types of what is read *)

\* Of some numbers of an interval one is the first, and one the last.
LEMMA FirstAndLast ==
  ASSUME NEW n \in Nat, NEW S \in SUBSET (1 .. n), S # {}
  PROVE  /\ \E i \in S : \A j \in S : i <= j
         /\ \E i \in S : \A j \in S : i >= j
<1> DEFINE R == {p \in Nat \X Nat : p[1] < p[2]}
           T == {n - i : i \in S}
<1>1. IsWellFoundedOn(R, Nat)
  BY LessThanNat
<1>2. S \subseteq Nat /\ T \subseteq Nat /\ T # {}
  OBVIOUS
<1>3. PICK i \in S : \A j \in S : <<j, i>> \notin R
  BY <1>1, <1>2, WFMin
<1>4. PICK k \in T : \A j \in T : <<j, k>> \notin R
  BY <1>1, <1>2, WFMin
<1>5. \A j \in S : i <= j
  <2> SUFFICES ASSUME NEW j \in S PROVE i <= j
    OBVIOUS
  <2>1. i \in Nat /\ j \in Nat /\ <<j, i>> \notin R
    BY <1>2, <1>3
  <2>2. ~(j < i)
    BY <2>1
  <2> QED
    BY <2>1, <2>2
<1>6. PICK l \in S : k = n - l
  BY <1>4
<1>7. \A j \in S : l >= j
  <2> SUFFICES ASSUME NEW j \in S PROVE l >= j
    OBVIOUS
  <2>1. n - j \in T /\ n - j \in Nat /\ k \in Nat
    BY <1>2
  <2>2. <<n - j, k>> \notin R
    BY <1>4, <2>1
  <2>3. ~(n - j < k)
    BY <2>1, <2>2
  <2> QED
    BY <1>6, <2>3
<1> QED
  BY <1>5, <1>7

LEMMA TrimmedType ==
  ASSUME NEW S, NEW text \in Seq(S)
  PROVE  Trimmed(text) \in Seq(S)
<1> DEFINE shown == {i \in DOMAIN text : text[i] # 0}
           first == CHOOSE i \in shown : \A j \in shown : i <= j
           last  == CHOOSE i \in shown : \A j \in shown : i >= j
<1>1. Len(text) \in Nat /\ DOMAIN text = 1 .. Len(text)
  BY LenProperties
<1>2. shown \in SUBSET (1 .. Len(text))
  BY <1>1
<1>3. Trimmed(text) = IF shown = {} THEN <<>> ELSE SubSeq(text, first, last)
  BY DEF Trimmed
<1> HIDE DEF shown
<1>4. CASE shown = {}
  BY <1>3, <1>4, EmptySeq
<1>5. CASE shown # {}
  <2>1. /\ \E i \in shown : \A j \in shown : i <= j
        /\ \E i \in shown : \A j \in shown : i >= j
    BY <1>1, <1>2, <1>5, FirstAndLast
  <2>2. first \in shown /\ last \in shown
    BY <2>1, Zenon
  <2> HIDE DEF first, last
  <2>3. first \in Int /\ last \in Int /\ first .. last \subseteq 1 .. Len(text)
    BY <1>1, <1>2, <2>2
  <2>4. \A i \in first .. last : text[i] \in S
    BY <2>3, ElementOfSeq
  <2>5. SubSeq(text, first, last) \in Seq(S)
    BY <2>3, <2>4, SubSeqProperties
  <2> QED
    BY <1>3, <1>5, <2>5
<1> QED
  BY <1>4, <1>5

LEMMA AsciiType ==
  ASSUME NEW text \in Seq(Byte)
  PROVE  AsciiOf(text) \in Seq(Byte)
BY EmptySeq DEF AsciiOf

LEMMA Utf16Type ==
  ASSUME NEW data \in Seq(Byte)
  PROVE  Utf16(data) \in Seq(Bits(16))
<1> DEFINE n == Len(data) \div 2
<1>1. Len(data) \in Nat /\ n \in Nat
  BY LenProperties
<1>2. ASSUME NEW i \in 1 .. n
      PROVE  data[2 * i - 1] * 256 + data[2 * i] \in Bits(16)
  <2>1. 2 * i - 1 \in 1 .. Len(data) /\ 2 * i \in 1 .. Len(data)
    BY <1>1
  <2>2. data[2 * i - 1] \in Byte /\ data[2 * i] \in Byte
    BY <2>1, ElementOfSeq
  <2> QED
    BY <2>2, TwoBytes
<1> HIDE DEF n
<1>3. [i \in 1 .. n |-> data[2 * i - 1] * 256 + data[2 * i]] \in Seq(Bits(16))
  BY <1>1, <1>2
<1> QED
  BY <1>3 DEF Utf16, n

-----------------------------------------------------------------------------
(* Descriptors *)

\* What comes of making a descriptor: nil or one.  A service location is one by its tag.
IsMade(made) ==
  /\ made \in Seq(TSDescriptors)
  /\ made # <<>> /\ made[1].tag = TSAtscDescriptorTagServiceLocation =>
       made \in Seq(TSAtscServiceLocationDescriptors)

LEMMA NilOrOther ==
  ASSUME NEW d \in TSDescriptors, d.tag # 161
  PROVE  IsMade(<<d>>) /\ IsMade(<<>>)
<1>1. <<d>> \in Seq(TSDescriptors) /\ <<>> \in Seq(TSDescriptors)
  OBVIOUS
<1>2. <<d>>[1] = d
  OBVIOUS
<1> QED
  BY <1>1, <1>2 DEF IsMade, TSAtscDescriptorTagServiceLocation

LEMMA RegistrationMade ==
  ASSUME NEW payload \in Seq(Byte), Len(payload) \in Byte
  PROVE  IsMade(TSRegistrationDescriptor(5, payload))
<1> DEFINE id   == ReadUInt32BE(Make(payload))
           info == ReadData(id, RemainingBytes(id))
           d    == [tag |-> 5, length |-> Len(payload),
                    formatIdentifier |-> id.data, additionalIdentificationInfo |-> info.data]
<1>1. IsReader(id) /\ id.data \in Seq(Byte)
  BY MadeReader, ReadDataReads, ReadsGives DEF ReadUInt32BE
<1>2. TSRegistrationDescriptor(5, payload) = IF id.error THEN <<>> ELSE <<d>>
  BY DEF TSRegistrationDescriptor
<1> HIDE DEF id
<1>3. info.data \in Seq(Byte)
  BY <1>1, RemainingIsNat, ReadDataGives
<1> HIDE DEF info
<1>4. d \in TSRegistrationDescriptors /\ d.tag = 5
  BY <1>1, <1>3 DEF TSRegistrationDescriptors, TSDescriptorTagRegistration
<1> HIDE DEF d
<1>5. d \in TSDescriptors
  BY <1>4 DEF TSDescriptors
<1>6. IsMade(<<d>>) /\ IsMade(<<>>)
  BY <1>4, <1>5, NilOrOther
<1> QED
  BY <1>2, <1>6

LEMMA LanguageMade ==
  ASSUME NEW payload \in Seq(Byte), Len(payload) \in Byte
  PROVE  IsMade(TSISO639LanguageDescriptor(10, payload))
<1> DEFINE n  == Len(payload) \div 4
           es == [i \in 1 .. n |-> LanguageEntry(Skip(Make(payload), 4 * (i - 1)))]
           d  == [tag |-> 10, length |-> Len(payload), entries |-> es]
<1>1. n \in Nat
  BY DEF Byte
<1>2. ASSUME NEW i \in 1 .. n
      PROVE  LanguageEntry(Skip(Make(payload), 4 * (i - 1))) \in TSISO639LanguageDescriptorEntries
  <2> DEFINE r    == Skip(Make(payload), 4 * (i - 1))
             code == ReadData(r, 3)
             type == ReadUInt8(code)
  <2>1. 4 * (i - 1) \in Nat
    OBVIOUS
  <2>2. IsReader(r)
    BY <2>1, MadeReader, SkipReads, ReadsGives
  <2>3. LanguageEntry(r) = [languageCode |-> code.data, audioType |-> type.value]
    BY DEF LanguageEntry
  <2> HIDE DEF r
  <2>4. IsReader(code) /\ code.data \in Seq(Byte)
    BY <2>2, ReadDataReads, ReadsGives
  <2> HIDE DEF code
  <2>5. type.value \in Byte
    BY <2>4, ReadUInt8Reads
  <2> HIDE DEF type
  <2>6. LanguageEntry(r) \in TSISO639LanguageDescriptorEntries
    BY <2>3, <2>4, <2>5 DEF TSISO639LanguageDescriptorEntries, Text
  <2> QED
    BY <2>6 DEF r
<1> HIDE DEF n
<1>3. es \in Seq(TSISO639LanguageDescriptorEntries)
  BY <1>1, <1>2
<1>4. TSISO639LanguageDescriptor(10, payload) = <<d>>
  BY DEF TSISO639LanguageDescriptor, n
<1> HIDE DEF es
<1>5. d \in TSISO639LanguageDescriptors /\ d.tag = 10
  BY <1>3 DEF TSISO639LanguageDescriptors, TSDescriptorTagISO639Language
<1> HIDE DEF d
<1>6. d \in TSDescriptors
  BY <1>5 DEF TSDescriptors
<1> QED
  BY <1>4, <1>5, <1>6, NilOrOther

LEMMA NameRead ==
  ASSUME NEW r, IsReader(r)
  PROVE  IsReader(ReadName(r)) /\ ReadName(r).data \in Seq(Byte)
<1> DEFINE length == ReadUInt8(r)
<1>1. IsReader(length) /\ length.value \in Nat
  BY ReadUInt8Reads, ReadsGives
<1>2. ReadName(r) \in {ReadData(length, length.value), [length EXCEPT !.data = <<>>]}
  BY DEF ReadName
<1> HIDE DEF length
<1> QED
  BY <1>1, <1>2, ReadDataReads, DataDropped, ReadsGives

LEMMA ServiceMade ==
  ASSUME NEW payload \in Seq(Byte), Len(payload) \in Byte
  PROVE  IsMade(TSDvbServiceDescriptor(72, payload))
<1> DEFINE type     == ReadUInt8(Make(payload))
           provider == ReadName(type)
           service  == ReadName(provider)
           d        == [tag |-> 72, length |-> Len(payload), serviceType |-> type.value,
                        serviceProviderName |-> provider.data, serviceName |-> service.data]
<1>1. IsReader(type) /\ type.value \in Byte
  BY MadeReader, ReadUInt8Reads, ReadsGives
<1>2. TSDvbServiceDescriptor(72, payload) = IF service.error THEN <<>> ELSE <<d>>
  BY DEF TSDvbServiceDescriptor
<1> HIDE DEF type
<1>3. IsReader(provider) /\ provider.data \in Seq(Byte)
  BY <1>1, NameRead
<1> HIDE DEF provider
<1>4. service.data \in Seq(Byte)
  BY <1>3, NameRead
<1> HIDE DEF service
<1>5. d \in TSDvbServiceDescriptors /\ d.tag = 72
  BY <1>1, <1>3, <1>4 DEF TSDvbServiceDescriptors, TSDvbDescriptorTagService, Text
<1> HIDE DEF d
<1>6. d \in TSDescriptors
  BY <1>5 DEF TSDescriptors
<1>7. IsMade(<<d>>) /\ IsMade(<<>>)
  BY <1>5, <1>6, NilOrOther
<1> QED
  BY <1>2, <1>7

LEMMA CueIdentifierMade ==
  ASSUME NEW payload \in Seq(Byte), Len(payload) \in Byte
  PROVE  IsMade(TSScte35CueIdentifierDescriptor(138, payload))
<1> DEFINE type == ReadUInt8(Make(payload))
           d    == [tag |-> 138, length |-> Len(payload), cueStreamType |-> type.value]
<1>1. type.value \in Byte
  BY MadeReader, ReadUInt8Reads
<1>2. TSScte35CueIdentifierDescriptor(138, payload) = IF type.error THEN <<>> ELSE <<d>>
  BY DEF TSScte35CueIdentifierDescriptor
<1> HIDE DEF type
<1>3. d \in TSScte35CueIdentifierDescriptors /\ d.tag = 138
  BY <1>1 DEF TSScte35CueIdentifierDescriptors, TSScte35DescriptorTagCueIdentifier
<1> HIDE DEF d
<1>4. d \in TSDescriptors
  BY <1>3 DEF TSDescriptors
<1>5. IsMade(<<d>>) /\ IsMade(<<>>)
  BY <1>3, <1>4, NilOrOther
<1> QED
  BY <1>2, <1>5

LEMMA ThirteenBits ==
  ASSUME NEW r, IsReader(r)
  PROVE  /\ IsReader(ReadBits(ReadBits(r, 3), 13))
         /\ ReadBits(ReadBits(r, 3), 13).value \in Bits(13)
<1> DEFINE reserved == ReadBits(r, 3)
<1>1. IsReader(reserved) /\ 13 \in 1 .. 17
  <2>1. 3 \in 1 .. 17 /\ 13 \in 1 .. 17
    OBVIOUS
  <2> QED
    BY <2>1, ReadBitsReads, ReadsGives
<1> HIDE DEF reserved
<1>2. IsReader(ReadBits(reserved, 13)) /\ ReadBits(reserved, 13).value \in Bits(13)
  BY <1>1, ReadBitsReads, ReadBitsFits, ReadsGives
<1> QED
  BY <1>2 DEF reserved

LEMMA LocationElementRead ==
  ASSUME NEW r, IsReader(r)
  PROVE  LocationElement(r) \in TSAtscServiceLocationElements
<1> DEFINE type == ReadUInt8(r)
           pid  == ReadBits(ReadBits(type, 3), 13)
           lang == ReadData(pid, 3)
<1>1. IsReader(type) /\ type.value \in Byte
  BY ReadUInt8Reads, ReadsGives
<1>2. LocationElement(r) = [streamType |-> type.value, elementaryPid |-> pid.value,
                            languageCode |-> Trimmed(AsciiOf(lang.data))]
  BY DEF LocationElement
<1> HIDE DEF type
<1>3. IsReader(pid) /\ pid.value \in Bits(13)
  BY <1>1, ThirteenBits
<1> HIDE DEF pid
<1>4. lang.data \in Seq(Byte)
  BY <1>3, ReadDataGives
<1> HIDE DEF lang
<1>5. Trimmed(AsciiOf(lang.data)) \in Seq(Byte)
  BY <1>4, AsciiType, TrimmedType
<1> QED
  BY <1>1, <1>2, <1>3, <1>5 DEF TSAtscServiceLocationElements, Text

LEMMA ServiceLocationMade ==
  ASSUME NEW payload \in Seq(Byte), Len(payload) \in Byte
  PROVE  IsMade(TSAtscServiceLocationDescriptor(161, payload))
<1> DEFINE pid   == ReadBits(ReadBits(Make(payload), 3), 13)
           count == ReadUInt8(pid)
           whole == RemainingBytes(count) \div 6
           read  == IF count.value <= whole THEN count.value ELSE whole
           es    == [i \in 1 .. read |-> LocationElement(Skip(count, 6 * (i - 1)))]
           d     == [tag |-> 161, length |-> Len(payload), pcrPid |-> pid.value,
                     elements |-> es]
<1>1. IsReader(pid) /\ pid.value \in Bits(13)
  BY MadeReader, ThirteenBits
<1>2. TSAtscServiceLocationDescriptor(161, payload) = IF count.error THEN <<>> ELSE <<d>>
  BY DEF TSAtscServiceLocationDescriptor
<1> HIDE DEF pid
<1>3. IsReader(count) /\ count.value \in Nat
  BY <1>1, ReadUInt8Reads, ReadsGives
<1> HIDE DEF count
<1>4. read \in Nat
  <2>1. RemainingBytes(count) \in Nat
    BY <1>3, RemainingIsNat
  <2> QED
    BY <1>3, <2>1
<1> HIDE DEF read
<1>5. ASSUME NEW i \in 1 .. read
      PROVE  LocationElement(Skip(count, 6 * (i - 1))) \in TSAtscServiceLocationElements
  <2>1. 6 * (i - 1) \in Nat
    BY <1>4
  <2> QED
    BY <1>3, <2>1, SkipReads, ReadsGives, LocationElementRead
<1>6. es \in Seq(TSAtscServiceLocationElements)
  BY <1>4, <1>5
<1> HIDE DEF es
<1>7. d \in TSAtscServiceLocationDescriptors
  BY <1>1, <1>6 DEF TSAtscServiceLocationDescriptors, TSAtscDescriptorTagServiceLocation
<1> HIDE DEF d
<1>8. d \in TSDescriptors
  BY <1>7 DEF TSDescriptors
<1>9. /\ <<>> \in Seq(TSDescriptors) /\ <<d>> \in Seq(TSDescriptors)
      /\ <<d>> \in Seq(TSAtscServiceLocationDescriptors)
  BY <1>7, <1>8
<1> QED
  BY <1>2, <1>9 DEF IsMade

LEMMA DescriptorMade ==
  ASSUME NEW tag \in Byte, NEW payload \in Seq(Byte), Len(payload) \in Byte
  PROVE  IsMade(makeWithTag(tag, payload))
<1> DEFINE d == [tag |-> tag, length |-> Len(payload)]
<1> USE DEF TSDescriptorTagRegistration, TSDescriptorTagISO639Language,
            TSDvbDescriptorTagService, TSScte35DescriptorTagCueIdentifier,
            TSAtscDescriptorTagServiceLocation
<1>1. CASE tag = 5
  <2>1. makeWithTag(tag, payload) = TSRegistrationDescriptor(5, payload)
    BY <1>1 DEF makeWithTag
  <2> QED
    BY <2>1, RegistrationMade
<1>2. CASE tag = 10
  <2>1. makeWithTag(tag, payload) = TSISO639LanguageDescriptor(10, payload)
    BY <1>2 DEF makeWithTag
  <2> QED
    BY <2>1, LanguageMade
<1>3. CASE tag = 72
  <2>1. makeWithTag(tag, payload) = TSDvbServiceDescriptor(72, payload)
    BY <1>3 DEF makeWithTag
  <2> QED
    BY <2>1, ServiceMade
<1>4. CASE tag = 138
  <2>1. makeWithTag(tag, payload) = TSScte35CueIdentifierDescriptor(138, payload)
    BY <1>4 DEF makeWithTag
  <2> QED
    BY <2>1, CueIdentifierMade
<1>5. CASE tag = 161
  <2>1. makeWithTag(tag, payload) = TSAtscServiceLocationDescriptor(161, payload)
    BY <1>5 DEF makeWithTag
  <2> QED
    BY <2>1, ServiceLocationMade
<1>6. CASE tag \notin {5, 10, 72, 138, 161}
  <2>1. makeWithTag(tag, payload) = <<d>>
    BY <1>6 DEF makeWithTag
  <2>2. d \in PlainDescriptors /\ d.tag # 161
    BY <1>6 DEF PlainDescriptors
  <2> HIDE DEF d
  <2>3. d \in TSDescriptors
    BY <2>2 DEF TSDescriptors
  <2> QED
    BY <2>1, <2>2, <2>3 DEF IsMade
<1> QED
  BY <1>1, <1>2, <1>3, <1>4, <1>5, <1>6

\* What a turn of a descriptor loop makes.
LEMMA DescriptorTurnMakes ==
  ASSUME NEW r, IsReader(r)
  PROVE  IsReader(DescriptorTurn(r).reader) /\ IsMade(DescriptorTurn(r).made)
<1> DEFINE tag    == ReadUInt8(r)
           length == ReadUInt8(tag)
           fits   == ~length.error /\ RemainingBytes(length) >= length.value
           read   == IF length.value > 0 THEN ReadData(length, length.value)
                     ELSE [length EXCEPT !.data = <<>>]
<1>1. IsReader(tag) /\ tag.value \in Byte
  BY ReadUInt8Reads, ReadsGives
<1>2. DescriptorTurn(r).made \in {makeWithTag(tag.value, read.data), <<>>}
  BY DEF DescriptorTurn
<1>3. IsReader(DescriptorTurn(r).reader)
  BY DescriptorTurnReads, ReadsGives
<1> HIDE DEF tag
<1>4. IsReader(length) /\ length.value \in Byte /\ length.value \in Nat
  BY <1>1, ReadUInt8Reads, ReadsGives
<1> HIDE DEF length
<1>5. read.data \in Seq(Byte) /\ Len(read.data) \in {0, length.value}
  <2>1. CASE length.value > 0
    BY <1>4, <2>1, ReadDataGives
  <2>2. CASE ~(length.value > 0)
    <3>1. read = [length EXCEPT !.data = <<>>]
      BY <2>2
    <3>2. read.data = <<>>
      BY <1>4, <3>1 DEF IsReader, Readers
    <3> QED
      BY <3>2, EmptySeq
  <2> QED
    BY <2>1, <2>2
<1> HIDE DEF read
<1>6. Len(read.data) \in Byte
  <2>1. 0 \in Byte
    BY DEF Byte
  <2> QED
    BY <1>4, <1>5, <2>1
<1>7. IsMade(makeWithTag(tag.value, read.data))
  BY <1>1, <1>5, <1>6, DescriptorMade
<1>8. IsMade(<<>>)
  BY EmptySeq DEF IsMade
<1> QED
  BY <1>2, <1>3, <1>7, <1>8

-----------------------------------------------------------------------------
(* Entries *)

LEMMA ProgramRead ==
  ASSUME NEW r, IsReader(r)
  PROVE  ReadProgram(r).entry \in Programs
<1> DEFINE number == ReadUInt16BE(r)
           skip   == SkipBits(number, 3)
           pid    == ReadBits(skip, 13)
<1>1. IsReader(number) /\ number.value \in Bits(16)
  BY ReadUInt16BEReads, ReadUInt16BEFits, ReadsGives
<1>2. ReadProgram(r).entry = [programNumber |-> number.value, pmtPid |-> pid.value]
  BY DEF ReadProgram
<1> HIDE DEF number
<1>3. IsReader(skip) /\ 13 \in 1 .. 17
  BY <1>1, SkipBitsReads, ReadsGives
<1> HIDE DEF skip
<1>4. pid.value \in Bits(13)
  BY <1>3, ReadBitsFits
<1> HIDE DEF pid
<1> QED
  BY <1>1, <1>2, <1>4 DEF Programs

LEMMA StreamRead ==
  ASSUME NEW r, IsReader(r)
  PROVE  ReadStream(r).entry \in TSElementaryStreams
<1> DEFINE type == ReadUInt8(r)
           skip == SkipBits(type, 3)
           pid  == ReadBits(skip, 13)
<1>1. IsReader(type) /\ type.value \in Byte
  BY ReadUInt8Reads, ReadsGives
<1>2. ReadStream(r).entry = [pid |-> pid.value, streamType |-> type.value, descriptors |-> <<>>]
  BY DEF ReadStream
<1> HIDE DEF type
<1>3. IsReader(skip) /\ 13 \in 1 .. 17
  BY <1>1, SkipBitsReads, ReadsGives
<1> HIDE DEF skip
<1>4. pid.value \in Bits(13)
  BY <1>3, ReadBitsFits
<1> HIDE DEF pid
<1>5. <<>> \in Seq(TSDescriptors)
  OBVIOUS
<1> QED
  BY <1>1, <1>2, <1>4, <1>5 DEF TSElementaryStreams

\* The running status is in the three high bits of its two bytes.
LEMMA ThreeHighBits ==
  ASSUME NEW v \in Bits(16)
  PROVE  v \div 8192 \in Bits(3) /\ v % 4096 \in Nat
<1>1. 2 ^ 16 = 65536 /\ 2 ^ 3 = 8
  OBVIOUS
<1> DEFINE all == 2 ^ 16
           three == 2 ^ 3
<1> HIDE DEF all, three
<1>2. v \in 0 .. all - 1
  BY DEF Bits, all
<1>3. v \div 8192 \in 0 .. three - 1 /\ v % 4096 \in Nat
  BY <1>1, <1>2 DEF all, three
<1> QED
  BY <1>3 DEF Bits, three

LEMMA ServiceRead ==
  ASSUME NEW r, IsReader(r)
  PROVE  /\ ReadService(r).entry \in TSDvbServiceDescriptionEntries
         /\ ReadService(r).descriptorsLength \in Nat
<1> DEFINE id     == ReadUInt16BE(r)
           flags  == ReadUInt8(id)
           status == ReadUInt16BE(flags)
           eits   == (flags.value \div 2) % 2 = 1
           eitpf  == flags.value % 2 = 1
           fca    == (status.value \div 4096) % 2 = 1
           high   == status.value \div 8192
           low    == status.value % 4096
<1>1. IsReader(id) /\ id.value \in Bits(16)
  BY ReadUInt16BEReads, ReadUInt16BEFits, ReadsGives
<1>2. ReadService(r).entry = [serviceId |-> id.value, eitScheduleFlag |-> eits,
                              eitPresentFollowingFlag |-> eitpf, runningStatus |-> high,
                              freeCaMode |-> fca, descriptors |-> <<>>]
      /\ ReadService(r).descriptorsLength = low
  BY DEF ReadService
<1> HIDE DEF id
<1>3. IsReader(flags)
  BY <1>1, ReadUInt8Reads, ReadsGives
<1>4. eits \in BOOLEAN /\ eitpf \in BOOLEAN /\ fca \in BOOLEAN
  OBVIOUS
<1> HIDE DEF flags, eits, eitpf, fca
<1>5. status.value \in Bits(16)
  BY <1>3, ReadUInt16BEFits
<1> HIDE DEF status
<1>6. high \in Bits(3) /\ low \in Nat
  BY <1>5, ThreeHighBits
<1> HIDE DEF high, low
<1>7. <<>> \in Seq(TSDescriptors)
  OBVIOUS
<1> QED
  BY <1>1, <1>2, <1>4, <1>6, <1>7 DEF TSDvbServiceDescriptionEntries

LEMMA ChannelFieldFits ==
  ASSUME NEW r, IsReader(r), NEW offset \in Nat, NEW n \in 1 .. 17
  PROVE  ChannelField(r, offset, n) \in Bits(n)
<1> DEFINE skip == SkipBits(r, offset)
<1>1. IsReader(skip)
  BY SkipBitsReads, ReadsGives
<1> HIDE DEF skip
<1>2. ReadBits(skip, n).value \in Bits(n)
  BY <1>1, ReadBitsFits
<1> QED
  BY <1>2 DEF ChannelField, skip

LEMMA ChannelRead ==
  ASSUME NEW r, IsReader(r)
  PROVE  ReadChannel(r).entry \in TSAtscVirtualChannels
<1> DEFINE name  == Trimmed(Utf16(ReadData(r, 14).data))
           f(offset, n) == ChannelField(r, offset, n)
           major == f(116, 10)
           minor == f(126, 10)
           num   == f(192, 16)
           type  == f(218, 6)
           id    == f(224, 16)
           ac    == f(210, 1) # 0
           hid   == f(211, 1) # 0
           hg    == f(214, 1) # 0
<1>1. ReadChannel(r).entry = [shortName |-> name, majorChannelNumber |-> major,
          minorChannelNumber |-> minor, programNumber |-> num, accessControlled |-> ac,
          hidden |-> hid, hideGuide |-> hg, serviceType |-> type, sourceId |-> id,
          serviceLocation |-> <<>>]
  BY DEF ReadChannel
<1>2. name \in Seq(Bits(16))
  BY ReadDataGives, Utf16Type, TrimmedType
<1>3. /\ major \in Bits(10) /\ minor \in Bits(10) /\ num \in Bits(16)
      /\ type \in Bits(6) /\ id \in Bits(16)
  <2>1. 10 \in 1 .. 17 /\ 16 \in 1 .. 17 /\ 6 \in 1 .. 17
    OBVIOUS
  <2> QED
    BY <2>1, ChannelFieldFits
<1>4. ac \in BOOLEAN /\ hid \in BOOLEAN /\ hg \in BOOLEAN
  OBVIOUS
<1> HIDE DEF name, major, minor, num, type, id, ac, hid, hg
<1>5. <<>> \in Seq(TSAtscServiceLocationDescriptors)
  OBVIOUS
<1> QED
  BY <1>1, <1>2, <1>3, <1>4, <1>5 DEF TSAtscVirtualChannels

\* One element less.
LEMMA RemovedType ==
  ASSUME NEW S, NEW s \in Seq(S), NEW i \in 1 .. Len(s)
  PROVE  RemoveAt(s, i) \in Seq(S)
<1>1. Len(s) \in Nat
  BY LenProperties
<1> DEFINE m == i - 1
           k == i + 1
           l == Len(s)
<1>2. m \in Int /\ k \in Int /\ l \in Int /\ 1 .. m \subseteq 1 .. l /\ k .. l \subseteq 1 .. l
  BY <1>1
<1>3. \A j \in 1 .. l : s[j] \in S
  BY ElementOfSeq
<1>4. RemoveAt(s, i) = SubSeq(s, 1, m) \o SubSeq(s, k, l)
  BY DEF RemoveAt
<1> HIDE DEF m, k, l
<1>5. SubSeq(s, 1, m) \in Seq(S) /\ SubSeq(s, k, l) \in Seq(S)
  <2>1. 1 \in Int /\ (\A j \in 1 .. m : s[j] \in S) /\ (\A j \in k .. l : s[j] \in S)
    BY <1>2, <1>3
  <2>2. SubSeq(s, 1, m) \in Seq(S)
    BY <1>2, <2>1, SubSeqProperties
  <2>3. SubSeq(s, k, l) \in Seq(S)
    BY <1>2, <2>1, SubSeqProperties
  <2> QED
    BY <2>2, <2>3
<1> QED
  BY <1>4, <1>5, ConcatProperties

LEMMA WithProgramType ==
  ASSUME NEW S, NEW programmes \in Seq(S), NEW program \in S
  PROVE  WithProgram(programmes, program) \in Seq(S)
<1> DEFINE I == {i \in 1 .. Len(programmes) :
                    programmes[i].programNumber = program.programNumber}
           kept == RemoveFirstMatch(programmes,
                       LAMBDA p : p.programNumber = program.programNumber)
<1>1. kept = IF I # {} THEN RemoveAt(programmes, Min(I)) ELSE programmes
  BY DEF RemoveFirstMatch, SelectInSeq
<1>2. kept \in Seq(S)
  <2>1. CASE I # {}
    <3>1. Len(programmes) \in Nat /\ I \in SUBSET (1 .. Len(programmes))
      BY LenProperties
    <3> HIDE DEF I
    <3>2. \E i \in I : \A j \in I : i <= j
      BY <2>1, <3>1, FirstAndLast
    <3>3. Min(I) \in I
      BY <3>2, Zenon DEF Min
    <3> QED
      BY <1>1, <2>1, <3>1, <3>3, RemovedType
  <2>2. CASE I = {}
    BY <1>1, <2>2
  <2> QED
    BY <2>1, <2>2
<1>3. WithProgram(programmes, program) = kept \o <<program>>
  BY DEF WithProgram
<1> HIDE DEF kept
<1> QED
  BY <1>2, <1>3

-----------------------------------------------------------------------------
(* Types of the state *)

\* The entry whose descriptors are read is one of its table, and of a VCT it is announced.
EntryOK ==
  pc = "descriptors" =>
    /\ Len(entry) = 1
    /\ \/ kind = "PMT" /\ entry[1] \in TSElementaryStreams
       \/ kind = "SDT" /\ entry[1] \in TSDvbServiceDescriptionEntries
       \/ kind = "VCT" /\ entry[1] \in TSAtscVirtualChannels /\ left > 0

FieldsOK ==
  /\ left \in Byte \cup 0 .. Len(section) /\ descriptorsEnd \in Nat
  /\ entries \in Seq(Entries) /\ programDescriptors \in Seq(TSDescriptors)
  /\ Len(entry) = (IF pc = "descriptors" THEN 1 ELSE 0)

TypeInv ==
  /\ written \in Tables
  /\ ReaderInv /\ FieldsOK /\ EntryOK
  /\ turns \in 0 .. 1

LEMMA InitTypes == Init => FieldsOK /\ EntryOK /\ turns \in 0 .. 1 /\ written \in Tables
<1> SUFFICES ASSUME Init PROVE FieldsOK /\ EntryOK /\ turns \in 0 .. 1 /\ written \in Tables
  OBVIOUS
<1>1. /\ pc = "start" /\ left = 0 /\ descriptorsEnd = 0 /\ entry = <<>> /\ entries = <<>>
      /\ programDescriptors = <<>> /\ turns = 0 /\ written \in Tables
  BY DEF Init
<1>2. 0 \in Byte /\ 0 \in Nat /\ <<>> \in Seq(Entries) /\ <<>> \in Seq(TSDescriptors)
      /\ Len(<<>>) = 0
  BY DEF Byte
<1> QED
  BY <1>1, <1>2 DEF FieldsOK, EntryOK

\* An entry is among the entries.
LEMMA EntriesAre ==
  /\ Programs \subseteq Entries /\ TSElementaryStreams \subseteq Entries
  /\ TSDvbServiceDescriptionEntries \subseteq Entries /\ TSAtscVirtualChannels \subseteq Entries
BY DEF Entries

LEMMA AddedType ==
  ASSUME NEW S, NEW e \in S, entries \in Seq(S)
  PROVE  Added(e) \in Seq(S)
BY DEF Added, WithStream

\* left is what it was, or one less.
LEMMA LeftIsLess ==
  ASSUME left \in Byte \cup 0 .. Len(section), left > 0, Len(section) \in Nat
  PROVE  left - 1 \in Byte \cup 0 .. Len(section)
BY DEF Byte

LEMMA CompletedTypes ==
  ASSUME FieldsOK, NEW e \in Entries, Complete(e), kind = "VCT" => left > 0,
         section' = section, programDescriptors' = programDescriptors,
         descriptorsEnd' \in Nat, Len(section) \in Nat
  PROVE  FieldsOK' /\ EntryOK'
<1>1. /\ entries' = Added(e) /\ entry' = <<>> /\ pc' = "entries"
      /\ left' = IF kind = "VCT" THEN left - 1 ELSE left
  BY DEF Complete
<1>2. entries' \in Seq(Entries)
  BY <1>1, AddedType DEF FieldsOK
<1>3. left' \in Byte \cup 0 .. Len(section)
  BY <1>1, LeftIsLess DEF FieldsOK
<1>4. Len(entry') = 0 /\ pc' # "descriptors"
  BY <1>1
<1> QED
  BY <1>2, <1>3, <1>4 DEF FieldsOK, EntryOK

\* A step outside the descriptors of an entry.
LEMMA OutsideTypes ==
  ASSUME FieldsOK, pc' # "descriptors", Len(entry') = 0, section' = section,
         left' \in Byte \cup 0 .. Len(section), descriptorsEnd' \in Nat,
         entries' \in Seq(Entries), programDescriptors' \in Seq(TSDescriptors)
  PROVE  FieldsOK' /\ EntryOK'
BY DEF FieldsOK, EntryOK

LEMMA BreakTypes ==
  ASSUME FieldsOK, NEW r, Break(r), pc # "descriptors",
         section' = section, programDescriptors' = programDescriptors
  PROVE  FieldsOK' /\ EntryOK'
<1>1. /\ pc' = "done" /\ left' = left /\ descriptorsEnd' = descriptorsEnd /\ entry' = entry
      /\ entries' = entries
  BY DEF Break
<1> QED
  BY <1>1, OutsideTypes DEF FieldsOK

\* An entry that was read is complete, or its descriptors come next.
LEMMA DescendTypes ==
  ASSUME FieldsOK, NEW turn, NEW r, NEW inner, NEW end \in Nat, Descend(turn, r, inner, end),
         \/ kind = "PMT" /\ turn.entry \in TSElementaryStreams
         \/ kind = "SDT" /\ turn.entry \in TSDvbServiceDescriptionEntries
         \/ kind = "VCT" /\ turn.entry \in TSAtscVirtualChannels /\ left > 0,
         section' = section, written' = written,
         programDescriptors' = programDescriptors, Len(section) \in Nat
  PROVE  FieldsOK' /\ EntryOK'
<1>1. descriptorsEnd' \in Nat /\ kind' = kind
  BY DEF Descend, kind
<1>2. CASE turn.descriptorsLength = 0
  <2>1. Complete(turn.entry)
    BY <1>2 DEF Descend
  <2>2. turn.entry \in Entries /\ (kind = "VCT" => left > 0)
    BY EntriesAre
  <2> QED
    BY <1>1, <2>1, <2>2, CompletedTypes
<1>3. CASE turn.descriptorsLength # 0
  <2>1. pc' = "descriptors" /\ entry' = <<turn.entry>> /\ entries' = entries /\ left' = left
    BY <1>3 DEF Descend
  <2>2. Len(entry') = 1 /\ entry'[1] = turn.entry
    BY <2>1
  <2>3. FieldsOK'
    BY <1>1, <2>1, <2>2 DEF FieldsOK
  <2>4. EntryOK'
    BY <1>1, <2>1, <2>2 DEF EntryOK
  <2> QED
    BY <2>3, <2>4
<1> QED
  BY <1>2, <1>3

\* The announced entries of a section.
LEMMA BeginTypes ==
  ASSUME TypeInv, BeginPat \/ BeginPmt \/ BeginSdt \/ BeginVct
  PROVE  FieldsOK' /\ EntryOK'
<1>1. Len(section) \in Nat /\ section \in Seq(Byte)
  BY LenProperties DEF TypeInv, ReaderInv
<1>2. 0 \in Byte
  BY DEF Byte
<1>3. ASSUME NEW r, NEW enough, NEW next, NEW announced, Begin(r, enough, next, announced),
             next # "descriptors", announced \in Byte \cup 0 .. Len(section)
      PROVE  FieldsOK' /\ EntryOK'
  <2>1. /\ pc = "start" /\ pc' # "descriptors" /\ left' = announced
        /\ section' = section /\ descriptorsEnd' = descriptorsEnd /\ entry' = entry
        /\ entries' = entries /\ programDescriptors' = programDescriptors
    BY <1>3 DEF Begin
  <2> QED
    BY <1>3, <2>1, OutsideTypes DEF TypeInv, FieldsOK
<1>4. CASE BeginPat
  <2> DEFINE n == IF Len(section) < PatHeaderLength THEN 0 ELSE NumberOfPrograms(section)
  <2>1. n \in 0 .. Len(section)
    BY <1>1 DEF NumberOfPrograms, PatHeaderLength, PROGRAM_BYTE_LENGTH
  <2>2. Begin(PatReader(section), Len(section) >= PatHeaderLength, "entries", n)
    BY <1>4 DEF BeginPat
  <2> HIDE DEF n
  <2> QED
    BY <1>3, <2>1, <2>2
<1>5. CASE BeginPmt
  BY <1>2, <1>3, <1>5 DEF BeginPmt
<1>6. CASE BeginSdt
  BY <1>2, <1>3, <1>6 DEF BeginSdt
<1>7. CASE BeginVct
  <2> DEFINE count == NumChannels(section)
  <2>1. count.value \in Byte
    BY <1>1, MadeReader, SkipReads, ReadUInt8Reads, ReadsGives DEF NumChannels
  <2>2. Begin(count, ~count.error, "entries", count.value)
    BY <1>7 DEF BeginVct
  <2> HIDE DEF count
  <2> QED
    BY <1>3, <2>1, <2>2
<1> QED
  BY <1>4, <1>5, <1>6, <1>7

\* Descriptors are added to those that are there.
LEMMA MoreTypes ==
  ASSUME NEW S, NEW some \in Seq(S), NEW more \in Seq(S)
  PROVE  some \o more \in Seq(S)
BY ConcatProperties

LEMMA ReadProgramDescriptorTypes ==
  ASSUME TypeInv, ReadProgramDescriptor
  PROVE  FieldsOK' /\ EntryOK'
<1> DEFINE turn == DescriptorTurn(reader)
<1>1. /\ pc = "programDescriptors" /\ programDescriptors' = programDescriptors \o turn.made
      /\ pc' # "descriptors" /\ section' = section /\ left' = left
      /\ descriptorsEnd' = descriptorsEnd /\ entry' = entry /\ entries' = entries
  BY DEF ReadProgramDescriptor
<1>2. turn.made \in Seq(TSDescriptors)
  BY DescriptorTurnMakes DEF TypeInv, ReaderInv, IsMade
<1> HIDE DEF turn
<1>3. programDescriptors' \in Seq(TSDescriptors)
  BY <1>1, <1>2, MoreTypes DEF TypeInv, FieldsOK
<1> QED
  BY <1>1, <1>3, OutsideTypes DEF TypeInv, FieldsOK

\* An entry with one more descriptor is one of its table.
LEMMA WithDescriptorTypes ==
  ASSUME NEW e, NEW made, IsMade(made)
  PROVE  /\ kind = "PMT" /\ e \in TSElementaryStreams =>
              WithDescriptor(e, made) \in TSElementaryStreams
         /\ kind = "SDT" /\ e \in TSDvbServiceDescriptionEntries =>
              WithDescriptor(e, made) \in TSDvbServiceDescriptionEntries
         /\ kind = "VCT" /\ e \in TSAtscVirtualChannels =>
              WithDescriptor(e, made) \in TSAtscVirtualChannels
<1>1. ASSUME kind = "PMT", e \in TSElementaryStreams
      PROVE  WithDescriptor(e, made) \in TSElementaryStreams
  <2>1. WithDescriptor(e, made) = [e EXCEPT !.descriptors = e.descriptors \o made]
    BY <1>1 DEF WithDescriptor
  <2>2. e.descriptors \o made \in Seq(TSDescriptors)
    BY <1>1, MoreTypes DEF TSElementaryStreams, IsMade
  <2> QED
    BY <1>1, <2>1, <2>2 DEF TSElementaryStreams
<1>2. ASSUME kind = "SDT", e \in TSDvbServiceDescriptionEntries
      PROVE  WithDescriptor(e, made) \in TSDvbServiceDescriptionEntries
  <2>1. WithDescriptor(e, made) = [e EXCEPT !.descriptors = e.descriptors \o made]
    BY <1>2 DEF WithDescriptor
  <2>2. e.descriptors \o made \in Seq(TSDescriptors)
    BY <1>2, MoreTypes DEF TSDvbServiceDescriptionEntries, IsMade
  <2> QED
    BY <1>2, <2>1, <2>2 DEF TSDvbServiceDescriptionEntries
<1>3. ASSUME kind = "VCT", e \in TSAtscVirtualChannels
      PROVE  WithDescriptor(e, made) \in TSAtscVirtualChannels
  <2>1. WithDescriptor(e, made) = WithLocation(e, made)
    BY <1>3 DEF WithDescriptor
  <2>2. CASE made # <<>> /\ made[1].tag = TSAtscDescriptorTagServiceLocation
    <3>1. WithLocation(e, made) = [e EXCEPT !.serviceLocation = made]
      BY <2>2 DEF WithLocation
    <3>2. made \in Seq(TSAtscServiceLocationDescriptors)
      BY <2>2 DEF IsMade
    <3> QED
      BY <1>3, <2>1, <3>1, <3>2 DEF TSAtscVirtualChannels
  <2>3. CASE ~(made # <<>> /\ made[1].tag = TSAtscDescriptorTagServiceLocation)
    BY <1>3, <2>1, <2>3 DEF WithLocation
  <2> QED
    BY <2>2, <2>3
<1> QED
  BY <1>1, <1>2, <1>3

LEMMA ReadDescriptorTypes ==
  ASSUME TypeInv, ReadDescriptor
  PROVE  FieldsOK' /\ EntryOK'
<1> DEFINE turn == DescriptorTurn(DescriptorReader)
           e    == WithDescriptor(entry[1], turn.made)
<1>1. /\ pc = "descriptors" /\ section' = section /\ written' = written
      /\ descriptorsEnd' = descriptorsEnd /\ programDescriptors' = programDescriptors
      /\ IF turn.truncated THEN Complete(e)
         ELSE entry' = <<e>> /\ entries' = entries /\ pc' = pc /\ left' = left
  BY DEF ReadDescriptor
<1>2. Len(section) \in Nat
  BY LenProperties DEF TypeInv, ReaderInv
<1>3. IsMade(turn.made)
  <2>1. IsReader(DescriptorReader)
    BY DEF DescriptorReader, TypeInv, ReaderInv
  <2> QED
    BY <2>1, DescriptorTurnMakes
<1>4. \/ kind = "PMT" /\ e \in TSElementaryStreams
      \/ kind = "SDT" /\ e \in TSDvbServiceDescriptionEntries
      \/ kind = "VCT" /\ e \in TSAtscVirtualChannels /\ left > 0
  BY <1>1, <1>3, WithDescriptorTypes DEF TypeInv, EntryOK
<1> HIDE DEF turn, e
<1>5. CASE turn.truncated
  <2>1. Complete(e) /\ e \in Entries /\ (kind = "VCT" => left > 0)
    BY <1>1, <1>4, <1>5, EntriesAre
  <2>2. FieldsOK /\ descriptorsEnd' \in Nat
    BY <1>1 DEF TypeInv, FieldsOK
  <2> QED
    BY <1>1, <1>2, <2>1, <2>2, CompletedTypes
<1>6. CASE ~turn.truncated
  <2>1. entry' = <<e>> /\ entries' = entries /\ pc' = pc /\ left' = left
    BY <1>1, <1>6
  <2>2. Len(entry') = 1 /\ entry'[1] = e /\ kind' = kind
    BY <1>1, <2>1 DEF kind
  <2>3. FieldsOK'
    BY <1>1, <2>1, <2>2 DEF TypeInv, FieldsOK
  <2>4. EntryOK'
    BY <1>4, <2>1, <2>2 DEF EntryOK
  <2> QED
    BY <2>3, <2>4
<1> QED
  BY <1>5, <1>6

LEMMA EndDescriptorsTypes ==
  ASSUME TypeInv, EndDescriptors
  PROVE  FieldsOK' /\ EntryOK'
<1>1. /\ pc = "descriptors" /\ Complete(entry[1]) /\ section' = section
      /\ descriptorsEnd' = descriptorsEnd /\ programDescriptors' = programDescriptors
  BY DEF EndDescriptors
<1>2. entry[1] \in Entries /\ (kind = "VCT" => left > 0)
  BY <1>1, EntriesAre DEF TypeInv, EntryOK
<1>3. FieldsOK /\ descriptorsEnd' \in Nat /\ Len(section) \in Nat
  BY <1>1, LenProperties DEF TypeInv, FieldsOK, ReaderInv
<1> QED
  BY <1>1, <1>2, <1>3, CompletedTypes

LEMMA ReadEntryTypes ==
  ASSUME TypeInv, ReadPatProgram \/ ReadPmtStream \/ ReadSdtService \/ ReadVctChannel
  PROVE  FieldsOK' /\ EntryOK'
<1>1. /\ pc = "entries" /\ section' = section /\ written' = written
      /\ programDescriptors' = programDescriptors
  BY DEF ReadPatProgram, ReadPmtStream, ReadSdtService, ReadVctChannel
<1>2. FieldsOK /\ IsReader(reader) /\ Len(section) \in Nat
  BY LenProperties DEF TypeInv, ReaderInv
<1>3. CASE ReadPatProgram
  <2> DEFINE turn == ReadProgram(reader)
  <2>1. CASE turn.reader.error
    <3>1. Break(turn.reader)
      BY <1>3, <2>1 DEF ReadPatProgram
    <3> QED
      BY <1>1, <1>2, <3>1, BreakTypes
  <2>2. CASE ~turn.reader.error
    <3>1. /\ left > 0 /\ left' = left - 1 /\ entries' = WithProgram(entries, turn.entry)
          /\ pc' = pc /\ descriptorsEnd' = descriptorsEnd /\ entry' = entry
      BY <1>3, <2>2 DEF ReadPatProgram, MoreEntries
    <3>2. turn.entry \in Entries
      BY <1>2, ProgramRead, EntriesAre
    <3> HIDE DEF turn
    <3>3. entries' \in Seq(Entries)
      BY <1>2, <3>1, <3>2, WithProgramType DEF FieldsOK
    <3>4. left' \in Byte \cup 0 .. Len(section)
      BY <1>2, <3>1, LeftIsLess DEF FieldsOK
    <3> QED
      BY <1>1, <1>2, <3>1, <3>3, <3>4, OutsideTypes DEF FieldsOK
  <2> QED
    BY <2>1, <2>2
<1>4. CASE ReadPmtStream
  <2> DEFINE turn == ReadStream(reader)
             r == AfterSubReader(turn.reader, turn.descriptorsLength)
             inner == SubReader(turn.reader, turn.descriptorsLength)
  <2>1. CASE turn.reader.error
    <3>1. Break(turn.reader)
      BY <1>4, <2>1 DEF ReadPmtStream
    <3> QED
      BY <1>1, <1>2, <3>1, BreakTypes
  <2>2. CASE ~turn.reader.error
    <3>1. Descend(turn, r, inner, 0) /\ kind = "PMT"
      BY <1>4, <2>2 DEF ReadPmtStream
    <3>2. turn.entry \in TSElementaryStreams
      BY <1>2, StreamRead
    <3> HIDE DEF turn, r, inner
    <3> QED
      BY <1>1, <1>2, <3>1, <3>2, DescendTypes
  <2> QED
    BY <2>1, <2>2
<1>5. CASE ReadSdtService
  <2> DEFINE turn == ReadService(reader)
             end == turn.reader.byteOffset + turn.descriptorsLength
  <2>1. CASE turn.reader.error
    <3>1. Break(turn.reader)
      BY <1>5, <2>1 DEF ReadSdtService
    <3> QED
      BY <1>1, <1>2, <3>1, BreakTypes
  <2>2. CASE ~turn.reader.error
    <3>1. Descend(turn, turn.reader, descReader, end) /\ kind = "SDT"
      BY <1>5, <2>2 DEF ReadSdtService
    <3>2. turn.entry \in TSDvbServiceDescriptionEntries /\ turn.descriptorsLength \in Nat
      BY <1>2, ServiceRead
    <3>3. turn.reader.byteOffset \in Nat
      BY <1>2, ServiceTurnReads, ReadsGives
    <3>4. end \in Nat
      BY <3>2, <3>3
    <3> HIDE DEF turn, end
    <3> QED
      BY <1>1, <1>2, <3>1, <3>2, <3>4, DescendTypes
  <2> QED
    BY <2>1, <2>2
<1>6. CASE ReadVctChannel
  <2> DEFINE turn == ReadChannel(reader)
             short == turn.reader.error \/ RemainingBytes(turn.reader) < turn.descriptorsLength
             r == AfterSubReader(turn.reader, turn.descriptorsLength)
             inner == SubReader(turn.reader, turn.descriptorsLength)
  <2>1. CASE short
    <3>1. Break(turn.reader)
      BY <1>6, <2>1 DEF ReadVctChannel
    <3> QED
      BY <1>1, <1>2, <3>1, BreakTypes
  <2>2. CASE ~short
    <3>1. Descend(turn, r, inner, 0) /\ kind = "VCT" /\ left > 0
      BY <1>6, <2>2 DEF ReadVctChannel, MoreEntries
    <3>2. turn.entry \in TSAtscVirtualChannels
      BY <1>2, ChannelRead
    <3> HIDE DEF turn, r, inner
    <3> QED
      BY <1>1, <1>2, <3>1, <3>2, DescendTypes
  <2> QED
    BY <2>1, <2>2
<1> QED
  BY <1>3, <1>4, <1>5, <1>6

LEMMA TypesKept == TypeInv /\ [Next]_vars => TypeInv'
<1> SUFFICES ASSUME TypeInv, [Next]_vars PROVE TypeInv'
  OBVIOUS
<1>1. ReaderInv'
  BY ReaderStep DEF TypeInv
<1>2. written' = written
  BY DEF Next, Turn, Return, vars, Refuse, BeginPat, BeginPmt, BeginSdt, BeginVct, Begin,
         ReadProgramDescriptor, BeginStreams, ReadDescriptor, EndDescriptors, ReadPatProgram,
         ReadPmtStream, ReadSdtService, ReadVctChannel, EndEntries
<1>3. turns' \in 0 .. 1
  <2>1. turns' = 1 - turns \/ turns' = turns
    BY DEF Next, Return, vars
  <2> QED
    BY <2>1 DEF TypeInv
<1>4. FieldsOK' /\ EntryOK'
  <2>1. CASE Refuse \/ BeginStreams \/ EndEntries
    <3>1. /\ pc # "descriptors" /\ pc' # "descriptors" /\ section' = section
          /\ left' = left /\ descriptorsEnd' = descriptorsEnd /\ entry' = entry
          /\ entries' = entries /\ programDescriptors' = programDescriptors
      BY <2>1 DEF Refuse, BeginStreams, EndEntries
    <3> QED
      BY <3>1, OutsideTypes DEF TypeInv, FieldsOK
  <2>2. CASE BeginPat \/ BeginPmt \/ BeginSdt \/ BeginVct
    BY <2>2, BeginTypes
  <2>3. CASE ReadProgramDescriptor
    BY <2>3, ReadProgramDescriptorTypes
  <2>4. CASE ReadDescriptor
    BY <2>4, ReadDescriptorTypes
  <2>5. CASE EndDescriptors
    BY <2>5, EndDescriptorsTypes
  <2>6. CASE ReadPatProgram \/ ReadPmtStream \/ ReadSdtService \/ ReadVctChannel
    BY <2>6, ReadEntryTypes
  <2>7. CASE UNCHANGED vars
    BY <2>7 DEF TypeInv, FieldsOK, EntryOK, vars, kind
  <2> QED
    BY <2>1, <2>2, <2>3, <2>4, <2>5, <2>6, <2>7 DEF Next, Turn, Return
<1> QED
  BY <1>1, <1>2, <1>3, <1>4 DEF TypeInv

\* TypeOK: whatever a section has become, every number that is read fits its field, every
\* descriptor, stream, service and channel is one, of bytes of the section, and the readers and the
\* counters of the loops stay what they are.
THEOREM ReadValuesFit == Spec => []TypeOK
<1>1. Init => TypeInv
  BY InitTypes, InitReaderInv DEF TypeInv
<1>2. TypeInv /\ [Next]_vars => TypeInv'
  BY TypesKept
<1>3. TypeInv => TypeOK
  BY DEF TypeInv, ReaderInv, FieldsOK, IsReader, TypeOK
<1> QED
  BY <1>1, <1>2, <1>3, PTL DEF Spec

-----------------------------------------------------------------------------
(* What is written is read *)

\* r is behind the first i bytes, and has not failed.
IsBehind(r, bytes, i) ==
  /\ IsReader(r) /\ r.bytes = bytes /\ r.byteOffset = i /\ r.bitOffset = 0 /\ r.error = FALSE

LEMMA BehindFields ==
  ASSUME NEW r, NEW bytes, NEW i, IsBehind(r, bytes, i)
  PROVE  /\ r.bytes \in Seq(Byte) /\ i \in Nat /\ Len(bytes) \in Nat /\ i <= Len(bytes)
         /\ Length(r) = Len(bytes) /\ r \in Readers /\ bytes \in Seq(Byte)
<1>1. r \in Readers /\ Position(r) <= Length(r) * 8
  BY DEF IsBehind, IsReader
<1>2. r.bytes = bytes /\ r.byteOffset = i /\ r.bitOffset = 0
  BY DEF IsBehind
<1>3. r.bytes \in Seq(Byte) /\ i \in Nat /\ Length(r) \in Nat
  BY <1>1, <1>2, ReaderFields
<1>4. Length(r) = Len(bytes)
  BY <1>2 DEF Length
<1>5. i <= Len(bytes)
  BY <1>1, <1>2, <1>3, <1>4 DEF Position
<1> QED
  BY <1>1, <1>2, <1>3, <1>4, <1>5

LEMMA ByteBehind ==
  ASSUME NEW r, NEW bytes, NEW i, IsBehind(r, bytes, i), NEW k \in Nat, NEW j \in Nat, j = i + k + 1,
         j <= Len(bytes)
  PROVE  ByteAt(r, k) = bytes[j] /\ bytes[j] \in Nat
<1>1. /\ r.bytes \in Seq(Byte) /\ i \in Nat /\ Len(bytes) \in Nat /\ Length(r) = Len(bytes)
      /\ r.bytes = bytes /\ r.byteOffset = i /\ r \in Readers
  BY BehindFields DEF IsBehind
<1>2. ByteAt(r, k) = bytes[j]
  BY <1>1 DEF ByteAt
<1>3. ByteAt(r, k) \in Byte
  BY <1>1, BytesAreBytes
<1> QED
  BY ONLY <1>2, <1>3 DEF Byte

LEMMA MovedBehind ==
  ASSUME NEW r, NEW bytes, NEW i, IsBehind(r, bytes, i), NEW n \in Nat, i + n <= Len(bytes), NEW v \in Nat
  PROVE  /\ CanRead(r, n) /\ IsBehind(MovedBytes(r, n), bytes, i + n)
         /\ IsBehind([MovedBytes(r, n) EXCEPT !.value = v], bytes, i + n)
         /\ [MovedBytes(r, n) EXCEPT !.value = v].value = v
<1>1. /\ r.bytes \in Seq(Byte) /\ i \in Nat /\ Len(bytes) \in Nat /\ Length(r) = Len(bytes)
      /\ r.bytes = bytes /\ r.byteOffset = i /\ r.bitOffset = 0 /\ r.error = FALSE /\ r \in Readers /\ IsReader(r)
  BY BehindFields DEF IsBehind
<1>2. CanRead(r, n)
  BY <1>1 DEF CanRead
<1>3. IsReader(MovedBytes(r, n)) /\ IsReader([MovedBytes(r, n) EXCEPT !.value = v])
  BY <1>1, <1>2, MovedBytesReads DEF Reads
<1> DEFINE s == [r EXCEPT !.byteOffset = @ + n]
           t == [s EXCEPT !.value = v]
<1>4. /\ s.bytes = bytes /\ s.byteOffset = i + n /\ s.bitOffset = 0 /\ s.error = FALSE
      /\ t.bytes = bytes /\ t.byteOffset = i + n /\ t.bitOffset = 0 /\ t.error = FALSE /\ t.value = v
  BY <1>1 DEF Readers
<1>5. s = MovedBytes(r, n) /\ t = [MovedBytes(r, n) EXCEPT !.value = v]
  BY DEF MovedBytes
<1> HIDE DEF s, t
<1> QED
  BY ONLY <1>2, <1>3, <1>4, <1>5 DEF IsBehind

LEMMA ByteGiven ==
  ASSUME NEW r, NEW bytes, NEW i, IsBehind(r, bytes, i), i + 1 <= Len(bytes)
  PROVE  IsBehind(ReadUInt8(r), bytes, i + 1) /\ ReadUInt8(r).value = bytes[i + 1]
<1>1. i \in Nat /\ Len(bytes) \in Nat
  BY BehindFields
<1>2. 0 \in Nat /\ 1 \in Nat /\ i + 1 \in Nat /\ i + 1 = i + 0 + 1
  BY <1>1
<1>3. ByteAt(r, 0) = bytes[i + 1] /\ bytes[i + 1] \in Nat
  BY <1>2, ByteBehind
<1> DEFINE v == bytes[i + 1]
<1> HIDE DEF v
<1>4. CanRead(r, 1) /\ IsBehind([MovedBytes(r, 1) EXCEPT !.value = v], bytes, i + 1)
      /\ [MovedBytes(r, 1) EXCEPT !.value = v].value = v
  BY <1>2, <1>3, MovedBehind DEF v
<1>5. ReadUInt8(r) = [MovedBytes(r, 1) EXCEPT !.value = v]
  BY <1>3, <1>4 DEF ReadUInt8, v
<1> QED
  BY <1>4, <1>5 DEF v

LEMMA WordGiven ==
  ASSUME NEW r, NEW bytes, NEW i, IsBehind(r, bytes, i), i + 2 <= Len(bytes)
  PROVE  /\ IsBehind(ReadUInt16BE(r), bytes, i + 2)
         /\ ReadUInt16BE(r).value = bytes[i + 1] * 256 + bytes[i + 2]
<1>1. i \in Nat /\ Len(bytes) \in Nat
  BY BehindFields
<1>2. /\ 0 \in Nat /\ 1 \in Nat /\ 2 \in Nat /\ i + 1 \in Nat /\ i + 2 \in Nat
      /\ i + 1 = i + 0 + 1 /\ i + 2 = i + 1 + 1 /\ i + 1 <= Len(bytes)
  BY <1>1
<1>3. ByteAt(r, 0) = bytes[i + 1] /\ bytes[i + 1] \in Nat
  BY <1>2, ByteBehind
<1>4. ByteAt(r, 1) = bytes[i + 2] /\ bytes[i + 2] \in Nat
  BY <1>2, ByteBehind
<1> DEFINE v == bytes[i + 1] * 256 + bytes[i + 2]
<1>5. v \in Nat
  BY <1>3, <1>4
<1>6. ByteAt(r, 0) * 256 + ByteAt(r, 1) = v
  BY <1>3, <1>4
<1> HIDE DEF v
<1>7. CanRead(r, 2) /\ IsBehind([MovedBytes(r, 2) EXCEPT !.value = v], bytes, i + 2)
      /\ [MovedBytes(r, 2) EXCEPT !.value = v].value = v
  BY <1>2, <1>5, MovedBehind
<1>8. ReadUInt16BE(r) = [MovedBytes(r, 2) EXCEPT !.value = v]
  BY <1>6, <1>7 DEF ReadUInt16BE
<1> QED
  BY <1>7, <1>8 DEF v

\* The last 13 bits, or 12, of two bytes.
LEMMA WindowOfTwo ==
  ASSUME NEW x \in Byte, NEW y \in Byte, NEW z \in Byte
  PROVE  /\ ((x * 65536 + y * 256 + z) \div 2 ^ (24 - 3 - 13)) % 2 ^ 13 = (x % 32) * 256 + y
         /\ ((x * 65536 + y * 256 + z) \div 2 ^ (24 - 4 - 12)) % 2 ^ 12 = (x % 16) * 256 + y
<1> DEFINE w == x * 65536 + y * 256 + z
<1>1. 2 ^ 8 = 256 /\ 2 ^ 13 = 8192 /\ 2 ^ 12 = 4096 /\ 24 - 3 - 13 = 8 /\ 24 - 4 - 12 = 8
  OBVIOUS
<1>2. w \div 256 = x * 256 + y
  BY DEF Byte
<1>3. (x * 256 + y) % 8192 = (x % 32) * 256 + y
  BY DEF Byte
<1>4. (x * 256 + y) % 4096 = (x % 16) * 256 + y
  BY DEF Byte
<1> HIDE DEF w
<1>5. (w \div 2 ^ (24 - 3 - 13)) % 2 ^ 13 = (x % 32) * 256 + y
  BY <1>1, <1>2, <1>3
<1>6. (w \div 2 ^ (24 - 4 - 12)) % 2 ^ 12 = (x % 16) * 256 + y
  BY <1>1, <1>2, <1>4
<1> QED
  BY ONLY <1>5, <1>6 DEF w

LEMMA BitsGiven ==
  ASSUME NEW r, NEW bytes, NEW i, IsBehind(r, bytes, i), i + 2 <= Len(bytes),
         NEW b \in {3, 4}, NEW n \in {12, 13}, b + n = 16
  PROVE  /\ IsBehind(ReadBits(SkipBits(r, b), n), bytes, i + 2)
         /\ ReadBits(SkipBits(r, b), n).value
              = (bytes[i + 1] % (IF b = 3 THEN 32 ELSE 16)) * 256 + bytes[i + 2]
<1> DEFINE s == SkipBits(r, b)
           t == ReadBits(s, n)
<1>1. /\ i \in Nat /\ Len(bytes) \in Nat /\ Length(r) = Len(bytes) /\ r \in Readers /\ IsReader(r)
      /\ r.bytes = bytes /\ r.byteOffset = i /\ r.bitOffset = 0 /\ r.error = FALSE
  BY BehindFields DEF IsBehind
<1>2. ~(RemainingBits(r) < b) /\ ~r.error
  BY <1>1 DEF RemainingBits
<1>3. s = MovedBits(r, b)
  BY ONLY <1>2 DEF SkipBits
<1>4. (i * 8 + 0 + b) \div 8 = i /\ (i * 8 + 0 + b) % 8 = b
  BY <1>1
<1>5. s = [r EXCEPT !.byteOffset = i, !.bitOffset = b]
  BY <1>1, <1>3, <1>4 DEF MovedBits
<1>6. /\ s.bytes = bytes /\ s.byteOffset = i /\ s.bitOffset = b /\ s.error = FALSE /\ IsReader(s)
  <2>1. s.bytes = bytes /\ s.byteOffset = i /\ s.bitOffset = b /\ s.error = FALSE
    BY <1>1, <1>5 DEF Readers
  <2>2. b \in Nat
    OBVIOUS
  <2>3. IsReader(s)
    BY <1>1, <2>2, SkipBitsReads DEF Reads
  <2> QED
    BY <2>1, <2>3
<1>7. s \in Readers /\ Length(s) = Len(bytes)
  BY <1>6 DEF IsReader, Length
<1> HIDE DEF s
<1>8. ~(RemainingBits(s) < n)
  BY <1>1, <1>6, <1>7 DEF RemainingBits
<1>9. t = [MovedBits(s, n) EXCEPT !.value = BitsAt(s, n)]
  <2>1. n # 0 /\ ~(n > 32) /\ ~s.error
    BY <1>6
  <2> QED
    BY <1>8, <2>1 DEF ReadBits
<1>10. (i * 8 + b + n) \div 8 = i + 2 /\ (i * 8 + b + n) % 8 = 0
  BY <1>1
<1>11. MovedBits(s, n) = [s EXCEPT !.byteOffset = i + 2, !.bitOffset = 0]
  BY <1>6, <1>10 DEF MovedBits
<1> DEFINE v == BitsAt(s, n)
<1>12. IsReader(t)
  <2>1. n \in 1 .. 17
    OBVIOUS
  <2>2. Reads(s, t, n)
    BY <1>6, <2>1, ReadBitsReads
  <2> QED
    BY <2>2 DEF Reads
<1>13. v = (bytes[i + 1] % (IF b = 3 THEN 32 ELSE 16)) * 256 + bytes[i + 2]
  <2>1. ByteAt(s, 0) = ByteAt(r, 0) /\ ByteAt(s, 1) = ByteAt(r, 1) /\ ByteAt(s, 2) = ByteAt(r, 2)
    BY <1>1, <1>6, <1>7 DEF ByteAt
  <2>2. /\ 0 \in Nat /\ 1 \in Nat /\ 2 \in Nat /\ i + 1 \in Nat /\ i + 2 \in Nat
        /\ i + 1 = i + 0 + 1 /\ i + 2 = i + 1 + 1 /\ i + 1 <= Len(bytes)
    BY <1>1
  <2>3. ByteAt(r, 0) = bytes[i + 1] /\ ByteAt(r, 1) = bytes[i + 2]
    BY <2>2, ByteBehind
  <2>4. ByteAt(r, 0) \in Byte /\ ByteAt(r, 1) \in Byte /\ ByteAt(r, 2) \in Byte
    BY <1>1, <2>2, BytesAreBytes
  <2> DEFINE x == ByteAt(r, 0)
             y == ByteAt(r, 1)
             z == ByteAt(r, 2)
  <2>5. v = ((x * 65536 + y * 256 + z) \div 2 ^ (24 - b - n)) % 2 ^ n
    BY <1>6, <2>1 DEF BitsAt
  <2>6. x = bytes[i + 1] /\ y = bytes[i + 2]
    BY <2>2, <2>3
  <2> HIDE DEF x, y, z, v
  <2>7. CASE b = 3
    <3>1. n = 13
      BY <2>7
    <3>2. v = (x % 32) * 256 + y
      BY ONLY <2>4, <2>5, <2>7, <3>1, WindowOfTwo DEF x, y, z
    <3> QED
      BY <2>6, <2>7, <3>2
  <2>8. CASE b = 4
    <3>1. n = 12
      BY <2>8
    <3>2. v = (x % 16) * 256 + y
      BY ONLY <2>4, <2>5, <2>8, <3>1, WindowOfTwo DEF x, y, z
    <3> QED
      BY <2>6, <2>8, <3>2
  <2> QED
    BY <2>7, <2>8
<1> HIDE DEF v
<1>14. /\ t.bytes = bytes /\ t.byteOffset = i + 2 /\ t.bitOffset = 0 /\ t.error = FALSE /\ t.value = v
  <2>1. t = [[s EXCEPT !.byteOffset = i + 2, !.bitOffset = 0] EXCEPT !.value = v]
    BY <1>9, <1>11 DEF v
  <2> QED
    BY ONLY <1>6, <1>7, <2>1 DEF Readers
<1> HIDE DEF t
<1>15. IsBehind(t, bytes, i + 2)
  BY ONLY <1>12, <1>14 DEF IsBehind
<1> QED
  BY ONLY <1>13, <1>14, <1>15 DEF t, s

LEMMA NumbersWritten ==
  /\ \A number \in Bits(16) : (number \div 256) * 256 + (number % 256) = number
  /\ \A pid \in Bits(13) : ((224 + HighByte(pid)) % 32) * 256 + (pid % 256) = pid
<1>1. 2 ^ 16 - 1 = 65535 /\ 2 ^ 13 - 1 = 8191
  OBVIOUS
<1>2. ASSUME NEW number \in Bits(16) PROVE (number \div 256) * 256 + (number % 256) = number
  <2>1. number \in Nat
    BY <1>1 DEF Bits
  <2> QED
    BY ONLY <2>1
<1>3. ASSUME NEW pid \in Bits(13) PROVE ((224 + HighByte(pid)) % 32) * 256 + (pid % 256) = pid
  <2>1. pid \in Nat /\ pid <= 8191
    BY <1>1 DEF Bits
  <2>2. pid \div 256 \in 0 .. 31
    BY ONLY <2>1
  <2>3. HighByte(pid) = pid \div 256
    BY ONLY <2>2 DEF HighByte
  <2>4. (224 + (pid \div 256)) % 32 = pid \div 256
    BY ONLY <2>2
  <2>5. (pid \div 256) * 256 + (pid % 256) = pid
    BY ONLY <2>1
  <2> QED
    BY ONLY <2>3, <2>4, <2>5
<1> QED
  BY <1>2, <1>3

LEMMA ProgramGiven ==
  ASSUME NEW r, NEW bytes, NEW i, IsBehind(r, bytes, i), i + 4 <= Len(bytes), NEW program \in Programs,
         \A m \in 1 .. 4 : bytes[i + m] = ProgramBytes(program)[m]
  PROVE  IsBehind(ReadProgram(r).reader, bytes, i + 4) /\ ReadProgram(r).entry = program
<1> DEFINE number == ReadUInt16BE(r)
           pid == ReadBits(SkipBits(number, 3), 13)
<1>1. i \in Nat /\ Len(bytes) \in Nat
  BY BehindFields
<1>2. IsBehind(number, bytes, i + 2) /\ number.value = bytes[i + 1] * 256 + bytes[i + 2]
  <2>1. i + 2 <= Len(bytes)
    BY <1>1
  <2> QED
    BY ONLY <2>1, IsBehind(r, bytes, i), WordGiven
<1> HIDE DEF number
<1>3. IsBehind(pid, bytes, i + 4) /\ pid.value = (bytes[i + 3] % 32) * 256 + bytes[i + 4]
  <2> DEFINE j == i + 2
  <2>1. j + 2 <= Len(bytes) /\ j + 2 = i + 4 /\ j + 1 = i + 3 /\ j + 2 = i + 4
    BY <1>1
  <2>2. IsBehind(number, bytes, j)
    BY <1>2
  <2> HIDE DEF j
  <2>3. 3 \in {3, 4} /\ 13 \in {12, 13} /\ 3 + 13 = 16
    OBVIOUS
  <2>4. /\ IsBehind(pid, bytes, j + 2)
        /\ pid.value = (bytes[j + 1] % (IF 3 = 3 THEN 32 ELSE 16)) * 256 + bytes[j + 2]
    BY ONLY <2>1, <2>2, <2>3, BitsGiven
  <2> QED
    BY ONLY <2>1, <2>4
<1> HIDE DEF pid
<1>4. program.programNumber \in Bits(16) /\ program.pmtPid \in Bits(13)
      /\ program = [programNumber |-> program.programNumber, pmtPid |-> program.pmtPid]
  BY DEF Programs
<1>5. /\ bytes[i + 1] = program.programNumber \div 256 /\ bytes[i + 2] = program.programNumber % 256
      /\ bytes[i + 3] = 224 + HighByte(program.pmtPid) /\ bytes[i + 4] = program.pmtPid % 256
  BY DEF ProgramBytes
<1>6. number.value = program.programNumber /\ pid.value = program.pmtPid
  BY ONLY <1>2, <1>3, <1>4, <1>5, NumbersWritten
<1>7. ReadProgram(r) = [reader |-> pid, entry |-> [programNumber |-> number.value, pmtPid |-> pid.value]]
  BY Zenon DEF ReadProgram, pid, number
<1> QED
  BY ONLY <1>3, <1>4, <1>6, <1>7

\* A stream as the muxer writes it, without descriptors.
BareStreams == [pid : Bits(13), streamType : Byte, descriptors : {<<>>}]

LEMMA StreamGiven ==
  ASSUME NEW r, NEW bytes, NEW i, IsBehind(r, bytes, i), i + 5 <= Len(bytes), NEW es \in BareStreams,
         \A m \in 1 .. 5 : bytes[i + m] = StreamBytes(es)[m]
  PROVE  /\ IsBehind(ReadStream(r).reader, bytes, i + 5)
         /\ ReadStream(r).entry = es /\ ReadStream(r).descriptorsLength = 0
<1> DEFINE type == ReadUInt8(r)
           pid == ReadBits(SkipBits(type, 3), 13)
           length == ReadBits(SkipBits(pid, 4), 12)
<1>1. i \in Nat /\ Len(bytes) \in Nat
  BY BehindFields
<1>2. IsBehind(type, bytes, i + 1) /\ type.value = bytes[i + 1]
  BY <1>1, ByteGiven
<1> HIDE DEF type
<1>3. IsBehind(pid, bytes, i + 3) /\ pid.value = (bytes[i + 2] % 32) * 256 + bytes[i + 3]
  <2> DEFINE j == i + 1
  <2>1. j + 2 <= Len(bytes) /\ j + 2 = i + 3 /\ j + 1 = i + 2
    BY <1>1
  <2>2. IsBehind(type, bytes, j)
    BY <1>2
  <2> HIDE DEF j
  <2>3. 3 \in {3, 4} /\ 13 \in {12, 13} /\ 3 + 13 = 16
    OBVIOUS
  <2>4. /\ IsBehind(pid, bytes, j + 2)
        /\ pid.value = (bytes[j + 1] % (IF 3 = 3 THEN 32 ELSE 16)) * 256 + bytes[j + 2]
    BY ONLY <2>1, <2>2, <2>3, BitsGiven
  <2> QED
    BY ONLY <2>1, <2>4
<1> HIDE DEF pid
<1>4. IsBehind(length, bytes, i + 5) /\ length.value = (bytes[i + 4] % 16) * 256 + bytes[i + 5]
  <2> DEFINE j == i + 3
  <2>1. j + 2 <= Len(bytes) /\ j + 2 = i + 5 /\ j + 1 = i + 4
    BY <1>1
  <2>2. IsBehind(pid, bytes, j)
    BY <1>3
  <2> HIDE DEF j
  <2>3. 4 \in {3, 4} /\ 12 \in {12, 13} /\ 4 + 12 = 16
    OBVIOUS
  <2>4. /\ IsBehind(length, bytes, j + 2)
        /\ length.value = (bytes[j + 1] % (IF 4 = 3 THEN 32 ELSE 16)) * 256 + bytes[j + 2]
    BY ONLY <2>1, <2>2, <2>3, BitsGiven
  <2> QED
    BY ONLY <2>1, <2>4
<1> HIDE DEF length
<1>5. es.pid \in Bits(13) /\ es.descriptors = <<>>
      /\ es = [pid |-> es.pid, streamType |-> es.streamType, descriptors |-> <<>>]
  BY DEF BareStreams
<1>6. /\ bytes[i + 1] = es.streamType /\ bytes[i + 2] = 224 + HighByte(es.pid)
      /\ bytes[i + 3] = es.pid % 256 /\ bytes[i + 4] = 240 /\ bytes[i + 5] = 0
  BY DEF StreamBytes
<1>7. pid.value = es.pid /\ length.value = 0
  <2>1. (240 % 16) * 256 + 0 = 0
    OBVIOUS
  <2> QED
    BY ONLY <1>3, <1>4, <1>5, <1>6, <2>1, NumbersWritten
<1>8. ReadStream(r) = [reader |-> length, descriptorsLength |-> length.value,
                       entry |-> [pid |-> pid.value, streamType |-> type.value, descriptors |-> <<>>]]
  BY Zenon DEF ReadStream, type, pid, length
<1> DEFINE n == length.value
           entry1 == [pid |-> pid.value, streamType |-> type.value, descriptors |-> <<>>]
<1>9. n = 0 /\ entry1 = es
  BY ONLY <1>2, <1>5, <1>6, <1>7
<1>10. ReadStream(r) = [reader |-> length, descriptorsLength |-> n, entry |-> entry1]
  BY <1>8
<1> HIDE DEF n, entry1
<1> QED
  BY ONLY <1>4, <1>9, <1>10

-----------------------------------------------------------------------------
(* Sections without descriptors *)

\* The first n of some parts of w bytes each follow each other in bytes.
IsLaid(bytes, parts, w, n) ==
  /\ bytes \in Seq(Byte) /\ Len(bytes) = n * w
  /\ \A i \in 1 .. n, m \in 1 .. w : bytes[(i - 1) * w + m] = parts[i][m]

LEMMA LaidOn ==
  ASSUME NEW a, NEW parts, NEW w \in {4, 5}, NEW n \in Nat, IsLaid(a, parts, w, n),
         NEW b \in Seq(Byte), Len(b) = w, b = parts[n + 1]
  PROVE  IsLaid(a \o b, parts, w, n + 1)
<1> DEFINE c == a \o b
<1>1. a \in Seq(Byte) /\ Len(a) = n * w
  BY DEF IsLaid
<1>2. \A i \in 1 .. n, m \in 1 .. w : a[(i - 1) * w + m] = parts[i][m]
  BY DEF IsLaid
<1>3. /\ c \in Seq(Byte) /\ Len(c) = Len(a) + Len(b)
      /\ \A k \in 1 .. Len(a) + Len(b) : c[k] = IF k <= Len(a) THEN a[k] ELSE b[k - Len(a)]
  <2>1. a \in Seq(Byte)
    BY <1>1
  <2> QED
    BY ONLY <2>1, b \in Seq(Byte), ConcatProperties
<1> HIDE DEF c
<1>4. Len(c) = (n + 1) * w
  BY ONLY <1>1, <1>3, Len(b) = w, n \in Nat, w \in {4, 5}
<1>5. ASSUME NEW i \in 1 .. n + 1, NEW m \in 1 .. w
      PROVE  c[(i - 1) * w + m] = parts[i][m]
  <2> DEFINE k == (i - 1) * w + m
  <2>1. CASE i \in 1 .. n
    <3>1. k \in 1 .. n * w /\ k <= n * w /\ n * w <= n * w + w
      BY ONLY <2>1, n \in Nat, w \in {4, 5}, m \in 1 .. w
    <3>2. a[k] = parts[i][m]
      BY ONLY <1>2, <2>1, m \in 1 .. w
    <3> HIDE DEF k
    <3>3. c[k] = a[k]
      BY ONLY <1>1, <1>3, <3>1, Len(b) = w, w \in {4, 5}, n \in Nat
    <3> QED
      BY ONLY <3>2, <3>3 DEF k
  <2>2. CASE i = n + 1
    <3>1. k = n * w + m /\ k \in 1 .. n * w + w /\ ~(k <= n * w) /\ k - n * w = m
      BY ONLY <2>2, n \in Nat, w \in {4, 5}, m \in 1 .. w
    <3> HIDE DEF k
    <3>2. c[k] = b[m]
      BY ONLY <1>1, <1>3, <3>1, Len(b) = w
    <3> QED
      BY ONLY <2>2, <3>2, b = parts[n + 1] DEF k
  <2> QED
    BY <2>1, <2>2
<1> QED
  BY <1>3, <1>4, <1>5 DEF IsLaid, c

LEMMA FlattenLays ==
  ASSUME NEW parts \in Seq(Seq(Byte)), NEW w \in {4, 5}, \A i \in 1 .. Len(parts) : Len(parts[i]) = w
  PROVE  IsLaid(FlattenSeq(parts), parts, w, Len(parts))
<1> DEFINE n == Len(parts)
<1>0. n \in Nat
  BY LenProperties
<1>1. CASE n = 0
  <2>1. FlattenSeq(parts) = parts /\ parts = <<>>
    BY <1>1, EmptySeq DEF FlattenSeq
  <2>2. IsLaid(<<>>, parts, w, 0)
    <3>1. <<>> \in Seq(Byte) /\ Len(<<>>) = 0 * w
      OBVIOUS
    <3> QED
      BY <3>1 DEF IsLaid
  <2> QED
    BY <1>1, <2>1, <2>2
<1>2. CASE n # 0
  <2> DEFINE f == CHOOSE f : IsFlat(f, parts)
             Lays(k) == k \in 1 .. n => IsLaid(f[k], parts, w, k)
             T == {k \in Nat : Lays(k)}
  <2> HIDE DEF f
  <2>1. FlattensTo(f, parts, n)
    <3>1. IsFlat(f, parts)
      BY <1>0, FlatExists DEF f
    <3> QED
      BY ONLY <3>1 DEF IsFlat, FlattensTo
  <2>2. ASSUME NEW k \in Nat, Lays(k), k + 1 \in 1 .. n
        PROVE  IsLaid(f[k + 1], parts, w, k + 1)
    <3> DEFINE j == k + 1
               b == parts[j]
    <3>1. b \in Seq(Byte) /\ Len(b) = w
      BY <2>2, ElementOfSeq
    <3>2. f[j] = IF k = 0 THEN b ELSE f[k] \o b
      <4>1. f[j] = IF j = 1 THEN parts[j] ELSE f[j - 1] \o parts[j]
        BY <2>1, <2>2 DEF FlattensTo
      <4>2. j - 1 = k /\ (j = 1 <=> k = 0)
        BY ONLY k \in Nat
      <4> QED
        BY ONLY <4>1, <4>2
    <3>3. b = parts[k + 1]
      OBVIOUS
    <3> HIDE DEF b
    <3>4. CASE k = 0
      <4>1. IsLaid(<<>>, parts, w, 0)
        <5>1. <<>> \in Seq(Byte) /\ Len(<<>>) = 0 * w
          OBVIOUS
        <5> QED
          BY <5>1 DEF IsLaid
      <4>2. IsLaid(<<>> \o b, parts, w, 0 + 1)
        <5>1. b = parts[0 + 1] /\ 0 \in Nat
          BY <3>3, <3>4
        <5> QED
          BY ONLY <3>1, <4>1, <5>1, w \in {4, 5}, LaidOn
      <4>3. <<>> \o b = b
        <5>1. b \in Seq(Byte)
          BY ONLY <3>1
        <5> QED
          BY ONLY <5>1, ConcatEmptySeq
      <4> QED
        BY ONLY <3>2, <3>4, <4>2, <4>3
    <3>5. CASE k # 0
      <4>1. IsLaid(f[k], parts, w, k)
        <5>1. k \in 1 .. n
          BY ONLY <1>0, <2>2, <3>5, k \in Nat
        <5> QED
          BY <2>2, <5>1
      <4>2. IsLaid(f[k] \o b, parts, w, k + 1)
        BY ONLY <3>1, <3>3, <4>1, k \in Nat, w \in {4, 5}, LaidOn
      <4> QED
        BY ONLY <3>2, <3>5, <4>2
    <3> QED
      BY <3>4, <3>5
  <2>3. 0 \in T
    OBVIOUS
  <2>4. \A k \in Nat : k \in T => k + 1 \in T
    <3>1. \A k \in Nat : Lays(k) => Lays(k + 1)
      BY <2>2
    <3> HIDE DEF Lays
    <3> QED
      BY <3>1
  <2>5. Nat \subseteq T
    <3> HIDE DEF T
    <3> QED
      BY <2>3, <2>4, InductionOverNat
  <2>6. IsLaid(f[n], parts, w, n)
    BY <1>0, <1>2, <2>5
  <2> QED
    BY <1>2, <2>6, FlattenDef DEF f
<1> QED
  BY <1>1, <1>2

\* A reader of whole bytes is behind none of them.
LEMMA BehindNone ==
  ASSUME NEW bytes \in Seq(Byte)
  PROVE  IsBehind(Make(bytes), bytes, 0) /\ IsBehind(MakeWithBytes(bytes, Len(bytes)), bytes, 0)
<1>1. IsBehind(ReaderOf(bytes, FALSE), bytes, 0)
  <2>1. IsReader(ReaderOf(bytes, FALSE))
    BY NewReader DEF IsNew
  <2>2. /\ ReaderOf(bytes, FALSE).bytes = bytes /\ ReaderOf(bytes, FALSE).byteOffset = 0
        /\ ReaderOf(bytes, FALSE).bitOffset = 0 /\ ReaderOf(bytes, FALSE).error = FALSE
    BY DEF ReaderOf
  <2> QED
    BY ONLY <2>1, <2>2 DEF IsBehind
<1>2. SubSeq(bytes, 1, Len(bytes)) = bytes
  BY SubSeqFull
<1>3. ~(bytes = <<>> /\ Len(bytes) > 0)
  BY EmptySeq
<1> QED
  BY <1>1, <1>2, <1>3 DEF Make, MakeWithBytes

\* What is behind the head of a section.
LEMMA RestIsBody ==
  ASSUME NEW head \in Seq(Byte), NEW body \in Seq(Byte), NEW n \in Nat, n = Len(head)
  PROVE  /\ head \o body \in Seq(Byte) /\ Len(head \o body) = n + Len(body)
         /\ \A k \in 1 .. n : (head \o body)[k] = head[k]
         /\ SubSeq(head \o body, n + 1, Len(head \o body)) = body
<1> DEFINE all == head \o body
           l == Len(body)
<1>1. all \in Seq(Byte) /\ Len(all) = n + l
      /\ \A k \in 1 .. n + l : all[k] = IF k <= n THEN head[k] ELSE body[k - n]
  BY ConcatProperties
<1>2. l \in Nat
  BY LenProperties
<1> HIDE DEF all
<1>3. \A k \in 1 .. n : all[k] = head[k]
  BY ONLY <1>1, <1>2, n \in Nat
<1> DEFINE m == n + 1
           z == n + l
           rest == SubSeq(all, m, z)
<1>4. /\ rest \in Seq(Byte) /\ Len(rest) = IF m <= z THEN z - m + 1 ELSE 0
      /\ \A k \in 1 .. z - m + 1 : rest[k] = all[m + k - 1]
  <2>1. m \in Int /\ z \in Int /\ m .. z \subseteq 1 .. z
    BY ONLY <1>2, n \in Nat
  <2>2. \A k \in m .. z : all[k] \in Byte
    BY <1>1, <2>1, ElementOfSeq
  <2> HIDE DEF m, z
  <2> QED
    BY <2>1, <2>2, SubSeqProperties
<1>5. (IF m <= z THEN z - m + 1 ELSE 0) = l /\ z - m + 1 = l
  BY ONLY <1>2, n \in Nat
<1>6. \A k \in 1 .. l : m + k - 1 \in 1 .. n + l /\ ~(m + k - 1 <= n) /\ m + k - 1 - n = k
  BY ONLY <1>2, n \in Nat
<1>7. \A k \in 1 .. l : rest[k] = body[k]
  <2> SUFFICES ASSUME NEW k \in 1 .. l PROVE rest[k] = body[k]
    OBVIOUS
  <2> DEFINE j == m + k - 1
  <2>1. rest[k] = all[j]
    BY ONLY <1>4, <1>5, k \in 1 .. l
  <2>2. j \in 1 .. n + l /\ ~(j <= n) /\ j - n = k
    BY ONLY <1>6, k \in 1 .. l
  <2> HIDE DEF j, rest, l
  <2> QED
    BY ONLY <1>1, <2>1, <2>2
<1> HIDE DEF rest
<1>8. Len(rest) = Len(body)
  BY ONLY <1>4, <1>5
<1>9. rest = body
  BY ONLY <1>4, <1>7, <1>8, body \in Seq(Byte), SeqEqual
<1> QED
  BY <1>1, <1>3, <1>9 DEF all, rest

\* The byte behind k others of a section.
LEMMA ByteOfSection ==
  ASSUME NEW bytes \in Seq(Byte), NEW k \in Nat, k + 1 <= Len(bytes)
  PROVE  ReadUInt8(Skip(Make(bytes), k)).value = bytes[k + 1]
<1> DEFINE r == Make(bytes)
<1>1. IsBehind(r, bytes, 0)
  BY BehindNone
<1> HIDE DEF r
<1>2. Len(bytes) \in Nat
  BY LenProperties
<1>3. 0 + k <= Len(bytes) /\ 0 + k = k
  BY <1>2
<1>4. CanRead(r, k) /\ IsBehind(MovedBytes(r, k), bytes, 0 + k)
  BY <1>1, <1>3, MovedBehind
<1>5. Skip(r, k) = MovedBytes(r, k)
  BY <1>4 DEF Skip
<1>6. IsBehind(Skip(r, k), bytes, k)
  BY <1>3, <1>4, <1>5
<1> QED
  BY <1>6, ByteGiven DEF r

LEMMA HeaderNumbers ==
  ASSUME NEW v \in Bits(5), NEW c \in BOOLEAN
  PROVE  LET b == 192 + 2 * (v % 32) + (IF c THEN 1 ELSE 0)
         IN  (b % 64) \div 2 = v /\ (b % 2 = 1 <=> c)
<1>1. 2 ^ 5 - 1 = 31
  OBVIOUS
<1>2. v \in Nat /\ v <= 31
  BY <1>1 DEF Bits
<1>3. v % 32 = v
  BY ONLY <1>2
<1>4. CASE c
  <2>1. ((192 + 2 * v + 1) % 64) \div 2 = v /\ (192 + 2 * v + 1) % 2 = 1
    BY ONLY <1>2
  <2> QED
    BY <1>3, <1>4, <2>1
<1>5. CASE ~c
  <2>1. ((192 + 2 * v + 0) % 64) \div 2 = v /\ (192 + 2 * v + 0) % 2 = 0
    BY ONLY <1>2
  <2> QED
    BY <1>3, <1>5, <2>1
<1> QED
  BY <1>4, <1>5

\* The header of a section is read as it was written.
LEMMA HeaderRead ==
  ASSUME NEW bytes \in Seq(Byte), NEW header \in Headers, Len(bytes) >= 5,
         \A k \in 1 .. 5 : bytes[k] = CommonSectionData(header)[k]
  PROVE  HeaderOf(bytes) = header
<1>1. Len(bytes) \in Nat
  BY LenProperties
<1>2. /\ bytes[1] = header.byte4And5 \div 256 /\ bytes[2] = header.byte4And5 % 256
      /\ bytes[3] = 192 + 2 * (header.versionNumber % 32)
                      + (IF header.currentNextIndicator THEN 1 ELSE 0)
      /\ bytes[4] = header.sectionNumber /\ bytes[5] = header.lastSectionNumber
  BY DEF CommonSectionData
<1>3. /\ header.byte4And5 \in Bits(16) /\ header.versionNumber \in Bits(5)
      /\ header.currentNextIndicator \in BOOLEAN
      /\ header = [byte4And5 |-> header.byte4And5, versionNumber |-> header.versionNumber,
                   currentNextIndicator |-> header.currentNextIndicator,
                   sectionNumber |-> header.sectionNumber,
                   lastSectionNumber |-> header.lastSectionNumber]
  BY DEF Headers
<1>4. ReadUInt16BE(Make(bytes)).value = header.byte4And5
  <2> DEFINE i == 0
             r == Make(bytes)
  <2>1. IsBehind(r, bytes, i) /\ i + 2 <= Len(bytes)
    BY <1>1, BehindNone
  <2>2. i + 1 = 1 /\ i + 2 = 2
    OBVIOUS
  <2> HIDE DEF i, r
  <2>3. /\ IsBehind(ReadUInt16BE(r), bytes, i + 2)
        /\ ReadUInt16BE(r).value = bytes[i + 1] * 256 + bytes[i + 2]
    BY ONLY <2>1, WordGiven
  <2>4. ReadUInt16BE(r).value = bytes[1] * 256 + bytes[2]
    BY ONLY <2>2, <2>3
  <2> QED
    BY <1>2, <1>3, <2>4, NumbersWritten DEF r
<1>5. /\ ReadUInt8(Skip(Make(bytes), 2)).value = bytes[3]
      /\ ReadUInt8(Skip(Make(bytes), 3)).value = bytes[4]
      /\ ReadUInt8(Skip(Make(bytes), 4)).value = bytes[5]
  <2>1. /\ 2 \in Nat /\ 3 \in Nat /\ 4 \in Nat /\ 2 + 1 = 3 /\ 3 + 1 = 4 /\ 4 + 1 = 5
        /\ 3 <= Len(bytes) /\ 4 <= Len(bytes) /\ 5 <= Len(bytes)
    BY <1>1
  <2> QED
    BY <2>1, ByteOfSection
<1>6. (bytes[3] % 64) \div 2 = header.versionNumber
      /\ (bytes[3] % 2 = 1 <=> header.currentNextIndicator)
  BY ONLY <1>2, <1>3, HeaderNumbers
<1>7. versionNumber(bytes) = header.versionNumber
  <2>1. ~(Len(bytes) < 3)
    BY <1>1
  <2> QED
    BY <1>5, <1>6, <2>1 DEF versionNumber
<1>8. (bytes[3] % 2 = 1) = header.currentNextIndicator
  BY ONLY <1>3, <1>6
<1> QED
  BY ONLY <1>2, <1>3, <1>4, <1>5, <1>7, <1>8 DEF HeaderOf

\* A number in two bytes of a section, behind 3 or 4 reserved bits.
LEMMA TwoByteFieldRead ==
  ASSUME NEW bytes \in Seq(Byte), NEW k \in Nat, k + 2 <= Len(bytes),
         NEW n \in {12, 13}
  PROVE  TwoByteField(bytes, k, n) = (bytes[k + 1] % (IF n = 13 THEN 32 ELSE 16)) * 256 + bytes[k + 2]
<1> DEFINE m == k + 1
           z == k + 2
           two == SubSeq(bytes, m, z)
           r == MakeWithBytes(two, 2)
           b == 16 - n
<1>1. Len(bytes) \in Nat
  BY LenProperties
<1>2. two \in Seq(Byte) /\ Len(two) = 2 /\ two[1] = bytes[m] /\ two[2] = bytes[z]
  <2>1. /\ m \in Int /\ z \in Int /\ m .. z \subseteq 1 .. Len(bytes)
        /\ (IF m <= z THEN z - m + 1 ELSE 0) = 2 /\ z - m + 1 = 2 /\ m + 1 - 1 = m /\ m + 2 - 1 = z
        /\ 1 \in 1 .. 2 /\ 2 \in 1 .. 2
    BY <1>1
  <2>2. \A i \in m .. z : bytes[i] \in Byte
    BY <2>1, ElementOfSeq
  <2> HIDE DEF m, z
  <2>3. /\ SubSeq(bytes, m, z) \in Seq(Byte)
        /\ Len(SubSeq(bytes, m, z)) = IF m <= z THEN z - m + 1 ELSE 0
        /\ \A i \in 1 .. z - m + 1 : SubSeq(bytes, m, z)[i] = bytes[m + i - 1]
    BY <2>1, <2>2, SubSeqProperties
  <2> HIDE DEF two
  <2>4. two \in Seq(Byte) /\ Len(two) = 2 /\ \A i \in 1 .. 2 : two[i] = bytes[m + i - 1]
    BY ONLY <2>1, <2>3 DEF two
  <2> QED
    BY ONLY <2>1, <2>4
<1> HIDE DEF two
<1>3. IsBehind(r, two, 0)
  BY <1>2, BehindNone
<1>4. b \in {3, 4} /\ b + n = 16 /\ (b = 3 <=> n = 13)
  OBVIOUS
<1> HIDE DEF r, b
<1> DEFINE i == 0
<1>5. i + 2 <= Len(two) /\ IsBehind(r, two, i) /\ i + 1 = 1 /\ i + 2 = 2
  BY <1>2, <1>3
<1> HIDE DEF i
<1>6. /\ IsBehind(ReadBits(SkipBits(r, b), n), two, i + 2)
      /\ ReadBits(SkipBits(r, b), n).value = (two[i + 1] % (IF b = 3 THEN 32 ELSE 16)) * 256 + two[i + 2]
  BY ONLY <1>4, <1>5, n \in {12, 13}, BitsGiven
<1>7. ~(Len(bytes) < k + 2)
  BY <1>1
<1>8. TwoByteField(bytes, k, n) = ReadBits(SkipBits(r, b), n).value
  BY <1>7 DEF TwoByteField, r, b, two
<1>9. two[i + 1] = bytes[k + 1] /\ two[i + 2] = bytes[k + 2]
  BY ONLY <1>2, <1>5 DEF m, z
<1> HIDE DEF m, z
<1>10. (IF b = 3 THEN 32 ELSE 16) = (IF n = 13 THEN 32 ELSE 16)
  BY ONLY <1>4
<1> QED
  BY ONLY <1>6, <1>8, <1>9, <1>10

\* A PAT as the muxer writes it, and of another sender, too: it has programs and nothing else.
IsPlainPat(t) ==
  /\ t.kind = "PAT" /\ t.header \in Headers /\ t.head = CommonSectionData(t.header)
  /\ t.programDescriptors = <<>>
  /\ \A i \in DOMAIN t.entries :
        t.entries[i].reads \in Programs /\ t.entries[i].bytes = ProgramBytes(t.entries[i].reads)
  /\ \A i, j \in DOMAIN t.entries :
        t.entries[i].reads.programNumber = t.entries[j].reads.programNumber => i = j

\* A PMT as the muxer writes it: it has no descriptors.
IsPlainPmt(t) ==
  /\ t.kind = "PMT" /\ t.header \in Headers /\ t.pcrPid \in Bits(13)
  /\ t.head = CommonSectionData(t.header) \o PmtHeaderBytes(t.pcrPid)
  /\ t.programDescriptors = <<>>
  /\ \A i \in DOMAIN t.entries :
        t.entries[i].reads \in BareStreams /\ t.entries[i].bytes = StreamBytes(t.entries[i].reads)
  /\ \A i, j \in DOMAIN t.entries : t.entries[i].reads = t.entries[j].reads => i = j

\* The bytes of t's entries, w of each, follow each other in bytes.
HasEntriesOf(bytes, t, w) ==
  /\ bytes \in Seq(Byte) /\ Len(bytes) = Len(t.entries) * w /\ Len(t.entries) \in Nat
  /\ DOMAIN t.entries = 1 .. Len(t.entries)
  /\ \A i \in 1 .. Len(t.entries), m \in 1 .. w : bytes[(i - 1) * w + m] = t.entries[i].bytes[m]

LEMMA EntriesFollow ==
  ASSUME NEW t \in Tables, NEW w \in {4, 5}, \A i \in DOMAIN t.entries : Len(t.entries[i].bytes) = w
  PROVE  HasEntriesOf(BytesOf(t.entries), t, w)
<1> DEFINE n == Len(t.entries)
           parts == [i \in DOMAIN t.entries |-> t.entries[i].bytes]
<1>1. DOMAIN t.entries = 1 .. n /\ n \in Nat
  <2>1. t.entries \in Seq(Range(t.entries))
    BY TablesAssumption
  <2> QED
    BY <2>1, LenProperties
<1>2. \A i \in DOMAIN t.entries : t.entries[i].bytes \in Seq(Byte)
  BY TablesAssumption
<1> HIDE DEF n
<1>3. parts = [i \in 1 .. n |-> t.entries[i].bytes]
  BY <1>1
<1>4. parts \in Seq(Seq(Byte)) /\ Len(parts) = n
  BY <1>1, <1>2, <1>3
<1>5. \A i \in 1 .. n : parts[i] = t.entries[i].bytes
  BY <1>3
<1>6. BytesOf(t.entries) = FlattenSeq(parts)
  BY DEF BytesOf
<1> HIDE DEF parts
<1>7. \A i \in 1 .. Len(parts) : Len(parts[i]) = w
  BY <1>1, <1>4, <1>5
<1>8. IsLaid(FlattenSeq(parts), parts, w, Len(parts))
  BY <1>4, <1>7, FlattenLays
<1>9. IsLaid(BytesOf(t.entries), parts, w, n)
  BY ONLY <1>4, <1>6, <1>8
<1> QED
  BY ONLY <1>1, <1>5, <1>9 DEF IsLaid, HasEntriesOf, n

LEMMA LengthsWritten ==
  /\ \A header : Len(CommonSectionData(header)) = 5
  /\ \A program : Len(ProgramBytes(program)) = 4
  /\ \A es : Len(StreamBytes(es)) = 5
BY DEF CommonSectionData, ProgramBytes, StreamBytes

LEMMA PlainPatSection ==
  ASSUME NEW t \in Tables, IsPlainPat(t), NEW s, s = SectionOf(t), NEW b, b = BytesOf(t.entries)
  PROVE  /\ s \in Seq(Byte) /\ Len(s) = 5 + Len(b) /\ Len(b) \in Nat /\ HasEntriesOf(b, t, 4)
         /\ IsBehind(PatReader(s), b, 0) /\ NumberOfPrograms(s) = Len(t.entries)
         /\ HeaderOf(s) = t.header
<1> DEFINE head == t.head
           n == Len(t.entries)
<1>1. HasEntriesOf(b, t, 4)
  <2>1. \A i \in DOMAIN t.entries : Len(t.entries[i].bytes) = 4
    BY LengthsWritten DEF IsPlainPat
  <2> QED
    BY <2>1, EntriesFollow
<1>2. /\ b \in Seq(Byte) /\ Len(b) = n * 4 /\ n \in Nat
  BY <1>1 DEF HasEntriesOf
<1>3. head \in Seq(Byte)
  BY TablesAssumption
<1>4. head = CommonSectionData(t.header) /\ t.header \in Headers
  BY DEF IsPlainPat
<1>5. 5 = Len(head)
  BY <1>4, LengthsWritten
<1>6. s = head \o b
  BY DEF SectionOf
<1> HIDE DEF head, n
<1>7. /\ s \in Seq(Byte) /\ Len(s) = 5 + Len(b) /\ (\A k \in 1 .. 5 : s[k] = head[k])
      /\ SubSeq(s, 5 + 1, Len(s)) = b
  <2> DEFINE m == 5
  <2>1. m \in Nat /\ m = Len(head) /\ head \in Seq(Byte) /\ b \in Seq(Byte)
    BY <1>2, <1>3, <1>5
  <2> HIDE DEF m
  <2>2. /\ head \o b \in Seq(Byte) /\ Len(head \o b) = m + Len(b)
        /\ \A k \in 1 .. m : (head \o b)[k] = head[k]
        /\ SubSeq(head \o b, m + 1, Len(head \o b)) = b
    BY ONLY <2>1, RestIsBody
  <2> QED
    BY ONLY <1>6, <2>2 DEF m
<1>8. Len(s) - 5 = Len(b) /\ (Len(s) - 5) \div 4 = n /\ Len(b) \in Nat
  BY ONLY <1>2, <1>7
<1>9. IsBehind(PatReader(s), b, 0)
  <2>1. PatReader(s) = MakeWithBytes(b, Len(b))
    BY <1>7, <1>8 DEF PatReader, PatHeaderLength
  <2> QED
    BY <1>2, <2>1, BehindNone
<1>10. NumberOfPrograms(s) = n
  BY <1>8 DEF NumberOfPrograms, PatHeaderLength, PROGRAM_BYTE_LENGTH
<1>11. HeaderOf(s) = t.header
  <2>1. \A k \in 1 .. 5 : s[k] = CommonSectionData(t.header)[k]
    BY <1>4, <1>7
  <2>2. Len(s) >= 5
    BY ONLY <1>7, <1>8
  <2> QED
    BY <1>4, <1>7, <2>1, <2>2, HeaderRead
<1> QED
  BY <1>1, <1>7, <1>8, <1>9, <1>10, <1>11 DEF n

LEMMA PlainPmtSection ==
  ASSUME NEW t \in Tables, IsPlainPmt(t), NEW s, s = SectionOf(t), NEW b, b = BytesOf(t.entries)
  PROVE  /\ s \in Seq(Byte) /\ Len(s) = 9 + Len(b) /\ Len(b) \in Nat /\ HasEntriesOf(b, t, 5)
         /\ ProgramInfoReader(s) = Make(<<>>) /\ IsBehind(StreamsReader(s), b, 0)
         /\ HeaderOf(s) = t.header /\ pcrPid(s) = t.pcrPid
<1> DEFINE head == t.head
           n == Len(t.entries)
           pcr == t.pcrPid
           common == CommonSectionData(t.header)
           rest == PmtHeaderBytes(pcr)
<1>1. HasEntriesOf(b, t, 5)
  <2>1. \A i \in DOMAIN t.entries : Len(t.entries[i].bytes) = 5
    BY LengthsWritten DEF IsPlainPmt
  <2> QED
    BY <2>1, EntriesFollow
<1>2. /\ b \in Seq(Byte) /\ Len(b) = n * 5 /\ n \in Nat
  BY <1>1 DEF HasEntriesOf
<1>3. head \in Seq(Byte)
  BY TablesAssumption
<1>4. head = common \o rest /\ t.header \in Headers /\ pcr \in Bits(13)
  BY DEF IsPlainPmt
<1>5. /\ Len(head) = 9 /\ \A k \in 1 .. 5 : head[k] = common[k]
      /\ head[6] = 224 + HighByte(pcr) /\ head[7] = pcr % 256 /\ head[8] = 240 /\ head[9] = 0
  BY <1>4 DEF CommonSectionData, PmtHeaderBytes
<1>6. s = head \o b
  BY DEF SectionOf
<1> HIDE DEF head, n, pcr, common, rest
<1>7. 9 = Len(head)
  BY <1>5
<1>8. /\ s \in Seq(Byte) /\ Len(s) = 9 + Len(b) /\ (\A k \in 1 .. 9 : s[k] = head[k])
      /\ SubSeq(s, 9 + 1, Len(s)) = b
  <2> DEFINE m == 9
  <2>1. m \in Nat /\ m = Len(head) /\ head \in Seq(Byte) /\ b \in Seq(Byte)
    BY <1>2, <1>3, <1>7
  <2> HIDE DEF m
  <2>2. /\ head \o b \in Seq(Byte) /\ Len(head \o b) = m + Len(b)
        /\ \A k \in 1 .. m : (head \o b)[k] = head[k]
        /\ SubSeq(head \o b, m + 1, Len(head \o b)) = b
    BY ONLY <2>1, RestIsBody
  <2> QED
    BY ONLY <1>6, <2>2 DEF m
<1>9. Len(s) - 9 = Len(b) /\ Len(b) \in Nat /\ 5 + 2 <= Len(s) /\ 7 + 2 <= Len(s) /\ Len(s) >= 5
  BY ONLY <1>2, <1>8
<1>10. /\ \A k \in 1 .. 5 : s[k] = common[k]
       /\ s[6] = 224 + HighByte(pcr) /\ s[7] = pcr % 256 /\ s[8] = 240 /\ s[9] = 0
  BY <1>5, <1>8
<1>11. pcrPid(s) = pcr
  <2>1. TwoByteField(s, 5, 13) = (s[5 + 1] % (IF 13 = 13 THEN 32 ELSE 16)) * 256 + s[5 + 2]
    BY <1>8, <1>9, TwoByteFieldRead
  <2>2. TwoByteField(s, 5, 13) = (s[6] % 32) * 256 + s[7]
    BY <2>1
  <2> QED
    BY <1>4, <1>10, <2>2, NumbersWritten DEF pcrPid
<1>12. programInfoLength(s) = 0
  <2>1. TwoByteField(s, 7, 12) = (s[7 + 1] % (IF 12 = 13 THEN 32 ELSE 16)) * 256 + s[7 + 2]
    BY <1>8, <1>9, TwoByteFieldRead
  <2>2. TwoByteField(s, 7, 12) = (s[8] % 16) * 256 + s[9]
    BY <2>1
  <2>3. (240 % 16) * 256 + 0 = 0
    OBVIOUS
  <2> QED
    BY <1>10, <2>2, <2>3 DEF programInfoLength
<1>13. ProgramInfoReader(s) = Make(<<>>)
  BY <1>12 DEF ProgramInfoReader
<1>14. EsDataStart(s) = 9
  BY <1>12 DEF EsDataStart, PmtHeaderLength
<1>15. IsBehind(StreamsReader(s), b, 0)
  <2>1. CASE 9 >= Len(s)
    <3>1. Len(b) = 0
      BY ONLY <1>8, <1>9, <2>1
    <3>2. b = <<>>
      BY <1>2, <3>1, EmptySeq
    <3>3. StreamsReader(s) = Make(b)
      BY <1>14, <2>1, <3>2 DEF StreamsReader
    <3> QED
      BY <1>2, <3>3, BehindNone
  <2>2. CASE ~(9 >= Len(s))
    <3>1. StreamsReader(s) = MakeWithBytes(b, Len(b))
      BY <1>8, <1>9, <1>14, <2>2 DEF StreamsReader
    <3> QED
      BY <1>2, <3>1, BehindNone
  <2> QED
    BY <2>1, <2>2
<1>16. HeaderOf(s) = t.header
  <2>1. \A k \in 1 .. 5 : s[k] = CommonSectionData(t.header)[k]
    BY <1>10 DEF common
  <2> QED
    BY <1>4, <1>8, <1>9, <2>1, HeaderRead
<1> QED
  BY <1>1, <1>8, <1>9, <1>11, <1>13, <1>15, <1>16 DEF pcr

-----------------------------------------------------------------------------
(* The loops *)

LEMMA NewProgramIsAppended ==
  ASSUME NEW programmes, NEW program,
         \A i \in 1 .. Len(programmes) : programmes[i].programNumber # program.programNumber
  PROVE  WithProgram(programmes, program) = programmes \o <<program>>
<1> DEFINE I == {i \in 1 .. Len(programmes) :
                    programmes[i].programNumber = program.programNumber}
           kept == RemoveFirstMatch(programmes,
                       LAMBDA p : p.programNumber = program.programNumber)
<1>1. kept = IF I # {} THEN RemoveAt(programmes, Min(I)) ELSE programmes
  BY DEF RemoveFirstMatch, SelectInSeq
<1>2. I = {}
  OBVIOUS
<1>3. WithProgram(programmes, program) = kept \o <<program>>
  BY DEF WithProgram
<1> HIDE DEF kept, I
<1> QED
  BY <1>1, <1>2, <1>3

\* What is to be read of the first k entries of t.
FirstRead(t, k) == [i \in 1 .. k |-> t.entries[i].reads]

LEMMA FirstReadIs ==
  ASSUME NEW t, NEW k \in Nat
  PROVE  /\ Len(FirstRead(t, k)) = k /\ FirstRead(t, 0) = <<>>
         /\ \A i \in 1 .. k : FirstRead(t, k)[i] = t.entries[i].reads
         /\ Range(FirstRead(t, k)) = {t.entries[i].reads : i \in 1 .. k}
         /\ Append(FirstRead(t, k), t.entries[k + 1].reads) = FirstRead(t, k + 1)
         /\ FirstRead(t, k) \o <<t.entries[k + 1].reads>> = FirstRead(t, k + 1)
<1> DEFINE f(i) == t.entries[i].reads
           S == {f(i) : i \in 1 .. k + 1}
           n == k + 1
           a == [i \in 1 .. k |-> f(i)]
           b == [i \in 1 .. n |-> f(i)]
           e == f(n)
<1>1. n \in Nat /\ 1 .. k \subseteq 1 .. n /\ n \in 1 .. n /\ \A i \in 1 .. n : i \in 1 .. k \/ i = n
  OBVIOUS
<1>2. (\A i \in 1 .. k : f(i) \in S) /\ (\A i \in 1 .. n : f(i) \in S) /\ e \in S
  BY <1>1
<1>3. a = FirstRead(t, k) /\ b = FirstRead(t, k + 1)
  BY DEF FirstRead
<1>4. FirstRead(t, 0) = <<>>
  BY DEF FirstRead
<1>5. /\ \A i \in 1 .. k : a[i] = f(i)
      /\ \A i \in 1 .. n : b[i] = f(i)
      /\ DOMAIN a = 1 .. k
  OBVIOUS
<1> HIDE DEF f, S, n, e
<1>6. a \in Seq(S) /\ b \in Seq(S)
  <2> HIDE DEF a, b
  <2>1. a \in [1 .. k -> S] /\ b \in [1 .. n -> S]
    BY <1>2 DEF a, b
  <2> QED
    BY <1>1, <2>1, SeqDef
<1>7. Len(a) = k /\ Len(b) = n
  BY <1>1
<1> HIDE DEF a, b
<1>8. /\ Append(a, e) \in Seq(S) /\ Len(Append(a, e)) = Len(a) + 1
      /\ (\A i \in 1 .. Len(a) : Append(a, e)[i] = a[i]) /\ Append(a, e)[Len(a) + 1] = e
      /\ Append(a, e) = a \o <<e>>
  <2>1. a \in Seq(S) /\ e \in S
    BY <1>2, <1>6
  <2> QED
    BY ONLY <2>1, AppendProperties, AppendIsConcat
<1>9. /\ Append(a, e) \in Seq(S) /\ Len(Append(a, e)) = Len(b)
      /\ \A i \in 1 .. Len(b) : Append(a, e)[i] = b[i]
  <2>1. n = k + 1 /\ e = f(n)
    BY DEF n, e
  <2> QED
    BY <1>1, <1>5, <1>7, <1>8, <2>1
<1>10. Append(a, e) = b
  <2>1. /\ b \in Seq(S) /\ Append(a, e) \in Seq(S) /\ Len(Append(a, e)) = Len(b)
        /\ \A i \in 1 .. Len(Append(a, e)) : Append(a, e)[i] = b[i]
    BY <1>6, <1>9
  <2> QED
    BY ONLY <2>1, SeqEqual
<1>11. Range(a) = {f(i) : i \in 1 .. k}
  BY <1>5 DEF Range
<1> QED
  BY <1>3, <1>4, <1>5, <1>7, <1>8, <1>10, <1>11 DEF f, e, n

EntryLength == IF kind = "PAT" THEN 4 ELSE 5

\* The first k entries have been read, and the reader is behind them.
HaveBeenRead(k) ==
  /\ entries = FirstRead(written, k)
  /\ IsBehind(reader, BytesOf(written.entries), k * EntryLength)
  /\ kind = "PAT" => left = Len(written.entries) - k

\* How far the reading of a section has come that arrived as it was sent.
PlainState ==
  /\ pc # "descriptors" /\ programDescriptors = <<>>
  /\ pc \in {"start", "programDescriptors"} => entries = <<>>
  /\ pc = "programDescriptors" => reader = Make(<<>>)
  /\ pc = "entries" => \E k \in 0 .. Len(written.entries) : HaveBeenRead(k)
  /\ pc = "done" => entries = FirstRead(written, Len(written.entries))

IsPlain(t) == IsPlainPat(t) \/ IsPlainPmt(t)

PlainInv == IsPlain(written) /\ section = SectionOf(written) => PlainState

LEMMA PlainEntries ==
  ASSUME TypeInv, IsPlain(written)
  PROVE  /\ HasEntriesOf(BytesOf(written.entries), written, EntryLength)
         /\ Len(written.entries) \in Nat /\ DOMAIN written.entries = 1 .. Len(written.entries)
         /\ ((kind = "PAT" /\ IsPlainPat(written)) \/ (kind = "PMT" /\ IsPlainPmt(written)))
<1>1. written \in Tables
  BY DEF TypeInv
<1>2. (kind = "PAT" /\ IsPlainPat(written)) \/ (kind = "PMT" /\ IsPlainPmt(written))
  <2>1. IsPlainPat(written) => kind = "PAT"
    BY Zenon DEF IsPlainPat, kind
  <2>2. IsPlainPmt(written) => kind = "PMT"
    BY Zenon DEF IsPlainPmt, kind
  <2> QED
    BY <2>1, <2>2 DEF IsPlain
<1>3. HasEntriesOf(BytesOf(written.entries), written, EntryLength)
  <2>1. CASE kind = "PAT" /\ IsPlainPat(written)
    BY <1>1, <2>1, PlainPatSection DEF EntryLength
  <2>2. CASE kind = "PMT" /\ IsPlainPmt(written)
    BY <1>1, <2>2, PlainPmtSection DEF EntryLength
  <2> QED
    BY <1>2, <2>1, <2>2
<1> QED
  BY <1>2, <1>3 DEF HasEntriesOf

\* What is left of the bytes of n entries behind k of them.
LEMMA EntriesLeft ==
  ASSUME NEW k \in Nat, NEW n \in Nat, k <= n, NEW w \in {4, 5}, NEW r, NEW bytes,
         IsBehind(r, bytes, k * w), Len(bytes) = n * w
  PROVE  /\ (k + 1) * w = k * w + w
         /\ k < n <=> k * w + w <= Len(bytes)
         /\ k < n <=> RemainingBytes(r) >= w
<1>1. r.bitOffset = 0 /\ r.byteOffset = k * w /\ Length(r) = n * w
  BY DEF IsBehind, Length
<1>2. RemainingBytes(r) = IF k * w < n * w THEN n * w - k * w ELSE 0
  <2>1. k * w + 0 = k * w
    BY ONLY k \in Nat, w \in {4, 5}
  <2> QED
    BY <1>1, <2>1 DEF RemainingBytes
<1>3. CASE w = 4
  BY ONLY <1>2, <1>3, k \in Nat, n \in Nat, k <= n, Len(bytes) = n * w
<1>4. CASE w = 5
  BY ONLY <1>2, <1>4, k \in Nat, n \in Nat, k <= n, Len(bytes) = n * w
<1> QED
  BY <1>3, <1>4

LEMMA BeginPlain ==
  ASSUME TypeInv, PlainState, IsPlain(written), section = SectionOf(written),
         BeginPat \/ BeginPmt \/ BeginSdt \/ BeginVct
  PROVE  PlainState'
<1>1. /\ written \in Tables /\ Len(written.entries) \in Nat
      /\ ((kind = "PAT" /\ IsPlainPat(written)) \/ (kind = "PMT" /\ IsPlainPmt(written)))
  BY PlainEntries DEF TypeInv
<1> DEFINE n == Len(written.entries)
           b == BytesOf(written.entries)
<1>2. CASE kind = "PAT" /\ IsPlainPat(written)
  <2>1. BeginPat
    BY <1>2 DEF BeginPat, BeginPmt, BeginSdt, BeginVct
  <2>2. /\ Len(section) = 5 + Len(b) /\ Len(b) \in Nat
        /\ IsBehind(PatReader(section), b, 0) /\ NumberOfPrograms(section) = n
    BY <1>1, <1>2, PlainPatSection
  <2>3. Len(section) >= PatHeaderLength /\ ~(Len(section) < PatHeaderLength)
    BY <2>2 DEF PatHeaderLength
  <2>4. /\ pc = "start" /\ reader' = PatReader(section) /\ pc' = "entries" /\ left' = n
        /\ written' = written /\ entries' = entries /\ programDescriptors' = programDescriptors
    BY <2>1, <2>2, <2>3 DEF BeginPat, Begin
  <2>5. entries' = FirstRead(written, 0) /\ programDescriptors' = <<>>
    BY <2>4, FirstReadIs DEF PlainState
  <2>6. 0 * EntryLength = 0 /\ 0 \in 0 .. n /\ n - 0 = n /\ EntryLength' = EntryLength
    BY <1>1, <2>4 DEF EntryLength, kind
  <2>7. HaveBeenRead(0)'
    <3> DEFINE e == EntryLength
               o == 0 * e
    <3>1. o = 0 /\ e' = e /\ kind' = kind
      BY <2>4, <2>6 DEF kind
    <3>2. IsBehind(reader', b, 0) /\ b' = b /\ n' = n
      BY <2>2, <2>4
    <3>3. IsBehind(reader, BytesOf(written.entries), 0 * EntryLength)'
      BY ONLY <2>4, <2>6, <3>2
    <3> QED
      BY <2>4, <2>5, <2>6, <3>3 DEF HaveBeenRead
  <2> QED
    BY <2>4, <2>5, <2>6, <2>7 DEF PlainState
<1>3. CASE kind = "PMT" /\ IsPlainPmt(written)
  <2>1. BeginPmt
    BY <1>3 DEF BeginPat, BeginPmt, BeginSdt, BeginVct
  <2>2. ProgramInfoReader(section) = Make(<<>>)
    BY <1>1, <1>3, PlainPmtSection
  <2>3. /\ pc = "start" /\ reader' = Make(<<>>) /\ pc' = "programDescriptors"
        /\ entries' = entries /\ programDescriptors' = programDescriptors
    BY <2>1, <2>2 DEF BeginPmt, Begin
  <2> QED
    BY <2>3 DEF PlainState
<1> QED
  BY <1>1, <1>2, <1>3

LEMMA NothingRemains == RemainingBytes(Make(<<>>)) = 0
BY DEF Make, ReaderOf, RemainingBytes, Length

LEMMA BeginStreamsPlain ==
  ASSUME TypeInv, PlainState, IsPlain(written), section = SectionOf(written),
         BeginStreams \/ ReadProgramDescriptor
  PROVE  PlainState'
<1>1. /\ written \in Tables /\ Len(written.entries) \in Nat
      /\ ((kind = "PAT" /\ IsPlainPat(written)) \/ (kind = "PMT" /\ IsPlainPmt(written)))
  BY PlainEntries DEF TypeInv
<1> DEFINE n == Len(written.entries)
           b == BytesOf(written.entries)
<1>2. pc = "programDescriptors" /\ kind = "PMT" /\ IsPlainPmt(written)
  BY <1>1 DEF BeginStreams, ReadProgramDescriptor, TypeInv, ReaderInv
<1>3. ~MoreDescriptors
  <2>1. DescriptorReader = reader /\ reader = Make(<<>>)
    BY <1>2 DEF DescriptorReader, PlainState
  <2>2. RemainingBytes(DescriptorReader) = 0
    BY <2>1, NothingRemains
  <2> QED
    BY <2>2 DEF MoreDescriptors
<1>4. BeginStreams
  BY <1>3 DEF ReadProgramDescriptor
<1>5. IsBehind(StreamsReader(section), b, 0)
  BY <1>1, <1>2, PlainPmtSection
<1>6. /\ reader' = StreamsReader(section) /\ pc' = "entries"
      /\ written' = written /\ entries' = entries /\ programDescriptors' = programDescriptors
  BY <1>4 DEF BeginStreams
<1>7. entries' = FirstRead(written, 0) /\ programDescriptors' = <<>>
  BY <1>2, <1>6, FirstReadIs DEF PlainState
<1>8. 0 * EntryLength = 0 /\ 0 \in 0 .. n /\ EntryLength' = EntryLength /\ kind' = kind
  BY <1>1, <1>6 DEF EntryLength, kind
<1>9. HaveBeenRead(0)'
  <2>1. IsBehind(reader', b, 0)
    BY <1>5, <1>6
  <2>2. IsBehind(reader, BytesOf(written.entries), 0 * EntryLength)'
    BY ONLY <1>6, <1>8, <2>1
  <2> QED
    BY <1>2, <1>6, <1>7, <1>8, <2>2 DEF HaveBeenRead
<1> QED
  BY <1>6, <1>7, <1>8, <1>9 DEF PlainState

\* The bytes of the entry behind k others.
LEMMA NextEntry ==
  ASSUME NEW bytes, NEW t, NEW w \in {4, 5}, HasEntriesOf(bytes, t, w), NEW k \in Nat,
         k < Len(t.entries)
  PROVE  /\ k + 1 \in 1 .. Len(t.entries)
         /\ \A m \in 1 .. w : bytes[k * w + m] = t.entries[k + 1].bytes[m]
<1> DEFINE n == Len(t.entries)
           j == k + 1
<1>1. n \in Nat /\ \A i \in 1 .. n, m \in 1 .. w : bytes[(i - 1) * w + m] = t.entries[i].bytes[m]
  BY DEF HasEntriesOf
<1>2. j \in 1 .. n /\ j - 1 = k
  BY ONLY <1>1, k \in Nat, k < n
<1> HIDE DEF n, j
<1>3. \A m \in 1 .. w : bytes[(j - 1) * w + m] = t.entries[j].bytes[m]
  BY ONLY <1>1, <1>2
<1>4. \A m \in 1 .. w : bytes[k * w + m] = t.entries[j].bytes[m]
  BY ONLY <1>2, <1>3
<1> QED
  BY ONLY <1>2, <1>4 DEF n, j

LEMMA ReadPatPlain ==
  ASSUME TypeInv, PlainState, IsPlain(written), section = SectionOf(written), ReadPatProgram
  PROVE  PlainState'
<1> DEFINE n == Len(written.entries)
           b == BytesOf(written.entries)
           turn == ReadProgram(reader)
<1>1. kind = "PAT" /\ pc = "entries" /\ left > 0 /\ written' = written
      /\ programDescriptors' = programDescriptors
  BY DEF ReadPatProgram, MoreEntries
<1>2. IsPlainPat(written) /\ n \in Nat /\ HasEntriesOf(b, written, 4) /\ EntryLength = 4
      /\ DOMAIN written.entries = 1 .. n
  BY <1>1, PlainEntries DEF EntryLength
<1>3. PICK k \in 0 .. n : HaveBeenRead(k)
  BY <1>1 DEF PlainState
<1>4. /\ entries = FirstRead(written, k) /\ IsBehind(reader, b, k * 4) /\ left = n - k
  BY <1>1, <1>2, <1>3 DEF HaveBeenRead
<1>5. k \in Nat /\ k < n /\ k + 1 \in 0 .. n /\ n - k - 1 = n - (k + 1)
  BY <1>1, <1>2, <1>4
<1>6. k + 1 \in 1 .. n /\ \A m \in 1 .. 4 : b[k * 4 + m] = written.entries[k + 1].bytes[m]
  <2>1. 4 \in {4, 5}
    OBVIOUS
  <2> QED
    BY <1>2, <1>5, <2>1, NextEntry
<1> DEFINE program == written.entries[k + 1].reads
<1>7. program \in Programs /\ written.entries[k + 1].bytes = ProgramBytes(program)
  BY <1>2, <1>6 DEF IsPlainPat
<1>8. k * 4 + 4 <= Len(b) /\ (k + 1) * 4 = k * 4 + 4
  <2>1. Len(b) = n * 4
    BY <1>2 DEF HasEntriesOf
  <2> QED
    BY ONLY <1>2, <1>5, <2>1
<1>9. \A i \in 1 .. k : written.entries[i].reads.programNumber # program.programNumber
  <2> SUFFICES ASSUME NEW i \in 1 .. k
               PROVE  written.entries[i].reads.programNumber # program.programNumber
    OBVIOUS
  <2>1. i \in 1 .. n /\ i # k + 1
    BY <1>2, <1>5
  <2> QED
    BY <1>2, <1>6, <2>1 DEF IsPlainPat
<1>10. \A m \in 1 .. 4 : b[k * 4 + m] = ProgramBytes(program)[m]
  BY <1>6, <1>7
<1> HIDE DEF turn, b, n, program
<1>11. IsBehind(turn.reader, b, k * 4 + 4) /\ turn.entry = program
  BY <1>4, <1>7, <1>8, <1>10, ProgramGiven DEF turn
<1>12. turn.reader.error = FALSE
  BY <1>11 DEF IsBehind
<1>13. /\ reader' = turn.reader /\ left' = left - 1 /\ pc' = pc
       /\ entries' = WithProgram(entries, turn.entry)
  BY <1>12 DEF ReadPatProgram, turn
<1>14. entries' = FirstRead(written, k + 1)
  <2>1. /\ Len(entries) = k /\ \A i \in 1 .. k : entries[i] = written.entries[i].reads
        /\ FirstRead(written, k) \o <<written.entries[k + 1].reads>> = FirstRead(written, k + 1)
    BY <1>4, <1>5, FirstReadIs
  <2>2. \A i \in 1 .. Len(entries) : entries[i].programNumber # program.programNumber
    BY <1>9, <2>1
  <2>3. WithProgram(entries, program) = entries \o <<program>>
    BY <2>2, NewProgramIsAppended
  <2> QED
    BY <1>4, <1>11, <1>13, <2>1, <2>3 DEF program
<1>15. HaveBeenRead(k + 1)'
  <2>1. kind' = kind /\ EntryLength' = 4 /\ (k + 1)' = k + 1
    BY <1>1, <1>2 DEF kind, EntryLength
  <2>2. IsBehind(reader', b, (k + 1) * 4) /\ left' = n - (k + 1)
    BY <1>4, <1>5, <1>8, <1>11, <1>13
  <2>3. Len(written.entries)' = n /\ BytesOf(written.entries)' = b
    BY <1>1 DEF n, b
  <2>4. IsBehind(reader, BytesOf(written.entries), (k + 1) * EntryLength)'
    BY ONLY <1>1, <2>1, <2>2, <2>3
  <2>5. entries' = FirstRead(written, k + 1)'
    BY <1>1, <1>14
  <2> QED
    BY <2>1, <2>2, <2>3, <2>4, <2>5 DEF HaveBeenRead
<1>16. \E j \in 0 .. Len(written.entries)' : HaveBeenRead(j)'
  <2>1. Len(written.entries)' = n
    BY <1>1 DEF n
  <2> QED
    BY <1>5, <1>15, <2>1
<1> QED
  BY <1>1, <1>13, <1>16 DEF PlainState

LEMMA SkipNothing ==
  ASSUME NEW r, NEW bytes, NEW i, IsBehind(r, bytes, i)
  PROVE  IsBehind(AfterSubReader(r, 0), bytes, i)
<1>1. i \in Nat /\ Len(bytes) \in Nat /\ i <= Len(bytes)
  BY BehindFields
<1>2. 0 \in Nat /\ i + 0 <= Len(bytes) /\ i + 0 = i
  BY <1>1
<1>3. CanRead(r, 0) /\ IsBehind(MovedBytes(r, 0), bytes, i + 0)
  BY <1>2, MovedBehind
<1>4. AfterSubReader(r, 0) = MovedBytes(r, 0)
  BY <1>3 DEF AfterSubReader, Skip
<1> QED
  BY ONLY <1>2, <1>3, <1>4

LEMMA ReadPmtPlain ==
  ASSUME TypeInv, PlainState, IsPlain(written), section = SectionOf(written), ReadPmtStream
  PROVE  PlainState'
<1> DEFINE n == Len(written.entries)
           b == BytesOf(written.entries)
           turn == ReadStream(reader)
<1>1. kind = "PMT" /\ pc = "entries" /\ RemainingBytes(reader) >= 5 /\ written' = written
      /\ programDescriptors' = programDescriptors
  BY DEF ReadPmtStream, MoreEntries, ELEMENTARY_STREAM_BYTE_LENGTH
<1>2. IsPlainPmt(written) /\ n \in Nat /\ HasEntriesOf(b, written, 5) /\ EntryLength = 5
      /\ DOMAIN written.entries = 1 .. n
  BY <1>1, PlainEntries DEF EntryLength
<1>3. PICK k \in 0 .. n : HaveBeenRead(k)
  BY <1>1 DEF PlainState
<1>4. /\ entries = FirstRead(written, k) /\ IsBehind(reader, b, k * 5)
  BY <1>1, <1>2, <1>3 DEF HaveBeenRead
<1>5. k \in Nat /\ k < n /\ k + 1 \in 0 .. n /\ k * 5 + 5 <= Len(b) /\ (k + 1) * 5 = k * 5 + 5
  <2>1. Len(b) = n * 5
    BY <1>2 DEF HasEntriesOf
  <2>2. k \in Nat /\ k <= n /\ 5 \in {4, 5}
    BY <1>2
  <2> HIDE DEF b, n
  <2>3. /\ k < n <=> k * 5 + 5 <= Len(b)
        /\ k < n <=> RemainingBytes(reader) >= 5
    BY <1>2, <1>4, <2>1, <2>2, EntriesLeft
  <2>4. k < n /\ k * 5 + 5 <= Len(b)
    BY <1>1, <2>3
  <2> QED
    BY ONLY <1>2, <2>2, <2>4
<1>6. k + 1 \in 1 .. n /\ \A m \in 1 .. 5 : b[k * 5 + m] = written.entries[k + 1].bytes[m]
  <2>1. 5 \in {4, 5}
    OBVIOUS
  <2> QED
    BY <1>2, <1>5, <2>1, NextEntry
<1> DEFINE es == written.entries[k + 1].reads
<1>7. es \in BareStreams /\ written.entries[k + 1].bytes = StreamBytes(es)
  BY <1>2, <1>6 DEF IsPlainPmt
<1>8. \A i \in 1 .. k : written.entries[i].reads # es
  <2> SUFFICES ASSUME NEW i \in 1 .. k PROVE written.entries[i].reads # es
    OBVIOUS
  <2>1. i \in 1 .. n /\ i # k + 1
    BY <1>2, <1>5
  <2> QED
    BY <1>2, <1>6, <2>1 DEF IsPlainPmt
<1>9. \A m \in 1 .. 5 : b[k * 5 + m] = StreamBytes(es)[m]
  BY <1>6, <1>7
<1> HIDE DEF turn, b, n, es
<1>10. IsBehind(turn.reader, b, k * 5 + 5) /\ turn.entry = es /\ turn.descriptorsLength = 0
  BY <1>4, <1>5, <1>7, <1>9, StreamGiven DEF turn
<1>11. turn.reader.error = FALSE
  BY <1>10 DEF IsBehind
<1>12. /\ reader' = AfterSubReader(turn.reader, 0) /\ pc' = "entries" /\ entries' = Added(es)
  BY <1>10, <1>11 DEF ReadPmtStream, turn, Descend, Complete
<1>13. entries' = FirstRead(written, k + 1)
  <2>1. /\ Range(entries) = {written.entries[i].reads : i \in 1 .. k}
        /\ Append(FirstRead(written, k), written.entries[k + 1].reads) = FirstRead(written, k + 1)
    BY <1>4, <1>5, FirstReadIs
  <2>2. es \notin Range(entries)
    BY <1>8, <2>1
  <2>3. Added(es) = Append(entries, es)
    BY <1>1, <2>2 DEF Added, WithStream
  <2> QED
    BY <1>4, <1>12, <2>1, <2>3 DEF es
<1>14. HaveBeenRead(k + 1)'
  <2>1. kind' = kind /\ EntryLength' = 5 /\ (k + 1)' = k + 1
    BY <1>1, <1>2 DEF kind, EntryLength
  <2>2. IsBehind(reader', b, (k + 1) * 5)
    <3>1. IsBehind(reader', b, k * 5 + 5)
      BY <1>10, <1>12, SkipNothing
    <3> QED
      BY ONLY <1>5, <3>1
  <2>3. BytesOf(written.entries)' = b
    BY <1>1 DEF b
  <2>4. IsBehind(reader, BytesOf(written.entries), (k + 1) * EntryLength)'
    BY ONLY <1>1, <2>1, <2>2, <2>3
  <2>5. entries' = FirstRead(written, k + 1)'
    BY <1>1, <1>13
  <2> QED
    BY <1>1, <2>1, <2>4, <2>5 DEF HaveBeenRead
<1>15. \E j \in 0 .. Len(written.entries)' : HaveBeenRead(j)'
  <2>1. Len(written.entries)' = n
    BY <1>1 DEF n
  <2> QED
    BY <1>5, <1>14, <2>1
<1> QED
  BY <1>1, <1>12, <1>15 DEF PlainState

LEMMA EndEntriesPlain ==
  ASSUME TypeInv, PlainState, IsPlain(written), section = SectionOf(written), EndEntries
  PROVE  PlainState'
<1> DEFINE n == Len(written.entries)
           b == BytesOf(written.entries)
<1>1. /\ pc = "entries" /\ ~MoreEntries /\ pc' = "done" /\ written' = written /\ entries' = entries
      /\ programDescriptors' = programDescriptors
  BY DEF EndEntries
<1>2. /\ n \in Nat /\ HasEntriesOf(b, written, EntryLength)
      /\ ((kind = "PAT" /\ IsPlainPat(written)) \/ (kind = "PMT" /\ IsPlainPmt(written)))
  BY PlainEntries
<1>3. PICK k \in 0 .. n : HaveBeenRead(k)
  BY <1>1 DEF PlainState
<1>4. entries = FirstRead(written, k) /\ IsBehind(reader, b, k * EntryLength)
      /\ (kind = "PAT" => left = n - k)
  BY <1>3 DEF HaveBeenRead
<1>5. k = n
  <2>1. CASE kind = "PAT"
    <3>1. ~(left > 0) /\ left = n - k
      BY <1>1, <1>4, <2>1 DEF MoreEntries
    <3> QED
      BY ONLY <1>2, <3>1, k \in 0 .. n
  <2>2. CASE kind = "PMT"
    <3>1. ~(RemainingBytes(reader) >= 5)
      BY <1>1, <2>2 DEF MoreEntries, ELEMENTARY_STREAM_BYTE_LENGTH
    <3>2. EntryLength = 5 /\ Len(b) = n * 5 /\ 5 \in {4, 5} /\ k \in Nat /\ k <= n
      BY <1>2, <2>2 DEF HasEntriesOf, EntryLength
    <3>3. IsBehind(reader, b, k * 5)
      BY <1>4, <3>2
    <3> HIDE DEF n, b
    <3>4. k < n <=> RemainingBytes(reader) >= 5
      BY <1>2, <3>2, <3>3, EntriesLeft
    <3> QED
      BY ONLY <1>2, <3>1, <3>2, <3>4
  <2> QED
    BY <1>2, <2>1, <2>2
<1>6. entries' = FirstRead(written', Len(written.entries)')
  BY <1>1, <1>4, <1>5
<1> QED
  BY <1>1, <1>6 DEF PlainState

LEMMA PlainStep == TypeInv /\ PlainInv /\ [Next]_vars => PlainInv'
<1> SUFFICES ASSUME TypeInv, PlainInv, [Next]_vars, IsPlain(written)', (section = SectionOf(written))'
             PROVE  PlainState'
  BY DEF PlainInv
<1>1. written' = written /\ section' = section
  BY DEF Next, Turn, Return, vars, Refuse, BeginPat, BeginPmt, BeginSdt, BeginVct, Begin,
         ReadProgramDescriptor, BeginStreams, ReadDescriptor, EndDescriptors, ReadPatProgram,
         ReadPmtStream, ReadSdtService, ReadVctChannel, EndEntries
<1>2. IsPlain(written) /\ section = SectionOf(written)
  BY <1>1
<1>3. PlainState
  BY <1>2 DEF PlainInv
<1>4. kind \in {"PAT", "PMT"}
  BY <1>2, PlainEntries
<1>5. CASE Refuse
  BY <1>3, <1>5 DEF Refuse, PlainState
<1>6. CASE BeginPat \/ BeginPmt \/ BeginSdt \/ BeginVct
  BY <1>2, <1>3, <1>6, BeginPlain
<1>7. CASE BeginStreams \/ ReadProgramDescriptor
  BY <1>2, <1>3, <1>7, BeginStreamsPlain
<1>8. CASE ReadDescriptor \/ EndDescriptors
  BY <1>3, <1>8 DEF ReadDescriptor, EndDescriptors, PlainState
<1>9. CASE ReadPatProgram
  BY <1>2, <1>3, <1>9, ReadPatPlain
<1>10. CASE ReadPmtStream
  BY <1>2, <1>3, <1>10, ReadPmtPlain
<1>11. CASE ReadSdtService \/ ReadVctChannel
  BY <1>4, <1>11 DEF ReadSdtService, ReadVctChannel
<1>12. CASE EndEntries
  BY <1>2, <1>3, <1>12, EndEntriesPlain
<1>13. CASE UNCHANGED vars
  <2>1. /\ pc' = pc /\ programDescriptors' = programDescriptors /\ entries' = entries
        /\ reader' = reader /\ left' = left
    BY <1>13 DEF vars
  <2>2. ASSUME NEW k, HaveBeenRead(k) PROVE HaveBeenRead(k)'
    <3>1. kind' = kind /\ EntryLength' = EntryLength
      BY <1>1 DEF kind, EntryLength
    <3> QED
      BY <1>1, <2>1, <2>2, <3>1 DEF HaveBeenRead
  <2> QED
    BY <1>1, <1>3, <2>1, <2>2 DEF PlainState
<1> QED
  BY <1>5, <1>6, <1>7, <1>8, <1>9, <1>10, <1>11, <1>12, <1>13 DEF Next, Turn, Return

\* ReadAsWritten, of the tables that the muxer writes: a PAT with any programs, no number twice,
\* and a PMT with any streams, none twice and without descriptors.  Whatever the numbers, the
\* programs or streams that are read are those that were written, in their order, and so are
\* the version, the numbers of the section and the PCR PID.
THEOREM MuxedTablesAreRead == Spec => [](IsPlain(written) => ReadAsWritten)
<1>1. Init => TypeInv /\ PlainInv
  <2> SUFFICES ASSUME Init PROVE TypeInv /\ PlainInv
    OBVIOUS
  <2>1. TypeInv
    BY InitTypes, InitReaderInv DEF TypeInv
  <2>2. pc = "start" /\ entries = <<>> /\ programDescriptors = <<>>
    BY DEF Init
  <2> QED
    BY <2>1, <2>2 DEF PlainInv, PlainState
<1>2. TypeInv /\ PlainInv /\ [Next]_vars => TypeInv' /\ PlainInv'
  BY TypesKept, PlainStep
<1>3. TypeInv /\ PlainInv => (IsPlain(written) => ReadAsWritten)
  <2> SUFFICES ASSUME TypeInv, PlainInv, IsPlain(written), pc = "done", section = SectionOf(written)
               PROVE  /\ entries = [i \in DOMAIN written.entries |-> written.entries[i].reads]
                      /\ programDescriptors = written.programDescriptors
                      /\ HeaderOf(section) = written.header
                      /\ kind = "PMT" => pcrPid(section) = written.pcrPid
                      /\ kind = "SDT" => originalNetworkId(section) = written.networkId
    BY DEF ReadAsWritten
  <2>1. PlainState /\ written \in Tables
    BY DEF PlainInv, TypeInv
  <2>2. DOMAIN written.entries = 1 .. Len(written.entries)
        /\ ((kind = "PAT" /\ IsPlainPat(written)) \/ (kind = "PMT" /\ IsPlainPmt(written)))
    BY PlainEntries
  <2>3. entries = [i \in DOMAIN written.entries |-> written.entries[i].reads]
    BY <2>1, <2>2 DEF PlainState, FirstRead
  <2>4. programDescriptors = <<>>
    BY <2>1 DEF PlainState
  <2>5. CASE kind = "PAT" /\ IsPlainPat(written)
    <3>1. written.programDescriptors = <<>>
      BY <2>5 DEF IsPlainPat
    <3>2. HeaderOf(section) = written.header
      BY <2>1, <2>5, PlainPatSection
    <3> QED
      BY <2>3, <2>4, <2>5, <3>1, <3>2
  <2>6. CASE kind = "PMT" /\ IsPlainPmt(written)
    <3>1. written.programDescriptors = <<>>
      BY <2>6 DEF IsPlainPmt
    <3>2. HeaderOf(section) = written.header /\ pcrPid(section) = written.pcrPid
      BY <2>1, <2>6, PlainPmtSection
    <3> QED
      BY <2>3, <2>4, <2>6, <3>1, <3>2
  <2> QED
    BY <2>2, <2>5, <2>6
<1> QED
  BY <1>1, <1>2, <1>3, PTL DEF Spec

-----------------------------------------------------------------------------
(* What damage leaves *)

\* The bytes behind a section that are not its own are stuffing.
LEMMA ForeignIsStuffing ==
  ASSUME NEW bytes \in Seq(Byte), NEW damaged \in Damages(bytes),
         NEW k \in Nat, k > Len(bytes), k <= Len(damaged)
  PROVE  damaged[k] = 255
<1> DEFINE changed  == {[bytes EXCEPT ![i] = b] : i \in DOMAIN bytes, b \in DamagedBytes}
           cut      == {SubSeq(bytes, 1, n) : n \in 0 .. Len(bytes)}
           extended == {bytes \o [i \in 1 .. n |-> 255] : n \in 1 .. MaxForeign}
<1>0. Damages(bytes) = UNION {changed, cut, extended} /\ Len(bytes) \in Nat
  BY LenProperties DEF Damages
<1>1. CASE damaged \in changed
  <2>1. PICK i \in DOMAIN bytes, b \in DamagedBytes : damaged = [bytes EXCEPT ![i] = b]
    BY <1>1
  <2>2. b \in Byte /\ i \in 1 .. Len(bytes)
    BY <2>1, TablesAssumption, LenProperties
  <2>3. Len(damaged) = Len(bytes)
    BY <2>1, <2>2, ExceptSeq
  <2> QED
    BY ONLY <1>0, <2>3, k > Len(bytes), k <= Len(damaged), k \in Nat
<1>2. CASE damaged \in cut
  <2>1. PICK n \in 0 .. Len(bytes) : damaged = SubSeq(bytes, 1, n)
    BY <1>2
  <2>2. n \in Int /\ 1 \in Int /\ \A i \in 1 .. n : bytes[i] \in Byte
    BY <1>0, ElementOfSeq
  <2>3. Len(damaged) = IF 1 <= n THEN n - 1 + 1 ELSE 0
    BY <2>1, <2>2, SubSeqProperties
  <2> QED
    BY ONLY <1>0, <2>3, n \in 0 .. Len(bytes), k > Len(bytes), k <= Len(damaged), k \in Nat
<1>3. CASE damaged \in extended
  <2>1. PICK n \in 1 .. MaxForeign : damaged = bytes \o [i \in 1 .. n |-> 255]
    BY <1>3
  <2> DEFINE more == [i \in 1 .. n |-> 255]
  <2>2. more \in Seq(Byte) /\ Len(more) = n /\ n \in Nat /\ \A i \in 1 .. n : more[i] = 255
    BY DEF Byte
  <2> HIDE DEF more
  <2>3. /\ Len(damaged) = Len(bytes) + Len(more)
        /\ \A i \in 1 .. Len(bytes) + Len(more) :
              damaged[i] = IF i <= Len(bytes) THEN bytes[i] ELSE more[i - Len(bytes)]
    <3>1. damaged = bytes \o more
      BY <2>1 DEF more
    <3>2. more \in Seq(Byte)
      BY <2>2
    <3> QED
      BY ONLY <3>1, <3>2, bytes \in Seq(Byte), ConcatProperties
  <2> DEFINE j == k - Len(bytes)
  <2>4. k \in 1 .. Len(bytes) + n /\ ~(k <= Len(bytes)) /\ j \in 1 .. n
    BY ONLY <1>0, <2>2, <2>3, k \in Nat, k > Len(bytes), k <= Len(damaged)
  <2> HIDE DEF j
  <2>5. damaged[k] = more[j]
    BY ONLY <2>2, <2>3, <2>4 DEF j
  <2> QED
    BY ONLY <2>2, <2>4, <2>5
<1> HIDE DEF changed, cut, extended
<1> QED
  BY <1>0, <1>1, <1>2, <1>3

\* As many bytes as come before the damage are there, as they were sent.
LEMMA FirstBytesIntact ==
  ASSUME section \in Seq(Byte), NEW sent, sent = SectionOf(written), sent \in Seq(Byte),
         NEW n \in Nat, n <= Intact
  PROVE  /\ n <= Len(section) /\ n <= Len(sent)
         /\ \A k \in 1 .. n : section[k] = sent[k]
<1> DEFINE damaged == {k \in DOMAIN section : k > Len(sent) \/ section[k] # sent[k]}
           l == Len(section)
<1>1. l \in Nat /\ DOMAIN section = 1 .. l /\ Len(sent) \in Nat
  BY LenProperties
<1>2. Intact = IF damaged # {} THEN Min(damaged) - 1 ELSE l
  BY DEF Intact
<1>3. damaged \in SUBSET (1 .. l)
  BY <1>1
<1>4. \A k \in 1 .. l : k \notin damaged => k <= Len(sent) /\ section[k] = sent[k]
  BY <1>1
<1> HIDE DEF damaged
<1>5. CASE damaged = {}
  <2>1. n <= l
    BY <1>2, <1>5
  <2>2. \A k \in 1 .. n : k \in 1 .. l
    BY ONLY <1>1, <2>1, n \in Nat
  <2>3. n <= Len(sent)
    <3>1. CASE n = 0
      BY ONLY <1>1, <3>1
    <3>2. CASE n # 0
      BY <1>4, <1>5, <2>2, <3>2
    <3> QED
      BY <3>1, <3>2
  <2> QED
    BY <1>4, <1>5, <2>1, <2>2, <2>3
<1>6. CASE damaged # {}
  <2>1. \E i \in damaged : \A j \in damaged : i <= j
    BY <1>1, <1>3, <1>6, FirstAndLast
  <2>2. Min(damaged) \in damaged /\ \A j \in damaged : Min(damaged) <= j
    BY <2>1, Zenon DEF Min
  <2>3. Min(damaged) \in 1 .. l
    BY <1>3, <2>2
  <2>4. n <= Min(damaged) - 1
    BY <1>2, <1>6
  <2>5. n <= l /\ \A k \in 1 .. n : k \in 1 .. l /\ ~(Min(damaged) <= k)
    BY ONLY <1>1, <2>3, <2>4, n \in Nat
  <2>6. \A k \in 1 .. n : k \notin damaged
    BY ONLY <2>2, <2>5
  <2>7. n <= Len(sent)
    <3>1. CASE n = 0
      BY ONLY <1>1, <3>1
    <3>2. CASE n # 0
      <4>1. n \in 1 .. n
        BY ONLY <3>2, n \in Nat
      <4> QED
        BY <1>4, <2>5, <2>6, <4>1
    <3> QED
      BY <3>1, <3>2
  <2> QED
    BY <1>4, <2>5, <2>6, <2>7
<1> QED
  BY <1>5, <1>6

\* The bytes before the entries.
HeadLength == IF kind = "PAT" THEN 5 ELSE 9

\* What came of the bytes of the entries.
Rest == SubSeq(section, HeadLength + 1, Len(section))

LEMMA RestIs ==
  ASSUME section \in Seq(Byte), HeadLength <= Len(section)
  PROVE  /\ Rest \in Seq(Byte) /\ Len(Rest) = Len(section) - HeadLength
         /\ Len(Rest) \in Nat /\ Len(section) \in Nat
         /\ \A x \in 1 .. Len(Rest) : Rest[x] = section[HeadLength + x]
<1> DEFINE h == HeadLength
           l == Len(section)
           m == h + 1
<1>1. l \in Nat /\ h \in Nat /\ \A i \in 1 .. l : section[i] \in Byte
  BY LenProperties, ElementOfSeq DEF HeadLength
<1> HIDE DEF h
<1>2. m \in Int /\ l \in Int /\ m .. l \subseteq 1 .. l
      /\ (IF m <= l THEN l - m + 1 ELSE 0) = l - h /\ l - m + 1 = l - h /\ l - h \in Nat
      /\ \A x \in 1 .. l - h : m + x - 1 = h + x
  BY <1>1 DEF h
<1>3. \A i \in m .. l : section[i] \in Byte
  BY <1>1, <1>2
<1>4. Rest = SubSeq(section, m, l)
  BY DEF Rest, h
<1> HIDE DEF m, l
<1>5. /\ Rest \in Seq(Byte) /\ Len(Rest) = IF m <= l THEN l - m + 1 ELSE 0
      /\ \A x \in 1 .. l - m + 1 : Rest[x] = section[m + x - 1]
  BY <1>2, <1>3, <1>4, SubSeqProperties
<1>6. Len(Rest) = l - h
  BY <1>2, <1>5
<1>7. \A x \in 1 .. l - h : Rest[x] = section[h + x]
  BY ONLY <1>2, <1>5
<1> QED
  BY <1>1, <1>2, <1>5, <1>6, <1>7 DEF h, l

\* The bytes that were sent.
LEMMA PlainSent ==
  ASSUME TypeInv, IsPlain(written), NEW sent, sent = SectionOf(written),
         NEW n, n = Len(written.entries), NEW w, w = EntryLength, NEW h, h = HeadLength
  PROVE  /\ sent \in Seq(Byte) /\ Len(sent) = h + n * w /\ n \in Nat /\ w \in {4, 5} /\ h \in {5, 9}
         /\ Len(written.head) = h /\ \A k \in 1 .. h : sent[k] = written.head[k]
         /\ \A i \in 1 .. n, m \in 1 .. w : sent[h + (i - 1) * w + m] = written.entries[i].bytes[m]
<1> DEFINE b == BytesOf(written.entries)
           head == written.head
<1>1. written \in Tables
  BY DEF TypeInv
<1>2. /\ HasEntriesOf(b, written, w) /\ n \in Nat
      /\ ((kind = "PAT" /\ IsPlainPat(written)) \/ (kind = "PMT" /\ IsPlainPmt(written)))
  BY PlainEntries
<1>3. w \in {4, 5} /\ h \in {5, 9} /\ h \in Nat
  BY DEF EntryLength, HeadLength
<1>4. Len(head) = h
  <2>1. CASE kind = "PAT" /\ IsPlainPat(written)
    BY <2>1, LengthsWritten DEF HeadLength, IsPlainPat
  <2>2. CASE kind = "PMT" /\ IsPlainPmt(written)
    BY <2>2 DEF HeadLength, IsPlainPmt, CommonSectionData, PmtHeaderBytes
  <2> QED
    BY <1>2, <2>1, <2>2
<1>5. /\ b \in Seq(Byte) /\ Len(b) = n * w
      /\ \A i \in 1 .. n, m \in 1 .. w : b[(i - 1) * w + m] = written.entries[i].bytes[m]
  BY <1>2 DEF HasEntriesOf
<1>6. head \in Seq(Byte)
  BY <1>1, TablesAssumption
<1>7. sent = head \o b
  BY DEF SectionOf
<1> HIDE DEF b, head
<1>8. /\ sent \in Seq(Byte) /\ Len(sent) = Len(head) + Len(b)
      /\ \A k \in 1 .. Len(head) + Len(b) :
            sent[k] = IF k <= Len(head) THEN head[k] ELSE b[k - Len(head)]
  <2>1. head \in Seq(Byte) /\ b \in Seq(Byte)
    BY <1>5, <1>6
  <2> QED
    BY ONLY <1>7, <2>1, ConcatProperties
<1>9. /\ Len(sent) = h + n * w
      /\ \A k \in 1 .. h + n * w : sent[k] = IF k <= h THEN head[k] ELSE b[k - h]
  BY ONLY <1>4, <1>5, <1>8
<1>10. n * w \in Nat
  BY ONLY <1>2, <1>3
<1>11. \A k \in 1 .. h : sent[k] = head[k]
  BY ONLY <1>3, <1>9, <1>10
<1>12. ASSUME NEW i \in 1 .. n, NEW m \in 1 .. w
       PROVE  sent[h + (i - 1) * w + m] = written.entries[i].bytes[m]
  <2> DEFINE x == (i - 1) * w + m
             k == h + x
  <2>1. h + (i - 1) * w + m = k
    <3>1. (i - 1) * w \in Nat /\ m \in Nat /\ h \in Nat
      BY ONLY <1>2, <1>3, i \in 1 .. n, m \in 1 .. w
    <3> QED
      BY ONLY <3>1
  <2>2. x \in Nat \ {0} /\ x <= n * w
    BY ONLY <1>2, <1>3, i \in 1 .. n, m \in 1 .. w
  <2>3. b[x] = written.entries[i].bytes[m]
    BY <1>5
  <2> HIDE DEF x
  <2>4. k \in 1 .. h + n * w /\ ~(k <= h) /\ k - h = x
    BY ONLY <1>3, <1>10, <2>2
  <2> HIDE DEF k
  <2>5. sent[k] = b[x]
    BY ONLY <1>9, <2>4
  <2> QED
    BY ONLY <2>1, <2>3, <2>5
<1> QED
  BY <1>2, <1>3, <1>4, <1>8, <1>9, <1>11, <1>12 DEF head

LEMMA EntryEndIs ==
  ASSUME TypeInv, IsPlain(written), NEW i \in 0 .. Len(written.entries)
  PROVE  EntryEnd(i) = HeadLength + i * EntryLength
<1> DEFINE all == written.entries
           first == SubSeq(all, 1, i)
           w == EntryLength
           parts == [k \in DOMAIN first |-> first[k].bytes]
           S == Range(all)
<1>1. written \in Tables
  BY DEF TypeInv
<1>2. /\ Len(all) \in Nat /\ DOMAIN all = 1 .. Len(all) /\ i \in Nat
      /\ ((kind = "PAT" /\ IsPlainPat(written)) \/ (kind = "PMT" /\ IsPlainPmt(written)))
  BY PlainEntries
<1>3. w \in {4, 5} /\ \A k \in DOMAIN all : all[k].bytes \in Seq(Byte) /\ Len(all[k].bytes) = w
  <2>1. \A k \in DOMAIN all : all[k].bytes \in Seq(Byte)
    BY <1>1, TablesAssumption
  <2>2. CASE kind = "PAT" /\ IsPlainPat(written)
    BY <2>1, <2>2, LengthsWritten DEF IsPlainPat, EntryLength
  <2>3. CASE kind = "PMT" /\ IsPlainPmt(written)
    BY <2>1, <2>3, LengthsWritten DEF IsPlainPmt, EntryLength
  <2> QED
    BY <1>2, <2>2, <2>3
<1>4. all \in Seq(S)
  BY <1>1, TablesAssumption
<1>5. /\ first \in Seq(S) /\ Len(first) = i /\ \A k \in 1 .. i : first[k] = all[k]
  <2>1. 1 \in Int /\ i \in Int /\ \A k \in 1 .. i : all[k] \in S
    BY <1>2, <1>4, ElementOfSeq
  <2> HIDE DEF all, S
  <2>2. /\ first \in Seq(S) /\ Len(first) = (IF 1 <= i THEN i - 1 + 1 ELSE 0)
        /\ \A k \in 1 .. i - 1 + 1 : first[k] = all[1 + k - 1]
    BY <2>1, SubSeqProperties
  <2>3. (IF 1 <= i THEN i - 1 + 1 ELSE 0) = i /\ i - 1 + 1 = i /\ \A k \in 1 .. i : 1 + k - 1 = k
    BY <1>2
  <2> HIDE DEF first
  <2> QED
    BY <2>2, <2>3
<1>6. DOMAIN first = 1 .. i
  BY <1>5, LenProperties
<1> HIDE DEF first, S
<1>7. /\ parts \in Seq(Seq(Byte)) /\ Len(parts) = i
      /\ \A k \in 1 .. Len(parts) : Len(parts[k]) = w
  <2>1. parts = [k \in 1 .. i |-> first[k].bytes]
    BY <1>6
  <2>2. \A k \in 1 .. i : first[k].bytes \in Seq(Byte) /\ Len(first[k].bytes) = w
    BY <1>2, <1>3, <1>5
  <2> HIDE DEF parts
  <2> QED
    BY <1>2, <2>1, <2>2
<1>8. BytesOf(first) = FlattenSeq(parts)
  BY DEF BytesOf
<1> HIDE DEF parts
<1>9. IsLaid(FlattenSeq(parts), parts, w, Len(parts))
  BY <1>3, <1>7, FlattenLays
<1>10. Len(BytesOf(first)) = i * w
  BY <1>7, <1>8, <1>9 DEF IsLaid
<1>11. Len(written.head) = HeadLength
  BY PlainSent
<1> QED
  BY <1>10, <1>11 DEF EntryEnd, first

HeadIntact ==
  HeadLength <= Len(section) /\ \A k \in 1 .. HeadLength : section[k] = written.head[k]

\* All bytes of entry i are as they were written.
IsUnharmed(i) ==
  /\ HeadLength <= Len(section) /\ i * EntryLength <= Len(Rest)
  /\ \A m \in 1 .. EntryLength : Rest[(i - 1) * EntryLength + m] = written.entries[i].bytes[m]

\* Stream i has still no descriptors, and so the next one is found behind it.
IsLinked(i) ==
  /\ HeadLength <= Len(section) /\ i * 5 <= Len(Rest)
  /\ Rest[(i - 1) * 5 + 4] = 240 /\ Rest[(i - 1) * 5 + 5] = 0

LEMMA PlaceInRest ==
  ASSUME NEW w \in {4, 5}, NEW i \in Nat \ {0}, NEW m \in 1 .. w, NEW l \in Nat, i * w <= l
  PROVE  (i - 1) * w + m \in 1 .. l /\ (i - 1) * w + m \in Nat
<1>1. CASE w = 4
  BY <1>1
<1>2. CASE w = 5
  BY <1>2
<1> QED
  BY <1>1, <1>2

\* Bytes of the section that are as they were sent are bytes of its entries.
LEMMA SentIsUnharmed ==
  ASSUME TypeInv, IsPlain(written), NEW i \in 1 .. Len(written.entries),
         HeadLength + i * EntryLength <= Len(section),
         \A m \in 1 .. EntryLength :
            section[HeadLength + (i - 1) * EntryLength + m]
              = SectionOf(written)[HeadLength + (i - 1) * EntryLength + m]
  PROVE  IsUnharmed(i)
<1> DEFINE w == EntryLength
           h == HeadLength
           sent == SectionOf(written)
           n == Len(written.entries)
<1>1. /\ w \in {4, 5} /\ h \in {5, 9} /\ n \in Nat
      /\ \A k \in 1 .. n, m \in 1 .. w : sent[h + (k - 1) * w + m] = written.entries[k].bytes[m]
  <2>1. sent = SectionOf(written) /\ n = Len(written.entries) /\ w = EntryLength /\ h = HeadLength
    OBVIOUS
  <2> HIDE DEF w, h, sent, n
  <2>2. TypeInv /\ IsPlain(written)
    OBVIOUS
  <2> QED
    BY ONLY <2>1, <2>2, PlainSent
<1>2. section \in Seq(Byte) /\ Len(section) \in Nat
  BY LenProperties DEF TypeInv, ReaderInv
<1>3. h <= Len(section)
  <2>1. i * w \in Nat /\ h + i * w <= Len(section)
    BY <1>1
  <2> HIDE DEF h
  <2> QED
    BY ONLY <1>1, <1>2, <2>1
<1>4. /\ Len(Rest) = Len(section) - h /\ Len(Rest) \in Nat
      /\ \A x \in 1 .. Len(Rest) : Rest[x] = section[h + x]
  BY <1>2, <1>3, RestIs
<1>5. i * w <= Len(Rest)
  <2>1. i * w \in Nat /\ h + i * w <= Len(section)
    BY <1>1
  <2> HIDE DEF h, w, n
  <2> QED
    BY ONLY <1>1, <1>2, <1>4, <2>1
<1>6. ASSUME NEW m \in 1 .. w PROVE Rest[(i - 1) * w + m] = written.entries[i].bytes[m]
  <2> DEFINE x == (i - 1) * w + m
  <2>1. x \in 1 .. Len(Rest) /\ x \in Nat
    <3>1. i \in Nat \ {0}
      BY <1>1
    <3> HIDE DEF w
    <3> QED
      BY <1>1, <1>4, <1>5, <3>1, PlaceInRest
  <2>2. h + x = h + (i - 1) * w + m
    <3>1. (i - 1) * w \in Nat /\ m \in Nat /\ h \in Nat
      BY ONLY <1>1, i \in 1 .. n, m \in 1 .. w
    <3> QED
      BY ONLY <3>1
  <2>3. section[h + (i - 1) * w + m] = sent[h + (i - 1) * w + m]
    OBVIOUS
  <2>4. sent[h + (i - 1) * w + m] = written.entries[i].bytes[m]
    BY <1>1
  <2> HIDE DEF x
  <2>5. Rest[x] = section[h + x]
    BY <1>4, <2>1
  <2>6. Rest[x] = written.entries[i].bytes[m]
    BY ONLY <2>2, <2>3, <2>4, <2>5
  <2> QED
    BY <2>6 DEF x
<1> QED
  BY <1>3, <1>5, <1>6 DEF IsUnharmed

LEMMA EarlyIsUnharmed ==
  ASSUME TypeInv, IsPlain(written), NEW i \in 1 .. Len(written.entries), EntryEnd(i) <= Intact
  PROVE  HeadIntact /\ \A j \in 1 .. i : IsUnharmed(j)
<1> DEFINE w == EntryLength
           h == HeadLength
           sent == SectionOf(written)
           n == Len(written.entries)
           z == EntryEnd(i)
<1>1. /\ w \in {4, 5} /\ h \in {5, 9} /\ n \in Nat /\ sent \in Seq(Byte)
      /\ \A k \in 1 .. h : sent[k] = written.head[k]
  <2>1. sent = SectionOf(written) /\ n = Len(written.entries) /\ w = EntryLength /\ h = HeadLength
    OBVIOUS
  <2> HIDE DEF w, h, sent, n
  <2>2. TypeInv /\ IsPlain(written)
    OBVIOUS
  <2> QED
    BY ONLY <2>1, <2>2, PlainSent
<1>2. section \in Seq(Byte) /\ Len(section) \in Nat
  BY LenProperties DEF TypeInv, ReaderInv
<1>3. z = h + i * w
  <2>1. i \in 0 .. n
    BY <1>1
  <2> QED
    BY <2>1, EntryEndIs
<1>4. z \in Nat /\ i \in Nat /\ i * w \in Nat /\ h <= z
  BY ONLY <1>1, <1>3, i \in 1 .. n
<1>5. z <= Intact
  OBVIOUS
<1> HIDE DEF w, h, sent, n, z
<1>6. z <= Len(section) /\ \A k \in 1 .. z : section[k] = sent[k]
  BY <1>1, <1>2, <1>4, <1>5, FirstBytesIntact DEF sent
<1>7. HeadIntact
  <2>1. h <= Len(section)
    BY ONLY <1>1, <1>2, <1>4, <1>6
  <2>2. \A k \in 1 .. h : section[k] = written.head[k]
    <3>1. \A k \in 1 .. h : k \in 1 .. z
      BY ONLY <1>1, <1>4
    <3> QED
      BY ONLY <1>1, <1>6, <3>1
  <2> QED
    BY <2>1, <2>2 DEF HeadIntact, h
<1>8. ASSUME NEW j \in 1 .. i PROVE IsUnharmed(j)
  <2>1. j \in 1 .. n /\ j \in Nat \ {0} /\ j * w <= i * w /\ j * w \in Nat
    BY ONLY <1>1, <1>4, i \in 1 .. Len(written.entries), j \in 1 .. i DEF n
  <2>2. h + j * w <= Len(section)
    BY ONLY <1>1, <1>2, <1>3, <1>4, <1>6, <2>1
  <2>3. ASSUME NEW m \in 1 .. w
        PROVE  section[h + (j - 1) * w + m] = sent[h + (j - 1) * w + m]
    <3>1. (j - 1) * w + m \in 1 .. i * w
      BY <1>1, <1>4, <2>1, PlaceInRest
    <3>2. (j - 1) * w \in Nat /\ m \in Nat
      BY ONLY <1>1, <2>1, m \in 1 .. w
    <3>3. h + (j - 1) * w + m \in 1 .. z
      BY ONLY <1>1, <1>3, <1>4, <3>1, <3>2
    <3> QED
      BY ONLY <1>6, <3>3
  <2> QED
    BY <2>1, <2>2, <2>3, SentIsUnharmed DEF h, w, sent, n
<1> QED
  BY <1>7, <1>8

\* The bytes of another entry.
LEMMA OtherPlace ==
  ASSUME NEW w \in {4, 5}, NEW i \in Nat \ {0}, NEW j \in Nat \ {0}, i # j,
         NEW m \in 1 .. w
  PROVE  (i - 1) * w + m - (j - 1) * w \notin 1 .. w
<1>1. CASE w = 4
  BY <1>1
<1>2. CASE w = 5
  BY <1>2
<1> QED
  BY <1>1, <1>2

LEMMA ElsewhereIsUnharmed ==
  ASSUME TypeInv, IsPlain(written), NEW j \in 1 .. Len(written.entries), IsDamagedOnlyIn(j)
  PROVE  /\ HeadIntact /\ Len(section) = Len(SectionOf(written))
         /\ \A i \in 1 .. Len(written.entries) : i # j => IsUnharmed(i)
         /\ kind = "PMT" /\ {4, 5} \subseteq written.entries[j].framing
               => \A i \in 1 .. Len(written.entries) : IsLinked(i)
<1> DEFINE w == EntryLength
           h == HeadLength
           sent == SectionOf(written)
           n == Len(written.entries)
           bytes == written.entries[j].bytes
           framing == written.entries[j].framing
           start == (j - 1) * w
<1>1. /\ w \in {4, 5} /\ h \in {5, 9} /\ n \in Nat /\ sent \in Seq(Byte)
      /\ Len(sent) = h + n * w
      /\ \A k \in 1 .. h : sent[k] = written.head[k]
      /\ \A k \in 1 .. n, m \in 1 .. w : sent[h + (k - 1) * w + m] = written.entries[k].bytes[m]
  <2>1. sent = SectionOf(written) /\ n = Len(written.entries) /\ w = EntryLength /\ h = HeadLength
    OBVIOUS
  <2> HIDE DEF w, h, sent, n
  <2>2. TypeInv /\ IsPlain(written)
    OBVIOUS
  <2>3. /\ w \in {4, 5} /\ h \in {5, 9} /\ n \in Nat /\ sent \in Seq(Byte)
        /\ \A k \in 1 .. h : sent[k] = written.head[k]
    BY ONLY <2>1, <2>2, PlainSent
  <2>4. \A k \in 1 .. n, m \in 1 .. w : sent[h + (k - 1) * w + m] = written.entries[k].bytes[m]
    BY ONLY <2>1, <2>2, PlainSent
  <2>5. Len(sent) = h + n * w
    BY ONLY <2>1, <2>2, PlainSent
  <2> QED
    BY ONLY <2>3, <2>4, <2>5
<1>2. section \in Seq(Byte) /\ Len(section) \in Nat /\ DOMAIN section = 1 .. Len(section)
  BY LenProperties DEF TypeInv, ReaderInv
<1>3. DOMAIN bytes = 1 .. w
  <2>1. written \in Tables /\ DOMAIN written.entries = 1 .. n
        /\ ((kind = "PAT" /\ IsPlainPat(written)) \/ (kind = "PMT" /\ IsPlainPmt(written)))
    BY PlainEntries DEF TypeInv
  <2>2. CASE kind = "PAT" /\ IsPlainPat(written)
    <3>1. bytes = ProgramBytes(written.entries[j].reads) /\ w = 4
      BY <2>1, <2>2 DEF IsPlainPat, EntryLength
    <3> QED
      BY <3>1 DEF ProgramBytes
  <2>3. CASE kind = "PMT" /\ IsPlainPmt(written)
    <3>1. bytes = StreamBytes(written.entries[j].reads) /\ w = 5
      BY <2>1, <2>3 DEF IsPlainPmt, EntryLength
    <3> QED
      BY <3>1 DEF StreamBytes
  <2> QED
    BY <2>1, <2>2, <2>3
<1>4. EntryStart(j) = h + start
  <2>1. j - 1 \in 0 .. n
    BY <1>1
  <2> QED
    BY <2>1, EntryEndIs DEF EntryStart
<1>5. /\ Len(section) = Len(sent)
      /\ \A k \in 1 .. Len(section) :
            section[k] # sent[k] => k - (h + start) \in 1 .. w \ framing
  BY <1>2, <1>3, <1>4 DEF IsDamagedOnlyIn
<1>6. start \in Nat /\ j \in Nat \ {0} /\ n * w \in Nat
  BY ONLY <1>1, j \in 1 .. n
<1> HIDE DEF w, h, sent, n, start, bytes, framing
<1>7. HeadIntact
  <2>1. h <= Len(section)
    BY ONLY <1>1, <1>2, <1>5, <1>6
  <2>2. ASSUME NEW k \in 1 .. h PROVE section[k] = sent[k]
    <3>1. k \in 1 .. Len(section) /\ k - (h + start) \notin 1 .. w
      BY ONLY <1>1, <1>2, <1>6, <2>1, k \in 1 .. h
    <3> QED
      BY ONLY <1>5, <3>1
  <2> QED
    BY <1>1, <2>1, <2>2 DEF HeadIntact, h
<1>8. ASSUME NEW i \in 1 .. n, NEW m \in 1 .. w, NEW k, k = h + (i - 1) * w + m
      PROVE  /\ k \in 1 .. Len(section) /\ k - (h + start) = (i - 1) * w + m - start
             /\ h + i * w <= Len(section)
  <2>1. i \in Nat \ {0} /\ i * w <= n * w /\ i * w \in Nat
    BY ONLY <1>1, i \in 1 .. n
  <2> DEFINE x == (i - 1) * w
  <2>2. x + m \in 1 .. i * w /\ x \in Nat /\ m \in Nat
    <3>1. x + m \in 1 .. i * w
      BY <1>1, <2>1, PlaceInRest
    <3> QED
      BY ONLY <1>1, <2>1, <3>1, m \in 1 .. w
  <2>3. k = h + x + m
    BY <1>8
  <2> HIDE DEF x
  <2>4. k \in 1 .. Len(section) /\ k - (h + start) = x + m - start /\ h + i * w <= Len(section)
    BY ONLY <1>1, <1>2, <1>5, <1>6, <2>1, <2>2, <2>3
  <2> QED
    BY <2>4 DEF x
<1>9. ASSUME NEW i \in 1 .. n, i # j PROVE IsUnharmed(i)
  <2>1. i \in Nat \ {0}
    BY ONLY <1>1, i \in 1 .. n
  <2>2. ASSUME NEW m \in 1 .. w
        PROVE  section[h + (i - 1) * w + m] = sent[h + (i - 1) * w + m]
    <3> DEFINE k == h + (i - 1) * w + m
    <3>1. (i - 1) * w + m - start \notin 1 .. w
      BY <1>1, <1>6, <1>9, <2>1, OtherPlace DEF start
    <3>0. k = h + (i - 1) * w + m
      OBVIOUS
    <3> HIDE DEF k
    <3>2. k \in 1 .. Len(section) /\ k - (h + start) = (i - 1) * w + m - start
      BY <1>8, <3>0
    <3>3. k - (h + start) \notin 1 .. w
      BY ONLY <3>1, <3>2
    <3>4. section[k] = sent[k]
      BY ONLY <1>5, <3>2, <3>3
    <3> QED
      BY <3>4 DEF k
  <2>3. h + i * w <= Len(section)
    <3>1. 1 \in 1 .. w
      BY ONLY <1>1
    <3> DEFINE k == h + (i - 1) * w + 1
    <3>2. k = h + (i - 1) * w + 1
      OBVIOUS
    <3> HIDE DEF k
    <3> QED
      BY <1>8, <3>1, <3>2
  <2> QED
    BY <2>2, <2>3, SentIsUnharmed DEF h, w, sent, n
<1>10. ASSUME kind = "PMT", {4, 5} \subseteq framing, NEW i \in 1 .. n PROVE IsLinked(i)
  <2>1. w = 5 /\ h = 9 /\ i \in Nat \ {0}
    BY <1>1, <1>10 DEF w, h, EntryLength, HeadLength
  <2>2. h <= Len(section)
    BY <1>7 DEF HeadIntact, h
  <2>3. /\ Len(Rest) = Len(section) - h /\ Len(Rest) \in Nat
        /\ \A x \in 1 .. Len(Rest) : Rest[x] = section[h + x]
    BY <1>2, <2>2, RestIs DEF h
  <2>4. i * 5 <= Len(Rest)
    <3>1. 1 \in 1 .. w
      BY ONLY <1>1
    <3> DEFINE k == h + (i - 1) * w + 1
    <3>3. k = h + (i - 1) * w + 1
      OBVIOUS
    <3> HIDE DEF k
    <3>2. h + i * w <= Len(section)
      BY <1>8, <3>1, <3>3
    <3> QED
      BY ONLY <1>2, <2>1, <2>3, <3>2
  <2>5. ASSUME NEW m \in {4, 5} PROVE Rest[(i - 1) * 5 + m] = written.entries[i].bytes[m]
    <3> DEFINE k == h + (i - 1) * w + m
               x == (i - 1) * 5 + m
    <3>1. m \in 1 .. w /\ k = h + (i - 1) * w + m
      BY ONLY <2>1, m \in {4, 5}
    <3>3. x \in 1 .. Len(Rest) /\ h + x = k
      BY ONLY <2>1, <2>3, <2>4, m \in {4, 5}
    <3> HIDE DEF k
    <3>2. k \in 1 .. Len(section) /\ k - (h + start) = (i - 1) * w + m - start
      BY <1>8, <3>1
    <3>4. k - (h + start) \notin 1 .. w \ framing
      <4>1. CASE i = j
        <5>1. k - (h + start) = m
          BY ONLY <2>1, <3>1, <3>2, <4>1, m \in {4, 5} DEF start
        <5> QED
          BY <1>10, <5>1
      <4>2. CASE i # j
        <5>1. (i - 1) * w + m - start \notin 1 .. w
          BY <1>1, <1>6, <2>1, <3>1, <4>2, OtherPlace DEF start
        <5> QED
          BY <3>2, <5>1
      <4> QED
        BY <4>1, <4>2
    <3> HIDE DEF k, x
    <3>5. section[k] = sent[k]
      BY ONLY <1>5, <3>2, <3>4
    <3>6. sent[k] = written.entries[i].bytes[m]
      BY <1>1, <3>1 DEF k
    <3>7. Rest[x] = section[k]
      BY <2>3, <3>3
    <3> QED
      BY <3>5, <3>6, <3>7 DEF x
  <2>6. written.entries[i].bytes[4] = 240 /\ written.entries[i].bytes[5] = 0
    <3>1. IsPlainPmt(written) /\ DOMAIN written.entries = 1 .. n
      BY <1>10, PlainEntries DEF n
    <3>2. written.entries[i].bytes = StreamBytes(written.entries[i].reads)
      BY <3>1 DEF IsPlainPmt
    <3> QED
      BY <3>2 DEF StreamBytes
  <2> QED
    BY <2>1, <2>2, <2>4, <2>5, <2>6 DEF IsLinked, h
<1> QED
  BY <1>5, <1>7, <1>9, <1>10 DEF n, sent, framing

LEMMA UnharmedIsLinked ==
  ASSUME TypeInv, IsPlain(written), kind = "PMT", NEW i \in 1 .. Len(written.entries), IsUnharmed(i)
  PROVE  IsLinked(i)
<1>1. EntryLength = 5 /\ IsPlainPmt(written) /\ DOMAIN written.entries = 1 .. Len(written.entries)
  BY PlainEntries DEF EntryLength
<1>2. written.entries[i].bytes = StreamBytes(written.entries[i].reads)
  BY <1>1 DEF IsPlainPmt
<1>3. written.entries[i].bytes[4] = 240 /\ written.entries[i].bytes[5] = 0
  BY <1>2 DEF StreamBytes
<1>4. /\ HeadLength <= Len(section) /\ i * 5 <= Len(Rest)
      /\ \A m \in 1 .. 5 : Rest[(i - 1) * 5 + m] = written.entries[i].bytes[m]
  BY <1>1 DEF IsUnharmed
<1>5. 4 \in 1 .. 5 /\ 5 \in 1 .. 5
  OBVIOUS
<1>6. /\ Rest[(i - 1) * 5 + 4] = written.entries[i].bytes[4]
      /\ Rest[(i - 1) * 5 + 5] = written.entries[i].bytes[5]
  BY <1>4, <1>5
<1> QED
  BY <1>3, <1>4, <1>6 DEF IsLinked

-----------------------------------------------------------------------------
(* The programs of a damaged PAT *)

LEMMA PatReaderOfRest ==
  ASSUME section \in Seq(Byte), kind = "PAT", 5 <= Len(section)
  PROVE  /\ IsBehind(PatReader(section), Rest, 0) /\ Rest \in Seq(Byte) /\ Len(Rest) \in Nat
         /\ NumberOfPrograms(section) = Len(Rest) \div 4
<1>1. HeadLength = 5
  BY DEF HeadLength
<1>2. /\ Rest \in Seq(Byte) /\ Len(Rest) = Len(section) - 5 /\ Len(Rest) \in Nat
  BY <1>1, RestIs
<1>3. PatReader(section) = MakeWithBytes(Rest, Len(Rest))
  BY <1>1, <1>2 DEF PatReader, PatHeaderLength, Rest
<1>4. NumberOfPrograms(section) = Len(Rest) \div 4
  BY <1>2 DEF NumberOfPrograms, PatHeaderLength, PROGRAM_BYTE_LENGTH
<1> QED
  BY <1>2, <1>3, <1>4, BehindNone

LEMMA ProgramNumberRead ==
  ASSUME NEW r, NEW bytes, NEW i, IsBehind(r, bytes, i), i + 4 <= Len(bytes)
  PROVE  /\ IsBehind(ReadProgram(r).reader, bytes, i + 4)
         /\ ReadProgram(r).entry.programNumber = bytes[i + 1] * 256 + bytes[i + 2]
<1> DEFINE number == ReadUInt16BE(r)
           pid == ReadBits(SkipBits(number, 3), 13)
<1>1. i \in Nat /\ Len(bytes) \in Nat
  BY BehindFields
<1>2. IsBehind(number, bytes, i + 2) /\ number.value = bytes[i + 1] * 256 + bytes[i + 2]
  <2>1. i + 2 <= Len(bytes)
    BY <1>1
  <2> QED
    BY ONLY <2>1, IsBehind(r, bytes, i), WordGiven
<1> HIDE DEF number
<1>3. IsBehind(pid, bytes, i + 4)
  <2> DEFINE j == i + 2
  <2>1. j + 2 <= Len(bytes) /\ j + 2 = i + 4
    BY <1>1
  <2>2. IsBehind(number, bytes, j)
    BY <1>2
  <2> HIDE DEF j
  <2>3. 3 \in {3, 4} /\ 13 \in {12, 13} /\ 3 + 13 = 16
    OBVIOUS
  <2>4. /\ IsBehind(pid, bytes, j + 2)
        /\ pid.value = (bytes[j + 1] % (IF 3 = 3 THEN 32 ELSE 16)) * 256 + bytes[j + 2]
    BY ONLY <2>1, <2>2, <2>3, BitsGiven
  <2> QED
    BY ONLY <2>1, <2>4
<1> HIDE DEF pid
<1>4. ReadProgram(r) = [reader |-> pid, entry |-> [programNumber |-> number.value, pmtPid |-> pid.value]]
  BY Zenon DEF ReadProgram, pid, number
<1> QED
  BY ONLY <1>2, <1>3, <1>4

\* Removing one element keeps the others.
LEMMA RemovedKeeps ==
  ASSUME NEW S, NEW s \in Seq(S), NEW i \in 1 .. Len(s)
  PROVE  /\ RemoveAt(s, i) \in Seq(S) /\ Len(RemoveAt(s, i)) = Len(s) - 1 /\ Len(s) \in Nat
         /\ \A j \in 1 .. Len(s) : j # i => s[j] \in Range(RemoveAt(s, i))
<1> DEFINE m == i - 1
           k == i + 1
           l == Len(s)
           a == SubSeq(s, 1, m)
           b == SubSeq(s, k, l)
           kept == RemoveAt(s, i)
<1>1. l \in Nat /\ i \in Nat
  BY LenProperties
<1>2. m \in Int /\ k \in Int /\ l \in Int /\ 1 .. m \subseteq 1 .. l /\ k .. l \subseteq 1 .. l
  BY <1>1
<1>3. \A j \in 1 .. l : s[j] \in S
  BY ElementOfSeq
<1>4. kept = a \o b
  BY DEF RemoveAt
<1>5. /\ (IF 1 <= m THEN m - 1 + 1 ELSE 0) = m /\ m - 1 + 1 = m /\ 1 \in Int
      /\ (IF k <= l THEN l - k + 1 ELSE 0) = l - i /\ l - k + 1 = l - i /\ m + (l - i) = l - 1
      /\ m \in Nat /\ l - i \in Nat
  BY <1>1
<1> HIDE DEF m, k, l
<1>6. /\ a \in Seq(S) /\ Len(a) = IF 1 <= m THEN m - 1 + 1 ELSE 0
      /\ \A j \in 1 .. m - 1 + 1 : a[j] = s[1 + j - 1]
  <2>1. \A j \in 1 .. m : s[j] \in S
    BY <1>2, <1>3
  <2> QED
    BY <1>2, <1>5, <2>1, SubSeqProperties
<1>7. /\ b \in Seq(S) /\ Len(b) = IF k <= l THEN l - k + 1 ELSE 0
      /\ \A j \in 1 .. l - k + 1 : b[j] = s[k + j - 1]
  <2>1. \A j \in k .. l : s[j] \in S
    BY <1>2, <1>3
  <2> QED
    BY <1>2, <2>1, SubSeqProperties
<1> HIDE DEF a, b, kept
<1>8. /\ kept \in Seq(S) /\ Len(kept) = Len(a) + Len(b)
      /\ \A j \in 1 .. Len(a) + Len(b) : kept[j] = IF j <= Len(a) THEN a[j] ELSE b[j - Len(a)]
  <2>1. a \in Seq(S) /\ b \in Seq(S)
    BY <1>6, <1>7
  <2> QED
    BY ONLY <1>4, <2>1, ConcatProperties
<1>9. Len(a) = m /\ Len(b) = l - i
  BY ONLY <1>5, <1>6, <1>7
<1>10. Len(kept) = l - 1
  BY ONLY <1>5, <1>8, <1>9
<1>11. ASSUME NEW j \in 1 .. l, j # i PROVE s[j] \in Range(kept)
  <2>0. DOMAIN kept = 1 .. l - 1
    BY <1>8, <1>10, LenProperties
  <2>1. CASE j < i
    <3>1. j \in 1 .. m /\ j \in 1 .. l - 1 /\ j <= m /\ 1 + j - 1 = j
      BY ONLY <1>1, <2>1, i \in 1 .. Len(s), j \in 1 .. l DEF m, l
    <3>2. kept[j] = a[j]
      BY ONLY <1>5, <1>8, <1>9, <3>1
    <3>3. a[j] = s[j]
      BY ONLY <1>5, <1>6, <3>1
    <3> QED
      BY <2>0, <3>1, <3>2, <3>3 DEF Range
  <2>2. CASE ~(j < i)
    <3> DEFINE x == j - 1
               y == j - i
    <3>1. x \in 1 .. l - 1 /\ ~(x <= m) /\ x - m = y /\ y \in 1 .. l - i /\ k + y - 1 = j
      BY ONLY <1>1, <1>11, <2>2, i \in 1 .. Len(s), j \in 1 .. l DEF m, k, l
    <3> HIDE DEF x, y
    <3>2. kept[x] = b[y]
      BY ONLY <1>5, <1>8, <1>9, <3>1
    <3>3. b[y] = s[j]
      BY ONLY <1>5, <1>7, <3>1
    <3> QED
      BY <2>0, <3>1, <3>2, <3>3 DEF Range
  <2> QED
    BY <2>1, <2>2
<1> QED
  BY <1>1, <1>8, <1>10, <1>11 DEF l, kept

LEMMA ProgramsKept ==
  ASSUME NEW S, NEW programmes \in Seq(S), NEW program \in S
  PROVE  /\ WithProgram(programmes, program) \in Seq(S)
         /\ Len(programmes) \in Nat /\ Len(WithProgram(programmes, program)) \in Nat
         /\ Len(WithProgram(programmes, program)) <= Len(programmes) + 1
         /\ program \in Range(WithProgram(programmes, program))
         /\ \A e \in Range(programmes) : e.programNumber # program.programNumber
               => e \in Range(WithProgram(programmes, program))
<1> DEFINE I == {i \in 1 .. Len(programmes) :
                    programmes[i].programNumber = program.programNumber}
           kept == RemoveFirstMatch(programmes,
                       LAMBDA p : p.programNumber = program.programNumber)
           with == WithProgram(programmes, program)
           l == Len(programmes)
           last == <<program>>
<1>0. l \in Nat /\ DOMAIN programmes = 1 .. l
  BY LenProperties
<1>1. kept = IF I # {} THEN RemoveAt(programmes, Min(I)) ELSE programmes
  BY DEF RemoveFirstMatch, SelectInSeq
<1>2. with = kept \o last
  BY DEF WithProgram
<1>3. /\ kept \in Seq(S) /\ Len(kept) \in Nat /\ Len(kept) <= l
      /\ \A e \in Range(programmes) : e.programNumber # program.programNumber => e \in Range(kept)
  <2>1. CASE I # {}
    <3> DEFINE i == Min(I)
    <3>1. I \in SUBSET (1 .. l) /\ \A j \in 1 .. l :
             programmes[j].programNumber # program.programNumber => j \notin I
      OBVIOUS
    <3> HIDE DEF I
    <3>2. \E j \in I : \A k \in I : j <= k
      BY <1>0, <2>1, <3>1, FirstAndLast
    <3>3. i \in I
      BY <3>2, Zenon DEF Min
    <3>4. i \in 1 .. l /\ kept = RemoveAt(programmes, i)
      BY <1>1, <2>1, <3>1, <3>3
    <3> HIDE DEF i, kept
    <3>5. /\ kept \in Seq(S) /\ Len(kept) = l - 1
          /\ \A j \in 1 .. l : j # i => programmes[j] \in Range(kept)
      BY <3>4, RemovedKeeps
    <3>6. l - 1 \in Nat /\ l - 1 <= l
      BY ONLY <1>0, <3>4
    <3>7. ASSUME NEW e \in Range(programmes), e.programNumber # program.programNumber
          PROVE  e \in Range(kept)
      <4>1. PICK j \in 1 .. l : e = programmes[j]
        BY <1>0 DEF Range
      <4>2. j \notin I
        BY <3>1, <3>7, <4>1
      <4> QED
        BY <3>3, <3>5, <4>1, <4>2
    <3> QED
      BY <3>5, <3>6, <3>7
  <2>2. CASE I = {}
    <3>1. kept = programmes
      BY <1>1, <2>2
    <3> HIDE DEF kept
    <3> QED
      BY <1>0, <3>1
  <2> QED
    BY <2>1, <2>2
<1>4. last \in Seq(S) /\ Len(last) = 1 /\ last[1] = program
  OBVIOUS
<1> HIDE DEF kept, with, last, I
<1>5. /\ with \in Seq(S) /\ Len(with) = Len(kept) + Len(last)
      /\ \A j \in 1 .. Len(kept) + Len(last) :
            with[j] = IF j <= Len(kept) THEN kept[j] ELSE last[j - Len(kept)]
  <2>1. kept \in Seq(S) /\ last \in Seq(S)
    BY <1>3, <1>4
  <2> QED
    BY ONLY <1>2, <2>1, ConcatProperties
<1> DEFINE q == Len(kept)
<1>6. q \in Nat /\ q <= l /\ Len(with) = q + 1
      /\ \A j \in 1 .. q + 1 : with[j] = IF j <= q THEN kept[j] ELSE last[j - q]
  BY ONLY <1>3, <1>4, <1>5
<1>7. DOMAIN with = 1 .. q + 1 /\ DOMAIN kept = 1 .. q
  <2>1. with \in Seq(S) /\ kept \in Seq(S)
    BY <1>3, <1>5
  <2>2. DOMAIN with = 1 .. Len(with) /\ DOMAIN kept = 1 .. Len(kept)
    BY ONLY <2>1, LenProperties
  <2> QED
    BY <1>6, <2>2
<1> HIDE DEF q, l
<1>8. program \in Range(with)
  <2> DEFINE j == q + 1
  <2>1. j \in 1 .. q + 1 /\ ~(j <= q) /\ j - q = 1
    BY ONLY <1>6
  <2> HIDE DEF j
  <2>2. with[j] = program
    BY ONLY <1>4, <1>6, <2>1
  <2> QED
    BY <1>7, <2>1, <2>2 DEF Range
<1>9. ASSUME NEW e \in Range(kept) PROVE e \in Range(with)
  <2>1. PICK j \in 1 .. q : e = kept[j]
    BY <1>7 DEF Range
  <2>2. j \in 1 .. q + 1 /\ j <= q
    BY ONLY <1>6, j \in 1 .. q
  <2>3. with[j] = e
    BY ONLY <1>6, <2>1, <2>2
  <2> QED
    BY <1>7, <2>2, <2>3 DEF Range
<1>10. Len(with) \in Nat /\ Len(with) <= l + 1
  BY ONLY <1>0, <1>6 DEF l
<1> QED
  BY <1>0, <1>3, <1>5, <1>8, <1>9, <1>10 DEF with, l

LEMMA TwoOf ==
  ASSUME NEW s \in Seq(Byte), NEW a \in Nat, a + 2 <= Len(s)
  PROVE  SubSeq(s, a + 1, a + 2) = <<s[a + 1], s[a + 2]>> /\ s[a + 1] \in Byte /\ s[a + 2] \in Byte
<1> DEFINE m == a + 1
           k == a + 2
           two == SubSeq(s, m, k)
           x == s[m]
           y == s[k]
<1>1. /\ m \in Int /\ k \in Int /\ m .. k = {m, k} /\ m \in 1 .. Len(s) /\ k \in 1 .. Len(s)
      /\ (IF m <= k THEN k - m + 1 ELSE 0) = 2 /\ k - m + 1 = 2 /\ m + 1 - 1 = m /\ m + 2 - 1 = k
  BY LenProperties
<1>2. x \in Byte /\ y \in Byte
  BY <1>1, ElementOfSeq
<1>3. \A i \in m .. k : s[i] \in Byte
  BY <1>1, <1>2
<1> HIDE DEF m, k
<1>4. /\ two \in Seq(Byte) /\ Len(two) = IF m <= k THEN k - m + 1 ELSE 0
      /\ \A i \in 1 .. k - m + 1 : two[i] = s[m + i - 1]
  BY <1>1, <1>3, SubSeqProperties
<1> HIDE DEF two, x, y
<1>5. two \in Seq(Byte) /\ Len(two) = 2 /\ two[1] = x /\ two[2] = y
  <2>1. 1 \in 1 .. 2 /\ 2 \in 1 .. 2
    OBVIOUS
  <2>2. two[1] = s[m + 1 - 1] /\ two[2] = s[m + 2 - 1]
    BY <1>1, <1>4, <2>1
  <2> QED
    BY <1>1, <1>4, <2>2 DEF x, y
<1>6. two = <<x, y>>
  <2> DEFINE t == <<x, y>>
  <2>1. t \in Seq(Byte) /\ Len(t) = 2 /\ t[1] = x /\ t[2] = y
    BY <1>2
  <2>2. 1 .. 2 = {1, 2}
    OBVIOUS
  <2> HIDE DEF t
  <2>3. /\ two \in Seq(Byte) /\ t \in Seq(Byte) /\ Len(two) = Len(t)
        /\ \A i \in 1 .. Len(two) : two[i] = t[i]
    BY ONLY <1>5, <2>1, <2>2
  <2>4. two = t
    BY ONLY <2>3, SeqEqual
  <2> QED
    BY <2>4 DEF t
<1> QED
  BY <1>2, <1>6 DEF two, x, y, m, k

\* The two bytes of a number are those that were written for it.
LEMMA SameNumber ==
  ASSUME NEW x \in Byte, NEW y \in Byte
  PROVE  x = (x * 256 + y) \div 256 /\ y = (x * 256 + y) % 256
BY DEF Byte

LEMMA NumberIsTaken ==
  ASSUME TypeInv, IsPlain(written), kind = "PAT", 5 <= Len(section),
         NEW i \in 1 .. Len(written.entries), NEW j \in 1 .. Len(written.entries), i < j,
         j * 4 <= Len(Rest),
         Rest[(j - 1) * 4 + 1] * 256 + Rest[(j - 1) * 4 + 2]
           = written.entries[i].reads.programNumber
  PROVE  IsTakenOver(i)
<1> DEFINE n == Len(written.entries)
           start == (j - 1) * 4
           bytes == written.entries[i].bytes
           number == written.entries[i].reads.programNumber
<1>1. n \in Nat /\ DOMAIN written.entries = 1 .. n /\ IsPlainPat(written) /\ EntryLength = 4
      /\ HeadLength = 5
  BY PlainEntries DEF EntryLength, HeadLength
<1>2. section \in Seq(Byte)
  BY DEF TypeInv, ReaderInv
<1>3. /\ Len(Rest) = Len(section) - 5 /\ Len(Rest) \in Nat /\ Len(section) \in Nat
      /\ \A x \in 1 .. Len(Rest) : Rest[x] = section[5 + x]
  BY <1>1, <1>2, RestIs
<1>4. start \in Nat /\ start + 4 <= Len(Rest)
  BY ONLY <1>1, <1>3, j \in 1 .. Len(written.entries), j * 4 <= Len(Rest)
<1>5. EntryStart(j) = 5 + start
  <2>1. j - 1 \in 0 .. n
    BY <1>1
  <2> QED
    BY <1>1, <2>1, EntryEndIs DEF EntryStart
<1>6. bytes \in Seq(Byte) /\ bytes = <<bytes[1], bytes[2], bytes[3], bytes[4]>>
      /\ bytes[1] = number \div 256 /\ bytes[2] = number % 256 /\ Len(bytes) = 4
  <2>1. written \in Tables
    BY DEF TypeInv
  <2>2. bytes \in Seq(Byte)
    BY <1>1, <2>1, TablesAssumption
  <2>3. bytes = ProgramBytes(written.entries[i].reads)
    BY <1>1 DEF IsPlainPat
  <2> QED
    BY <2>2, <2>3 DEF ProgramBytes
<1> HIDE DEF start, bytes, number, n
<1> DEFINE a == 5 + start
           x == section[a + 1]
           y == section[a + 2]
<1>7. a \in Nat /\ a + 2 <= Len(section) /\ start + 1 \in 1 .. Len(Rest) /\ start + 2 \in 1 .. Len(Rest)
      /\ a + 1 = 5 + (start + 1) /\ a + 2 = 5 + (start + 2)
  BY ONLY <1>3, <1>4
<1>8. x = Rest[start + 1] /\ y = Rest[start + 2]
  <2> DEFINE u == start + 1
             v == start + 2
  <2>1. u \in 1 .. Len(Rest) /\ v \in 1 .. Len(Rest) /\ a + 1 = 5 + u /\ a + 2 = 5 + v
    BY <1>7
  <2> HIDE DEF a, u, v
  <2>2. Rest[u] = section[5 + u] /\ Rest[v] = section[5 + v]
    BY ONLY <1>3, <2>1
  <2>3. Rest[u] = x /\ Rest[v] = y
    BY ONLY <2>1, <2>2
  <2> QED
    BY <2>3 DEF u, v
<1> HIDE DEF a
<1>9. SubSeq(section, a + 1, a + 2) = <<x, y>> /\ x \in Byte /\ y \in Byte
  BY <1>2, <1>7, TwoOf
<1>10. SubSeq(bytes, 1, 2) = <<bytes[1], bytes[2]>>
  <2> DEFINE z == 0
  <2>1. z \in Nat /\ z + 2 <= Len(bytes) /\ z + 1 = 1 /\ z + 2 = 2 /\ bytes \in Seq(Byte)
    BY <1>6
  <2> HIDE DEF z
  <2>2. SubSeq(bytes, z + 1, z + 2) = <<bytes[z + 1], bytes[z + 2]>>
    BY ONLY <2>1, TwoOf
  <2> QED
    BY ONLY <2>1, <2>2
<1>11. x * 256 + y = number
  <2>1. Rest[start + 1] * 256 + Rest[start + 2] = number
    BY DEF start, number
  <2> QED
    BY <1>8, <2>1
<1> HIDE DEF x, y
<1>12. x = bytes[1] /\ y = bytes[2]
  BY <1>6, <1>9, <1>11, SameNumber
<1>13. SubSeq(section, EntryStart(j) + 1, EntryStart(j) + 2) = SubSeq(bytes, 1, 2)
  <2>1. EntryStart(j) = a
    BY <1>5 DEF a
  <2> QED
    BY <1>9, <1>10, <1>12, <2>1
<1>14. j \in i + 1 .. Len(written.entries)
  BY ONLY <1>1, i \in 1 .. Len(written.entries), j \in 1 .. Len(written.entries), i < j DEF n
<1> QED
  BY <1>13, <1>14 DEF IsTakenOver, bytes

\* Program i is as it was written, and stuffing that is read as programs has another number.
CanSurvive(i) ==
  /\ IsUnharmed(i)
  /\ written.entries[i].reads.programNumber # 65535 \/ Len(section) <= Len(SectionOf(written))

\* k programs of what the section has become have been read.
ProgramsRead(k) ==
  /\ IsBehind(reader, Rest, k * 4)
  /\ left = NumberOfPrograms(section) - k
  /\ Len(entries) <= k
  /\ \A i \in 1 .. Len(written.entries) : i <= k /\ CanSurvive(i) => Survives(i)

PatState ==
  /\ pc \notin {"descriptors", "programDescriptors"}
  /\ pc = "start" => entries = <<>>
  /\ pc = "entries" =>
        5 <= Len(section) /\ \E k \in 0 .. NumberOfPrograms(section) : ProgramsRead(k)
  /\ pc = "done" =>
        /\ 5 <= Len(section) => Len(entries) <= NumberOfPrograms(section)
        /\ \A i \in 1 .. Len(written.entries) : CanSurvive(i) => Survives(i)

PatInv == kind = "PAT" /\ IsPlain(written) => PatState

LEMMA PatFacts ==
  ASSUME TypeInv, IsPlain(written), kind = "PAT"
  PROVE  /\ IsPlainPat(written) /\ DOMAIN written.entries = 1 .. Len(written.entries)
         /\ Len(written.entries) \in Nat /\ EntryLength = 4 /\ HeadLength = 5
         /\ section \in Seq(Byte) /\ Len(section) \in Nat
         /\ entries \in Seq(Entries) /\ Len(entries) \in Nat
         /\ SectionOf(written) \in Seq(Byte)
         /\ Len(SectionOf(written)) = 5 + Len(written.entries) * 4
<1>1. section \in Seq(Byte) /\ Len(section) \in Nat /\ entries \in Seq(Entries) /\ Len(entries) \in Nat
  BY LenProperties DEF TypeInv, ReaderInv, FieldsOK
<1>2. EntryLength = 4 /\ HeadLength = 5
  BY DEF EntryLength, HeadLength
<1>3. /\ IsPlainPat(written) /\ DOMAIN written.entries = 1 .. Len(written.entries)
      /\ Len(written.entries) \in Nat
  BY PlainEntries
<1> DEFINE sent == SectionOf(written)
           n == Len(written.entries)
           w == EntryLength
           h == HeadLength
<1>4. sent = SectionOf(written) /\ n = Len(written.entries) /\ w = EntryLength /\ h = HeadLength
      /\ TypeInv /\ IsPlain(written)
  OBVIOUS
<1> HIDE DEF w, h, sent, n
<1>5. Len(sent) = h + n * w
  BY ONLY <1>4, PlainSent
<1>6. sent \in Seq(Byte)
  BY ONLY <1>4, PlainSent
<1> QED
  BY <1>1, <1>2, <1>3, <1>4, <1>5, <1>6

LEMMA BeginPatDamaged ==
  ASSUME TypeInv, IsPlain(written), kind = "PAT", PatState, BeginPat
  PROVE  PatState'
<1> DEFINE n == NumberOfPrograms(section)
           enough == Len(section) >= PatHeaderLength
<1>1. /\ pc = "start" /\ written' = written /\ section' = section /\ entries' = entries
      /\ entries = <<>> /\ kind' = kind
  BY DEF BeginPat, Begin, PatState, kind
<1>2. Len(entries') = 0 /\ Len(section) \in Nat /\ section \in Seq(Byte) /\ HeadLength = 5
      /\ EntryLength = 4 /\ Len(written.entries) \in Nat
  BY <1>1, PatFacts
<1>3. CASE enough
  <2>1. 5 <= Len(section) /\ ~(Len(section) < PatHeaderLength)
    BY <1>2, <1>3 DEF PatHeaderLength
  <2>2. pc' = "entries" /\ reader' = PatReader(section) /\ left' = n
    BY <1>3, <2>1 DEF BeginPat, Begin
  <2>3. /\ IsBehind(PatReader(section), Rest, 0) /\ Len(Rest) \in Nat
        /\ n = Len(Rest) \div 4
    BY <1>2, <2>1, PatReaderOfRest
  <2>a. Rest' = Rest
    BY <1>1 DEF Rest, HeadLength
  <2>b. n' = n
    BY <1>1 DEF NumberOfPrograms
  <2>c. n \in Nat
    BY ONLY <2>3
  <2> HIDE DEF n
  <2>d. 0 \in 0 .. n /\ n - 0 = n /\ 0 * 4 = 0
    BY ONLY <2>c
  <2>4. n \in Nat /\ 0 \in 0 .. n /\ n - 0 = n /\ 0 * 4 = 0 /\ Rest' = Rest /\ n' = n
    BY ONLY <2>a, <2>b, <2>c, <2>d
  <2>5. ProgramsRead(0)'
    <3>1. IsBehind(reader', Rest', 0 * 4)
      BY <2>2, <2>3, <2>4
    <3>2. left' = n' - 0 /\ Len(entries') <= 0
      BY <1>2, <2>2, <2>4
    <3>3. \A i \in 1 .. Len(written.entries)' : ~(i <= 0)
      BY <1>1, <1>2
    <3> QED
      BY <3>1, <3>2, <3>3 DEF ProgramsRead, n
  <2> QED
    BY <1>1, <2>1, <2>2, <2>4, <2>5 DEF PatState, n
<1>4. CASE ~enough
  <2>1. pc' = "done" /\ ~(5 <= Len(section))
    BY <1>2, <1>4 DEF BeginPat, Begin, PatHeaderLength
  <2>2. \A i \in 1 .. Len(written.entries) : ~CanSurvive(i)'
    BY <1>1, <1>2, <2>1 DEF CanSurvive, IsUnharmed, HeadLength, kind
  <2> QED
    BY <1>1, <2>1, <2>2 DEF PatState
<1> QED
  BY <1>3, <1>4

\* Program k + 1 is read.
LEMMA ProgramSurvives ==
  ASSUME TypeInv, IsPlain(written), kind = "PAT", section \in Damages(SectionOf(written)),
         NEW k \in Nat, ProgramsRead(k), k * 4 + 4 <= Len(Rest), 5 <= Len(section),
         NEW program, program = ReadProgram(reader).entry,
         NEW with, with = WithProgram(entries, program),
         NEW i \in 1 .. Len(written.entries), i <= k + 1, CanSurvive(i)
  PROVE  written.entries[i].reads \in Range(with) \/ IsTakenOver(i)
<1> DEFINE n == Len(written.entries)
           wrote == written.entries[i].reads
           number == wrote.programNumber
           start == k * 4
<1>1. /\ IsPlainPat(written) /\ DOMAIN written.entries = 1 .. n /\ n \in Nat
      /\ EntryLength = 4 /\ HeadLength = 5 /\ section \in Seq(Byte) /\ Len(section) \in Nat
      /\ entries \in Seq(Entries) /\ SectionOf(written) \in Seq(Byte)
      /\ Len(SectionOf(written)) = 5 + n * 4
  BY PatFacts
<1>2. wrote \in Programs /\ written.entries[i].bytes = ProgramBytes(wrote)
  BY <1>1 DEF IsPlainPat
<1>3. IsBehind(reader, Rest, start) /\ start + 4 <= Len(Rest) /\ start \in Nat
  BY DEF ProgramsRead
<1>4. program.programNumber = Rest[start + 1] * 256 + Rest[start + 2]
  BY <1>3, ProgramNumberRead
<1>5. program \in Entries
  BY ProgramRead, EntriesAre DEF TypeInv, ReaderInv
<1>6. /\ program \in Range(with)
      /\ \A e \in Range(entries) : e.programNumber # program.programNumber => e \in Range(with)
  BY <1>1, <1>5, ProgramsKept
<1>7. /\ Len(Rest) = Len(section) - 5 /\ Len(Rest) \in Nat
      /\ \A x \in 1 .. Len(Rest) : Rest[x] = section[5 + x]
  BY <1>1, RestIs
<1> HIDE DEF start
<1>8. CASE i = k + 1
  <2> DEFINE w == EntryLength
  <2>a. w = 4
    BY <1>1
  <2>b. \A m \in 1 .. w : Rest[(i - 1) * w + m] = written.entries[i].bytes[m]
    BY DEF CanSurvive, IsUnharmed
  <2> HIDE DEF w
  <2>1. \A m \in 1 .. 4 : Rest[(i - 1) * 4 + m] = ProgramBytes(wrote)[m]
    BY ONLY <1>2, <2>a, <2>b
  <2>2. (i - 1) * 4 = start
    BY <1>8 DEF start
  <2>3. \A m \in 1 .. 4 : Rest[start + m] = ProgramBytes(wrote)[m]
    BY ONLY <2>1, <2>2
  <2>c. wrote \in Programs
    BY <1>2
  <2> HIDE DEF wrote
  <2>d. IsBehind(ReadProgram(reader).reader, Rest, start + 4) /\ ReadProgram(reader).entry = wrote
    BY ONLY <1>3, <2>3, <2>c, ProgramGiven
  <2>4. program = wrote
    BY ONLY <2>d, program = ReadProgram(reader).entry
  <2> QED
    BY <1>6, <2>4 DEF wrote
<1>9. CASE i # k + 1
  <2>1. i <= k
    BY <1>1, <1>9
  <2>2. wrote \in Range(entries) \/ IsTakenOver(i)
    BY <2>1 DEF ProgramsRead, Survives
  <2>3. CASE program.programNumber # number
    BY <1>6, <2>2, <2>3
  <2>4. CASE program.programNumber = number /\ k + 1 <= n
    <3> DEFINE j == k + 1
    <3>1. j \in 1 .. n /\ i < j /\ j * 4 <= Len(Rest) /\ (j - 1) * 4 = start
      BY <1>1, <1>3, <1>7, <2>1, <2>4 DEF start
    <3> HIDE DEF j
    <3>2. Rest[(j - 1) * 4 + 1] * 256 + Rest[(j - 1) * 4 + 2] = number
      BY <1>4, <2>4, <3>1
    <3> QED
      BY <3>1, <3>2, NumberIsTaken
  <2>5. CASE program.programNumber = number /\ ~(k + 1 <= n)
    <3> DEFINE u == start + 1
               v == start + 2
    <3>1. /\ u \in 1 .. Len(Rest) /\ v \in 1 .. Len(Rest)
          /\ 5 + u \in Nat /\ 5 + u > 5 + n * 4 /\ 5 + u <= Len(section)
          /\ 5 + v \in Nat /\ 5 + v > 5 + n * 4 /\ 5 + v <= Len(section)
          /\ ~(Len(section) <= 5 + n * 4)
      BY ONLY <1>1, <1>3, <1>7, <2>5, k \in Nat DEF start
    <3> HIDE DEF u, v
    <3>2. section[5 + u] = 255 /\ section[5 + v] = 255
      BY <1>1, <3>1, ForeignIsStuffing
    <3>3. Rest[u] = 255 /\ Rest[v] = 255
      BY <1>7, <3>1, <3>2
    <3>4. program.programNumber = Rest[u] * 256 + Rest[v]
      BY <1>4 DEF u, v
    <3>5. 255 * 256 + 255 = 65535
      OBVIOUS
    <3>6. number # 65535
      BY <1>1, <3>1 DEF CanSurvive
    <3> QED
      BY <2>5, <3>3, <3>4, <3>5, <3>6
  <2> QED
    BY <2>3, <2>4, <2>5
<1> QED
  BY <1>8, <1>9

LEMMA SectionKept ==
  ASSUME written' = written, section' = section
  PROVE  /\ Rest' = Rest /\ kind' = kind /\ HeadLength' = HeadLength /\ EntryLength' = EntryLength
         /\ Len(written.entries)' = Len(written.entries)
         /\ (\A i : CanSurvive(i)' <=> CanSurvive(i))
         /\ \A i : IsTakenOver(i)' <=> IsTakenOver(i)
<1>1. kind' = kind
  BY DEF kind
<1>2. HeadLength' = HeadLength /\ EntryLength' = EntryLength
  BY <1>1 DEF HeadLength, EntryLength
<1>3. Rest' = Rest
  BY <1>2 DEF Rest
<1>4. \A i : CanSurvive(i)' <=> CanSurvive(i)
  BY <1>2, <1>3 DEF CanSurvive, IsUnharmed
<1>5. \A i : IsTakenOver(i)' <=> IsTakenOver(i)
  BY <1>1 DEF IsTakenOver, EntryStart, EntryEnd
<1> QED
  BY <1>1, <1>2, <1>3, <1>4, <1>5

LEMMA ReadPatDamaged ==
  ASSUME TypeInv, IsPlain(written), kind = "PAT", section \in Damages(SectionOf(written)),
         PatState, ReadPatProgram
  PROVE  PatState'
<1> DEFINE n == NumberOfPrograms(section)
           turn == ReadProgram(reader)
           with == WithProgram(entries, turn.entry)
<1>1. pc = "entries" /\ left > 0 /\ written' = written /\ section' = section
  BY DEF ReadPatProgram, MoreEntries
<1>2. 5 <= Len(section)
  BY <1>1 DEF PatState
<1>3. PICK k \in 0 .. n : ProgramsRead(k)
  BY <1>1 DEF PatState
<1>4. IsBehind(reader, Rest, k * 4) /\ left = n - k /\ Len(entries) <= k
  BY <1>3 DEF ProgramsRead
<1>5. section \in Seq(Byte) /\ entries \in Seq(Entries) /\ Len(written.entries) \in Nat
  BY PatFacts
<1>6. Len(Rest) \in Nat /\ n = Len(Rest) \div 4
  BY <1>2, <1>5, PatReaderOfRest
<1>7. reader.error = FALSE /\ IsReader(reader)
  BY <1>4 DEF IsBehind
<1> HIDE DEF n
<1>8. n \in Nat /\ k \in Nat /\ k < n /\ k + 1 \in 0 .. n /\ k * 4 + 4 <= Len(Rest)
      /\ (k + 1) * 4 = k * 4 + 4 /\ left - 1 = n - (k + 1)
  BY ONLY <1>1, <1>4, <1>6, k \in 0 .. n
<1>9. turn.entry \in Entries
  BY <1>7, ProgramRead, EntriesAre
<1>10. IsBehind(turn.reader, Rest, k * 4 + 4)
  BY <1>4, <1>8, ProgramNumberRead
<1>11. turn.reader.error = FALSE
  BY <1>10 DEF IsBehind
<1>12. /\ reader' = turn.reader /\ left' = left - 1 /\ pc' = pc /\ entries' = with
  BY <1>11 DEF ReadPatProgram
<1>13. Len(with) \in Nat /\ Len(entries) \in Nat /\ Len(with) <= Len(entries) + 1
  BY <1>5, <1>9, ProgramsKept
<1>14. ASSUME NEW i \in 1 .. Len(written.entries), i <= k + 1, CanSurvive(i)
       PROVE  written.entries[i].reads \in Range(with) \/ IsTakenOver(i)
  BY <1>2, <1>3, <1>8, <1>14, ProgramSurvives
<1>15. n' = n
  BY <1>1 DEF n, NumberOfPrograms
<1> HIDE DEF turn, with
<1>16. /\ Rest' = Rest /\ Len(written.entries)' = Len(written.entries)
       /\ (\A i : CanSurvive(i)' <=> CanSurvive(i))
       /\ \A i : IsTakenOver(i)' <=> IsTakenOver(i)
  BY <1>1, SectionKept
<1>17. Len(with) <= k + 1
  BY ONLY <1>4, <1>8, <1>13
<1>18. ProgramsRead(k + 1)'
  <2> DEFINE j == k + 1
  <2>1. IsBehind(reader', Rest', j * 4)
    <3>1. j * 4 = k * 4 + 4
      BY <1>8
    <3> QED
      BY <1>10, <1>12, <1>16, <3>1
  <2>2. left' = n' - j
    BY <1>8, <1>12, <1>15
  <2>3. Len(entries') <= j
    BY <1>12, <1>17
  <2>4. ASSUME NEW i \in 1 .. Len(written.entries'), i <= j, CanSurvive(i)'
        PROVE  Survives(i)'
    <3>1. i \in 1 .. Len(written.entries) /\ CanSurvive(i)
      BY <1>16, <2>4
    <3>2. written.entries[i].reads \in Range(with) \/ IsTakenOver(i)
      BY <1>14, <2>4, <3>1
    <3> QED
      BY <1>1, <1>12, <1>16, <3>2 DEF Survives
  <2>5. j' = j
    OBVIOUS
  <2> HIDE DEF j
  <2>6. ProgramsRead(j)'
    BY <2>1, <2>2, <2>3, <2>4, <2>5 DEF ProgramsRead, n
  <2> QED
    BY <2>6 DEF j
<1>19. \E j \in 0 .. n' : ProgramsRead(j)'
  BY <1>8, <1>15, <1>18
<1> QED
  BY <1>1, <1>2, <1>12, <1>19 DEF PatState, n

LEMMA EndPatDamaged ==
  ASSUME TypeInv, IsPlain(written), kind = "PAT", PatState, EndEntries
  PROVE  PatState'
<1> DEFINE n == NumberOfPrograms(section)
<1>1. /\ pc = "entries" /\ ~(left > 0) /\ pc' = "done" /\ written' = written /\ section' = section
      /\ entries' = entries
  BY DEF EndEntries, MoreEntries
<1>2. 5 <= Len(section)
  BY <1>1 DEF PatState
<1>3. PICK k \in 0 .. n : ProgramsRead(k)
  BY <1>1 DEF PatState
<1>4. /\ left = n - k /\ Len(entries) <= k
      /\ \A i \in 1 .. Len(written.entries) : i <= k /\ CanSurvive(i) => Survives(i)
  BY <1>3 DEF ProgramsRead
<1>5. section \in Seq(Byte) /\ Len(written.entries) \in Nat /\ EntryLength = 4
  BY PatFacts
<1>6. Len(Rest) \in Nat /\ n = Len(Rest) \div 4
  BY <1>2, <1>5, PatReaderOfRest
<1>7. n' = n
  BY <1>1 DEF NumberOfPrograms
<1> HIDE DEF n
<1>8. k = n /\ n \in Nat
  BY ONLY <1>1, <1>4, <1>6, k \in 0 .. n
<1>9. /\ Len(written.entries)' = Len(written.entries)
      /\ (\A i : CanSurvive(i)' <=> CanSurvive(i))
      /\ \A i : IsTakenOver(i)' <=> IsTakenOver(i)
  BY <1>1, SectionKept
<1>10. ASSUME NEW i \in 1 .. Len(written.entries'), CanSurvive(i)'
       PROVE  Survives(i)'
  <2>1. i \in 1 .. Len(written.entries) /\ CanSurvive(i)
    BY <1>9, <1>10
  <2>2. i * 4 <= Len(Rest)
    BY <1>5, <2>1 DEF CanSurvive, IsUnharmed
  <2>3. i <= k
    BY ONLY <1>5, <1>6, <1>8, <2>1, <2>2
  <2>4. Survives(i)
    BY <1>4, <2>1, <2>3
  <2> QED
    BY <1>1, <1>9, <2>4 DEF Survives
<1>11. Len(entries') <= n'
  BY <1>1, <1>4, <1>7, <1>8
<1> QED
  BY <1>1, <1>10, <1>11 DEF PatState, n

LEMMA PatStep ==
  TypeInv /\ PatInv /\ section \in Damages(SectionOf(written)) /\ [Next]_vars => PatInv'
<1> SUFFICES ASSUME TypeInv, PatInv, section \in Damages(SectionOf(written)), [Next]_vars,
                    kind' = "PAT", IsPlain(written)'
             PROVE  PatState'
  BY DEF PatInv
<1>1. written' = written /\ section' = section
  BY DEF Next, Turn, Return, vars, Refuse, BeginPat, BeginPmt, BeginSdt, BeginVct, Begin,
         ReadProgramDescriptor, BeginStreams, ReadDescriptor, EndDescriptors, ReadPatProgram,
         ReadPmtStream, ReadSdtService, ReadVctChannel, EndEntries
<1>2. kind = "PAT" /\ IsPlain(written)
  BY <1>1 DEF kind
<1>3. PatState
  BY <1>2 DEF PatInv
<1>4. CASE Refuse
  BY <1>3, <1>4 DEF Refuse, PatState
<1>5. CASE BeginPat
  BY <1>2, <1>3, <1>5, BeginPatDamaged
<1>6. CASE BeginPmt \/ BeginSdt \/ BeginVct \/ ReadPmtStream \/ ReadSdtService \/ ReadVctChannel
  BY <1>2, <1>6 DEF BeginPmt, BeginSdt, BeginVct, ReadPmtStream, ReadSdtService, ReadVctChannel
<1>7. CASE ReadProgramDescriptor \/ BeginStreams \/ ReadDescriptor \/ EndDescriptors
  BY <1>3, <1>7 DEF ReadProgramDescriptor, BeginStreams, ReadDescriptor, EndDescriptors, PatState
<1>8. CASE ReadPatProgram
  BY <1>2, <1>3, <1>8, ReadPatDamaged
<1>9. CASE EndEntries
  BY <1>2, <1>3, <1>9, EndPatDamaged
<1>10. CASE UNCHANGED vars
  <2>1. pc' = pc /\ entries' = entries /\ reader' = reader /\ left' = left
    BY <1>10 DEF vars
  <2>2. /\ Rest' = Rest /\ Len(written.entries)' = Len(written.entries)
        /\ (\A i : CanSurvive(i)' <=> CanSurvive(i))
        /\ \A i : IsTakenOver(i)' <=> IsTakenOver(i)
    BY <1>1, SectionKept
  <2>3. \A i : Survives(i)' <=> Survives(i)
    BY <1>1, <2>1, <2>2 DEF Survives
  <2>4. NumberOfPrograms(section)' = NumberOfPrograms(section)
    BY <1>1 DEF NumberOfPrograms
  <2>5. ASSUME NEW k, ProgramsRead(k) PROVE ProgramsRead(k)'
    BY <1>1, <2>1, <2>2, <2>3, <2>4, <2>5 DEF ProgramsRead
  <2> QED
    BY <1>1, <1>3, <2>1, <2>2, <2>3, <2>4, <2>5 DEF PatState
<1> QED
  BY <1>4, <1>5, <1>6, <1>7, <1>8, <1>9, <1>10 DEF Next, Turn, Return

-----------------------------------------------------------------------------
(* The streams of a damaged PMT *)

LEMMA StreamHeaderRead ==
  ASSUME NEW r, NEW bytes, NEW i, IsBehind(r, bytes, i), i + 5 <= Len(bytes)
  PROVE  /\ IsBehind(ReadStream(r).reader, bytes, i + 5)
         /\ ReadStream(r).descriptorsLength = (bytes[i + 4] % 16) * 256 + bytes[i + 5]
<1> DEFINE type == ReadUInt8(r)
           pid == ReadBits(SkipBits(type, 3), 13)
           length == ReadBits(SkipBits(pid, 4), 12)
<1>1. i \in Nat /\ Len(bytes) \in Nat
  BY BehindFields
<1>2. IsBehind(type, bytes, i + 1) /\ type.value = bytes[i + 1]
  <2>1. i + 1 <= Len(bytes)
    BY <1>1
  <2> QED
    BY ONLY <2>1, IsBehind(r, bytes, i), ByteGiven
<1> HIDE DEF type
<1>3. IsBehind(pid, bytes, i + 3)
  <2> DEFINE j == i + 1
  <2>1. j + 2 <= Len(bytes) /\ j + 2 = i + 3
    BY <1>1
  <2>2. IsBehind(type, bytes, j)
    BY <1>2
  <2> HIDE DEF j
  <2>3. 3 \in {3, 4} /\ 13 \in {12, 13} /\ 3 + 13 = 16
    OBVIOUS
  <2>4. /\ IsBehind(pid, bytes, j + 2)
        /\ pid.value = (bytes[j + 1] % (IF 3 = 3 THEN 32 ELSE 16)) * 256 + bytes[j + 2]
    BY ONLY <2>1, <2>2, <2>3, BitsGiven
  <2> QED
    BY ONLY <2>1, <2>4
<1> HIDE DEF pid
<1>4. IsBehind(length, bytes, i + 5) /\ length.value = (bytes[i + 4] % 16) * 256 + bytes[i + 5]
  <2> DEFINE j == i + 3
  <2>1. j + 2 <= Len(bytes) /\ j + 2 = i + 5 /\ j + 1 = i + 4
    BY <1>1
  <2>2. IsBehind(pid, bytes, j)
    BY <1>3
  <2> HIDE DEF j
  <2>3. 4 \in {3, 4} /\ 12 \in {12, 13} /\ 4 + 12 = 16
    OBVIOUS
  <2>4. /\ IsBehind(length, bytes, j + 2)
        /\ length.value = (bytes[j + 1] % (IF 4 = 3 THEN 32 ELSE 16)) * 256 + bytes[j + 2]
    BY ONLY <2>1, <2>2, <2>3, BitsGiven
  <2> QED
    BY ONLY <2>1, <2>4
<1> HIDE DEF length
<1>5. ReadStream(r) = [reader |-> length, descriptorsLength |-> length.value,
                       entry |-> [pid |-> pid.value, streamType |-> type.value, descriptors |-> <<>>]]
  BY Zenon DEF ReadStream, type, pid, length
<1>6. ReadStream(r).reader = length /\ ReadStream(r).descriptorsLength = length.value
  BY ONLY <1>5
<1> QED
  BY ONLY <1>4, <1>6

LEMMA PmtHeadRead ==
  ASSUME TypeInv, IsPlain(written), kind = "PMT", HeadIntact
  PROVE  /\ section \in Seq(Byte) /\ HeadLength = 9 /\ 9 <= Len(section) /\ Rest \in Seq(Byte)
         /\ Len(Rest) \in Nat /\ Len(Rest) = Len(section) - 9
         /\ ProgramInfoReader(section) = Make(<<>>) /\ IsBehind(StreamsReader(section), Rest, 0)
<1> DEFINE s == section
           b == Rest
<1>1. HeadLength = 9 /\ IsPlainPmt(written)
  BY PlainEntries DEF HeadLength
<1>2. s \in Seq(Byte) /\ Len(s) \in Nat
  BY LenProperties DEF TypeInv, ReaderInv
<1>3. 9 <= Len(s) /\ s[8] = written.head[8] /\ s[9] = written.head[9]
  BY <1>1 DEF HeadIntact
<1>4. written.head[8] = 240 /\ written.head[9] = 0
  BY <1>1 DEF IsPlainPmt, CommonSectionData, PmtHeaderBytes
<1>5. b \in Seq(Byte) /\ Len(b) = Len(s) - 9 /\ Len(b) \in Nat
  BY <1>1, <1>2, <1>3, RestIs
<1>6. b = SubSeq(s, 9 + 1, Len(s))
  BY <1>1 DEF Rest
<1> HIDE DEF s, b
<1>7. programInfoLength(s) = 0
  <2>1. 7 + 2 <= Len(s) /\ 7 \in Nat /\ 12 \in {12, 13}
    BY <1>2, <1>3
  <2>2. TwoByteField(s, 7, 12) = (s[7 + 1] % (IF 12 = 13 THEN 32 ELSE 16)) * 256 + s[7 + 2]
    BY <1>2, <2>1, TwoByteFieldRead
  <2>3. TwoByteField(s, 7, 12) = (s[8] % 16) * 256 + s[9]
    BY <2>2
  <2>4. (240 % 16) * 256 + 0 = 0
    OBVIOUS
  <2> QED
    BY <1>3, <1>4, <2>3, <2>4 DEF programInfoLength
<1>8. ProgramInfoReader(s) = Make(<<>>)
  BY <1>7 DEF ProgramInfoReader
<1>9. EsDataStart(s) = 9
  BY <1>7 DEF EsDataStart, PmtHeaderLength
<1>10. IsBehind(StreamsReader(s), b, 0)
  <2>1. CASE 9 >= Len(s)
    <3>1. Len(b) = 0
      BY ONLY <1>2, <1>5, <2>1
    <3>2. b = <<>>
      BY <1>5, <3>1, EmptySeq
    <3>3. StreamsReader(s) = Make(b)
      BY <1>9, <2>1, <3>2 DEF StreamsReader
    <3> QED
      BY <1>5, <3>3, BehindNone
  <2>2. CASE ~(9 >= Len(s))
    <3>1. StreamsReader(s) = MakeWithBytes(b, Len(b))
      BY <1>5, <1>6, <1>9, <2>2 DEF StreamsReader
    <3> QED
      BY <1>5, <3>1, BehindNone
  <2> QED
    BY <2>1, <2>2
<1> QED
  BY <1>1, <1>2, <1>3, <1>5, <1>8, <1>10 DEF s, b

\* k streams of what the section has become have been read, each where it was written.
StreamsAreRead(k) ==
  /\ IsBehind(reader, Rest, k * 5)
  /\ Len(entries) <= k
  /\ \A i \in 1 .. Len(written.entries) :
        i <= k /\ IsUnharmed(i) => written.entries[i].reads \in Range(entries)

AreLinked(i) == \A j \in 1 .. i : IsLinked(j)

\* The streams that are found where they were written have been read.
LinkedSurvive ==
  \A i \in 1 .. Len(written.entries) :
    AreLinked(i) /\ IsUnharmed(i) => written.entries[i].reads \in Range(entries)

AllAreLinked == AreLinked(Len(written.entries)) /\ Len(Rest) = Len(written.entries) * 5

PmtState ==
  /\ pc = "start" => entries = <<>>
  /\ pc = "programDescriptors" => entries = <<>> /\ reader = Make(<<>>)
  /\ pc = "entries" => (\E k \in Nat : StreamsAreRead(k)) \/ (LinkedSurvive /\ ~AllAreLinked)
  /\ pc = "descriptors" => LinkedSurvive /\ ~AllAreLinked
  /\ pc = "done" => LinkedSurvive /\ (AllAreLinked => Len(entries) <= Len(written.entries))

PmtInv == kind = "PMT" /\ IsPlain(written) /\ HeadIntact => PmtState

LEMMA AddedKeeps ==
  ASSUME NEW S, entries \in Seq(S), kind = "PMT", NEW e, NEW with, with = Added(e)
  PROVE  /\ Range(entries) \subseteq Range(with) /\ e \in Range(with)
         /\ Len(entries) \in Nat /\ Len(with) \in Nat /\ Len(with) <= Len(entries) + 1
<1> DEFINE T == S \cup {e}
           l == Len(entries)
<1>1. entries \in Seq(T) /\ l \in Nat /\ DOMAIN entries = 1 .. l
  BY LenProperties
<1>2. CASE e \in Range(entries)
  <2>1. with = entries
    BY <1>2 DEF Added, WithStream
  <2> QED
    BY <1>1, <1>2, <2>1
<1>3. CASE e \notin Range(entries)
  <2>1. with = Append(entries, e)
    BY <1>3 DEF Added, WithStream
  <2>2. e \in T
    OBVIOUS
  <2> HIDE DEF T
  <2>3. /\ with \in Seq(T) /\ Len(with) = Len(entries) + 1
        /\ \A i \in 1 .. Len(entries) : with[i] = entries[i]
        /\ with[Len(entries) + 1] = e
    BY ONLY <1>1, <2>1, <2>2, AppendProperties
  <2>4. DOMAIN with = 1 .. l + 1 /\ Len(with) = l + 1 /\ l + 1 \in Nat /\ l + 1 \in 1 .. l + 1
    BY <1>1, <2>3, LenProperties
  <2>5. ASSUME NEW x \in Range(entries) PROVE x \in Range(with)
    <3>1. PICK i \in 1 .. l : x = entries[i]
      BY <1>1 DEF Range
    <3>2. i \in 1 .. l + 1 /\ with[i] = x
      BY <1>1, <2>3, <3>1
    <3> QED
      BY <2>4, <3>2 DEF Range
  <2>6. e \in Range(with)
    BY <2>3, <2>4 DEF Range
  <2>7. Len(with) \in Nat /\ Len(with) <= l + 1
    BY <1>1, <2>4
  <2> QED
    BY <1>1, <2>5, <2>6, <2>7
<1> QED
  BY <1>2, <1>3

LEMMA LinksKept ==
  ASSUME written' = written, section' = section
  PROVE  /\ Rest' = Rest /\ kind' = kind /\ Len(written.entries)' = Len(written.entries)
         /\ (\A i : IsUnharmed(i)' <=> IsUnharmed(i))
         /\ (\A i : AreLinked(i)' <=> AreLinked(i))
         /\ (AllAreLinked' <=> AllAreLinked) /\ (HeadIntact' <=> HeadIntact)
         /\ (Range(entries) \subseteq Range(entries)' => (LinkedSurvive => LinkedSurvive'))
<1>1. Rest' = Rest /\ kind' = kind /\ HeadLength' = HeadLength /\ EntryLength' = EntryLength
  BY SectionKept
<1>2. \A i : IsUnharmed(i)' <=> IsUnharmed(i)
  BY <1>1 DEF IsUnharmed
<1>3. \A i : AreLinked(i)' <=> AreLinked(i)
  <2>1. \A i : IsLinked(i)' <=> IsLinked(i)
    BY <1>1 DEF IsLinked
  <2> QED
    BY <2>1 DEF AreLinked
<1>4. AllAreLinked' <=> AllAreLinked
  <2>1. AreLinked(Len(written.entries))' <=> AreLinked(Len(written.entries))
    BY <1>1 DEF AreLinked, IsLinked
  <2> QED
    BY <1>1, <2>1 DEF AllAreLinked
<1>5. HeadIntact' <=> HeadIntact
  BY <1>1 DEF HeadIntact
<1>6. Range(entries) \subseteq Range(entries)' => (LinkedSurvive => LinkedSurvive')
  BY <1>2, <1>3 DEF LinkedSurvive
<1> QED
  BY <1>1, <1>2, <1>3, <1>4, <1>5, <1>6

LEMMA BeginStreamsDamaged ==
  ASSUME TypeInv, IsPlain(written), kind = "PMT", HeadIntact, PmtState,
         BeginStreams \/ ReadProgramDescriptor
  PROVE  PmtState'
<1>1. pc = "programDescriptors"
  BY DEF BeginStreams, ReadProgramDescriptor
<1>2. ~MoreDescriptors
  <2>1. DescriptorReader = reader /\ reader = Make(<<>>)
    BY <1>1 DEF DescriptorReader, PmtState
  <2>2. RemainingBytes(DescriptorReader) = 0
    BY <2>1, NothingRemains
  <2> QED
    BY <2>2 DEF MoreDescriptors
<1>3. BeginStreams
  BY <1>2 DEF ReadProgramDescriptor
<1>4. /\ reader' = StreamsReader(section) /\ pc' = "entries" /\ entries' = entries
      /\ written' = written /\ section' = section /\ entries = <<>>
  BY <1>1, <1>3 DEF BeginStreams, PmtState
<1>5. IsBehind(StreamsReader(section), Rest, 0) /\ Len(written.entries) \in Nat
  BY PmtHeadRead, PlainEntries
<1>6. Rest' = Rest /\ Len(written.entries)' = Len(written.entries)
  BY <1>4, LinksKept
<1>7. StreamsAreRead(0)'
  <2>1. 0 * 5 = 0 /\ Len(entries') <= 0
    BY <1>4
  <2>2. IsBehind(reader', Rest', 0 * 5)
    BY <1>4, <1>5, <1>6, <2>1
  <2>3. \A i \in 1 .. Len(written.entries)' : ~(i <= 0)
    BY <1>5, <1>6
  <2> QED
    BY <2>1, <2>2, <2>3 DEF StreamsAreRead
<1> QED
  BY <1>4, <1>7 DEF PmtState

LEMMA DescriptorsDamaged ==
  ASSUME TypeInv, IsPlain(written), kind = "PMT", HeadIntact, PmtState,
         ReadDescriptor \/ EndDescriptors
  PROVE  PmtState'
<1>1. pc = "descriptors" /\ written' = written /\ section' = section
  BY DEF ReadDescriptor, EndDescriptors
<1>2. LinkedSurvive /\ ~AllAreLinked /\ entries \in Seq(Entries)
  BY <1>1 DEF PmtState, TypeInv, FieldsOK
<1>3. pc' \in {"descriptors", "entries"} /\ Range(entries) \subseteq Range(entries')
  <2>1. ASSUME NEW e, Complete(e) PROVE pc' = "entries" /\ Range(entries) \subseteq Range(entries')
    <3>1. entries' = Added(e) /\ pc' = "entries"
      BY <2>1 DEF Complete
    <3> QED
      BY <1>2, <3>1, AddedKeeps
  <2>2. CASE EndDescriptors
    BY <2>1, <2>2 DEF EndDescriptors
  <2>3. CASE ReadDescriptor
    <3> DEFINE turn == DescriptorTurn(DescriptorReader)
               e == WithDescriptor(entry[1], turn.made)
    <3>1. IF turn.truncated THEN Complete(e) ELSE entries' = entries /\ pc' = pc
      BY <2>3 DEF ReadDescriptor
    <3> HIDE DEF turn, e
    <3> QED
      BY <1>1, <2>1, <3>1
  <2> QED
    BY <2>2, <2>3
<1>4. LinkedSurvive' /\ ~AllAreLinked'
  BY <1>1, <1>2, <1>3, LinksKept
<1> QED
  BY <1>3, <1>4 DEF PmtState

\* Behind a stream whose descriptors have another length nothing is found any more.
LEMMA UnlinkedStream ==
  ASSUME Len(written.entries) \in Nat, NEW k \in Nat, StreamsAreRead(k), ~IsLinked(k + 1),
         (k + 1) * 5 <= Len(Rest), Len(Rest) \in Nat
  PROVE  LinkedSurvive /\ ~AllAreLinked
<1> DEFINE j == k + 1
           n == Len(written.entries)
<1>1. j \in Nat \ {0} /\ ~IsLinked(j) /\ j * 5 <= Len(Rest) /\ n \in Nat
  OBVIOUS
<1>2. ASSUME NEW i \in Nat, ~(i <= k) PROVE ~AreLinked(i)
  <2>1. j \in 1 .. i
    BY ONLY k \in Nat, i \in Nat, ~(i <= k) DEF j
  <2> HIDE DEF j
  <2> QED
    BY <1>1, <2>1 DEF AreLinked
<1>3. LinkedSurvive
  <2> SUFFICES ASSUME NEW i \in 1 .. n, AreLinked(i), IsUnharmed(i)
               PROVE  written.entries[i].reads \in Range(entries)
    BY DEF LinkedSurvive
  <2>1. i \in Nat
    BY <1>1
  <2>2. i <= k
    BY <1>2, <2>1
  <2> QED
    BY <2>2 DEF StreamsAreRead
<1>4. ~AllAreLinked
  <2> SUFFICES ASSUME AreLinked(n), Len(Rest) = n * 5 PROVE FALSE
    BY DEF AllAreLinked
  <2>1. n <= k
    BY <1>1, <1>2
  <2> HIDE DEF n
  <2> QED
    BY ONLY <1>1, <2>1, k \in Nat, Len(Rest) = n * 5 DEF j
<1> QED
  BY <1>3, <1>4

LEMMA BytesLeft ==
  ASSUME NEW r, NEW bytes, NEW i, IsBehind(r, bytes, i)
  PROVE  RemainingBytes(r) = Len(bytes) - i /\ i \in Nat /\ Len(bytes) \in Nat
<1>1. /\ i \in Nat /\ Len(bytes) \in Nat /\ i <= Len(bytes) /\ Length(r) = Len(bytes)
  BY BehindFields
<1>2. r.bitOffset = 0 /\ r.byteOffset = i
  BY DEF IsBehind
<1>3. RemainingBytes(r) = IF i < Len(bytes) THEN Len(bytes) - i ELSE 0
  <2>1. i + 0 = i
    BY <1>1
  <2> QED
    BY <1>1, <1>2, <2>1 DEF RemainingBytes
<1> QED
  BY ONLY <1>1, <1>3

LEMMA AnyStreamTurn ==
  ASSUME kind = "PMT", NEW S, entries \in Seq(S), ReadPmtStream
  PROVE  pc' \in {"entries", "descriptors", "done"} /\ Range(entries) \subseteq Range(entries')
<1> DEFINE turn == ReadStream(reader)
<1>1. CASE turn.reader.error
  BY <1>1 DEF ReadPmtStream, Break
<1>2. CASE ~turn.reader.error
  <2>1. IF turn.descriptorsLength = 0 THEN Complete(turn.entry)
        ELSE pc' = "descriptors" /\ entries' = entries
    BY <1>2 DEF ReadPmtStream, Descend
  <2> HIDE DEF turn
  <2>2. CASE turn.descriptorsLength = 0
    <3>1. pc' = "entries" /\ entries' = Added(turn.entry)
      BY <2>1, <2>2 DEF Complete
    <3>2. Range(entries) \subseteq Range(entries')
      BY <3>1, AddedKeeps
    <3> QED
      BY <3>1, <3>2
  <2> QED
    BY <2>1, <2>2
<1> QED
  BY <1>1, <1>2

\* Stream k + 1 has no descriptors still, and is read.
LEMMA LinkedStreamRead ==
  ASSUME TypeInv, IsPlain(written), kind = "PMT", Rest \in Seq(Byte), NEW k \in Nat,
         StreamsAreRead(k), k * 5 + 5 <= Len(Rest), IsLinked(k + 1), ReadPmtStream
  PROVE  pc' = "entries" /\ StreamsAreRead(k + 1)'
<1> DEFINE n == Len(written.entries)
           turn == ReadStream(reader)
           with == Added(turn.entry)
           start == k * 5
           j == k + 1
<1>1. written' = written /\ section' = section
  BY DEF ReadPmtStream
<1>2. n \in Nat /\ DOMAIN written.entries = 1 .. n /\ IsPlainPmt(written) /\ EntryLength = 5
  BY PlainEntries DEF EntryLength
<1>3. /\ start \in Nat /\ start + 5 <= Len(Rest) /\ j * 5 = start + 5 /\ (j - 1) * 5 = start
      /\ j \in Nat
  OBVIOUS
<1>4. /\ IsBehind(reader, Rest, start) /\ Len(entries) <= k
      /\ \A i \in 1 .. n : i <= k /\ IsUnharmed(i) => written.entries[i].reads \in Range(entries)
  BY DEF StreamsAreRead
<1>5. Rest[start + 4] = 240 /\ Rest[start + 5] = 0
  <2>1. IsLinked(j)
    OBVIOUS
  <2>2. Rest[(j - 1) * 5 + 4] = 240 /\ Rest[(j - 1) * 5 + 5] = 0
    BY <2>1 DEF IsLinked
  <2> HIDE DEF j, start
  <2> QED
    BY ONLY <1>3, <2>2
<1> HIDE DEF start
<1>6. /\ IsBehind(turn.reader, Rest, start + 5)
      /\ turn.descriptorsLength = (Rest[start + 4] % 16) * 256 + Rest[start + 5]
  BY <1>3, <1>4, StreamHeaderRead
<1>7. turn.descriptorsLength = 0 /\ turn.reader.error = FALSE
  <2>1. (240 % 16) * 256 + 0 = 0
    OBVIOUS
  <2>2. turn.reader.error = FALSE
    BY <1>6 DEF IsBehind
  <2> HIDE DEF turn
  <2> QED
    BY ONLY <1>5, <1>6, <2>1, <2>2
<1>8. /\ reader' = AfterSubReader(turn.reader, 0) /\ pc' = "entries" /\ entries' = with
  BY <1>7 DEF ReadPmtStream, Descend, Complete
<1>9. IsBehind(reader', Rest, start + 5)
  BY <1>6, <1>8, SkipNothing
<1>10. entries \in Seq(Entries)
  BY DEF TypeInv, FieldsOK
<1>11. /\ Range(entries) \subseteq Range(with) /\ turn.entry \in Range(with)
       /\ Len(entries) \in Nat /\ Len(with) \in Nat /\ Len(with) <= Len(entries) + 1
  BY <1>10, AddedKeeps
<1>12. ASSUME NEW i \in 1 .. n, i <= j, IsUnharmed(i)
       PROVE  written.entries[i].reads \in Range(with)
  <2>1. CASE i <= k
    BY <1>4, <1>11, <1>12, <2>1
  <2>2. CASE ~(i <= k)
    <3>1. i = j
      BY ONLY <1>2, <1>12, <2>2, k \in Nat DEF j
    <3> DEFINE es == written.entries[i].reads
               w == EntryLength
    <3>2. es \in BareStreams /\ written.entries[i].bytes = StreamBytes(es)
      BY <1>2 DEF IsPlainPmt
    <3>3. w = 5
      BY <1>2
    <3>4. \A m \in 1 .. w : Rest[(i - 1) * w + m] = written.entries[i].bytes[m]
      BY <1>12 DEF IsUnharmed
    <3>5. (i - 1) * 5 = start
      BY <1>3, <3>1
    <3> HIDE DEF es, w, j
    <3>6. \A m \in 1 .. 5 : Rest[start + m] = StreamBytes(es)[m]
      BY ONLY <3>2, <3>3, <3>4, <3>5
    <3>b. IsBehind(reader, Rest, start) /\ start + 5 <= Len(Rest) /\ es \in BareStreams
      BY <1>3, <1>4, <3>2
    <3>7. /\ IsBehind(ReadStream(reader).reader, Rest, start + 5)
          /\ ReadStream(reader).entry = es /\ ReadStream(reader).descriptorsLength = 0
      BY ONLY <3>b, <3>6, StreamGiven
    <3>8. turn.entry = es
      BY <3>7
    <3> QED
      BY <1>11, <3>8 DEF es
  <2> QED
    BY <2>1, <2>2
<1> HIDE DEF turn, with
<1>13. Rest' = Rest /\ Len(written.entries)' = n /\ (\A i : IsUnharmed(i)' <=> IsUnharmed(i))
  BY <1>1, LinksKept
<1>14. Len(with) <= j
  BY ONLY <1>4, <1>11, k \in Nat DEF j
<1>15. StreamsAreRead(j)'
  <2>1. j' = j
    OBVIOUS
  <2>2. IsBehind(reader', Rest', j * 5)
    BY <1>3, <1>9, <1>13
  <2> HIDE DEF j
  <2>3. ASSUME NEW i \in 1 .. Len(written.entries'), i <= j, IsUnharmed(i)'
        PROVE  written'.entries[i].reads \in Range(entries')
    BY <1>1, <1>8, <1>12, <1>13, <2>3
  <2> QED
    BY <1>1, <1>8, <1>14, <2>1, <2>2, <2>3 DEF StreamsAreRead
<1> QED
  BY <1>8, <1>15

LEMMA ReadPmtDamaged ==
  ASSUME TypeInv, IsPlain(written), kind = "PMT", HeadIntact, PmtState, ReadPmtStream
  PROVE  PmtState'
<1>1. pc = "entries" /\ RemainingBytes(reader) >= 5 /\ written' = written /\ section' = section
  BY DEF ReadPmtStream, MoreEntries, ELEMENTARY_STREAM_BYTE_LENGTH
<1>2. Rest \in Seq(Byte) /\ Len(Rest) \in Nat /\ Len(written.entries) \in Nat
  BY PmtHeadRead, PlainEntries
<1>3. ASSUME LinkedSurvive, ~AllAreLinked PROVE PmtState'
  <2>1. entries \in Seq(Entries)
    BY DEF TypeInv, FieldsOK
  <2>2. pc' \in {"entries", "descriptors", "done"} /\ Range(entries) \subseteq Range(entries')
    BY <2>1, AnyStreamTurn
  <2>3. LinkedSurvive' /\ ~AllAreLinked'
    BY <1>1, <1>3, <2>2, LinksKept
  <2> QED
    BY <2>2, <2>3 DEF PmtState
<1>4. ASSUME NEW k \in Nat, StreamsAreRead(k) PROVE PmtState'
  <2>1. k * 5 + 5 <= Len(Rest) /\ (k + 1) * 5 = k * 5 + 5
    <3> DEFINE i == k * 5
    <3>1. IsBehind(reader, Rest, i)
      BY <1>4 DEF StreamsAreRead
    <3> HIDE DEF i
    <3>2. RemainingBytes(reader) = Len(Rest) - i /\ i \in Nat /\ Len(Rest) \in Nat
      BY ONLY <3>1, BytesLeft
    <3>3. i + 5 <= Len(Rest)
      BY ONLY <1>1, <3>2
    <3> QED
      BY <3>3 DEF i
  <2>2. CASE IsLinked(k + 1)
    <3>1. pc' = "entries" /\ StreamsAreRead(k + 1)'
      BY <1>2, <1>4, <2>1, <2>2, LinkedStreamRead
    <3> QED
      BY <3>1 DEF PmtState
  <2>3. CASE ~IsLinked(k + 1)
    BY <1>2, <1>3, <1>4, <2>1, <2>3, UnlinkedStream
  <2> QED
    BY <2>2, <2>3
<1> QED
  BY <1>1, <1>3, <1>4 DEF PmtState

LEMMA EndPmtDamaged ==
  ASSUME TypeInv, IsPlain(written), kind = "PMT", HeadIntact, PmtState, EndEntries
  PROVE  PmtState'
<1> DEFINE n == Len(written.entries)
<1>1. /\ pc = "entries" /\ ~(RemainingBytes(reader) >= 5) /\ pc' = "done"
      /\ written' = written /\ section' = section /\ entries' = entries
  BY DEF EndEntries, MoreEntries, ELEMENTARY_STREAM_BYTE_LENGTH
<1>2. n \in Nat /\ EntryLength = 5
  BY PlainEntries DEF EntryLength
<1>3. LinkedSurvive /\ (AllAreLinked => Len(entries) <= n)
  <2>1. CASE LinkedSurvive /\ ~AllAreLinked
    BY <2>1
  <2>2. ASSUME NEW k \in Nat, StreamsAreRead(k)
        PROVE  LinkedSurvive /\ (AllAreLinked => Len(entries) <= n)
    <3> DEFINE z == k * 5
    <3>1. IsBehind(reader, Rest, z) /\ Len(entries) <= k
      BY <2>2 DEF StreamsAreRead
    <3> HIDE DEF z
    <3>2. RemainingBytes(reader) = Len(Rest) - z /\ z \in Nat /\ Len(Rest) \in Nat
      BY ONLY <3>1, BytesLeft
    <3>3. Len(Rest) - z < 5 /\ z <= Len(Rest)
      <4>1. z <= Len(Rest)
        BY ONLY <3>1, BehindFields
      <4> QED
        BY ONLY <1>1, <3>2, <4>1
    <3>4. ASSUME NEW i \in 1 .. n, IsUnharmed(i)
          PROVE  written.entries[i].reads \in Range(entries)
      <4>1. i * 5 <= Len(Rest)
        BY <1>2, <3>4 DEF IsUnharmed
      <4>2. i <= k
        BY ONLY <1>2, <3>2, <3>3, <4>1, k \in Nat, i \in 1 .. n DEF z
      <4> QED
        BY <2>2, <3>4, <4>2 DEF StreamsAreRead
    <3>5. ASSUME AllAreLinked PROVE Len(entries) <= n
      <4>1. Len(Rest) = n * 5
        BY <3>5 DEF AllAreLinked
      <4>2. Len(entries) \in Nat
        BY LenProperties DEF TypeInv, FieldsOK
      <4> HIDE DEF n
      <4>3. k <= n
        BY ONLY <1>2, <3>2, <3>3, <4>1, k \in Nat DEF z
      <4> QED
        BY ONLY <1>2, <3>1, <4>2, <4>3, k \in Nat
    <3> QED
      BY <3>4, <3>5 DEF LinkedSurvive
  <2> QED
    BY <1>1, <2>1, <2>2 DEF PmtState
<1>4. LinkedSurvive' /\ (AllAreLinked' <=> AllAreLinked) /\ Len(written.entries)' = n
  BY <1>1, <1>3, LinksKept
<1> QED
  BY <1>1, <1>3, <1>4 DEF PmtState

LEMMA PmtStep == TypeInv /\ PmtInv /\ [Next]_vars => PmtInv'
<1> SUFFICES ASSUME TypeInv, PmtInv, [Next]_vars, kind' = "PMT", IsPlain(written)', HeadIntact'
             PROVE  PmtState'
  BY DEF PmtInv
<1>1. written' = written /\ section' = section
  BY DEF Next, Turn, Return, vars, Refuse, BeginPat, BeginPmt, BeginSdt, BeginVct, Begin,
         ReadProgramDescriptor, BeginStreams, ReadDescriptor, EndDescriptors, ReadPatProgram,
         ReadPmtStream, ReadSdtService, ReadVctChannel, EndEntries
<1>2. kind = "PMT" /\ IsPlain(written) /\ HeadIntact
  <2>1. HeadIntact' <=> HeadIntact
    BY <1>1, LinksKept
  <2> QED
    BY <1>1, <2>1 DEF kind
<1>3. PmtState
  BY <1>2 DEF PmtInv
<1>4. CASE Refuse
  BY <1>3, <1>4 DEF Refuse, PmtState
<1>5. CASE BeginPmt
  <2>1. /\ pc = "start" /\ pc' = "programDescriptors" /\ reader' = ProgramInfoReader(section)
        /\ entries' = entries
    BY <1>5 DEF BeginPmt, Begin
  <2>2. reader' = Make(<<>>)
    BY <1>2, <2>1, PmtHeadRead
  <2> QED
    BY <1>3, <2>1, <2>2 DEF PmtState
<1>6. CASE BeginPat \/ BeginSdt \/ BeginVct \/ ReadPatProgram \/ ReadSdtService \/ ReadVctChannel
  BY <1>2, <1>6 DEF BeginPat, BeginSdt, BeginVct, ReadPatProgram, ReadSdtService, ReadVctChannel
<1>7. CASE ReadProgramDescriptor \/ BeginStreams
  BY <1>2, <1>3, <1>7, BeginStreamsDamaged
<1>8. CASE ReadDescriptor \/ EndDescriptors
  BY <1>2, <1>3, <1>8, DescriptorsDamaged
<1>9. CASE ReadPmtStream
  BY <1>2, <1>3, <1>9, ReadPmtDamaged
<1>10. CASE EndEntries
  BY <1>2, <1>3, <1>10, EndPmtDamaged
<1>11. CASE UNCHANGED vars
  <2>1. pc' = pc /\ entries' = entries /\ reader' = reader
    BY <1>11 DEF vars
  <2>2. /\ Rest' = Rest /\ Len(written.entries)' = Len(written.entries)
        /\ (\A i : IsUnharmed(i)' <=> IsUnharmed(i)) /\ (AllAreLinked' <=> AllAreLinked)
        /\ (LinkedSurvive => LinkedSurvive')
    BY <1>1, <2>1, LinksKept
  <2>3. ASSUME NEW k, StreamsAreRead(k) PROVE StreamsAreRead(k)'
    BY <1>1, <2>1, <2>2, <2>3 DEF StreamsAreRead
  <2> QED
    BY <1>3, <2>1, <2>2, <2>3 DEF PmtState
<1> QED
  BY <1>4, <1>5, <1>6, <1>7, <1>8, <1>9, <1>10, <1>11 DEF Next, Turn, Return

-----------------------------------------------------------------------------
(* Damage costs what it hits *)

\* Stuffing that is read as a program has the number 65535.
HasNoStuffingNumber(t) ==
  t.kind = "PAT" => \A i \in DOMAIN t.entries : t.entries[i].reads.programNumber # 65535

\* The length of the descriptors of a stream is framing, and a codec is that of the stream type.
IsMarked(t) ==
  t.kind = "PMT" => \A i \in DOMAIN t.entries :
    {4, 5} \subseteq t.entries[i].framing /\ t.entries[i].codec = resolvedStreamType(t.entries[i].reads)

DamageInv ==
  TypeInv /\ PatInv /\ PmtInv /\ section \in Damages(SectionOf(written))

LEMMA InitDamage == Init => DamageInv
<1> SUFFICES ASSUME Init PROVE DamageInv
  OBVIOUS
<1>1. TypeInv
  BY InitTypes, InitReaderInv DEF TypeInv
<1>2. pc = "start" /\ entries = <<>> /\ section \in Damages(SectionOf(written))
  BY DEF Init
<1> QED
  BY <1>1, <1>2 DEF DamageInv, PatInv, PatState, PmtInv, PmtState

LEMMA DamageStep == DamageInv /\ [Next]_vars => DamageInv'
<1> SUFFICES ASSUME DamageInv, [Next]_vars PROVE DamageInv'
  OBVIOUS
<1>1. TypeInv /\ PatInv /\ PmtInv /\ section \in Damages(SectionOf(written))
  BY DEF DamageInv
<1>2. written' = written /\ section' = section
  BY DEF Next, Turn, Return, vars, Refuse, BeginPat, BeginPmt, BeginSdt, BeginVct, Begin,
         ReadProgramDescriptor, BeginStreams, ReadDescriptor, EndDescriptors, ReadPatProgram,
         ReadPmtStream, ReadSdtService, ReadVctChannel, EndEntries
<1>3. TypeInv'
  BY <1>1, TypesKept
<1>4. PatInv' /\ PmtInv'
  BY <1>1, PatStep, PmtStep
<1> QED
  BY <1>1, <1>2, <1>3, <1>4 DEF DamageInv

\* What has been read in the end: the entries up to i, if they are as they were written.
LEMMA UnharmedAreRead ==
  ASSUME DamageInv, IsPlain(written), pc = "done", NEW i \in 1 .. Len(written.entries), HeadIntact,
         IsUnharmed(i), kind = "PAT" => CanSurvive(i), kind = "PMT" => AreLinked(i)
  PROVE  Survives(i) /\ (kind = "PMT" => written.entries[i].reads \in Range(entries))
<1>1. TypeInv /\ PatInv /\ PmtInv
  BY DEF DamageInv
<1>2. kind \in {"PAT", "PMT"}
  BY <1>1, PlainEntries
<1>3. CASE kind = "PAT"
  BY <1>1, <1>3 DEF PatInv, PatState
<1>4. CASE kind = "PMT"
  BY <1>1, <1>4 DEF PmtInv, PmtState, LinkedSurvive, Survives
<1> QED
  BY <1>2, <1>3, <1>4

LEMMA EarlySurvive ==
  ASSUME DamageInv, IsPlain(written), HasNoStuffingNumber(written), pc = "done",
         NEW i \in 1 .. Len(written.entries), EntryEnd(i) <= Intact
  PROVE  Survives(i) /\ (kind = "PMT" => written.entries[i].reads \in Range(entries))
<1>1. TypeInv
  BY DEF DamageInv
<1>2. Len(written.entries) \in Nat /\ DOMAIN written.entries = 1 .. Len(written.entries)
  BY <1>1, PlainEntries
<1>3. HeadIntact /\ \A j \in 1 .. i : IsUnharmed(j)
  BY <1>1, EarlyIsUnharmed
<1>4. i \in 1 .. i /\ \A j \in 1 .. i : j \in 1 .. Len(written.entries)
  BY <1>2
<1>5. IsUnharmed(i)
  BY <1>3, <1>4
<1>6. kind = "PAT" => CanSurvive(i)
  BY <1>2, <1>5 DEF CanSurvive, HasNoStuffingNumber, kind
<1>7. kind = "PMT" => AreLinked(i)
  BY <1>1, <1>3, <1>4, UnharmedIsLinked DEF AreLinked
<1> QED
  BY <1>3, <1>5, <1>6, <1>7, UnharmedAreRead

\* EntriesBeforeTheDamageSurvive, of the tables that the muxer writes: every program and stream
\* before the first damaged byte is read, with its PID, whatever becomes of the bytes behind it.
\* The number 65535 is left out of a PAT, because stuffing behind the section that a damaged
\* section_length counts to it is read as a program of that number.
THEOREM EarlyEntriesSurvive ==
  Spec => [](IsPlain(written) /\ HasNoStuffingNumber(written) => EntriesBeforeTheDamageSurvive)
<1>1. DamageInv => (IsPlain(written) /\ HasNoStuffingNumber(written) => EntriesBeforeTheDamageSurvive)
  <2> SUFFICES ASSUME DamageInv, IsPlain(written), HasNoStuffingNumber(written), pc = "done",
                      NEW i \in DOMAIN written.entries, EntryEnd(i) <= Intact
               PROVE  Survives(i)
    BY DEF EntriesBeforeTheDamageSurvive
  <2>1. i \in 1 .. Len(written.entries)
    BY PlainEntries DEF DamageInv
  <2> QED
    BY <2>1, EarlySurvive
<1> QED
  BY <1>1, InitDamage, DamageStep, PTL DEF Spec

\* DamageStaysInItsEntry, of the same tables: a damaged program or stream costs no other, before
\* it or behind it, and adds none.  What may not be damaged is the length of the descriptors of
\* a stream.
THEOREM DamageCostsOneEntry ==
  Spec => [](IsPlain(written) /\ IsMarked(written) => DamageStaysInItsEntry)
<1>1. DamageInv => (IsPlain(written) /\ IsMarked(written) => DamageStaysInItsEntry)
  <2> SUFFICES ASSUME DamageInv, IsPlain(written), IsMarked(written), pc = "done",
                      NEW j \in DOMAIN written.entries, IsDamagedOnlyIn(j)
               PROVE  /\ \A i \in DOMAIN written.entries \ {j} : Survives(i)
                      /\ Len(entries) <= Len(written.entries)
    BY DEF DamageStaysInItsEntry
  <2> DEFINE n == Len(written.entries)
  <2>1. TypeInv /\ PatInv /\ PmtInv
    BY DEF DamageInv
  <2>2. /\ n \in Nat /\ DOMAIN written.entries = 1 .. n /\ kind \in {"PAT", "PMT"}
    BY <2>1, PlainEntries
  <2>3. /\ HeadIntact /\ Len(section) = Len(SectionOf(written))
        /\ \A i \in 1 .. n : i # j => IsUnharmed(i)
        /\ kind = "PMT" /\ {4, 5} \subseteq written.entries[j].framing
              => \A i \in 1 .. n : IsLinked(i)
    BY <2>1, <2>2, ElsewhereIsUnharmed
  <2>4. kind = "PMT" => \A i \in 1 .. n : IsLinked(i)
    BY <2>2, <2>3 DEF IsMarked, kind
  <2>5. kind = "PMT" => \A i \in 0 .. n : AreLinked(i)
    <3>1. \A i \in 0 .. n : \A k \in 1 .. i : k \in 1 .. n
      BY ONLY <2>2
    <3> HIDE DEF n
    <3> QED
      BY <2>4, <3>1 DEF AreLinked
  <2>6. ASSUME NEW i \in 1 .. n, i # j PROVE Survives(i)
    <3>1. IsUnharmed(i)
      BY <2>3, <2>6
    <3>2. kind = "PAT" => CanSurvive(i)
      <4>1. kind = "PAT" => Len(section) \in Nat
        BY <2>1, PatFacts
      <4> QED
        BY <2>3, <3>1, <4>1 DEF CanSurvive
    <3>3. i \in 0 .. n
      BY <2>2
    <3> QED
      BY <2>3, <2>5, <3>1, <3>2, <3>3, UnharmedAreRead
  <2>7. Len(entries) <= n
    <3>1. CASE kind = "PAT"
      <4>1. /\ Len(section) = 5 + n * 4 /\ n * 4 \in Nat
        BY <2>1, <2>2, <2>3, <3>1, PatFacts
      <4> HIDE DEF n
      <4>2. 5 <= Len(section) /\ (Len(section) - 5) \div 4 = n
        BY ONLY <2>2, <4>1
      <4>3. NumberOfPrograms(section) = n
        BY <4>2 DEF NumberOfPrograms, PatHeaderLength, PROGRAM_BYTE_LENGTH
      <4> QED
        BY <2>1, <3>1, <4>2, <4>3 DEF PatInv, PatState
    <3>2. CASE kind = "PMT"
      <4>1. Len(Rest) = n * 5
        <5> DEFINE sent == SectionOf(written)
                   m == n
                   w == EntryLength
                   h == HeadLength
        <5>1. sent = SectionOf(written) /\ m = Len(written.entries) /\ w = EntryLength
              /\ h = HeadLength /\ TypeInv /\ IsPlain(written)
          BY <2>1
        <5>2. w = 5 /\ h = 9
          BY <3>2 DEF EntryLength, HeadLength
        <5>3. Len(section) = Len(sent)
          BY <2>3
        <5>4. Len(Rest) = Len(section) - 9 /\ m = n
          BY <2>1, <2>3, <3>2, PmtHeadRead
        <5> HIDE DEF sent, m, w, h, n
        <5>5. Len(sent) = h + m * w
          BY ONLY <5>1, PlainSent
        <5>6. n * 5 \in Nat
          BY <2>2
        <5> QED
          BY ONLY <2>2, <5>2, <5>3, <5>4, <5>5, <5>6
      <4>2. AreLinked(n)
        <5>1. n \in 0 .. n
          BY <2>2
        <5> QED
          BY <2>5, <3>2, <5>1
      <4> QED
        BY <2>1, <2>3, <3>2, <4>1, <4>2 DEF PmtInv, PmtState, AllAreLinked
    <3> QED
      BY <2>2, <3>1, <3>2
  <2> QED
    BY <2>2, <2>6, <2>7
<1> QED
  BY <1>1, InitDamage, DamageStep, PTL DEF Spec

\* CodecSurvivesLaterDamage, of the PMTs that the muxer writes: the codec of a stream whose bytes
\* come before the first damaged one is read as it was written.
THEOREM CodecsSurvive ==
  Spec => [](IsPlain(written) /\ IsMarked(written) => CodecSurvivesLaterDamage)
<1>1. DamageInv => (IsPlain(written) /\ IsMarked(written) => CodecSurvivesLaterDamage)
  <2> SUFFICES ASSUME DamageInv, IsPlain(written), IsMarked(written), pc = "done", kind = "PMT",
                      NEW i \in DOMAIN written.entries,
                      EntryStart(i) + written.entries[i].telling <= Intact
               PROVE  \E es \in Range(entries) : /\ es.pid = written.entries[i].reads.pid
                                                 /\ resolvedStreamType(es) = written.entries[i].codec
    BY DEF CodecSurvivesLaterDamage
  <2> DEFINE n == Len(written.entries)
  <2>1. TypeInv /\ written \in Tables
    BY DEF DamageInv, TypeInv
  <2>2. /\ n \in Nat /\ DOMAIN written.entries = 1 .. n /\ IsPlainPmt(written)
    BY <2>1, PlainEntries
  <2>3. i \in 1 .. n /\ i \in 0 .. n /\ i - 1 \in 0 .. n
    BY <2>2
  <2>4. written.entries[i].telling \in 5 .. Len(written.entries[i].bytes)
    <3>1. written.kind = "PMT" /\ i \in DOMAIN written.entries
      BY DEF kind
    <3> QED
      BY <2>1, <3>1, TablesAssumption
  <2>5. Len(written.entries[i].bytes) = 5
    BY <2>2, LengthsWritten DEF IsPlainPmt
  <2>6. written.entries[i].telling = 5
    BY <2>4, <2>5
  <2>7. EntryStart(i) + 5 = EntryEnd(i)
    <3>1. EntryLength = 5 /\ HeadLength = 9
      BY DEF EntryLength, HeadLength
    <3>2. EntryEnd(i) = HeadLength + i * EntryLength
      BY <2>1, <2>3, EntryEndIs
    <3>3. EntryStart(i) = HeadLength + (i - 1) * EntryLength
      BY <2>1, <2>3, EntryEndIs DEF EntryStart
    <3> QED
      BY <2>3, <3>1, <3>2, <3>3
  <2>8. EntryEnd(i) <= Intact
    BY <2>6, <2>7
  <2>9. HasNoStuffingNumber(written)
    BY DEF HasNoStuffingNumber, kind
  <2>10. written.entries[i].reads \in Range(entries)
    BY <2>3, <2>8, <2>9, EarlySurvive
  <2>11. written.entries[i].codec = resolvedStreamType(written.entries[i].reads)
    BY DEF IsMarked, kind
  <2> QED
    BY <2>10, <2>11
<1> QED
  BY <1>1, InitDamage, DamageStep, PTL DEF Spec

=============================================================================

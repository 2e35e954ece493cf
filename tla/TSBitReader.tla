---------------------------- MODULE TSBitReader ----------------------------
(***************************************************************************)
(* TSBitReader.h: the reader every parser of the package walks its bytes   *)
(* with.  Constant-level: the owner of a reader keeps it in a variable or  *)
(* in a LET, and applies the operations to it.                             *)
(*                                                                         *)
(* A reader is a record of the struct's fields; its length is that of the  *)
(* bytes it looks at.  What the last call returned is in value (a number)  *)
(* or in data (bytes; a 32-bit number is its four bytes), so that calls    *)
(* can be nested in the order in which the code makes them.                *)
(***************************************************************************)
EXTENDS Integers, Sequences

Byte == 0 .. 255

\* The numbers of n bits.
Bits(n) == 0 .. 2 ^ n - 1

Readers == [bytes : Seq(Byte), byteOffset : Nat, bitOffset : 0 .. 7, error : BOOLEAN,
            value : Nat, data : Seq(Byte)]

ReaderOf(bytes, error) ==
    [bytes |-> bytes, byteOffset |-> 0, bitOffset |-> 0, error |-> error,
     value |-> 0, data |-> <<>>]

Make(data) == ReaderOf(data, FALSE)

\* A reader of the first bytes of a buffer; NULL, which is <<>> here, has none to read.
MakeWithBytes(bytes, length) ==
    IF bytes = <<>> /\ length > 0 THEN ReaderOf(<<>>, TRUE)
    ELSE ReaderOf(SubSeq(bytes, 1, length), FALSE)

-----------------------------------------------------------------------------
(* State queries *)

Length(r) == Len(r.bytes)

RemainingBits(r) ==
    IF r.byteOffset >= Length(r) THEN 0 ELSE (Length(r) - r.byteOffset) * 8 - r.bitOffset

\* The complete bytes that remain; an error does not change them.
RemainingBytes(r) ==
    LET next == r.byteOffset + (IF r.bitOffset = 0 THEN 0 ELSE 1)
    IN  IF next < Length(r) THEN Length(r) - next ELSE 0

HasBits(r, count) == RemainingBits(r) >= count

-----------------------------------------------------------------------------
(* Reading *)

\* A read that fails returns zero or nil, and leaves the reader where it was.
Failed(r) == [r EXCEPT !.error = TRUE, !.value = 0, !.data = <<>>]

MovedBits(r, n) ==
    LET position == r.byteOffset * 8 + r.bitOffset + n
    IN  [r EXCEPT !.byteOffset = position \div 8, !.bitOffset = position % 8]

\* The byte i bytes after the current one.
ByteAt(r, i) == IF r.byteOffset + i < Length(r) THEN r.bytes[r.byteOffset + i + 1] ELSE 0

\* The next n bits as a number.  They lie in the next three bytes: this package reads
\* at most 17 bits at once, except for the 32 of ReadBits32.
BitsAt(r, n) ==
    LET window == ByteAt(r, 0) * 65536 + ByteAt(r, 1) * 256 + ByteAt(r, 2)
    IN  (window \div 2 ^ (24 - r.bitOffset - n)) % 2 ^ n

ReadBits(r, n) ==
    IF r.error \/ n = 0 \/ n > 32 \/ RemainingBits(r) < n THEN Failed(r)
    ELSE [MovedBits(r, n) EXCEPT !.value = BitsAt(r, n)]

\* ReadBits of 32 bits.
ReadBits32(r) ==
    IF r.error \/ RemainingBits(r) < 32 THEN Failed(r)
    ELSE [MovedBits(r, 32) EXCEPT !.data = [i \in 1 .. 4 |-> BitsAt(MovedBits(r, 8 * (i - 1)), 8)]]

SkipBits(r, n) ==
    IF r.error THEN r
    ELSE IF RemainingBits(r) < n THEN [r EXCEPT !.error = TRUE]
    ELSE MovedBits(r, n)

\* What a byte-level read asks for: a reader on a byte, and enough bytes.
CanRead(r, count) == ~r.error /\ r.bitOffset = 0 /\ r.byteOffset + count <= Length(r)

NextBytes(r, count) == SubSeq(r.bytes, r.byteOffset + 1, r.byteOffset + count)

MovedBytes(r, count) == [r EXCEPT !.byteOffset = @ + count]

ReadUInt8(r) ==
    IF CanRead(r, 1) THEN [MovedBytes(r, 1) EXCEPT !.value = ByteAt(r, 0)] ELSE Failed(r)

ReadUInt16BE(r) ==
    IF CanRead(r, 2)
    THEN [MovedBytes(r, 2) EXCEPT !.value = ByteAt(r, 0) * 256 + ByteAt(r, 1)]
    ELSE Failed(r)

ReadData(r, count) ==
    IF CanRead(r, count) THEN [MovedBytes(r, count) EXCEPT !.data = NextBytes(r, count)]
    ELSE Failed(r)

ReadUInt32BE(r) == ReadData(r, 4)

Skip(r, count) ==
    IF CanRead(r, count) THEN MovedBytes(r, count) ELSE [r EXCEPT !.error = TRUE]

\* Mutant: the reader of the next bytes ends where the other one ends.
SubReaderOfRest(r, length) ==
    IF CanRead(r, length) THEN Make(NextBytes(r, Length(r) - r.byteOffset))
    ELSE ReaderOf(<<>>, TRUE)

\* Mutant: the other reader stays.
AfterSubReaderInPlace(r, length) == IF CanRead(r, length) THEN r ELSE Skip(r, length)

\* A reader of the next bytes of another, and where that leaves the other.
SubReader(r, length) ==
    IF CanRead(r, length) THEN Make(NextBytes(r, length)) ELSE ReaderOf(<<>>, TRUE)

AfterSubReader(r, length) == Skip(r, length)

=============================================================================

-------------------------- MODULE Protocol_proofs --------------------------
(* Proofs about the frames of the protocol, for every report and every name *)
(* of any length: what TLC checks on samples of them.                      *)
(*                                                                         *)
(* Checksums are parities of sets of positions (Odd), which an appended or  *)
(* a changed byte changes by itself alone.                                 *)
EXTENDS Protocol, FiniteSetTheorems, SequenceTheorems, WellFoundedInduction,
        TLAPS

-----------------------------------------------------------------------------
(* Bytes, bit by bit.                                                      *)

LEMMA Bytes == \A x : x \in Byte <=> x \in Int /\ 0 <= x /\ x <= 255
  BY DEF Byte

\* What & and | make of the bits.
LEMMA AndBits ==
  \A a, b : /\ a & b \in Byte
            /\ \A mask \in Masks : Has(a & b, mask) <=> Has(a, mask) /\ Has(b, mask)
<1> SUFFICES ASSUME NEW a, NEW b
             PROVE  /\ a & b \in Byte
                    /\ \A mask \in Masks :
                         Has(a & b, mask) <=> Has(a, mask) /\ Has(b, mask)
  OBVIOUS
<1> DEFINE InBoth(mask) == Has(a, mask) /\ Has(b, mask)
<1>1. /\ InBoth(1) \in BOOLEAN /\ InBoth(2) \in BOOLEAN /\ InBoth(4) \in BOOLEAN
      /\ InBoth(8) \in BOOLEAN /\ InBoth(16) \in BOOLEAN
      /\ InBoth(32) \in BOOLEAN /\ InBoth(64) \in BOOLEAN
      /\ InBoth(128) \in BOOLEAN
  BY DEF Has
<1>2. a & b = Bit(InBoth(1), 1) + Bit(InBoth(2), 2) + Bit(InBoth(4), 4)
                + Bit(InBoth(8), 8) + Bit(InBoth(16), 16) + Bit(InBoth(32), 32)
                + Bit(InBoth(64), 64) + Bit(InBoth(128), 128)
  BY DEF &, ByteOf
<1> HIDE DEF InBoth
<1>3. /\ a & b \in Byte
      /\ Has(a & b, 1) <=> InBoth(1)
      /\ Has(a & b, 2) <=> InBoth(2)
      /\ Has(a & b, 4) <=> InBoth(4)
      /\ Has(a & b, 8) <=> InBoth(8)
      /\ Has(a & b, 16) <=> InBoth(16)
      /\ Has(a & b, 32) <=> InBoth(32)
      /\ Has(a & b, 64) <=> InBoth(64)
      /\ Has(a & b, 128) <=> InBoth(128)
  BY <1>1, <1>2 DEF Byte, Bit, Has
<1>4. a & b \in Byte /\ \A mask \in Masks : Has(a & b, mask) <=> InBoth(mask)
  BY <1>3 DEF Masks
<1> QED
  BY <1>4 DEF InBoth

LEMMA OrBits ==
  \A a, b : /\ a | b \in Byte
            /\ \A mask \in Masks : Has(a | b, mask) <=> Has(a, mask) \/ Has(b, mask)
<1> SUFFICES ASSUME NEW a, NEW b
             PROVE  /\ a | b \in Byte
                    /\ \A mask \in Masks :
                         Has(a | b, mask) <=> Has(a, mask) \/ Has(b, mask)
  OBVIOUS
<1> DEFINE InOne(mask) == Has(a, mask) \/ Has(b, mask)
<1>1. /\ InOne(1) \in BOOLEAN /\ InOne(2) \in BOOLEAN /\ InOne(4) \in BOOLEAN
      /\ InOne(8) \in BOOLEAN /\ InOne(16) \in BOOLEAN
      /\ InOne(32) \in BOOLEAN /\ InOne(64) \in BOOLEAN
      /\ InOne(128) \in BOOLEAN
  BY DEF Has
<1>2. a | b = Bit(InOne(1), 1) + Bit(InOne(2), 2) + Bit(InOne(4), 4)
                + Bit(InOne(8), 8) + Bit(InOne(16), 16) + Bit(InOne(32), 32)
                + Bit(InOne(64), 64) + Bit(InOne(128), 128)
  BY DEF |, ByteOf
<1> HIDE DEF InOne
<1>3. /\ a | b \in Byte
      /\ Has(a | b, 1) <=> InOne(1)
      /\ Has(a | b, 2) <=> InOne(2)
      /\ Has(a | b, 4) <=> InOne(4)
      /\ Has(a | b, 8) <=> InOne(8)
      /\ Has(a | b, 16) <=> InOne(16)
      /\ Has(a | b, 32) <=> InOne(32)
      /\ Has(a | b, 64) <=> InOne(64)
      /\ Has(a | b, 128) <=> InOne(128)
  BY <1>1, <1>2 DEF Byte, Bit, Has
<1>4. a | b \in Byte /\ \A mask \in Masks : Has(a | b, mask) <=> InOne(mask)
  BY <1>3 DEF Masks
<1> QED
  BY <1>4 DEF InOne

\* The xor of any bytes has the bits that an odd number of them has.
LEMMA XorBits ==
  \A bytes : /\ xor_bytes(bytes) \in Byte
             /\ \A mask \in Masks : Has(xor_bytes(bytes), mask) <=> Odd(bytes, mask)
<1> SUFFICES ASSUME NEW bytes
             PROVE  /\ xor_bytes(bytes) \in Byte
                    /\ \A mask \in Masks :
                         Has(xor_bytes(bytes), mask) <=> Odd(bytes, mask)
  OBVIOUS
<1> DEFINE Left(mask) == Odd(bytes, mask)
<1>1. /\ Left(1) \in BOOLEAN /\ Left(2) \in BOOLEAN /\ Left(4) \in BOOLEAN
      /\ Left(8) \in BOOLEAN /\ Left(16) \in BOOLEAN /\ Left(32) \in BOOLEAN
      /\ Left(64) \in BOOLEAN /\ Left(128) \in BOOLEAN
  BY DEF Odd
<1>2. xor_bytes(bytes) =
        Bit(Left(1), 1) + Bit(Left(2), 2) + Bit(Left(4), 4) + Bit(Left(8), 8)
          + Bit(Left(16), 16) + Bit(Left(32), 32) + Bit(Left(64), 64)
          + Bit(Left(128), 128)
  BY DEF xor_bytes, ByteOf
<1> HIDE DEF Left
<1>3. /\ xor_bytes(bytes) \in Byte
      /\ Has(xor_bytes(bytes), 1) <=> Left(1)
      /\ Has(xor_bytes(bytes), 2) <=> Left(2)
      /\ Has(xor_bytes(bytes), 4) <=> Left(4)
      /\ Has(xor_bytes(bytes), 8) <=> Left(8)
      /\ Has(xor_bytes(bytes), 16) <=> Left(16)
      /\ Has(xor_bytes(bytes), 32) <=> Left(32)
      /\ Has(xor_bytes(bytes), 64) <=> Left(64)
      /\ Has(xor_bytes(bytes), 128) <=> Left(128)
  BY <1>1, <1>2 DEF Byte, Bit, Has
<1>4. /\ xor_bytes(bytes) \in Byte
      /\ \A mask \in Masks : Has(xor_bytes(bytes), mask) <=> Left(mask)
  BY <1>3 DEF Masks
<1> QED
  BY <1>4 DEF Left

\* A byte is the sum of its bits.
LEMMA ByteIsItsBits ==
  ASSUME NEW x \in Byte
  PROVE  x = Bit(Has(x, 1), 1) + Bit(Has(x, 2), 2) + Bit(Has(x, 4), 4)
               + Bit(Has(x, 8), 8) + Bit(Has(x, 16), 16) + Bit(Has(x, 32), 32)
               + Bit(Has(x, 64), 64) + Bit(Has(x, 128), 128)
  BY DEF Byte, Bit, Has

\* Bytes with the same bits are the same; zero has none.
LEMMA SameBits ==
  ASSUME NEW x \in Byte, NEW y \in Byte,
         \A mask \in Masks : Has(x, mask) <=> Has(y, mask)
  PROVE  x = y
<1>1. \A mask \in Masks : Bit(Has(x, mask), mask) = Bit(Has(y, mask), mask)
  BY DEF Bit
<1> QED
  BY <1>1, ByteIsItsBits DEF Masks

LEMMA NoBits ==
  ASSUME NEW x \in Byte
  PROVE  x = 0 <=> \A mask \in Masks : ~Has(x, mask)
<1>1. \A mask \in Masks : ~Has(0, mask)
  BY DEF Has, Masks
<1>2. 0 \in Byte
  BY DEF Byte
<1> QED
  BY <1>1, <1>2, SameBits

-----------------------------------------------------------------------------
(* Parities.                                                               *)

\* The positions of a sequence of bytes that have a bit.
LEMMA PositionsFinite ==
  ASSUME NEW bytes \in Seq(Byte), NEW mask
  PROVE  LET S == {i \in DOMAIN bytes : Has(bytes[i], mask)}
         IN  IsFiniteSet(S) /\ Cardinality(S) \in Nat
<1>1. DOMAIN bytes = 1..Len(bytes) /\ IsFiniteSet(1..Len(bytes))
  BY FS_Interval
<1> QED
  BY <1>1, FS_Subset, FS_CardinalityType

\* A set with one element more has the other parity.
LEMMA OneMore ==
  ASSUME NEW S, NEW x, IsFiniteSet(S), x \notin S
  PROVE  (Cardinality(S \cup {x}) % 2 = 1) <=> ~(Cardinality(S) % 2 = 1)
<1>1. Cardinality(S) \in Nat /\ Cardinality(S \cup {x}) = Cardinality(S) + 1
  BY FS_CardinalityType, FS_AddElement
<1> QED
  BY <1>1

LEMMA OddEmpty == \A mask : ~Odd(<<>>, mask)
<1>1. \A mask : {i \in DOMAIN <<>> : Has(<<>>[i], mask)} = {}
  OBVIOUS
<1> QED
  BY <1>1, FS_EmptySet DEF Odd

\* A byte more changes the parities of its own bits.
LEMMA OddAppend ==
  ASSUME NEW bytes \in Seq(Byte), NEW byte \in Byte, NEW mask
  PROVE  Odd(Append(bytes, byte), mask) <=> (Odd(bytes, mask) # Has(byte, mask))
<1> DEFINE S == {i \in DOMAIN bytes : Has(bytes[i], mask)}
           T == {i \in DOMAIN Append(bytes, byte) :
                   Has(Append(bytes, byte)[i], mask)}
           n == Len(bytes) + 1
<1>1. IsFiniteSet(S)
  BY PositionsFinite
<1>2. T = IF Has(byte, mask) THEN S \cup {n} ELSE S
  OBVIOUS
<1>3. n \notin S
  OBVIOUS
<1>4. Odd(bytes, mask) = (Cardinality(S) % 2 = 1)
      /\ Odd(Append(bytes, byte), mask) = (Cardinality(T) % 2 = 1)
  BY DEF Odd
<1> HIDE DEF S, T, n
<1>5. CASE Has(byte, mask)
  BY <1>1, <1>2, <1>3, <1>4, <1>5, OneMore
<1>6. CASE ~Has(byte, mask)
  BY <1>2, <1>4, <1>6 DEF Has
<1> QED
  BY <1>5, <1>6

\* A changed byte changes the parities of the bits in which it differs.
LEMMA OddExcept ==
  ASSUME NEW bytes \in Seq(Byte), NEW i \in DOMAIN bytes, NEW byte \in Byte,
         NEW mask, Has(bytes[i], mask) # Has(byte, mask)
  PROVE  Odd([bytes EXCEPT ![i] = byte], mask) <=> ~Odd(bytes, mask)
<1> DEFINE S == {j \in DOMAIN bytes : Has(bytes[j], mask)}
           T == {j \in DOMAIN [bytes EXCEPT ![i] = byte] :
                   Has([bytes EXCEPT ![i] = byte][j], mask)}
<1>1. IsFiniteSet(S)
  BY PositionsFinite
<1>2. [bytes EXCEPT ![i] = byte] \in Seq(Byte)
  OBVIOUS
<1>3. IsFiniteSet(T)
  BY <1>2, PositionsFinite
<1>4. \/ i \notin S /\ T = S \cup {i}
      \/ i \notin T /\ S = T \cup {i}
  BY DEF Has
<1>5. Odd(bytes, mask) = (Cardinality(S) % 2 = 1)
      /\ Odd([bytes EXCEPT ![i] = byte], mask) = (Cardinality(T) % 2 = 1)
  BY DEF Odd
<1> HIDE DEF S, T
<1> QED
  BY <1>1, <1>3, <1>4, <1>5, OneMore

-----------------------------------------------------------------------------
(* Frames.                                                                 *)

\* A sealed sequence of bytes has no parity left.
LEMMA SealedBytes ==
  ASSUME NEW bytes \in Seq(Byte)
  PROVE  /\ Sealed(bytes) \in Seq(Byte)
         /\ Len(Sealed(bytes)) = Len(bytes) + 1
         /\ \A i \in 1..Len(bytes) : Sealed(bytes)[i] = bytes[i]
         /\ xor_bytes(Sealed(bytes)) = 0
<1>1. xor_bytes(bytes) \in Byte
  BY XorBits
<1>2. Sealed(bytes) = Append(bytes, xor_bytes(bytes))
  BY DEF Sealed
<1>3. /\ Sealed(bytes) \in Seq(Byte)
      /\ Len(Sealed(bytes)) = Len(bytes) + 1
      /\ \A i \in 1..Len(bytes) : Sealed(bytes)[i] = bytes[i]
  BY <1>1, <1>2
<1>4. ASSUME NEW mask \in Masks
      PROVE  ~Odd(Sealed(bytes), mask)
  <2>1. Odd(Sealed(bytes), mask) <=>
          (Odd(bytes, mask) # Has(xor_bytes(bytes), mask))
    BY <1>1, <1>2, OddAppend
  <2>2. Has(xor_bytes(bytes), mask) = Odd(bytes, mask)
    BY XorBits DEF Odd, Has
  <2> QED
    BY <2>1, <2>2
<1>5. xor_bytes(Sealed(bytes)) = 0
  BY <1>4, XorBits, NoBits
<1> QED
  BY <1>3, <1>5

\* An envelope around the payload it announces is what validate_frame accepts.
\* (The length of the envelope is 7; an equation is lost on the provers.)
LEMMA EnvelopeIsValid ==
  ASSUME NEW lead \in Seq(Byte), NEW payload \in Seq(Byte),
         7 <= Len(lead), Len(lead) <= 7,
         lead[1] = \hA5, lead[2] = \h65, lead[6] = Len(payload)
  PROVE  /\ Sealed(lead \o payload) \in Seq(Byte)
         /\ Len(Sealed(lead \o payload)) = 8 + Len(payload)
         /\ Sealed(lead \o payload)[6] = Len(payload)
         /\ Sealed(lead \o payload)[7] = lead[7]
         /\ \A i \in 1..Len(payload) :
              Sealed(lead \o payload)[7 + i] = payload[i]
         /\ validate_frame(Sealed(lead \o payload)) = "NONE"
<1> DEFINE bytes == lead \o payload
           frame == Sealed(bytes)
<1>1. /\ bytes \in Seq(Byte) /\ Len(bytes) = 7 + Len(payload)
      /\ \A i \in 1..7 : bytes[i] = lead[i]
  OBVIOUS
<1>2. ASSUME NEW i \in 1..Len(payload)
      PROVE  /\ bytes[7 + i] = payload[i]
             /\ 7 + i \in 1..(7 + Len(payload))
  OBVIOUS
<1> HIDE DEF bytes
<1>3. /\ frame \in Seq(Byte) /\ Len(frame) = Len(bytes) + 1
      /\ \A i \in 1..Len(bytes) : frame[i] = bytes[i]
      /\ xor_bytes(frame) = 0
  <2>1. bytes \in Seq(Byte)
    BY <1>1
  <2> QED
    BY <2>1, SealedBytes
<1> HIDE DEF frame
<1>4. /\ Len(frame) = 8 + Len(payload)
      /\ \A i \in 1..7 : frame[i] = lead[i]
  BY <1>1, <1>3
<1>5. \A i \in 1..Len(payload) : frame[7 + i] = payload[i]
  BY <1>1, <1>2, <1>3
<1>6. validate_frame(frame) = "NONE"
  BY <1>3, <1>4 DEF validate_frame, At, MinFrameLength
<1> QED
  BY <1>3, <1>4, <1>5, <1>6 DEF frame, bytes

LEMMA FlippedBit ==
  \A byte \in Byte, mask \in Masks :
    Flipped(byte, mask) \in Byte /\ Has(byte, mask) # Has(Flipped(byte, mask), mask)
  BY DEF Flipped, Has, Masks, Byte

\* No damage gets past validate_frame: a flipped bit changes a parity, a lost or
\* an added byte the length.
LEMMA DamageShows ==
  ASSUME NEW frame \in Seq(Byte), validate_frame(frame) = "NONE"
  PROVE  /\ \A i \in DOMAIN frame, mask \in Masks :
              validate_frame([frame EXCEPT ![i] = Flipped(@, mask)]) # "NONE"
         /\ \A n \in 0..(Len(frame) - 1) :
              validate_frame(SubSeq(frame, 1, n)) # "NONE"
         /\ \A byte : validate_frame(Append(frame, byte)) # "NONE"
<1>1. /\ Len(frame) >= 8 /\ 8 + frame[6] = Len(frame) /\ xor_bytes(frame) = 0
  BY DEF validate_frame, At, MinFrameLength
<1>2. ASSUME NEW i \in DOMAIN frame, NEW mask \in Masks
      PROVE  validate_frame([frame EXCEPT ![i] = Flipped(@, mask)]) # "NONE"
  <2> DEFINE byte == Flipped(frame[i], mask)
             flipped == [frame EXCEPT ![i] = byte]
  <2>1. frame[i] \in Byte
    OBVIOUS
  <2>2. byte \in Byte /\ Has(frame[i], mask) # Has(byte, mask)
    BY <2>1, FlippedBit
  <2>3. Odd(flipped, mask)
    <3>1. Odd(flipped, mask) <=> ~Odd(frame, mask)
      BY <2>2, OddExcept
    <3>2. 0 \in Byte
      BY DEF Byte
    <3>3. ~Odd(frame, mask)
      BY <1>1, <3>2, XorBits, NoBits
    <3> QED
      BY <3>1, <3>3
  <2>4. xor_bytes(flipped) # 0
    BY <2>3, XorBits, NoBits
  <2> QED
    BY <2>4 DEF validate_frame
<1>3. ASSUME NEW n \in 0..(Len(frame) - 1)
      PROVE  validate_frame(SubSeq(frame, 1, n)) # "NONE"
  <2>1. Len(SubSeq(frame, 1, n)) = n /\ n \in Nat /\ n < Len(frame)
    OBVIOUS
  <2>2. n >= 8 => SubSeq(frame, 1, n)[6] = frame[6]
    OBVIOUS
  <2> QED
    BY <1>1, <2>1, <2>2 DEF validate_frame, At, MinFrameLength
<1>4. ASSUME NEW byte
      PROVE  validate_frame(Append(frame, byte)) # "NONE"
  <2>1. Len(Append(frame, byte)) = Len(frame) + 1
        /\ Append(frame, byte)[6] = frame[6]
    BY <1>1
  <2> QED
    BY <1>1, <2>1 DEF validate_frame, At, MinFrameLength
<1> QED
  BY <1>2, <1>3, <1>4

\* A frame with its payload, in either direction.
Framed(from, to, command, payload) ==
  Sealed(<<\hA5, \h65, from, to, \h01, Len(payload), command>> \o payload)

LEMMA FramesAreValid ==
  ASSUME NEW from \in Byte, NEW to \in Byte, NEW command \in Byte,
         NEW payload \in Seq(Byte), Len(payload) \in Byte
  PROVE  /\ Framed(from, to, command, payload) \in Seq(Byte)
         /\ Len(Framed(from, to, command, payload)) = 8 + Len(payload)
         /\ Framed(from, to, command, payload)[6] = Len(payload)
         /\ Framed(from, to, command, payload)[7] = command
         /\ \A i \in 1..Len(payload) :
              Framed(from, to, command, payload)[7 + i] = payload[i]
         /\ validate_frame(Framed(from, to, command, payload)) = "NONE"
<1> DEFINE lead == <<\hA5, \h65, from, to, \h01, Len(payload), command>>
<1>1. /\ lead \in Seq(Byte) /\ 7 <= Len(lead) /\ Len(lead) <= 7
      /\ lead[1] = \hA5 /\ lead[2] = \h65 /\ lead[6] = Len(payload)
      /\ lead[7] = command
  <2>1. lead \in Seq(Byte)
    BY DEF Byte
  <2>2. /\ 7 <= Len(lead) /\ Len(lead) <= 7
        /\ lead[1] = \hA5 /\ lead[2] = \h65 /\ lead[6] = Len(payload)
        /\ lead[7] = command
    OBVIOUS
  <2> QED
    BY <2>1, <2>2
<1>2. Framed(from, to, command, payload) = Sealed(lead \o payload)
  BY DEF Framed
<1> HIDE DEF lead
<1>3. /\ Sealed(lead \o payload) \in Seq(Byte)
      /\ Len(Sealed(lead \o payload)) = 8 + Len(payload)
      /\ Sealed(lead \o payload)[6] = Len(payload)
      /\ Sealed(lead \o payload)[7] = command
      /\ \A i \in 1..Len(payload) :
           Sealed(lead \o payload)[7 + i] = payload[i]
      /\ validate_frame(Sealed(lead \o payload)) = "NONE"
  BY <1>1, EnvelopeIsValid
<1> QED
  BY <1>2, <1>3

LEMMA FirstBytes ==
  ASSUME NEW from \in Byte, NEW to \in Byte, NEW command \in Byte,
         NEW payload \in Seq(Byte), Len(payload) \in Byte
  PROVE  LET frame == Framed(from, to, command, payload) IN
         /\ Len(payload) >= 6 =>
              /\ frame[8] = payload[1] /\ frame[9] = payload[2]
              /\ frame[10] = payload[3] /\ frame[11] = payload[4]
              /\ frame[12] = payload[5] /\ frame[13] = payload[6]
         /\ Len(payload) >= 8 =>
              /\ frame[14] = payload[7] /\ frame[15] = payload[8]
<1> DEFINE frame == Framed(from, to, command, payload)
<1>1. \A i \in 1..Len(payload) : frame[7 + i] = payload[i]
  BY FramesAreValid
<1> HIDE DEF frame
<1>2. ASSUME Len(payload) >= 6
      PROVE  /\ frame[7 + 1] = payload[1] /\ frame[7 + 2] = payload[2]
             /\ frame[7 + 3] = payload[3] /\ frame[7 + 4] = payload[4]
             /\ frame[7 + 5] = payload[5] /\ frame[7 + 6] = payload[6]
  BY <1>1, <1>2
<1>3. ASSUME Len(payload) >= 8
      PROVE  frame[7 + 7] = payload[7] /\ frame[7 + 8] = payload[8]
  BY <1>1, <1>3
<1> QED
  BY <1>2, <1>3 DEF frame

\* A report as the station means it.
StatusMeant(frame, r) ==
  /\ Len(frame) = 16 /\ frame[8] = r.status /\ frame[9] = r.soc
  /\ 256 * frame[10] + frame[11] = r.powers[1]
  /\ 256 * frame[12] + frame[13] = r.powers[2]
  /\ 256 * frame[14] + frame[15] = r.powers[3]

LEMMA Words ==
  ASSUME NEW word \in Uint16
  PROVE  /\ word \div 256 \in Byte /\ word % 256 \in Byte
         /\ 256 * (word \div 256) + (word % 256) = word
<1>1. word \in Int /\ 0 <= word /\ word <= 65535
  BY SMTT(60) DEF Uint16
<1> HIDE DEF Uint16
<1>2. /\ 0 <= word \div 256 /\ word \div 256 <= 255
      /\ 0 <= word % 256 /\ word % 256 <= 255
      /\ 256 * (word \div 256) + (word % 256) = word
  BY <1>1
<1>3. word \div 256 \in Int /\ word % 256 \in Int
  BY <1>1
<1> QED
  BY <1>2, <1>3, Bytes

LEMMA StatusFrames ==
  ASSUME NEW r \in [status : Byte, soc : Byte, powers : [1..3 -> Uint16]]
  PROVE  /\ StatusFrame(r) \in Seq(Byte) /\ validate_frame(StatusFrame(r)) = "NONE"
         /\ StatusFrame(r)[7] = StatusCommand
         /\ StatusMeant(StatusFrame(r), r)
<1> DEFINE high(i) == r.powers[i] \div 256
           low(i) == r.powers[i] % 256
<1>1. /\ r.status \in Byte /\ r.soc \in Byte
      /\ r.powers \in [1..3 -> Uint16]
  OBVIOUS
<1>2. /\ r.powers[1] \in Uint16 /\ r.powers[2] \in Uint16
      /\ r.powers[3] \in Uint16
  BY <1>1
<1>3. StatusFrame(r) =
        Framed(\hB1, \h00, StatusCommand,
               <<r.status, r.soc, high(1), low(1), high(2), low(2),
                 high(3), low(3)>>)
  BY DEF StatusFrame, StationFrame, Framed
<1>4. /\ high(1) \in Byte /\ low(1) \in Byte
      /\ 256 * high(1) + low(1) = r.powers[1]
      /\ high(2) \in Byte /\ low(2) \in Byte
      /\ 256 * high(2) + low(2) = r.powers[2]
      /\ high(3) \in Byte /\ low(3) \in Byte
      /\ 256 * high(3) + low(3) = r.powers[3]
  BY <1>2, Words
<1> HIDE DEF high, low
<1>5. \hB1 \in Byte /\ \h00 \in Byte /\ StatusCommand \in Byte
  BY DEF Byte, StatusCommand
<1> DEFINE from == \hB1
           to == \h00
           payload == <<r.status, r.soc, high(1), low(1), high(2), low(2),
                        high(3), low(3)>>
<1>6. StatusFrame(r) = Framed(from, to, StatusCommand, payload)
  BY <1>3
<1>7. from \in Byte /\ to \in Byte /\ payload \in Seq(Byte)
  BY <1>1, <1>4, <1>5
<1>8. Len(payload) = 8 /\ Len(payload) >= 8 /\ Len(payload) >= 6
  OBVIOUS
<1>9. /\ payload[1] = r.status /\ payload[2] = r.soc
      /\ payload[3] = high(1) /\ payload[4] = low(1)
      /\ payload[5] = high(2) /\ payload[6] = low(2)
      /\ payload[7] = high(3) /\ payload[8] = low(3)
  OBVIOUS
<1>10. Len(payload) \in Byte
  BY <1>8, Bytes
<1> HIDE DEF from, to, payload
<1> DEFINE frame == Framed(from, to, StatusCommand, payload)
<1>11. /\ frame \in Seq(Byte) /\ validate_frame(frame) = "NONE"
       /\ Len(frame) = 8 + Len(payload) /\ frame[7] = StatusCommand
  BY <1>5, <1>7, <1>10, FramesAreValid
<1>12. /\ Len(payload) >= 6 =>
              /\ frame[8] = payload[1] /\ frame[9] = payload[2]
              /\ frame[10] = payload[3] /\ frame[11] = payload[4]
              /\ frame[12] = payload[5] /\ frame[13] = payload[6]
       /\ Len(payload) >= 8 =>
              /\ frame[14] = payload[7] /\ frame[15] = payload[8]
  BY <1>5, <1>7, <1>10, FirstBytes
<1> HIDE DEF frame
<1>13. StatusMeant(frame, r)
  BY <1>4, <1>8, <1>9, <1>11, <1>12 DEF StatusMeant
<1> QED
  BY <1>6, <1>11, <1>13 DEF frame

SettingsMeant(frame, r) ==
  /\ Len(frame) = 14 /\ frame[8] = r.flags /\ frame[9] = r.eco_time
  /\ frame[12] = r.hardware /\ frame[13] = r.firmware

LEMMA SettingsFrames ==
  ASSUME NEW r \in
           [flags : Byte, eco_time : Byte, hardware : Byte, firmware : Byte]
  PROVE  /\ SettingsFrame(r) \in Seq(Byte)
         /\ validate_frame(SettingsFrame(r)) = "NONE"
         /\ SettingsFrame(r)[7] = SettingsStatusCommand
         /\ SettingsMeant(SettingsFrame(r), r)
<1> DEFINE from == \hB1
           to == \h00
           payload == <<r.flags, r.eco_time, 0, 0, r.hardware, r.firmware>>
<1>1. SettingsFrame(r) = Framed(from, to, SettingsStatusCommand, payload)
  BY DEF SettingsFrame, StationFrame, Framed
<1>2. /\ from \in Byte /\ to \in Byte /\ SettingsStatusCommand \in Byte
  BY Bytes DEF SettingsStatusCommand
<1>3. payload \in Seq(Byte)
  BY <1>2
<1>4. Len(payload) = 6 /\ Len(payload) >= 6
  OBVIOUS
<1>5. /\ payload[1] = r.flags /\ payload[2] = r.eco_time
      /\ payload[5] = r.hardware /\ payload[6] = r.firmware
  OBVIOUS
<1>6. Len(payload) \in Byte
  BY <1>4, Bytes
<1> HIDE DEF from, to, payload
<1> DEFINE frame == Framed(from, to, SettingsStatusCommand, payload)
<1>7. /\ frame \in Seq(Byte) /\ validate_frame(frame) = "NONE"
      /\ Len(frame) = 8 + Len(payload) /\ frame[7] = SettingsStatusCommand
  BY <1>2, <1>3, <1>6, FramesAreValid
<1>8. Len(payload) >= 6 =>
        /\ frame[8] = payload[1] /\ frame[9] = payload[2]
        /\ frame[10] = payload[3] /\ frame[11] = payload[4]
        /\ frame[12] = payload[5] /\ frame[13] = payload[6]
  BY <1>2, <1>3, <1>6, FirstBytes
<1> HIDE DEF frame
<1>9. SettingsMeant(frame, r)
  BY <1>4, <1>5, <1>7, <1>8 DEF SettingsMeant
<1> QED
  BY <1>1, <1>7, <1>9 DEF frame

LEMMA NameFrames ==
  ASSUME NEW name \in Seq(Byte), Len(name) \in Byte
  PROVE  LET frame == StationFrame(DeviceNameCommand, name) IN
         /\ frame \in Seq(Byte) /\ validate_frame(frame) = "NONE"
         /\ Len(frame) = 8 + Len(name)
         /\ frame[6] = Len(name) /\ frame[7] = DeviceNameCommand
         /\ \A i \in 1..Len(name) : frame[7 + i] = name[i]
<1> DEFINE from == \hB1
           to == \h00
<1>1. StationFrame(DeviceNameCommand, name) =
        Framed(from, to, DeviceNameCommand, name)
  BY DEF StationFrame, Framed
<1>2. /\ from \in Byte /\ to \in Byte /\ DeviceNameCommand \in Byte
  BY Bytes DEF DeviceNameCommand
<1> HIDE DEF from, to
<1> QED
  BY <1>1, <1>2, FramesAreValid

-----------------------------------------------------------------------------
(* The air.                                                                *)

AsSent ==
  /\ subject = "status" => air = StatusFrame(sent)
  /\ subject = "settings" => air = SettingsFrame(sent)
  /\ subject = "station name" => air = StationFrame(DeviceNameCommand, sent)

\* A report is what the station sent, or damaged and refused.
Arrival ==
  /\ subject \in Reports \cup Typing
  /\ subject = "status" => sent \in StatusReports
  /\ subject = "settings" => sent \in SettingsReports
  /\ subject = "station name" => sent \in StationNames
  /\ damaged => validate_frame(air) # "NONE"
  /\ ~damaged => AsSent

LEMMA SentReports ==
  /\ subject = "status" /\ sent \in StatusReports =>
       sent \in [status : Byte, soc : Byte, powers : [1..3 -> Uint16]]
  /\ subject = "settings" /\ sent \in SettingsReports =>
       sent \in [flags : Byte, eco_time : Byte, hardware : Byte,
                 firmware : Byte]
  /\ subject = "station name" /\ sent \in StationNames =>
       sent \in Seq(Byte) /\ Len(sent) \in Byte
  BY ProtocolAssumption DEF ProtocolAssumption

LEMMA SentIsValid ==
  ASSUME Arrival, subject \in Reports, ~damaged
  PROVE  air \in Seq(Byte) /\ validate_frame(air) = "NONE"
<1>1. CASE subject = "status"
  BY <1>1, SentReports, StatusFrames DEF Arrival, AsSent
<1>2. CASE subject = "settings"
  BY <1>2, SentReports, SettingsFrames DEF Arrival, AsSent
<1>3. CASE subject = "station name"
  BY <1>3, SentReports, NameFrames DEF Arrival, AsSent
<1> QED
  BY <1>1, <1>2, <1>3 DEF Reports

LEMMA InitArrival == Init => Arrival
  BY DEF Init, Arrival, AsSent, Reports, Typing

LEMMA NextArrival == Arrival /\ [Next]_vars => Arrival'
<1> SUFFICES ASSUME Arrival, [Next]_vars
             PROVE  Arrival'
  OBVIOUS
<1>1. CASE Damaged
  <2>1. damaged' /\ UNCHANGED <<subject, sent>>
    BY <1>1 DEF Damaged
  <2>2. air \in Seq(Byte) /\ validate_frame(air) = "NONE"
    BY <1>1, SentIsValid DEF Damaged
  <2>3. validate_frame(air') # "NONE"
    <3>1. CASE \E i \in DOMAIN air, mask \in Masks :
                 air' = [air EXCEPT ![i] = Flipped(@, mask)]
      <4>1. \A i \in DOMAIN air, mask \in Masks :
              validate_frame([air EXCEPT ![i] = Flipped(@, mask)]) # "NONE"
        BY <2>2, DamageShows
      <4> QED
        BY <3>1, <4>1
    <3>2. CASE \E n \in 0..(Len(air) - 1) : air' = SubSeq(air, 1, n)
      <4>1. \A n \in 0..(Len(air) - 1) :
              validate_frame(SubSeq(air, 1, n)) # "NONE"
        BY <2>2, DamageShows, Zenon
      <4> QED
        BY <3>2, <4>1, Zenon
    <3>3. CASE \E byte \in {0, 1, air[Len(air)]} : air' = Append(air, byte)
      BY <2>2, <3>3, DamageShows
    <3> QED
      BY <1>1, <3>1, <3>2, <3>3 DEF Damaged
  <2> QED
    BY <2>1, <2>3 DEF Arrival
<1>2. CASE UNCHANGED <<subject, sent, air, damaged>>
  BY <1>2 DEF Arrival, AsSent
<1> QED
  BY <1>1, <1>2 DEF Next, vars, Typed, StatusNotification,
     SettingsNotification, RequestOutput, RequestEcoMode, RequestCarCharger,
     RequestEcoShutdownTime, RequestWorkMode, RequestSettings,
     RequestDeviceName

\* DamageIsDetected: a flipped bit, a lost tail or an extra byte gets no report past
\* validate_frame, whatever the report says and however long it is.
THEOREM DamageDetected == Spec => []DamageIsDetected
<1>1. Arrival => DamageIsDetected
  BY DEF Arrival, DamageIsDetected
<1> QED
  BY <1>1, InitArrival, NextArrival, PTL DEF Spec

\* The upper and the lower digit of a byte are its quotient and its remainder by 16.
LEMMA VersionsAreShown ==
  ASSUME NEW byte \in Byte
  PROVE  VersionShown(format_version(byte), byte)
<1> DEFINE major == byte \div 16
           minor == byte & \h0F
<1>1. byte \in Int /\ 0 <= byte /\ byte <= 255
  BY Bytes
<1>2. minor = byte % 16
  BY <1>1 DEF &, ByteOf, Bit, Has
<1>3. /\ major \in Nat /\ minor \in Nat /\ minor < 16
      /\ byte = 16 * major + minor
  BY <1>1, <1>2
<1>4. \A d, e \in 0..9 : byte = 16 * d + e => d = major /\ e = minor
  BY <1>3
<1>5. format_version(byte) = IF major > 9 \/ minor > 9 THEN <<byte>>
                                                    ELSE <<major, minor>>
  BY DEF format_version
<1> HIDE DEF major, minor
<1>6. CASE major > 9 \/ minor > 9
  <2>1. \A d, e \in 0..9 : byte # 16 * d + e
    BY <1>3, <1>4, <1>6
  <2> QED
    BY <1>5, <1>6, <2>1 DEF VersionShown
<1>7. CASE ~(major > 9 \/ minor > 9)
  <2>1. major \in 0..9 /\ minor \in 0..9
    BY <1>3, <1>7
  <2> QED
    BY <1>3, <1>5, <1>7, <2>1 DEF VersionShown
<1> QED
  BY <1>6, <1>7

\* ReportsAreUnderstood: what the parsers take out of an undamaged report is what the
\* station put in, status or settings, for every report a station can send.
LEMMA ArrivalIsUnderstood == Arrival => ReportsAreUnderstood
<1> SUFFICES ASSUME Arrival, ~damaged
             PROVE  /\ subject = "status" =>
                         IF sent.soc > 100
                         THEN StatusError(air) = "INVALID_STATE_OF_CHARGE"
                         ELSE /\ StatusError(air) = "NONE"
                              /\ parse_status(air) =
                                   [outputs |->
                                      [dc |-> sent.status % 2 = 1,
                                       ac |-> (sent.status \div 2) % 2 = 1,
                                       light |-> (sent.status \div 16) % 2 = 1],
                                    hz |-> IF (sent.status \div 4) % 2 = 1
                                           THEN 60 ELSE 50,
                                    soc |-> sent.soc, powers |-> sent.powers]
                    /\ subject = "settings" =>
                         /\ SettingsError(air) = "NONE"
                         /\ parse_settings(air).flags = sent.flags
                         /\ parse_settings(air).eco_time = sent.eco_time
                         /\ VersionShown(parse_settings(air).hardware,
                                         sent.hardware)
                         /\ VersionShown(parse_settings(air).firmware,
                                         sent.firmware)
  BY DEF ReportsAreUnderstood
<1>1. ASSUME subject = "status"
      PROVE  IF sent.soc > 100
             THEN StatusError(air) = "INVALID_STATE_OF_CHARGE"
             ELSE /\ StatusError(air) = "NONE"
                  /\ parse_status(air) =
                       [outputs |->
                          [dc |-> sent.status % 2 = 1,
                           ac |-> (sent.status \div 2) % 2 = 1,
                           light |-> (sent.status \div 16) % 2 = 1],
                        hz |-> IF (sent.status \div 4) % 2 = 1 THEN 60 ELSE 50,
                        soc |-> sent.soc, powers |-> sent.powers]
  <2>1. sent \in [status : Byte, soc : Byte, powers : [1..3 -> Uint16]]
    BY <1>1, SentReports DEF Arrival
  <2>2. /\ validate_frame(air) = "NONE" /\ air[7] = StatusCommand
        /\ StatusMeant(air, sent)
    BY <1>1, <2>1, StatusFrames DEF Arrival, AsSent
  <2>3. StatusError(air) =
          IF sent.soc > 100 THEN "INVALID_STATE_OF_CHARGE" ELSE "NONE"
    BY <2>2 DEF StatusError, ErrorOf, At, StatusMeant
  <2>4. <<Word(air, 9), Word(air, 11), Word(air, 13)>> = sent.powers
    <3>1. sent.powers \in [1..3 -> Uint16]
      BY <2>1
    <3>2. /\ Word(air, 9) = sent.powers[1] /\ Word(air, 11) = sent.powers[2]
          /\ Word(air, 13) = sent.powers[3]
      BY <2>2 DEF Word, At, StatusMeant
    <3> QED
      BY <3>1, <3>2
  <2>5. OutputsOf(At(air, 7)) =
          [dc |-> sent.status % 2 = 1, ac |-> (sent.status \div 2) % 2 = 1,
           light |-> (sent.status \div 16) % 2 = 1]
    <3>1. air[8] = sent.status /\ sent.status \in Byte
      BY <2>1, <2>2 DEF StatusMeant
    <3>2. sent.status \div 1 = sent.status
      BY <3>1, Bytes
    <3> QED
      BY <3>1, <3>2 DEF OutputsOf, Has, At
  <2>6. /\ Has(At(air, 7), 4) = ((sent.status \div 4) % 2 = 1)
        /\ At(air, 8) = sent.soc
    BY <2>2 DEF StatusMeant, Has, At
  <2> QED
    BY <2>3, <2>4, <2>5, <2>6 DEF parse_status
<1>2. ASSUME subject = "settings"
      PROVE  /\ SettingsError(air) = "NONE"
             /\ parse_settings(air).flags = sent.flags
             /\ parse_settings(air).eco_time = sent.eco_time
             /\ VersionShown(parse_settings(air).hardware, sent.hardware)
             /\ VersionShown(parse_settings(air).firmware, sent.firmware)
  <2>1. sent \in [flags : Byte, eco_time : Byte, hardware : Byte,
                  firmware : Byte]
    BY <1>2, SentReports DEF Arrival
  <2>2. /\ validate_frame(air) = "NONE" /\ air[7] = SettingsStatusCommand
        /\ SettingsMeant(air, sent)
    BY <1>2, <2>1, SettingsFrames DEF Arrival, AsSent
  <2>3. SettingsError(air) = "NONE"
    BY <2>2 DEF SettingsError, ErrorOf, At, SettingsMeant
  <2>4. parse_settings(air) =
          [flags |-> sent.flags, eco_time |-> sent.eco_time,
           hardware |-> format_version(sent.hardware),
           firmware |-> format_version(sent.firmware)]
    BY <2>2 DEF parse_settings, At, SettingsMeant
  <2>5. /\ VersionShown(format_version(sent.hardware), sent.hardware)
        /\ VersionShown(format_version(sent.firmware), sent.firmware)
    BY <2>1, VersionsAreShown
  <2> QED
    BY <2>3, <2>4, <2>5
<1> QED
  BY <1>1, <1>2

THEOREM ReportsUnderstood == Spec => []ReportsAreUnderstood
  BY ArrivalIsUnderstood, InitArrival, NextArrival, PTL DEF Spec

-----------------------------------------------------------------------------
(* UTF-8.                                                                  *)

\* How the masks of the decoder divide the bytes.
LEMMA MaskedBytes ==
  ASSUME NEW b \in Byte
  PROVE  /\ b & \h80 = \h00 <=> b < 128
         /\ b & \hE0 = \hC0 <=> 192 <= b /\ b < 224
         /\ b & \hF0 = \hE0 <=> 224 <= b /\ b < 240
         /\ b & \hF8 = \hF0 <=> 240 <= b /\ b < 248
         /\ b & \hC0 = \h80 <=> 128 <= b /\ b < 192
<1>1. b \in Int /\ 0 <= b /\ b <= 255
  BY Bytes
<1>2. b & \h80 = \h00 <=> b < 128
  BY <1>1 DEF &, ByteOf, Bit, Has
<1>3. b & \hE0 = \hC0 <=> 192 <= b /\ b < 224
  BY <1>1 DEF &, ByteOf, Bit, Has
<1>4. b & \hF0 = \hE0 <=> 224 <= b /\ b < 240
  BY <1>1 DEF &, ByteOf, Bit, Has
<1>5. b & \hF8 = \hF0 <=> 240 <= b /\ b < 248
  BY <1>1 DEF &, ByteOf, Bit, Has
<1>6. b & \hC0 = \h80 <=> 128 <= b /\ b < 192
  BY <1>1 DEF &, ByteOf, Bit, Has
<1> QED
  BY <1>2, <1>3, <1>4, <1>5, <1>6

LEMMA BytePayloads ==
  ASSUME NEW b \in Byte
  PROVE  /\ b < 128 => b & \h7F = b
         /\ 192 <= b /\ b < 224 => b & \h1F = b - 192
         /\ 224 <= b /\ b < 240 => b & \h0F = b - 224
         /\ 240 <= b /\ b < 248 => b & \h07 = b - 240
         /\ 128 <= b /\ b < 192 => b & \h3F = b - 128
<1>1. b \in Int /\ 0 <= b /\ b <= 255
  BY Bytes
<1>2. b < 128 => b & \h7F = b
  BY <1>1 DEF &, ByteOf, Bit, Has
<1>3. 192 <= b /\ b < 224 => b & \h1F = b - 192
  BY <1>1 DEF &, ByteOf, Bit, Has
<1>4. 224 <= b /\ b < 240 => b & \h0F = b - 224
  BY <1>1 DEF &, ByteOf, Bit, Has
<1>5. 240 <= b /\ b < 248 => b & \h07 = b - 240
  BY <1>1 DEF &, ByteOf, Bit, Has
<1>6. 128 <= b /\ b < 192 => b & \h3F = b - 128
  BY <1>1 DEF &, ByteOf, Bit, Has
<1> QED
  BY <1>2, <1>3, <1>4, <1>5, <1>6

\* Characters of one to four bytes, with their lead byte and their continuations.
LEMMA OneByte ==
  ASSUME NEW bytes \in Seq(Byte), NEW first \in 1..Len(bytes)
  PROVE  Char(bytes, first, 1) <=> bytes[first] < 128
<1>1. bytes[first] \in Byte /\ first + 1 <= Len(bytes) + 1
  OBVIOUS
<1>2. Led(bytes, first, 1) <=> bytes[first] < 128
  BY <1>1, MaskedBytes DEF Led, LeadMask, LeadBits
<1>3. Codepoint(bytes, first, 1) = bytes[first] & \h7F
  BY DEF Codepoint, LeadPayload
<1> QED
  BY <1>1, <1>2, <1>3, Bytes, BytePayloads DEF Char, Least, Surrogate

LEMMA TwoBytes ==
  ASSUME NEW bytes \in Seq(Byte), NEW first \in 1..Len(bytes),
         first + 2 <= Len(bytes) + 1
  PROVE  Char(bytes, first, 2) <=>
           /\ 194 <= bytes[first] /\ bytes[first] < 224
           /\ 128 <= bytes[first + 1] /\ bytes[first + 1] < 192
<1> DEFINE b1 == bytes[first]
           b2 == bytes[first + 1]
<1>1. b1 \in Byte /\ b2 \in Byte
  OBVIOUS
<1>2. Codepoint(bytes, first, 2) = 64 * (b1 & \h1F) + (b2 & \h3F)
  BY DEF Codepoint, LeadPayload
<1>3. Led(bytes, first, 2) <=> b1 & \hE0 = \hC0 /\ b2 & \hC0 = \h80
  BY DEF Led, LeadMask, LeadBits
<1> HIDE DEF b1, b2
<1>4. Led(bytes, first, 2) <=> /\ 192 <= b1 /\ b1 < 224
                               /\ 128 <= b2 /\ b2 < 192
  BY <1>1, <1>3, MaskedBytes
<1>5. Led(bytes, first, 2) =>
        Codepoint(bytes, first, 2) = 64 * (b1 - 192) + (b2 - 128)
  BY <1>1, <1>2, <1>4, BytePayloads
<1>6. Char(bytes, first, 2) <=>
        /\ Led(bytes, first, 2)
        /\ Codepoint(bytes, first, 2) >= 128
        /\ Codepoint(bytes, first, 2) <= \h10FFFF
        /\ ~Surrogate(Codepoint(bytes, first, 2))
  BY DEF Char, Least
<1>7. b1 \in Int /\ b2 \in Int
  BY <1>1, Bytes
<1>8. Char(bytes, first, 2) <=> /\ 194 <= b1 /\ b1 < 224
                                /\ 128 <= b2 /\ b2 < 192
  BY <1>4, <1>5, <1>6, <1>7 DEF Surrogate
<1> QED
  BY <1>8 DEF b1, b2

LEMMA ThreeBytes ==
  ASSUME NEW bytes \in Seq(Byte), NEW first \in 1..Len(bytes),
         first + 3 <= Len(bytes) + 1
  PROVE  Char(bytes, first, 3) <=>
           /\ 224 <= bytes[first] /\ bytes[first] < 240
           /\ 128 <= bytes[first + 1] /\ bytes[first + 1] < 192
           /\ 128 <= bytes[first + 2] /\ bytes[first + 2] < 192
           /\ bytes[first] = 224 => 160 <= bytes[first + 1]
           /\ bytes[first] = 237 => bytes[first + 1] < 160
<1> DEFINE b1 == bytes[first]
           b2 == bytes[first + 1]
           b3 == bytes[first + 2]
<1>1. b1 \in Byte /\ b2 \in Byte /\ b3 \in Byte
  OBVIOUS
<1>2. Codepoint(bytes, first, 3) =
        64 * (64 * (b1 & \h0F) + (b2 & \h3F)) + (b3 & \h3F)
  BY DEF Codepoint, LeadPayload
<1>3. Led(bytes, first, 3) <=> /\ b1 & \hF0 = \hE0
                               /\ b2 & \hC0 = \h80 /\ b3 & \hC0 = \h80
  BY DEF Led, LeadMask, LeadBits
<1> HIDE DEF b1, b2, b3
<1>4. Led(bytes, first, 3) <=> /\ 224 <= b1 /\ b1 < 240
                               /\ 128 <= b2 /\ b2 < 192
                               /\ 128 <= b3 /\ b3 < 192
  BY <1>1, <1>3, MaskedBytes
<1>5. Led(bytes, first, 3) =>
        Codepoint(bytes, first, 3) =
          64 * (64 * (b1 - 224) + (b2 - 128)) + (b3 - 128)
  BY <1>1, <1>2, <1>4, BytePayloads
<1>6. Char(bytes, first, 3) <=>
        /\ Led(bytes, first, 3)
        /\ Codepoint(bytes, first, 3) >= 2048
        /\ Codepoint(bytes, first, 3) <= \h10FFFF
        /\ ~Surrogate(Codepoint(bytes, first, 3))
  BY DEF Char, Least
<1>7. b1 \in Int /\ b2 \in Int /\ b3 \in Int
  BY <1>1, Bytes
<1>8. Char(bytes, first, 3) <=> /\ 224 <= b1 /\ b1 < 240
                                /\ 128 <= b2 /\ b2 < 192
                                /\ 128 <= b3 /\ b3 < 192
                                /\ b1 = 224 => 160 <= b2
                                /\ b1 = 237 => b2 < 160
  BY <1>4, <1>5, <1>6, <1>7 DEF Surrogate
<1> QED
  BY <1>8 DEF b1, b2, b3

LEMMA FourBytes ==
  ASSUME NEW bytes \in Seq(Byte), NEW first \in 1..Len(bytes),
         first + 4 <= Len(bytes) + 1
  PROVE  Char(bytes, first, 4) <=>
           /\ 240 <= bytes[first] /\ bytes[first] < 245
           /\ 128 <= bytes[first + 1] /\ bytes[first + 1] < 192
           /\ 128 <= bytes[first + 2] /\ bytes[first + 2] < 192
           /\ 128 <= bytes[first + 3] /\ bytes[first + 3] < 192
           /\ bytes[first] = 240 => 144 <= bytes[first + 1]
           /\ bytes[first] = 244 => bytes[first + 1] < 144
<1> DEFINE b1 == bytes[first]
           b2 == bytes[first + 1]
           b3 == bytes[first + 2]
           b4 == bytes[first + 3]
<1>1. b1 \in Byte /\ b2 \in Byte /\ b3 \in Byte /\ b4 \in Byte
  OBVIOUS
<1>2. Codepoint(bytes, first, 4) =
        64 * (64 * (64 * (b1 & \h07) + (b2 & \h3F)) + (b3 & \h3F))
          + (b4 & \h3F)
  BY DEF Codepoint, LeadPayload
<1>3. Led(bytes, first, 4) <=>
        /\ b1 & \hF8 = \hF0
        /\ b2 & \hC0 = \h80 /\ b3 & \hC0 = \h80 /\ b4 & \hC0 = \h80
  BY DEF Led, LeadMask, LeadBits
<1> HIDE DEF b1, b2, b3, b4
<1>4. Led(bytes, first, 4) <=> /\ 240 <= b1 /\ b1 < 248
                               /\ 128 <= b2 /\ b2 < 192
                               /\ 128 <= b3 /\ b3 < 192
                               /\ 128 <= b4 /\ b4 < 192
  BY <1>1, <1>3, MaskedBytes
<1>5. Led(bytes, first, 4) =>
        Codepoint(bytes, first, 4) =
          64 * (64 * (64 * (b1 - 240) + (b2 - 128)) + (b3 - 128)) + (b4 - 128)
  BY <1>1, <1>2, <1>4, BytePayloads
<1>6. Char(bytes, first, 4) <=>
        /\ Led(bytes, first, 4)
        /\ Codepoint(bytes, first, 4) >= 65536
        /\ Codepoint(bytes, first, 4) <= \h10FFFF
        /\ ~Surrogate(Codepoint(bytes, first, 4))
  BY DEF Char, Least
<1>7. b1 \in Int /\ b2 \in Int /\ b3 \in Int /\ b4 \in Int
  BY <1>1, Bytes
<1>8. Char(bytes, first, 4) <=> /\ 240 <= b1 /\ b1 < 245
                                /\ 128 <= b2 /\ b2 < 192
                                /\ 128 <= b3 /\ b3 < 192
                                /\ 128 <= b4 /\ b4 < 192
                                /\ b1 = 240 => 144 <= b2
                                /\ b1 = 244 => b2 < 144
  BY <1>4, <1>5, <1>6, <1>7 DEF Surrogate
<1> QED
  BY <1>8 DEF b1, b2, b3, b4


\* One iteration of the decoder accepts what is in the table.
LEMMA CharIsInTable ==
  ASSUME NEW bytes \in Seq(Byte), NEW first \in 1..Len(bytes), NEW n \in 1..4,
         first + n <= Len(bytes) + 1
  PROVE  Char(bytes, first, n) <=> InTable(bytes, first, n)
<1>1. \A k \in 1..Len(bytes) : bytes[k] \in Int /\ 0 <= bytes[k]
  BY Bytes
<1> DEFINE b1 == bytes[first]
           b2 == bytes[first + 1]
           b3 == bytes[first + 2]
           b4 == bytes[first + 3]
<1>2. b1 \in Int /\ 0 <= b1 /\ bytes[first + 0] = b1
  BY <1>1
<1>3. CASE n = 1
  <2>1. Char(bytes, first, 1) <=> b1 < 128
    BY OneByte
  <2>2. InTable(bytes, first, 1) <=> b1 <= 127
    BY <1>2 DEF InTable
  <2> QED
    BY <1>2, <1>3, <2>1, <2>2
<1>4. CASE n = 2
  <2>1. first + 1 \in 1..Len(bytes)
    BY <1>4
  <2>2. b2 \in Int
    BY <1>1, <2>1
  <2>3. Char(bytes, first, 2) <=> /\ 194 <= b1 /\ b1 < 224
                                  /\ 128 <= b2 /\ b2 < 192
    BY <1>4, TwoBytes
  <2>4. InTable(bytes, first, 2) <=> /\ 194 <= b1 /\ b1 <= 223
                                     /\ 128 <= b2 /\ b2 <= 191
    BY <1>2 DEF InTable
  <2> HIDE DEF b1, b2
  <2>5. Char(bytes, first, 2) <=> InTable(bytes, first, 2)
    BY <1>2, <2>2, <2>3, <2>4
  <2> QED
    BY <1>4, <2>5
<1>5. CASE n = 3
  <2>1. first + 1 \in 1..Len(bytes) /\ first + 2 \in 1..Len(bytes)
    BY <1>5
  <2>2. b2 \in Int /\ b3 \in Int
    BY <1>1, <2>1
  <2>3. Char(bytes, first, 3) <=> /\ 224 <= b1 /\ b1 < 240
                                  /\ 128 <= b2 /\ b2 < 192
                                  /\ 128 <= b3 /\ b3 < 192
                                  /\ b1 = 224 => 160 <= b2
                                  /\ b1 = 237 => b2 < 160
    BY <1>5, ThreeBytes
  <2>4. InTable(bytes, first, 3) <=>
          /\ \/ 224 <= b1 /\ b1 <= 224 /\ 160 <= b2 /\ b2 <= 191
             \/ 225 <= b1 /\ b1 <= 236 /\ 128 <= b2 /\ b2 <= 191
             \/ 237 <= b1 /\ b1 <= 237 /\ 128 <= b2 /\ b2 <= 159
             \/ 238 <= b1 /\ b1 <= 239 /\ 128 <= b2 /\ b2 <= 191
          /\ 128 <= b3 /\ b3 <= 191
    BY <1>2 DEF InTable
  <2> HIDE DEF b1, b2, b3
  <2>5. Char(bytes, first, 3) <=> InTable(bytes, first, 3)
    BY <1>2, <2>2, <2>3, <2>4
  <2> QED
    BY <1>5, <2>5
<1>6. CASE n = 4
  <2>1. /\ first + 1 \in 1..Len(bytes) /\ first + 2 \in 1..Len(bytes)
        /\ first + 3 \in 1..Len(bytes)
    BY <1>6
  <2>2. b2 \in Int /\ b3 \in Int /\ b4 \in Int
    BY <1>1, <2>1
  <2>3. Char(bytes, first, 4) <=> /\ 240 <= b1 /\ b1 < 245
                                  /\ 128 <= b2 /\ b2 < 192
                                  /\ 128 <= b3 /\ b3 < 192
                                  /\ 128 <= b4 /\ b4 < 192
                                  /\ b1 = 240 => 144 <= b2
                                  /\ b1 = 244 => b2 < 144
    BY <1>6, FourBytes
  <2>4. InTable(bytes, first, 4) <=>
          /\ \/ 240 <= b1 /\ b1 <= 240 /\ 144 <= b2 /\ b2 <= 191
             \/ 241 <= b1 /\ b1 <= 243 /\ 128 <= b2 /\ b2 <= 191
             \/ 244 <= b1 /\ b1 <= 244 /\ 128 <= b2 /\ b2 <= 143
          /\ 128 <= b3 /\ b3 <= 191
          /\ 128 <= b4 /\ b4 <= 191
    BY <1>2 DEF InTable
  <2> HIDE DEF b1, b2, b3, b4
  <2>5. Char(bytes, first, 4) <=> InTable(bytes, first, 4)
    BY <1>2, <2>2, <2>3, <2>4
  <2> QED
    BY <1>6, <2>5
<1> QED
  BY <1>3, <1>4, <1>5, <1>6

\* The decoder and the standard divide a text in the same way.
LEMMA SameDivision ==
  ASSUME NEW bytes \in Seq(Byte)
  PROVE  valid_utf8(bytes) <=> WellFormed(bytes)
<1> DEFINE Accepted(first, n) == Char(bytes, first, n)
           Tabled(first, n) == InTable(bytes, first, n)
<1>1. ASSUME NEW starts \in SUBSET (1..(Len(bytes) + 1)),
             NEW first \in starts \ {Len(bytes) + 1}, NEW n \in 1..4,
             first + n \in starts
      PROVE  Accepted(first, n) <=> Tabled(first, n)
  <2>1. first \in 1..Len(bytes) /\ first + n <= Len(bytes) + 1
    BY <1>1
  <2> QED
    BY <2>1, CharIsInTable
<1>2. valid_utf8(bytes) <=>
        \E starts \in SUBSET (1..(Len(bytes) + 1)) :
          /\ 1 \in starts
          /\ \A first \in starts \ {Len(bytes) + 1} :
               \E n \in 1..4 : first + n \in starts /\ Accepted(first, n)
  BY DEF valid_utf8, Divides
<1>3. WellFormed(bytes) <=>
        \E starts \in SUBSET (1..(Len(bytes) + 1)) :
          /\ 1 \in starts
          /\ \A first \in starts \ {Len(bytes) + 1} :
               \E n \in 1..4 : first + n \in starts /\ Tabled(first, n)
  BY DEF WellFormed, Divides
<1> HIDE DEF Accepted, Tabled
<1> QED
  BY <1>1, <1>2, <1>3

\* Texts are sequences of bytes.
TextOfBytes == text \in Seq(Byte)

LEMMA InitText == Init => TextOfBytes
<1>1. Init => text = <<>>
  BY DEF Init
<1>2. <<>> \in Seq(Byte)
  OBVIOUS
<1> QED
  BY <1>1, <1>2 DEF TextOfBytes

LEMMA NextText == TextOfBytes /\ [Next]_vars => TextOfBytes'
<1> SUFFICES ASSUME text \in Seq(Byte), [Next]_vars
             PROVE  text' \in Seq(Byte)
  BY DEF TextOfBytes
<1>1. CASE \E byte \in Byte : Typed(byte)
  BY <1>1 DEF Typed
<1>2. CASE UNCHANGED text
  BY <1>2
<1> QED
  BY <1>1, <1>2 DEF Next, vars, Damaged, StatusNotification,
     SettingsNotification, RequestOutput, RequestEcoMode, RequestCarCharger,
     RequestEcoShutdownTime, RequestWorkMode, RequestSettings,
     RequestDeviceName

\* Utf8IsUnicode: the decoder accepts the well-formed texts of the standard and no
\* others, of any length.
THEOREM DecoderIsUnicode == Spec => []Utf8IsUnicode
<1>1. TextOfBytes => Utf8IsUnicode
  BY SameDivision DEF Utf8IsUnicode, TextOfBytes
<1> QED
  BY <1>1, InitText, NextText, PTL DEF Spec

-----------------------------------------------------------------------------
(* Names.                                                                  *)

\* The least of some numbers.
LEMMA LeastExists ==
  ASSUME NEW S \in SUBSET Nat, S # {}
  PROVE  \E x \in S : \A y \in S : x <= y
<1> DEFINE R == {ss \in Nat \X Nat : ss[1] < ss[2]}
<1>1. IsWellFoundedOn(R, Nat)
  BY NatLessThanWellFounded DEF OpToRel
<1>2. \E x \in S : \A y \in S : ~(<<y, x>> \in R)
  <2> HIDE DEF R
  <2> QED
    BY <1>1, WFMin
<1>3. \A x, y \in S : ~(<<y, x>> \in R) => x <= y
  OBVIOUS
<1> QED
  BY <1>2, <1>3

LEMMA FirstAndLast ==
  ASSUME NEW n \in Nat, NEW S \in SUBSET (1..n), S # {}
  PROVE  /\ Min(S) \in S /\ \A i \in S : Min(S) <= i
         /\ Max(S) \in S /\ \A i \in S : i <= Max(S)
<1>1. \E x \in S : \A y \in S : x <= y
  BY LeastExists
<1>2. \E x \in S : \A y \in S : x >= y
  <2> DEFINE T == {n - i : i \in S}
  <2>1. T \in SUBSET Nat /\ T # {}
    <3>1. ASSUME NEW i \in S
          PROVE  n - i \in Nat
      <4>1. i \in 1..n
        OBVIOUS
      <4> QED
        BY <4>1
    <3> QED
      BY <3>1
  <2>2. PICK x \in T : \A y \in T : x <= y
    <3> HIDE DEF T
    <3> QED
      BY <2>1, LeastExists
  <2>3. PICK i \in S : x = n - i
    OBVIOUS
  <2>4. \A j \in S : n - j \in T
    OBVIOUS
  <2>5. \A j \in S : i >= j
    BY <2>2, <2>3, <2>4
  <2> QED
    BY <2>5
<1> QED
  BY <1>1, <1>2 DEF Min, Max

\* What is trimmed starts and ends without a space, and is not trimmed again.
LEMMA TrimmedStays ==
  ASSUME NEW name \in Seq(Byte), name # <<>>,
         ~IsSpace(name[1]), ~IsSpace(name[Len(name)])
  PROVE  Trimmed(name) = name
<1> DEFINE kept == {i \in DOMAIN name : ~IsSpace(name[i])}
<1>1. Len(name) \in Nat /\ Len(name) >= 1 /\ kept \in SUBSET (1..Len(name))
  OBVIOUS
<1>2. 1 \in kept /\ Len(name) \in kept
  BY <1>1
<1>3. Trimmed(name) = SubSeq(name, Min(kept), Max(kept))
  BY <1>2 DEF Trimmed
<1> HIDE DEF kept
<1>4. Min(kept) = 1 /\ Max(kept) = Len(name)
  <2> DEFINE n == Len(name)
  <2>1. n \in Nat /\ kept \in SUBSET (1..n) /\ 1 \in kept /\ n \in kept
    BY <1>1, <1>2
  <2> HIDE DEF n
  <2>2. /\ Min(kept) \in kept /\ Min(kept) <= 1
        /\ Max(kept) \in kept /\ n <= Max(kept)
    BY <2>1, FirstAndLast
  <2>3. Min(kept) \in 1..n /\ Max(kept) \in 1..n
    BY <2>1, <2>2
  <2> QED
    BY <2>1, <2>2, <2>3 DEF n
<1>5. SubSeq(name, 1, Len(name)) = name
  OBVIOUS
<1> QED
  BY <1>3, <1>4, <1>5

LEMMA TrimmedEnds ==
  ASSUME NEW name \in Seq(Byte), Trimmed(name) # <<>>
  PROVE  /\ Trimmed(name) \in Seq(Byte)
         /\ ~IsSpace(Trimmed(name)[1])
         /\ ~IsSpace(Trimmed(name)[Len(Trimmed(name))])
<1> DEFINE kept == {i \in DOMAIN name : ~IsSpace(name[i])}
           m == Min(kept)
           n == Max(kept)
<1>1. kept \in SUBSET (1..Len(name)) /\ Len(name) \in Nat
  OBVIOUS
<1>2. \A i \in kept : ~IsSpace(name[i])
  OBVIOUS
<1>6. Trimmed(name) = IF kept = {} THEN <<>> ELSE SubSeq(name, m, n)
  BY DEF Trimmed
<1> HIDE DEF kept, m, n
<1>7. kept # {} /\ Trimmed(name) = SubSeq(name, m, n)
  BY <1>6
<1>3. m \in kept /\ n \in kept /\ m <= n
  BY <1>1, <1>7, FirstAndLast DEF m, n
<1>4. m \in 1..Len(name) /\ n \in 1..Len(name)
  BY <1>1, <1>3
<1>5. /\ SubSeq(name, m, n) \in Seq(Byte)
      /\ Len(SubSeq(name, m, n)) = n - m + 1
      /\ SubSeq(name, m, n)[1] = name[m]
      /\ SubSeq(name, m, n)[n - m + 1] = name[n]
  BY <1>3, <1>4
<1> QED
  BY <1>2, <1>3, <1>5, <1>7

\* What normalize_station_name returns.
LEMMA NormalizedName ==
  ASSUME NEW name \in Seq(Byte), normalize_station_name(name) # None
  PROVE  LET kept == normalize_station_name(name) IN
         /\ kept = Trimmed(name) /\ Usable(kept)
         /\ kept \in Seq(Byte) /\ Len(kept) \in 1..MaxDeviceNameLength
         /\ ~IsSpace(kept[1]) /\ ~IsSpace(kept[Len(kept)])
<1>1. normalize_station_name(name) = Trimmed(name) /\ Usable(Trimmed(name))
  BY DEF normalize_station_name
<1>2. Len(Trimmed(name)) \in 1..MaxDeviceNameLength
  BY <1>1 DEF Usable
<1>3. Trimmed(name) # <<>>
  <2>1. Len(Trimmed(name)) # 0
    BY <1>2, ProtocolAssumption DEF ProtocolAssumption
  <2> QED
    BY <2>1
<1> QED
  BY <1>1, <1>2, <1>3, TrimmedEnds

\* Parts of one and of two bytes.
LEMMA SmallParts ==
  ASSUME NEW name \in Seq(Byte), NEW i \in DOMAIN name, NEW j \in DOMAIN name
  PROVE  /\ \A c : SubSeq(name, i, j) = <<c>> => name[i] = c
         /\ \A b, c : SubSeq(name, i, j) = <<b, c>> =>
                        i < Len(name) /\ name[i] = b /\ name[i + 1] = c
<1> DEFINE part == SubSeq(name, i, j)
<1>1. i \in Nat /\ j \in Nat /\ i <= Len(name) /\ j <= Len(name)
  OBVIOUS
<1>2. /\ Len(part) = IF i <= j THEN j - i + 1 ELSE 0
      /\ i <= j => part[1] = name[i]
      /\ i < j => part[2] = name[i + 1]
  BY <1>1
<1> HIDE DEF part
<1>3. /\ Len(part) = 1 => i <= j
      /\ Len(part) = 2 => i < j /\ i < Len(name)
  <2> DEFINE length == Len(part)
             last == Len(name)
  <2>1. /\ i \in Int /\ j \in Int /\ last \in Int /\ length \in Int
        /\ j <= last
        /\ i <= j => length = j - i + 1
        /\ ~(i <= j) => length = 0
    BY <1>1, <1>2
  <2> HIDE DEF length, last
  <2>2. (length = 1 => i <= j) /\ (length = 2 => i < j /\ i < last)
    BY <2>1
  <2> QED
    BY <2>2, Zenon DEF length, last
<1>4. \A c : part = <<c>> => name[i] = c
  <2> TAKE c
  <2> DEFINE single == <<c>>
  <2>1. Len(single) = 1 /\ single[1] = c
    OBVIOUS
  <2> HIDE DEF single
  <2>2. part = single => name[i] = c
    BY <1>2, <1>3, <2>1, Zenon
  <2> QED
    BY <2>2, Zenon DEF single
<1>5. \A b, c : part = <<b, c>> =>
        i < Len(name) /\ name[i] = b /\ name[i + 1] = c
  <2> TAKE b, c
  <2> DEFINE pair == <<b, c>>
  <2>1. Len(pair) = 2 /\ pair[1] = b /\ pair[2] = c
    OBVIOUS
  <2> HIDE DEF pair
  <2>2. i < j => i <= j
    BY <1>1
  <2>3. part = pair => i < Len(name) /\ name[i] = b /\ name[i + 1] = c
    BY <1>2, <1>3, <2>1, <2>2, Zenon
  <2> QED
    BY <2>3, Zenon DEF pair
<1> QED
  BY <1>4, <1>5, Zenon DEF part

\* No control character is part of a name without one.
LEMMA NoControls ==
  ASSUME NEW name \in Seq(Byte), ~HasControl(name)
  PROVE  Parts(name) \cap Controls = {}
<1>1. ASSUME NEW i \in DOMAIN name, NEW j \in DOMAIN name
      PROVE  SubSeq(name, i, j) \notin Controls
  <2> DEFINE C0 == (\h00..\h1F) \cup {\h7F}
             C1 == \h80..\h9F
             lead == \hC2
  <2>1. \A c \in C0 : name[i] # c
    BY DEF HasControl
  <2>2. ~(i < Len(name) /\ name[i] = lead /\ name[i + 1] \in C1)
    BY DEF HasControl
  <2>3. Controls = {<<c>> : c \in C0} \cup {<<lead, c>> : c \in C1}
    BY DEF Controls
  <2>4. /\ \A c : SubSeq(name, i, j) = <<c>> => name[i] = c
        /\ \A b, c : SubSeq(name, i, j) = <<b, c>> =>
                       i < Len(name) /\ name[i] = b /\ name[i + 1] = c
    BY SmallParts
  <2> HIDE DEF C0, C1, lead
  <2>5. /\ \A c \in C0 : SubSeq(name, i, j) # <<c>>
        /\ \A c \in C1 : SubSeq(name, i, j) # <<lead, c>>
    BY <2>1, <2>2, <2>4, Zenon
  <2> QED
    BY <2>3, <2>5, Zenon
<1>2. ASSUME NEW part \in Parts(name)
      PROVE  part \notin Controls
  <2>1. PICK i \in DOMAIN name, j \in DOMAIN name : part = SubSeq(name, i, j)
    BY DEF Parts
  <2> QED
    BY <1>1, <2>1, Zenon
<1> QED
  BY <1>2

\* A name that differs from the placeholders in lower case differs from them in any
\* case.
LEMMA NoPlaceholder ==
  ASSUME NEW name \in Seq(Byte), NEW p \in Placeholders, Len(p) = Len(name),
         [i \in DOMAIN name |-> ToLower(name[i])] \notin Placeholders
  PROVE  \E i \in DOMAIN p : name[i] # p[i] /\ ToLower(name[i]) # p[i]
<1> SUFFICES ASSUME \A i \in DOMAIN p :
                      name[i] = p[i] \/ ToLower(name[i]) = p[i]
             PROVE  FALSE
  OBVIOUS
<1>1. p \in Seq(Byte) /\ DOMAIN p = DOMAIN name
  BY ProtocolAssumption DEF ProtocolAssumption
<1>2. \A i \in DOMAIN p : ToLower(name[i]) = p[i]
  BY PlaceholdersAssumption DEF ToLower
<1>3. p = [i \in DOMAIN p |-> p[i]]
  BY <1>1
<1>4. [i \in DOMAIN name |-> ToLower(name[i])] = p
  BY <1>1, <1>2, <1>3
<1> QED
  BY <1>4

\* NamesAreClean: what a kept name is, for every text that is typed or advertised.
LEMMA CleanNames == TextOfBytes => NamesAreClean
<1> DEFINE name == normalize_station_name(text)
<1> SUFFICES ASSUME text \in Seq(Byte), name # None
             PROVE  /\ name # <<>> /\ Len(name) <= MaxDeviceNameLength
                    /\ WellFormed(name)
                    /\ Parts(name) \cap Controls = {}
                    /\ ~IsSpace(name[1]) /\ ~IsSpace(name[Len(name)])
                    /\ \A p \in Placeholders :
                         Len(p) = Len(name) =>
                           \E i \in DOMAIN p :
                             name[i] # p[i] /\ ToLower(name[i]) # p[i]
                    /\ normalize_station_name(name) = name
  BY DEF TextOfBytes, NamesAreClean
<1>1. /\ Usable(name) /\ name \in Seq(Byte)
      /\ Len(name) \in 1..MaxDeviceNameLength
      /\ ~IsSpace(name[1]) /\ ~IsSpace(name[Len(name)])
  BY NormalizedName
<1> HIDE DEF name
<1>2. MaxDeviceNameLength \in Nat
  BY ProtocolAssumption DEF ProtocolAssumption
<1>3. name # <<>> /\ Len(name) <= MaxDeviceNameLength
  BY <1>1, <1>2
<1>4. WellFormed(name)
  BY <1>1, SameDivision DEF Usable
<1>5. Parts(name) \cap Controls = {}
  BY <1>1, NoControls DEF Usable
<1>6. \A p \in Placeholders :
        Len(p) = Len(name) =>
          \E i \in DOMAIN p : name[i] # p[i] /\ ToLower(name[i]) # p[i]
  BY <1>1, NoPlaceholder DEF Usable
<1>7. Trimmed(name) = name
  BY <1>1, <1>3, TrimmedStays
<1>8. normalize_station_name(name) = name
  BY <1>1, <1>7 DEF normalize_station_name
<1> QED
  BY <1>1, <1>3, <1>4, <1>5, <1>6, <1>8

THEOREM CleanNamesOnly == Spec => []NamesAreClean
  BY CleanNames, InitText, NextText, PTL DEF Spec

-----------------------------------------------------------------------------
(* The commands.                                                           *)

Outputs == [dc : BOOLEAN, ac : BOOLEAN, light : BOOLEAN]
SettingsRecords == [flags : Byte, eco_time : Byte]

BitsOf(o) == Bit(o.dc, 1) + Bit(o.ac, 2) + Bit(o.light, 32)
CheckOf(o) == (113 - BitsOf(o) + Bit(o.ac, 4)) % 256

\* The check byte of the control frame, which is computed by subtraction, is the xor
\* of the output bits with 113 ...
LEMMA ControlCheck ==
  ASSUME NEW o \in Outputs
  PROVE  /\ BitsOf(o) \in Byte /\ CheckOf(o) \in Byte
         /\ \A mask \in Masks :
              Has(CheckOf(o), mask) <=> (Has(113, mask) # Has(BitsOf(o), mask))
<1>1. o.dc \in BOOLEAN /\ o.ac \in BOOLEAN /\ o.light \in BOOLEAN
  BY DEF Outputs
<1> DEFINE dc == o.dc
           ac == o.ac
           light == o.light
           bits == Bit(dc, 1) + Bit(ac, 2) + Bit(light, 32)
           check == (113 - bits + Bit(ac, 4)) % 256
<1>2. BitsOf(o) = bits /\ CheckOf(o) = check
  BY DEF BitsOf, CheckOf
<1>3. dc \in BOOLEAN /\ ac \in BOOLEAN /\ light \in BOOLEAN
  BY <1>1
<1> HIDE DEF dc, ac, light
<1>4. /\ bits \in Byte /\ check \in Byte
      /\ Has(check, 1) <=> (Has(113, 1) # Has(bits, 1))
      /\ Has(check, 2) <=> (Has(113, 2) # Has(bits, 2))
      /\ Has(check, 4) <=> (Has(113, 4) # Has(bits, 4))
      /\ Has(check, 8) <=> (Has(113, 8) # Has(bits, 8))
      /\ Has(check, 16) <=> (Has(113, 16) # Has(bits, 16))
      /\ Has(check, 32) <=> (Has(113, 32) # Has(bits, 32))
      /\ Has(check, 64) <=> (Has(113, 64) # Has(bits, 64))
      /\ Has(check, 128) <=> (Has(113, 128) # Has(bits, 128))
  BY <1>3, Bytes DEF Bit, Has
<1> QED
  BY <1>2, <1>4 DEF Masks

\* ... and 113 is the xor of the bytes before them.
LEMMA ControlLead ==
  ASSUME NEW mask \in Masks
  PROVE  Odd(<<\hA5, \h65, \h00, \hB1, \h01, \h01, \h00>>, mask) <=> Has(113, mask)
<1> DEFINE c1 == \hA5
           c2 == \h65
           c3 == \h00
           c4 == \hB1
           c5 == \h01
<1>1. c1 \in Byte /\ c2 \in Byte /\ c3 \in Byte /\ c4 \in Byte /\ c5 \in Byte
  BY Bytes
<1> DEFINE Grown(longer, bytes, byte) == longer = Append(bytes, byte)
<1>2. \A longer : \A bytes \in Seq(Byte), byte \in Byte :
        Grown(longer, bytes, byte) =>
          (Odd(longer, mask) <=> ~(Odd(bytes, mask) <=> Has(byte, mask)))
  BY OddAppend DEF Odd, Has
<1> DEFINE b0 == <<>>
           b1 == <<\hA5>>
           b2 == <<\hA5, \h65>>
           b3 == <<\hA5, \h65, \h00>>
           b4 == <<\hA5, \h65, \h00, \hB1>>
           b5 == <<\hA5, \h65, \h00, \hB1, \h01>>
           b6 == <<\hA5, \h65, \h00, \hB1, \h01, \h01>>
           b7 == <<\hA5, \h65, \h00, \hB1, \h01, \h01, \h00>>
<1>3. /\ b0 \in Seq(Byte) /\ b1 \in Seq(Byte) /\ b2 \in Seq(Byte)
      /\ b3 \in Seq(Byte) /\ b4 \in Seq(Byte) /\ b5 \in Seq(Byte) /\ b6 \in Seq(Byte)
  BY <1>1
<1>4. /\ Grown(b1, b0, c1) /\ Grown(b2, b1, c2)
      /\ Grown(b3, b2, c3) /\ Grown(b4, b3, c4)
      /\ Grown(b5, b4, c5) /\ Grown(b6, b5, c5) /\ Grown(b7, b6, c3)
  OBVIOUS
<1>5. ~Odd(b0, mask)
  BY OddEmpty
<1> HIDE DEF Grown, b0, b1, b2, b3, b4, b5, b6, b7, c1, c2, c3, c4, c5
<1>6. /\ Odd(b1, mask) <=> ~(Odd(b0, mask) <=> Has(c1, mask))
      /\ Odd(b2, mask) <=> ~(Odd(b1, mask) <=> Has(c2, mask))
      /\ Odd(b3, mask) <=> ~(Odd(b2, mask) <=> Has(c3, mask))
      /\ Odd(b4, mask) <=> ~(Odd(b3, mask) <=> Has(c4, mask))
      /\ Odd(b5, mask) <=> ~(Odd(b4, mask) <=> Has(c5, mask))
      /\ Odd(b6, mask) <=> ~(Odd(b5, mask) <=> Has(c5, mask))
      /\ Odd(b7, mask) <=> ~(Odd(b6, mask) <=> Has(c3, mask))
  BY <1>1, <1>2, <1>3, <1>4
<1>7. /\ Odd(b0, mask) \in BOOLEAN /\ Odd(b1, mask) \in BOOLEAN
      /\ Odd(b2, mask) \in BOOLEAN /\ Odd(b3, mask) \in BOOLEAN
      /\ Odd(b4, mask) \in BOOLEAN /\ Odd(b5, mask) \in BOOLEAN
      /\ Odd(b6, mask) \in BOOLEAN /\ Odd(b7, mask) \in BOOLEAN
  BY DEF Odd
<1>8. Odd(b7, mask) <=> Has(113, mask)
  BY <1>5, <1>6, <1>7 DEF Has, Masks, c1, c2, c3, c4, c5
<1> QED
  BY <1>8 DEF b7

LEMMA ControlFrames ==
  ASSUME NEW o \in Outputs
  PROVE  /\ make_control_frame(o) \in Seq(Byte)
         /\ make_control_frame(o)[8] = BitsOf(o)
         /\ validate_frame(make_control_frame(o)) = "NONE"
<1> DEFINE lead == <<\hA5, \h65, \h00, \hB1, \h01, \h01, \h00>>
           frame == Append(Append(lead, BitsOf(o)), CheckOf(o))
<1>1. make_control_frame(o) = frame
  BY DEF make_control_frame, BitsOf, CheckOf
<1>2. lead \in Seq(Byte)
  BY Bytes
<1>3. /\ Len(lead) = 7
      /\ lead[1] = \hA5 /\ lead[2] = \h65 /\ lead[6] = 1
  OBVIOUS
<1>4. \A mask \in Masks : Odd(lead, mask) <=> Has(113, mask)
  BY ControlLead
<1> HIDE DEF lead
<1>5. /\ BitsOf(o) \in Byte /\ CheckOf(o) \in Byte
      /\ \A mask \in Masks :
           Has(CheckOf(o), mask) <=> (Has(113, mask) # Has(BitsOf(o), mask))
  BY ControlCheck
<1>6. /\ Append(lead, BitsOf(o)) \in Seq(Byte)
      /\ Len(frame) = 9 /\ frame[1] = \hA5 /\ frame[2] = \h65 /\ frame[6] = 1
      /\ frame[8] = BitsOf(o)
  <2> DEFINE bits == BitsOf(o)
             check == CheckOf(o)
  <2>1. bits \in Byte /\ check \in Byte
    BY <1>5
  <2> HIDE DEF bits, check
  <2>2. /\ Append(lead, bits) \in Seq(Byte)
        /\ Len(Append(lead, bits)) = Len(lead) + 1
        /\ Append(lead, bits)[Len(lead) + 1] = bits
        /\ \A i \in 1..Len(lead) : Append(lead, bits)[i] = lead[i]
    BY <1>2, <2>1
  <2> DEFINE eight == Append(lead, bits)
  <2> HIDE DEF eight
  <2>3. /\ Len(Append(eight, check)) = Len(eight) + 1
        /\ \A i \in 1..Len(eight) : Append(eight, check)[i] = eight[i]
    BY <2>1, <2>2 DEF eight
  <2>4. /\ Len(Append(eight, check)) = 9
        /\ Append(eight, check)[1] = lead[1]
        /\ Append(eight, check)[2] = lead[2]
        /\ Append(eight, check)[6] = lead[6]
        /\ Append(eight, check)[8] = bits
    BY <1>3, <2>2, <2>3 DEF eight
  <2> QED
    BY <1>3, <2>2, <2>4 DEF eight, bits, check
<1>7. ASSUME NEW mask \in Masks
      PROVE  ~Odd(frame, mask)
  <2>1. Odd(Append(lead, BitsOf(o)), mask) <=>
          (Odd(lead, mask) # Has(BitsOf(o), mask))
    BY <1>2, <1>5, OddAppend
  <2>2. Odd(frame, mask) <=>
          (Odd(Append(lead, BitsOf(o)), mask) # Has(CheckOf(o), mask))
    <3>1. \A bytes \in Seq(Byte), byte \in Byte :
            Odd(Append(bytes, byte), mask) <=>
              (Odd(bytes, mask) # Has(byte, mask))
      BY OddAppend
    <3>2. Append(lead, BitsOf(o)) \in Seq(Byte) /\ CheckOf(o) \in Byte
      BY <1>5, <1>6
    <3>3. frame = Append(Append(lead, BitsOf(o)), CheckOf(o))
      OBVIOUS
    <3> HIDE DEF frame
    <3> QED
      BY <3>1, <3>2, <3>3, Zenon
  <2>3. /\ Odd(lead, mask) \in BOOLEAN
        /\ Odd(Append(lead, BitsOf(o)), mask) \in BOOLEAN
        /\ Has(113, mask) \in BOOLEAN /\ Has(BitsOf(o), mask) \in BOOLEAN
        /\ Has(CheckOf(o), mask) \in BOOLEAN
    BY DEF Odd, Has
  <2> QED
    BY <1>4, <1>5, <2>1, <2>2, <2>3
<1>8. xor_bytes(frame) = 0
  BY <1>7, XorBits, NoBits
<1>9. frame \in Seq(Byte)
  BY <1>5, <1>6
<1> HIDE DEF frame
<1>10. validate_frame(frame) = "NONE"
  BY <1>6, <1>8 DEF validate_frame, At, MinFrameLength
<1> QED
  BY <1>1, <1>6, <1>9, <1>10

LEMMA SettingsCommands ==
  ASSUME NEW s \in SettingsRecords
  PROVE  /\ validate_frame(make_settings_frame(s)) = "NONE"
         /\ make_settings_frame(s)[8] = s.flags
         /\ make_settings_frame(s)[9] = s.eco_time
<1> DEFINE from == \h00
           to == \hB1
           command == \h02
           payload == <<s.flags, s.eco_time>>
<1>1. make_settings_frame(s) = Framed(from, to, command, payload)
  <2>1. <<\hA5, \h65, \h00, \hB1, \h01, \h02, \h02, s.flags, s.eco_time>> =
          <<\hA5, \h65, \h00, \hB1, \h01, Len(<<s.flags, s.eco_time>>), \h02>>
            \o <<s.flags, s.eco_time>>
    OBVIOUS
  <2> QED
    BY <2>1 DEF make_settings_frame, Framed
<1>2. from \in Byte /\ to \in Byte /\ command \in Byte
  BY Bytes
<1>3. s.flags \in Byte /\ s.eco_time \in Byte
  BY DEF SettingsRecords
<1>4. payload \in Seq(Byte)
  BY <1>3
<1>5. /\ Len(payload) >= 2 /\ Len(payload) <= 2 /\ Len(payload) \in Byte
      /\ payload[1] = s.flags /\ payload[2] = s.eco_time
  BY Bytes
<1> HIDE DEF from, to, command, payload
<1> DEFINE frame == Framed(from, to, command, payload)
<1>6. /\ validate_frame(frame) = "NONE"
      /\ \A i \in 1..Len(payload) : frame[7 + i] = payload[i]
  BY <1>2, <1>4, <1>5, FramesAreValid
<1> HIDE DEF frame
<1>7. 1 \in 1..Len(payload) /\ 2 \in 1..Len(payload)
  BY <1>5
<1>8. frame[7 + 1] = payload[1] /\ frame[7 + 2] = payload[2]
  BY <1>6, <1>7
<1> QED
  BY <1>1, <1>5, <1>6, <1>8 DEF frame

LEMMA NameCommands ==
  ASSUME NEW name \in Seq(Byte), Len(name) \in Byte
  PROVE  LET frame == make_device_name_frame(name) IN
         /\ validate_frame(frame) = "NONE"
         /\ Len(frame) = 8 + Len(name)
         /\ frame \in Seq(Byte)
         /\ frame[6] = Len(name) /\ frame[7] = DeviceNameCommand
         /\ \A i \in 1..Len(name) : frame[7 + i] = name[i]
<1> DEFINE from == \h00
           to == \hB1
<1>1. make_device_name_frame(name) = Framed(from, to, DeviceNameCommand, name)
  BY DEF make_device_name_frame, Framed
<1>2. from \in Byte /\ to \in Byte /\ DeviceNameCommand \in Byte
  BY Bytes DEF DeviceNameCommand
<1> HIDE DEF from, to
<1> QED
  BY <1>1, <1>2, FramesAreValid

\* What the commands are made of: an accepted report, never a damaged one, and the
\* name that was typed.
Commands ==
  /\ outputs # None => /\ subject = "status" /\ outputs \in Outputs
                       /\ validate_frame(air) = "NONE"
  /\ settings # None => subject = "settings" /\ settings \in SettingsRecords
  /\ written # None =>
       /\ validate_frame(written) = "NONE"
       /\ subject = "status" => outputs # None
       /\ subject = "name" =>
            /\ normalize_station_name(text) # None
            /\ written = make_device_name_frame(normalize_station_name(text))

\* The outputs are those of the report, until a command changes one of them.
OutputsOfReport ==
  outputs # None /\ written = None => outputs = parse_status(air).outputs

LEMMA NoneIsNothing ==
  /\ None \notin Outputs /\ None \notin SettingsRecords
  /\ \A name \in Seq(Byte) : name # None
  BY ProtocolAssumption DEF ProtocolAssumption, Outputs, SettingsRecords

LEMMA InitCommands == Init => Commands /\ OutputsOfReport
  BY DEF Init, Commands, OutputsOfReport

\* What settings report was accepted.
LEMMA AcceptedSettings ==
  ASSUME Arrival, subject = "settings", SettingsError(air) = "NONE"
  PROVE  [flags |-> parse_settings(air).flags,
          eco_time |-> parse_settings(air).eco_time] \in SettingsRecords
<1>1. validate_frame(air) = "NONE"
  BY DEF SettingsError, ErrorOf
<1>2. air = SettingsFrame(sent)
        /\ sent \in [flags : Byte, eco_time : Byte, hardware : Byte,
                     firmware : Byte]
  BY <1>1, SentReports DEF Arrival, AsSent
<1>3. SettingsMeant(air, sent)
  BY <1>2, SettingsFrames
<1>4. air[8] \in Byte /\ air[9] \in Byte
  BY <1>2, <1>3 DEF SettingsMeant
<1> QED
  BY <1>4 DEF parse_settings, At, SettingsRecords

\* What the settings requests ask for are settings.
LEMMA RequestedSettings ==
  ASSUME NEW s \in SettingsRecords
  PROVE  /\ \A mask, state :
              [s EXCEPT !.flags = WithBit(@, mask, state)] \in SettingsRecords
         /\ \A mode :
              [s EXCEPT !.flags = WithWorkMode(@, mode)] \in SettingsRecords
         /\ \A index \in 0..4 :
              index < Len(EcoShutdownHours) =>
                [s EXCEPT !.eco_time = EcoShutdownHours[index + 1]]
                  \in SettingsRecords
<1>1. \A mask, state : WithBit(s.flags, mask, state) \in Byte
  BY AndBits, OrBits DEF WithBit
<1>2. \A mode : WithWorkMode(s.flags, mode) \in Byte
  BY OrBits DEF WithWorkMode
<1>3. \A index \in 0..4 :
        index < Len(EcoShutdownHours) => EcoShutdownHours[index + 1] \in Byte
  BY Bytes DEF EcoShutdownHours
<1> QED
  BY <1>1, <1>2, <1>3 DEF SettingsRecords

LEMMA SettingsStep ==
  ASSUME NEW new \in SettingsRecords, Commands, RequestSettings(new)
  PROVE  Commands'
<1>1. /\ subject = "settings" /\ settings' = new /\ outputs = None
      /\ UNCHANGED <<subject, air, outputs, text>>
      /\ written' = None \/ written' = make_settings_frame(new)
  BY DEF RequestSettings, Commands
<1>2. validate_frame(make_settings_frame(new)) = "NONE"
  BY SettingsCommands
<1> QED
  BY <1>1, <1>2 DEF Commands

\* A name that is kept can be written: its length is a byte.
LEMMA KeptNames ==
  ASSUME TextOfBytes, normalize_station_name(text) # None
  PROVE  LET name == normalize_station_name(text) IN
         /\ name \in Seq(Byte) /\ Len(name) \in Byte
         /\ Len(name) <= MaxDeviceNameLength /\ Usable(name)
<1> DEFINE name == normalize_station_name(text)
           length == Len(name)
           most == MaxDeviceNameLength
<1>1. name \in Seq(Byte) /\ Usable(name) /\ length \in 1..most
  BY NormalizedName DEF TextOfBytes
<1>2. most \in 1..247
  BY ProtocolAssumption DEF ProtocolAssumption
<1> HIDE DEF length, most
<1>3. length \in Byte /\ length <= most
  BY <1>1, <1>2, Bytes
<1> QED
  BY <1>1, <1>3 DEF length, most

LEMMA NameStep ==
  ASSUME Commands, TextOfBytes, RequestDeviceName
  PROVE  Commands'
<1> DEFINE name == normalize_station_name(text)
<1>1. /\ subject = "name" /\ name # None /\ written' = make_device_name_frame(name)
      /\ UNCHANGED <<subject, air, outputs, settings, text>>
  BY DEF RequestDeviceName
<1>2. name \in Seq(Byte) /\ Len(name) \in Byte
  BY <1>1, KeptNames
<1>3. validate_frame(written') = "NONE"
  BY <1>1, <1>2, NameCommands
<1> QED
  BY <1>1, <1>3 DEF Commands

LEMMA OutputStep ==
  ASSUME Commands, NEW output \in {"dc", "ac", "light"}, NEW state \in BOOLEAN,
         RequestOutput(output, state)
  PROVE  Commands'
<1>1. /\ subject = "status" /\ outputs \in Outputs
      /\ validate_frame(air) = "NONE"
      /\ outputs' = [outputs EXCEPT ![output] = state]
      /\ written' = make_control_frame(outputs')
      /\ UNCHANGED <<subject, air, settings, text>>
  BY DEF RequestOutput, Commands
<1>2. outputs' \in Outputs
  BY <1>1 DEF Outputs
<1>3. outputs' # None
  BY <1>2, NoneIsNothing
<1>4. validate_frame(written') = "NONE"
  BY <1>1, <1>2, ControlFrames
<1> QED
  BY <1>1, <1>2, <1>3, <1>4 DEF Commands

LEMMA NextCommands ==
  Commands /\ Arrival /\ TextOfBytes /\ [Next]_vars => Commands'
<1> SUFFICES ASSUME Commands, Arrival, TextOfBytes, [Next]_vars
             PROVE  Commands'
  OBVIOUS
<1>1. CASE UNCHANGED vars
  BY <1>1 DEF vars, Commands
<1>2. ASSUME NEW byte \in Byte, Typed(byte)
      PROVE  Commands'
  BY <1>2 DEF Typed, Commands, Typing
<1>3. CASE Damaged
  BY <1>3 DEF Damaged, Commands, Reports
<1>4. CASE StatusNotification
  <2>1. validate_frame(air) = "NONE"
    BY <1>4 DEF StatusNotification, StatusError, ErrorOf
  <2>2. outputs' \in Outputs
    BY <1>4 DEF StatusNotification, parse_status, OutputsOf, Has, Outputs
  <2>3. outputs' # None
    BY <2>2, NoneIsNothing
  <2> QED
    BY <1>4, <2>1, <2>2, <2>3 DEF StatusNotification, Commands
<1>5. CASE SettingsNotification
  <2>1. settings' \in SettingsRecords
    BY <1>5, AcceptedSettings DEF SettingsNotification
  <2> QED
    BY <1>5, <2>1 DEF SettingsNotification, Commands
<1>6. ASSUME NEW output \in {"dc", "ac", "light"}, NEW state \in BOOLEAN,
             RequestOutput(output, state)
      PROVE  Commands'
  BY <1>6, OutputStep
<1>7. ASSUME NEW state \in BOOLEAN, RequestEcoMode(state) \/ RequestCarCharger(state)
      PROVE  Commands'
  <2>1. settings \in SettingsRecords
    BY <1>7 DEF RequestEcoMode, RequestCarCharger, RequestSettings, Commands
  <2>2. PICK mask : RequestSettings([settings EXCEPT
                                       !.flags = WithBit(@, mask, state)])
    BY <1>7 DEF RequestEcoMode, RequestCarCharger
  <2> QED
    BY <2>1, <2>2, RequestedSettings, SettingsStep
<1>8. ASSUME NEW index \in 0..4, RequestEcoShutdownTime(index)
      PROVE  Commands'
  <2>1. settings \in SettingsRecords
    BY <1>8 DEF RequestEcoShutdownTime, RequestSettings, Commands
  <2> QED
    BY <1>8, <2>1, RequestedSettings, SettingsStep DEF RequestEcoShutdownTime
<1>9. ASSUME NEW index \in 0..4, RequestWorkMode(index)
      PROVE  Commands'
  <2>1. settings \in SettingsRecords
    BY <1>9 DEF RequestWorkMode, RequestSettings, Commands
  <2> QED
    BY <1>9, <2>1, RequestedSettings, SettingsStep DEF RequestWorkMode
<1>10. CASE RequestDeviceName
  BY <1>10, NameStep
<1> QED
  BY <1>1, <1>2, <1>3, <1>4, <1>5, <1>6, <1>7, <1>8, <1>9, <1>10 DEF Next

\* CommandsAreFrames: every control, settings and name frame the component writes is
\* a frame by its own rules, the control frame included, whose check byte is
\* computed in another way.  The status request is not among them.
THEOREM CommandsAreValid == Spec => []CommandsAreFrames
<1>1. Commands => CommandsAreFrames
  BY DEF Commands, CommandsAreFrames
<1> QED
  BY <1>1, InitArrival, NextArrival, InitText, NextText, InitCommands,
     NextCommands, PTL DEF Spec

\* The payload of a frame around a name is the name.
LEMMA NamePayload ==
  ASSUME NEW frame, NEW name \in Seq(Byte), frame \in Seq(Byte),
         Len(frame) = 8 + Len(name), frame[6] = Len(name),
         \A i \in 1..Len(name) : frame[7 + i] = name[i]
  PROVE  Payload(frame) = name
<1> DEFINE n == Len(name)
<1>1. n \in Nat
  OBVIOUS
<1>2. Payload(frame) = SubSeq(frame, 8, 7 + n)
  BY DEF Payload, At
<1>3. Len(frame) = 8 + n /\ \A i \in 1..n : frame[7 + i] = name[i]
  OBVIOUS
<1>4. name = [i \in 1..n |-> name[i]]
  OBVIOUS
<1> HIDE DEF n
<1>5. SubSeq(frame, 8, 7 + n) = [i \in 1..n |-> frame[7 + i]]
  BY <1>1, <1>3
<1> QED
  BY <1>2, <1>3, <1>4, <1>5

LEMMA NameReports ==
  ASSUME NEW frame, NEW name \in Seq(Byte), frame \in Seq(Byte),
         validate_frame(frame) = "NONE",
         Len(frame) = 8 + Len(name), frame[6] = Len(name),
         frame[7] = DeviceNameCommand,
         \A i \in 1..Len(name) : frame[7 + i] = name[i]
  PROVE  /\ Payload(frame) = name
         /\ NameError(frame) = "NONE" <=>
              Len(name) <= MaxDeviceNameLength /\ valid_utf8(name)
<1>1. Payload(frame) = name
  BY NamePayload
<1>2. ErrorOf(frame, DeviceNameCommand) = "NONE"
  BY DEF ErrorOf, At
<1>3. MaxDeviceNameLength \in Int /\ Len(name) \in Int
  BY ProtocolAssumption DEF ProtocolAssumption
<1>4. NameError(frame) =
        IF Len(name) > MaxDeviceNameLength THEN "INVALID_DEVICE_NAME_LENGTH"
        ELSE IF ~valid_utf8(name) THEN "INVALID_UTF8"
        ELSE "NONE"
  BY <1>1, <1>2 DEF NameError, At
<1>5. valid_utf8(name) \in BOOLEAN
  BY DEF valid_utf8, Divides
<1> QED
  BY <1>1, <1>3, <1>4, <1>5

LEMMA SurvivingNames ==
  Commands /\ Arrival /\ TextOfBytes => NamesSurviveTheAir
<1> SUFFICES ASSUME Commands, Arrival, TextOfBytes
             PROVE  NamesSurviveTheAir
  OBVIOUS
<1>1. ASSUME subject = "name", written # None
      PROVE  /\ NameError(written) = "NONE"
             /\ Payload(written) = normalize_station_name(text)
  <2> DEFINE name == normalize_station_name(text)
  <2>1. name # None /\ written = make_device_name_frame(name)
    BY <1>1 DEF Commands
  <2>2. /\ name \in Seq(Byte) /\ Len(name) \in Byte
        /\ Len(name) <= MaxDeviceNameLength /\ valid_utf8(name)
    BY <2>1, KeptNames DEF Usable
  <2> HIDE DEF name
  <2>3. /\ written \in Seq(Byte) /\ validate_frame(written) = "NONE"
        /\ Len(written) = 8 + Len(name) /\ written[6] = Len(name)
        /\ written[7] = DeviceNameCommand
        /\ \A i \in 1..Len(name) : written[7 + i] = name[i]
    BY <2>1, <2>2, NameCommands
  <2> QED
    BY <2>2, <2>3, NameReports DEF name
<1>2. ASSUME subject = "station name", ~damaged
      PROVE  NameError(air) = "NONE" <=> Len(sent) <= MaxDeviceNameLength
                                         /\ WellFormed(sent)
  <2>1. /\ air = StationFrame(DeviceNameCommand, sent)
        /\ sent \in Seq(Byte) /\ Len(sent) \in Byte
    BY <1>2, SentReports DEF Arrival, AsSent
  <2>2. /\ air \in Seq(Byte) /\ validate_frame(air) = "NONE"
        /\ Len(air) = 8 + Len(sent) /\ air[6] = Len(sent)
        /\ air[7] = DeviceNameCommand
        /\ \A i \in 1..Len(sent) : air[7 + i] = sent[i]
    BY <2>1, NameFrames
  <2> QED
    BY <2>1, <2>2, NameReports, SameDivision
<1> QED
  BY <1>1, <1>2 DEF NamesSurviveTheAir

\* NamesSurviveTheAir: a name of any length that is written comes back the same, and
\* a report is refused only for its length or its encoding.
THEOREM NamesSurvive == Spec => []NamesSurviveTheAir
  BY SurvivingNames, InitArrival, NextArrival, InitText, NextText,
     InitCommands, NextCommands, PTL DEF Spec

\* The output bits of a control frame, read back.
LEMMA OutputBits ==
  ASSUME NEW o \in Outputs
  PROVE  o = [dc |-> BitsOf(o) % 2 = 1, ac |-> (BitsOf(o) \div 2) % 2 = 1,
              light |-> (BitsOf(o) \div 32) % 2 = 1]
<1>1. o.dc \in BOOLEAN /\ o.ac \in BOOLEAN /\ o.light \in BOOLEAN
      /\ o = [dc |-> o.dc, ac |-> o.ac, light |-> o.light]
  BY DEF Outputs
<1> DEFINE dc == o.dc
           ac == o.ac
           light == o.light
           bits == Bit(dc, 1) + Bit(ac, 2) + Bit(light, 32)
<1>2. dc \in BOOLEAN /\ ac \in BOOLEAN /\ light \in BOOLEAN
  BY <1>1
<1>3. BitsOf(o) = bits
  BY DEF BitsOf
<1> HIDE DEF dc, ac, light
<1>4. /\ dc = (bits % 2 = 1) /\ ac = ((bits \div 2) % 2 = 1)
      /\ light = ((bits \div 32) % 2 = 1)
  BY <1>2 DEF Bit
<1> HIDE DEF bits
<1> QED
  BY <1>1, <1>3, <1>4 DEF dc, ac, light

LEMMA NextOutputs ==
  Commands /\ OutputsOfReport /\ OutputsKeepTheirMeaning /\ [Next]_vars =>
    OutputsOfReport' /\ OutputsKeepTheirMeaning'
<1> SUFFICES ASSUME Commands, OutputsOfReport, OutputsKeepTheirMeaning, [Next]_vars
             PROVE  OutputsOfReport' /\ OutputsKeepTheirMeaning'
  OBVIOUS
<1>1. ASSUME NEW output \in {"dc", "ac", "light"}, NEW state \in BOOLEAN,
             RequestOutput(output, state)
      PROVE  OutputsOfReport' /\ OutputsKeepTheirMeaning'
  <2>1. /\ outputs \in Outputs /\ outputs = parse_status(air).outputs
        /\ outputs' = [outputs EXCEPT ![output] = state]
        /\ written' = make_control_frame(outputs') /\ UNCHANGED air
    BY <1>1 DEF RequestOutput, Commands, OutputsOfReport
  <2>2. outputs' \in Outputs
    BY <2>1 DEF Outputs
  <2>3. /\ make_control_frame(outputs')[8] = BitsOf(outputs')
        /\ make_control_frame(outputs') \in Seq(Byte)
    BY <2>2, ControlFrames
  <2>4. At(written', 7) = BitsOf(outputs')
    BY <2>1, <2>3 DEF At
  <2>5. outputs' = [dc |-> At(written', 7) % 2 = 1,
                    ac |-> (At(written', 7) \div 2) % 2 = 1,
                    light |-> (At(written', 7) \div 32) % 2 = 1]
    BY <2>2, <2>4, OutputBits
  <2>6. [outputs' EXCEPT ![output] = FALSE] =
          [parse_status(air').outputs EXCEPT ![output] = FALSE]
    BY <2>1 DEF Outputs
  <2>7. written' # None
    BY <2>1, <2>3, NoneIsNothing
  <2> QED
    BY <2>5, <2>6, <2>7 DEF OutputsOfReport, OutputsKeepTheirMeaning
<1>2. CASE StatusNotification
  BY <1>2 DEF StatusNotification, Commands, OutputsOfReport,
     OutputsKeepTheirMeaning
<1>3. CASE Damaged
  BY <1>3 DEF Damaged, Commands, OutputsOfReport, OutputsKeepTheirMeaning
<1>4. CASE UNCHANGED <<subject, air, outputs, written>>
  BY <1>4 DEF OutputsOfReport, OutputsKeepTheirMeaning
<1>5. ASSUME NEW new, RequestSettings(new)
      PROVE  OutputsOfReport' /\ OutputsKeepTheirMeaning'
  BY <1>5 DEF RequestSettings, Commands, OutputsOfReport,
     OutputsKeepTheirMeaning
<1>6. CASE RequestDeviceName
  BY <1>6 DEF RequestDeviceName, Commands, OutputsOfReport,
     OutputsKeepTheirMeaning
<1> QED
  BY <1>1, <1>2, <1>3, <1>4, <1>5, <1>6 DEF Next, vars, Typed,
     SettingsNotification, RequestEcoMode, RequestCarCharger,
     RequestEcoShutdownTime, RequestWorkMode

\* OutputsKeepTheirMeaning: a command says of every output but its own what the report
\* said, although the light has another bit in each of them.
THEOREM OutputsKeep == Spec => []OutputsKeepTheirMeaning
<1>1. Init => OutputsKeepTheirMeaning
  BY DEF Init, OutputsKeepTheirMeaning
<1> QED
  BY <1>1, InitArrival, NextArrival, InitText, NextText, InitCommands,
     NextCommands, NextOutputs, PTL DEF Spec

-----------------------------------------------------------------------------
(* The settings requests, bit by bit.                                      *)

\* The fields of a byte of flags, from its bits.
LEMMA FieldsOfFlags ==
  ASSUME NEW x \in Byte
  PROVE  /\ x % 2 = Bit(Has(x, 1), 1)
         /\ (x \div 2) % 4 = Bit(Has(x, 2), 1) + Bit(Has(x, 4), 2)
         /\ (x \div 8) % 2 = Bit(Has(x, 8), 1)
         /\ (x \div 16) % 2 = Bit(Has(x, 16), 1)
         /\ x \div 32 =
              Bit(Has(x, 32), 1) + Bit(Has(x, 64), 2) + Bit(Has(x, 128), 4)
  BY DEF Byte, Bit, Has

LEMMA SettingABit ==
  ASSUME NEW x \in Byte, NEW mask \in Masks, NEW state \in BOOLEAN
  PROVE  /\ WithBit(x, mask, state) \in Byte
         /\ \A m \in Masks :
              Has(WithBit(x, mask, state), m) <=>
                IF m = mask THEN state ELSE Has(x, m)
<1>1. \A m \in Masks : Has(mask, m) <=> m = mask
  BY DEF Masks, Has
<1>2. \A m \in Masks : Has(255 - mask, m) <=> m # mask
  BY DEF Masks, Has
<1>3. WithBit(x, mask, state) = IF state THEN x | mask ELSE x & (255 - mask)
  BY DEF WithBit
<1>4. /\ x | mask \in Byte
      /\ \A m \in Masks : Has(x | mask, m) <=> Has(x, m) \/ Has(mask, m)
  BY OrBits
<1>5. /\ x & (255 - mask) \in Byte
      /\ \A m \in Masks :
           Has(x & (255 - mask), m) <=> Has(x, m) /\ Has(255 - mask, m)
  BY AndBits
<1> QED
  BY <1>1, <1>2, <1>3, <1>4, <1>5

LEMMA SettingTheMode ==
  ASSUME NEW x \in Byte, NEW mode \in 0..2
  PROVE  /\ WithWorkMode(x, mode) \in Byte
         /\ \A m \in Masks :
              Has(WithWorkMode(x, mode), m) <=>
                IF m = 2 THEN mode = 1 ELSE IF m = 4 THEN mode = 2 ELSE Has(x, m)
<1>1. \A m \in Masks : Has(255 - WorkModeMask, m) <=> m # 2 /\ m # 4
  BY DEF Masks, Has, WorkModeMask
<1>2. \A m \in Masks :
        Has(2 * mode, m) <=> (m = 2 /\ mode = 1) \/ (m = 4 /\ mode = 2)
  BY DEF Masks, Has
<1> DEFINE rest == x & (255 - WorkModeMask)
<1>3. \A m \in Masks : Has(rest, m) <=> Has(x, m) /\ Has(255 - WorkModeMask, m)
  BY AndBits
<1> HIDE DEF rest
<1>4. /\ rest | (2 * mode) \in Byte
      /\ \A m \in Masks :
           Has(rest | (2 * mode), m) <=> Has(rest, m) \/ Has(2 * mode, m)
  BY OrBits
<1>5. WithWorkMode(x, mode) = rest | (2 * mode)
  BY DEF WithWorkMode, rest
<1> QED
  BY <1>1, <1>2, <1>3, <1>4, <1>5

\* The mode the select shows.
LEMMA ModeOfFlags ==
  ASSUME NEW x \in Byte
  PROVE  WorkMode(x) = Bit(Has(x, 2), 1) + Bit(Has(x, 4), 2)
<1> DEFINE y == x & WorkModeMask
<1>1. /\ y \in Byte
      /\ \A m \in Masks : Has(y, m) <=> Has(x, m) /\ Has(WorkModeMask, m)
  BY AndBits
<1>2. \A m \in Masks : Has(WorkModeMask, m) <=> m = 2 \/ m = 4
  BY DEF Masks, Has, WorkModeMask
<1> HIDE DEF y
<1>3. /\ Has(y, 1) = FALSE /\ Has(y, 2) = Has(x, 2) /\ Has(y, 4) = Has(x, 4)
      /\ Has(y, 8) = FALSE /\ Has(y, 16) = FALSE /\ Has(y, 32) = FALSE
      /\ Has(y, 64) = FALSE /\ Has(y, 128) = FALSE
  BY <1>1, <1>2 DEF Masks, Has
<1>4. y = Bit(Has(x, 2), 2) + Bit(Has(x, 4), 4)
  BY <1>1, <1>3, ByteIsItsBits DEF Bit
<1>5. y \div 2 = Bit(Has(x, 2), 1) + Bit(Has(x, 4), 2)
  BY <1>4 DEF Bit
<1> QED
  BY <1>5 DEF WorkMode, y

LEMMA OptionShown ==
  /\ \A index \in 0..2 : Option(WorkModes, index) = index
  /\ \A index \in 0..3 :
       Option(EcoShutdownHours, EcoShutdownHours[index + 1]) = index
<1>1. \A k \in Int : Min({k}) = k
  BY DEF Min
<1>2. ASSUME NEW index \in 0..2
      PROVE  Option(WorkModes, index) = index
  <2>1. {i \in DOMAIN WorkModes : WorkModes[i] = index} = {index + 1}
    BY DEF WorkModes
  <2> QED
    BY <1>1, <2>1 DEF Option
<1>3. ASSUME NEW index \in 0..3
      PROVE  Option(EcoShutdownHours, EcoShutdownHours[index + 1]) = index
  <2>1. {i \in DOMAIN EcoShutdownHours :
           EcoShutdownHours[i] = EcoShutdownHours[index + 1]} = {index + 1}
    BY DEF EcoShutdownHours
  <2> QED
    BY <1>1, <2>1 DEF Option
<1> QED
  BY <1>2, <1>3

\* What a request writes is what it leaves in the component.
LEMMA Written ==
  ASSUME NEW new \in SettingsRecords, RequestSettings(new),
         NEW meant, Decoded(new) = meant
  PROVE  Changes(meant) /\ entities' = Published(new)
<1>1. /\ settings' = new /\ entities' = Published(new)
      /\ written' # None => written' = make_settings_frame(new)
  BY DEF RequestSettings
<1>2. /\ make_settings_frame(new)[8] = new.flags
      /\ make_settings_frame(new)[9] = new.eco_time
  BY SettingsCommands
<1> QED
  BY <1>1, <1>2 DEF Changes, At

LEMMA EcoAsked ==
  ASSUME Commands, NEW state \in BOOLEAN, RequestEcoMode(state)
  PROVE  /\ Changes([Decoded(settings) EXCEPT !.eco = Bit(state, 1)])
         /\ entities'.eco = state
<1> DEFINE x == settings.flags
           y == WithBit(x, EcoMask, state)
           new == [settings EXCEPT !.flags = y]
<1>1. settings \in SettingsRecords /\ RequestSettings(new)
  BY DEF RequestEcoMode, RequestSettings, Commands
<1>2. x \in Byte
  BY <1>1 DEF SettingsRecords
<1>3. EcoMask \in Masks /\ EcoMask = 1
  BY DEF EcoMask, Masks
<1>4. /\ y \in Byte
      /\ \A m \in Masks : Has(y, m) <=> IF m = 1 THEN state ELSE Has(x, m)
  BY <1>2, <1>3, SettingABit
<1>5. /\ new \in SettingsRecords /\ new.flags = y
      /\ new.eco_time = settings.eco_time
  BY <1>1, <1>4 DEF SettingsRecords
<1> HIDE DEF new, y
<1>6. /\ Has(y, 1) = state /\ Has(y, 2) = Has(x, 2) /\ Has(y, 4) = Has(x, 4)
      /\ Has(y, 8) = Has(x, 8) /\ Has(y, 16) = Has(x, 16)
      /\ Has(y, 32) = Has(x, 32) /\ Has(y, 64) = Has(x, 64)
      /\ Has(y, 128) = Has(x, 128)
  BY <1>4 DEF Masks, Has
<1>7. /\ y % 2 = Bit(state, 1) /\ (y \div 2) % 4 = (x \div 2) % 4
      /\ (y \div 8) % 2 = (x \div 8) % 2 /\ (y \div 16) % 2 = (x \div 16) % 2
      /\ y \div 32 = x \div 32
  BY <1>2, <1>4, <1>6, FieldsOfFlags
<1>8. Decoded(new) = [Decoded(settings) EXCEPT !.eco = Bit(state, 1)]
  BY <1>5, <1>7 DEF Decoded
<1>9. /\ Changes([Decoded(settings) EXCEPT !.eco = Bit(state, 1)])
      /\ entities' = Published(new)
  BY <1>1, <1>5, <1>8, Written
<1>10. Published(new).eco = state
  BY <1>3, <1>5, <1>6 DEF Published
<1> QED
  BY <1>9, <1>10

LEMMA CarChargerAsked ==
  ASSUME Commands, NEW state \in BOOLEAN, RequestCarCharger(state)
  PROVE  /\ Changes([Decoded(settings) EXCEPT !.car = Bit(state, 1)])
         /\ entities'.car = state
<1> DEFINE x == settings.flags
           y == WithBit(x, CarChargerMask, state)
           new == [settings EXCEPT !.flags = y]
<1>1. settings \in SettingsRecords /\ RequestSettings(new)
  BY DEF RequestCarCharger, RequestSettings, Commands
<1>2. x \in Byte
  BY <1>1 DEF SettingsRecords
<1>3. CarChargerMask \in Masks /\ CarChargerMask = 16
  BY DEF CarChargerMask, Masks
<1>4. /\ y \in Byte
      /\ \A m \in Masks : Has(y, m) <=> IF m = 16 THEN state ELSE Has(x, m)
  BY <1>2, <1>3, SettingABit
<1>5. /\ new \in SettingsRecords /\ new.flags = y
      /\ new.eco_time = settings.eco_time
  BY <1>1, <1>4 DEF SettingsRecords
<1> HIDE DEF new, y
<1>6. /\ Has(y, 16) = state /\ Has(y, 2) = Has(x, 2) /\ Has(y, 4) = Has(x, 4)
      /\ Has(y, 8) = Has(x, 8) /\ Has(y, 1) = Has(x, 1)
      /\ Has(y, 32) = Has(x, 32) /\ Has(y, 64) = Has(x, 64)
      /\ Has(y, 128) = Has(x, 128)
  BY <1>4 DEF Masks, Has
<1>7. /\ y % 2 = x % 2 /\ (y \div 2) % 4 = (x \div 2) % 4
      /\ (y \div 8) % 2 = (x \div 8) % 2 /\ (y \div 16) % 2 = Bit(state, 1)
      /\ y \div 32 = x \div 32
  BY <1>2, <1>4, <1>6, FieldsOfFlags
<1>8. Decoded(new) = [Decoded(settings) EXCEPT !.car = Bit(state, 1)]
  BY <1>5, <1>7 DEF Decoded
<1>9. /\ Changes([Decoded(settings) EXCEPT !.car = Bit(state, 1)])
      /\ entities' = Published(new)
  BY <1>1, <1>5, <1>8, Written
<1>10. Published(new).car = state
  BY <1>3, <1>5, <1>6 DEF Published
<1> QED
  BY <1>9, <1>10

LEMMA WorkModeAsked ==
  ASSUME Commands, NEW index \in 0..3, RequestWorkMode(index)
  PROVE  /\ Changes([Decoded(settings) EXCEPT !.mode = index])
         /\ entities'.mode = index
<1>1. index \in 0..2 /\ WorkModes[index + 1] = index
  BY DEF RequestWorkMode, WorkModes
<1> DEFINE x == settings.flags
           y == WithWorkMode(x, index)
           new == [settings EXCEPT !.flags = y]
<1>2. settings \in SettingsRecords /\ RequestSettings(new)
  BY <1>1 DEF RequestWorkMode, RequestSettings, Commands
<1>3. x \in Byte
  BY <1>2 DEF SettingsRecords
<1>4. /\ y \in Byte
      /\ \A m \in Masks :
           Has(y, m) <=> IF m = 2 THEN index = 1
                         ELSE IF m = 4 THEN index = 2 ELSE Has(x, m)
  BY <1>1, <1>3, SettingTheMode
<1>5. /\ new \in SettingsRecords /\ new.flags = y
      /\ new.eco_time = settings.eco_time
  BY <1>2, <1>4 DEF SettingsRecords
<1> HIDE DEF new, y
<1>6. /\ Has(y, 1) = Has(x, 1) /\ Has(y, 2) = (index = 1)
      /\ Has(y, 4) = (index = 2)
      /\ Has(y, 8) = Has(x, 8) /\ Has(y, 16) = Has(x, 16)
      /\ Has(y, 32) = Has(x, 32) /\ Has(y, 64) = Has(x, 64)
      /\ Has(y, 128) = Has(x, 128)
  BY <1>4 DEF Masks, Has
<1>7. Bit(Has(y, 2), 1) + Bit(Has(y, 4), 2) = index
  <2>1. Bit(index = 1, 1) + Bit(index = 2, 2) = index
    BY <1>1 DEF Bit
  <2>2. Has(y, 2) = (index = 1) /\ Has(y, 4) = (index = 2)
    BY <1>6
  <2> QED
    BY <2>1, <2>2, Zenon
<1>8. /\ y % 2 = x % 2 /\ (y \div 2) % 4 = index
      /\ (y \div 8) % 2 = (x \div 8) % 2 /\ (y \div 16) % 2 = (x \div 16) % 2
      /\ y \div 32 = x \div 32
  BY <1>3, <1>4, <1>6, <1>7, FieldsOfFlags
<1>9. Decoded(new) = [Decoded(settings) EXCEPT !.mode = index]
  BY <1>5, <1>8 DEF Decoded
<1>10. /\ Changes([Decoded(settings) EXCEPT !.mode = index])
       /\ entities' = Published(new)
  BY <1>2, <1>5, <1>9, Written
<1>11. WorkMode(y) = index
  BY <1>4, <1>7, ModeOfFlags
<1>12. Published(new).mode = index
  BY <1>1, <1>5, <1>11, OptionShown DEF Published
<1> QED
  BY <1>10, <1>12

LEMMA EcoShutdownAsked ==
  ASSUME Commands, NEW index \in 0..3, RequestEcoShutdownTime(index)
  PROVE  /\ \E hours \in {1, 2, 4, 6} :
              Changes([Decoded(settings) EXCEPT !.hours = hours])
         /\ entities'.hours = index
<1> DEFINE hours == EcoShutdownHours[index + 1]
           new == [settings EXCEPT !.eco_time = hours]
<1>1. hours \in {1, 2, 4, 6} /\ hours \in Byte
  BY Bytes DEF EcoShutdownHours
<1>2. settings \in SettingsRecords /\ RequestSettings(new)
  BY DEF RequestEcoShutdownTime, RequestSettings, Commands
<1>3. Option(EcoShutdownHours, hours) = index
  BY OptionShown
<1> HIDE DEF hours
<1>4. /\ new \in SettingsRecords /\ new.flags = settings.flags
      /\ new.eco_time = hours
  BY <1>1, <1>2 DEF SettingsRecords
<1> HIDE DEF new
<1>5. Decoded(new) = [Decoded(settings) EXCEPT !.hours = hours]
  BY <1>4 DEF Decoded
<1>6. /\ Changes([Decoded(settings) EXCEPT !.hours = hours])
      /\ entities' = Published(new)
  BY <1>2, <1>4, <1>5, Written
<1>7. Published(new).hours = index
  BY <1>3, <1>4 DEF Published
<1> QED
  BY <1>1, <1>6, <1>7

\* RequestsChangeTheirField: a request changes its own field and no other, whatever
\* the station reported in the other bits, and the entities show what was asked for.
THEOREM RequestsChangeOneField == Spec => RequestsChangeTheirField
<1>1. Commands => [FieldAsked]_vars
  BY EcoAsked, CarChargerAsked, WorkModeAsked, EcoShutdownAsked DEF FieldAsked
<1> QED
  BY <1>1, InitArrival, NextArrival, InitText, NextText, InitCommands,
     NextCommands, PTL DEF Spec, RequestsChangeTheirField

=============================================================================

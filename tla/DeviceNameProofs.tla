--------------------------- MODULE DeviceNameProofs ---------------------------
(***************************************************************************)
(* Proofs about DeviceName, for every set of name lengths and whatever     *)
(* the chunks hold.                                                        *)
(***************************************************************************)
EXTENDS DeviceName, TLAPS

USE DEF ChunkBytes, ByteRange

\* The copy stays in the buffer: pos only advances by what NumBytes allows.
BoundsInv ==
  /\ status \in {"asking", "writing", "reading", "named", "failed"}
  /\ len \in 0..255
  /\ off \in 0..255
  /\ pos \in Nat
  /\ extent \in Nat
  /\ padded \in BOOLEAN
  /\ status = "asking" => off = 0 /\ pos = 0 /\ extent = 0
  /\ InBounds

\* Where a loop over padded chunks stands.  Up to the last chunk the offset and
\* the place of the copy agree; a name of 255 bytes wraps the offset around
\* once and then asks for nothing for ever.
InStep ==
  /\ off = pos
  /\ extent = pos
  /\ off % ChunkBytes = 0
  /\ off = 0 \/ off < len

Wrapped ==
  /\ len = 255
  /\ extent = 256
  /\ \/ off = 0 /\ pos = 255
     \/ off = 1 /\ pos = 256

NameInv ==
  /\ BoundsInv
  /\ status \in {"writing", "reading"} /\ padded => InStep \/ Wrapped
  /\ NameWhole

LEMMA NumBytesFacts ==
  ASSUME BoundsInv
  PROVE  /\ NumBytes \in 0..16
         /\ NumBytes <= len + 1 - pos
         /\ NumBytes = 16 \/ NumBytes = len + 1 - pos
  BY DEF BoundsInv, InBounds, NumBytes, Least, BufferBytes

LEMMA BoundsStep ==
  ASSUME BoundsInv, [Next]_vars
  PROVE  BoundsInv'
<1> USE DEF BoundsInv, InBounds
<1>1. ASSUME NEW n \in Lengths, ReceiveLength(n)
      PROVE  BoundsInv'
  BY <1>1, LengthsAssumption DEF ReceiveLength
<1>2. CASE RequestChunk
  BY <1>2 DEF RequestChunk
<1>3. ASSUME NEW k \in 0..ChunkBytes, ReceiveChunk(k)
      PROVE  BoundsInv'
  <2>1. NumBytes \in 0..16 /\ NumBytes <= len + 1 - pos
    BY NumBytesFacts
  <2>2. off' \in 0..255
    BY <1>3, <2>1 DEF ReceiveChunk, ChunkArrives
  <2>3. padded' \in BOOLEAN
    BY <1>3 DEF ReceiveChunk, ChunkArrives
  <2>4. QED
    BY <1>3, <2>1, <2>2, <2>3 DEF ReceiveChunk, ChunkArrives
<1>4. CASE Fail
  BY <1>4 DEF Fail
<1>5. CASE UNCHANGED vars
  BY <1>5 DEF vars
<1>6. QED
  BY <1>1, <1>2, <1>3, <1>4, <1>5 DEF Next

LEMMA BoundsInit == Init => BoundsInv
  BY DEF Init, BoundsInv, InBounds

\* get_name never writes past the len + 1 bytes it allocated.
THEOREM BoundsCorrect == Spec => []InBounds
<1>1. BoundsInv => InBounds
  BY DEF BoundsInv
<1>2. QED
  BY <1>1, BoundsInit, BoundsStep, PTL DEF Spec

LEMMA NameStep ==
  ASSUME NameInv, [Next]_vars
  PROVE  NameInv'
<1>1. BoundsInv /\ BoundsInv'
  BY BoundsStep DEF NameInv
<1>2. ASSUME NEW n \in Lengths, ReceiveLength(n)
      PROVE  NameInv'
  BY <1>1, <1>2 DEF ReceiveLength, BoundsInv, NameInv, InStep, NameWhole
<1>3. CASE RequestChunk
  BY <1>1, <1>3 DEF RequestChunk, NameInv, InStep, Wrapped, NameWhole
<1>4. ASSUME NEW k \in 0..ChunkBytes, ReceiveChunk(k)
      PROVE  NameInv'
  <2>1. /\ status = "reading" /\ len' = len
        /\ pos' = pos + k /\ extent' = pos + NumBytes
        /\ off' = (off + NumBytes) % 256
        /\ padded' = (padded /\ k = NameBytes)
        /\ status' = IF off' < len THEN "writing" ELSE "named"
    BY <1>4 DEF ReceiveChunk, ChunkArrives
  <2>2. CASE ~padded'
    BY <1>1, <2>1, <2>2 DEF NameInv, NameWhole
  <2>3. ASSUME padded'
        PROVE  NameInv'
    <3>1. padded /\ k = NameBytes
      BY <2>1, <2>3
    <3>2. InStep \/ Wrapped
      BY <2>1, <3>1 DEF NameInv
    <3>3. CASE Wrapped
      <4>1. /\ NumBytes = 256 - pos
            /\ k = NumBytes
        BY <3>1, <3>3 DEF Wrapped, NumBytes, NameBytes, Least, BufferBytes
      <4>2. off' = 1 /\ pos' = 256 /\ extent' = 256
        BY <2>1, <3>3, <4>1 DEF Wrapped
      <4>3. QED
        BY <1>1, <2>1, <3>3, <4>2 DEF NameInv, NameWhole, Wrapped
    <3>4. CASE InStep
      <4>1. len \in 0..255 /\ off \in 0..255 /\ off = pos /\ off % 16 = 0
            /\ (off = 0 \/ off < len)
        BY <1>1, <3>4 DEF InStep, BoundsInv
      <4>2. CASE len - off > 16
        BY <1>1, <2>1, <3>1, <4>1, <4>2
        DEF NameInv, NameWhole, InStep, NumBytes, NameBytes, Least, BufferBytes
      <4>3. CASE len - off = 16
        BY <1>1, <2>1, <3>1, <4>1, <4>3
        DEF NameInv, NameWhole, InStep, NumBytes, NameBytes, Least, BufferBytes
      <4>4. CASE len - off < 16 /\ len # 255
        BY <1>1, <2>1, <3>1, <4>1, <4>4
        DEF NameInv, NameWhole, InStep, NumBytes, NameBytes, Least, BufferBytes
      <4>5. CASE len - off < 16 /\ len = 255
        BY <1>1, <2>1, <3>1, <4>1, <4>5
        DEF NameInv, NameWhole, Wrapped, NumBytes, NameBytes, Least, BufferBytes
      <4>6. QED
        BY <4>1, <4>2, <4>3, <4>4, <4>5
    <3>5. QED
      BY <3>2, <3>3, <3>4
  <2>4. QED
    BY <2>2, <2>3
<1>5. CASE Fail
  BY <1>1, <1>5 DEF Fail, NameInv, NameWhole
<1>6. CASE UNCHANGED vars
  BY <1>1, <1>6 DEF vars, NameInv, InStep, Wrapped, NameWhole
<1>7. QED
  BY <1>2, <1>3, <1>4, <1>5, <1>6 DEF Next

\* A name from a device that pads its chunks is whole, and unterminated exactly
\* when its length is a positive multiple of sixteen.
THEOREM NameCorrect == Spec => []NameWhole
<1>1. Init => NameInv
  BY BoundsInit DEF Init, NameInv, NameWhole
<1>2. NameInv => NameWhole
  BY DEF NameInv
<1>3. QED
  BY <1>1, <1>2, NameStep, PTL DEF Spec
-------------------------------------------------------------------------------
\* The length is one that the device told, which the bounds of the copy do not
\* need but the types say.
TypeInv ==
  /\ BoundsInv
  /\ len \in Lengths \cup {0}

LEMMA TypeStep ==
  ASSUME TypeInv, [Next]_vars
  PROVE  TypeInv'
<1>1. BoundsInv'
  BY BoundsStep DEF TypeInv
<1>2. ASSUME NEW n \in Lengths, ReceiveLength(n)
      PROVE  len' \in Lengths
  BY <1>2 DEF ReceiveLength
<1>3. ASSUME NEW k \in 0..ChunkBytes, ReceiveChunk(k)
      PROVE  len' = len
  BY <1>3 DEF ReceiveChunk, ChunkArrives
<1>4. CASE RequestChunk \/ Fail \/ UNCHANGED vars
  BY <1>1, <1>4 DEF RequestChunk, Fail, vars, TypeInv
<1>5. QED
  BY <1>1, <1>2, <1>3, <1>4 DEF TypeInv, Next

\* The offset stays a byte, and the place of the copy within the 256 bytes that
\* the longest name needs.
THEOREM TypeCorrect == Spec => []TypeOK
<1>1. Init => TypeInv
  BY BoundsInit DEF Init, TypeInv
<1>2. TypeInv => TypeOK
  <2>1. SUFFICES ASSUME TypeInv
                 PROVE  TypeOK
    OBVIOUS
  <2>2. len \in 0..255 /\ pos \in Nat /\ extent \in Nat
    BY <2>1 DEF TypeInv, BoundsInv
  <2>3. pos <= extent /\ extent <= len + 1
    BY <2>1 DEF TypeInv, BoundsInv, InBounds
  <2>4. pos \in 0..256 /\ extent \in 0..256
    BY <2>2, <2>3
  <2>5. QED
    BY <2>1, <2>4 DEF TypeInv, BoundsInv, TypeOK
<1>3. QED
  BY <1>1, <1>2, TypeStep, PTL DEF Spec
===============================================================================

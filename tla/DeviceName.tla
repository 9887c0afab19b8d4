------------------------------ MODULE DeviceName ------------------------------
(***************************************************************************)
(* The chunked copy of a device's name: slavery_device_get_name.           *)
(*                                                                         *)
(* The device tells the length of its name, a byte.  The code allocates    *)
(* length + 1 bytes and asks for the name sixteen bytes at a time, from an *)
(* offset kept in one byte of the request, copying each chunk with stpncpy *)
(* to wherever the last copy stopped.  The offset and the place of the     *)
(* copy advance separately: the offset by what was asked for, the place by *)
(* what came before a NUL.                                                 *)
(***************************************************************************)
EXTENDS Naturals

CONSTANT Lengths   \* bound: the name lengths a device may report

ASSUME LengthsAssumption == Lengths \subseteq 0..255

ChunkBytes == 16   \* name bytes of one response
ByteRange  == 256  \* request_data[4] is a uint8_t

VARIABLES
  status,  \* where the function is: at an exchange, or "named" or "failed"
  len,     \* name_length
  off,     \* request_data[4]: the offset asked for
  pos,     \* name_pos - name: where the next chunk is copied to
  extent,  \* bytes of the buffer written so far
  padded   \* history: each chunk held the name from off on, padded with NULs

vars == <<status, len, off, pos, extent, padded>>

Init ==
  /\ status = "asking"
  /\ len = 0
  /\ off = 0
  /\ pos = 0
  /\ extent = 0
  /\ padded = TRUE

Least(a, b) == IF a <= b THEN a ELSE b

\* The room malloc made, and how much of it one chunk may take.
MutantBufferWithoutNul == len
BufferBytes == len + 1

MutantNoRoomLeftCheck == ChunkBytes
NumBytes == Least(BufferBytes - pos, ChunkBytes)

\* Characters of the name in a chunk that a device pads with NULs.
NameBytes == IF off < len THEN Least(len - off, NumBytes) ELSE 0

-------------------------------------------------------------------------------
\* The first exchange returns the length; the offset is the zero that the
\* length request carried.
ReceiveLength(n) ==
  /\ status = "asking"
  /\ len' = n
  /\ status' = "writing"
  /\ UNCHANGED <<off, pos, extent, padded>>

\* The request for the chunk at off is written.
RequestChunk ==
  /\ status = "writing"
  /\ status' = "reading"
  /\ UNCHANGED <<len, off, pos, extent, padded>>

\* A chunk arrives whose first NUL, if it has one among the bytes taken, comes
\* after k others.  stpncpy writes all NumBytes bytes, the rest as NULs, and
\* leaves name_pos at the first of them; the offset moves on by NumBytes.
ChunkArrives(k, step) ==
  /\ status = "reading"
  /\ k <= NumBytes
  /\ pos' = pos + k
  /\ extent' = pos + NumBytes
  /\ off' = step
  /\ padded' = (padded /\ k = NameBytes)
  /\ status' = IF off' < len THEN "writing" ELSE "named"
  /\ UNCHANGED len

MutantAdvanceByCopied(k) == ChunkArrives(k, (off + k) % ByteRange)
MutantWideOffset(k) == ChunkArrives(k, off + NumBytes)
ReceiveChunk(k) == ChunkArrives(k, (off + NumBytes) % ByteRange)

\* The write or the control read of an exchange fails: NULL is returned.
Fail ==
  /\ status \in {"asking", "writing", "reading"}
  /\ status' = "failed"
  /\ UNCHANGED <<len, off, pos, extent, padded>>

Next ==
  \/ \E n \in Lengths : ReceiveLength(n)
  \/ RequestChunk
  \/ \E k \in 0..ChunkBytes : ReceiveChunk(k)
  \/ Fail

Spec == Init /\ [][Next]_vars

\* Every exchange comes back: the loop goes on for as long as its condition says.
FairSpec ==
  /\ Spec
  /\ WF_vars(\E n \in Lengths : ReceiveLength(n))
  /\ WF_vars(RequestChunk)
  /\ WF_vars(\E k \in 0..ChunkBytes : ReceiveChunk(k))

-------------------------------------------------------------------------------
\* Types: the offset stays a byte.
TypeOK ==
  /\ status \in {"asking", "writing", "reading", "named", "failed"}
  /\ len \in Lengths \cup {0}
  /\ off \in 0..(ByteRange - 1)
  /\ pos \in 0..ByteRange
  /\ extent \in 0..ByteRange
  /\ padded \in BOOLEAN

\* No copy goes past the len + 1 bytes allocated, whatever the chunks hold:
\* also when they are answers to something else (device.c, get_name).
InBounds == pos <= extent /\ extent <= len + 1

\* From a device that pads its chunks, the name is whole, and it ends in a NUL
\* inside the buffer except when its length is a positive multiple of the chunk:
\* then the last chunk is all name and the byte kept for the NUL is never
\* written.
NameWhole ==
  status = "named" /\ padded =>
    /\ pos = len
    /\ (extent > pos) = (len = 0 \/ len % ChunkBytes # 0)

\* get_name has returned.
Ended == status \in {"named", "failed"}

\* The loop ends for any name of up to 240 bytes, whatever its chunks hold, and
\* of up to 254 if they are padded: until there the offset cannot wrap around.
LoopEnds ==
  /\ status = "writing" /\ len <= 240 ~> Ended
  /\ status = "writing" /\ len <= 254 ~> Ended \/ ~padded

\* What libslavery.h says of slavery_receiver_get_device, which calls this: it
\* returns the device, or NULL.  At least for a device that pads its chunks.
NameReturned == <>(Ended \/ ~padded)
===============================================================================

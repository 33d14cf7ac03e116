---------------------------------- MODULE Wire ----------------------------------
(***************************************************************************)
(* What all codecs of src/src share: buffers and big-endian integers.  A   *)
(* buffer is a sequence of bytes; an offset is the C offset, so the byte   *)
(* at offset o is data[o + 1].  A uint32_t is the pair of its 16-bit       *)
(* halves.  A serializer yields the empty sequence where the code returns  *)
(* 0; a parser yields a record whose field rc is what the code returns,    *)
(* with the packet's fields when that is 0.                                *)
(***************************************************************************)
EXTENDS Integers, Sequences

Byte == 0 .. 255

Slice(data, o, n) == SubSeq(data, o + 1, o + n)
From(data, o)     == SubSeq(data, o + 1, Len(data))
Fail(c)           == [rc |-> c]

u16(n) == n % 65536

read_u16_be(data, o) == data[o + 1] * 256 + data[o + 2]
read_u32_be(data, o) == <<read_u16_be(data, o), read_u16_be(data, o + 2)>>
write_u16_be(v)      == <<v \div 256, v % 256>>
write_u32_be(v)      == write_u16_be(v[1]) \o write_u16_be(v[2])

\* A buffer in which a checksum is written over the zeros it was computed with.
Patch(data, o, v) == [data EXCEPT ![o + 1] = v \div 256, ![o + 2] = v % 256]
================================================================================

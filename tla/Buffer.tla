------------------------------- MODULE Buffer -------------------------------
(***************************************************************************)
(* The growable byte buffer of buffer.h and the packing routines of        *)
(* buffpack.h (src/src-shvm-agent), with the patching helpers buff_put_*   *)
(* of dislreagent.c.  A buffer is a record: bytes, the occupied part of    *)
(* the allocation (so occupied = Len(bytes)), and capacity.  The bytes     *)
(* past occupied are never read: buffer_fill overwrites them before        *)
(* occupied grows over them and buffer_fill_at_pos refuses them, so they   *)
(* are not part of the state.  Every value is packed in network order      *)
(* (htons, htonl, htobe64 and memcpy), two's complement, as a sequence of   *)
(* bytes 0..255.                                                           *)
(***************************************************************************)
EXTENDS Integers, Sequences, SequencesExt

CONSTANT INIT_BUFF_SIZE   \* 512 in buffer.h

ASSUME INIT_BUFF_SIZE \in Nat \ {0}

Byte == 0..255

\* buffer_alloc: an empty buffer of INIT_BUFF_SIZE bytes.
buffer_alloc == [bytes |-> <<>>, capacity |-> INIT_BUFF_SIZE]

\* buffer_free: no allocation, capacity and occupied 0.
buffer_free == [bytes |-> <<>>, capacity |-> 0]

buffer_filled(b) == Len(b.bytes)

\* buffer_clean: occupied = 0, the allocation is kept.
buffer_clean(b) == [b EXCEPT !.bytes = <<>>]

\* The capacity buffer_fill extends to: double the capacity, and keep
\* doubling while the free space is still smaller than the data.  (From
\* capacity 0 the loop never ends; no buffer is filled after buffer_free.)
RECURSIVE GrownCapacity(_, _, _)
GrownCapacity(new_capacity, occupied, data_length) ==
    IF new_capacity - occupied < data_length
    THEN GrownCapacity(2 * new_capacity, occupied, data_length)
    ELSE new_capacity

\* A variant of buffer_fill that doubles the capacity once, without the
\* loop that keeps doubling until the data fits.
buffer_fill_grow_once(b, data) ==
    IF b.capacity - buffer_filled(b) < Len(data)
    THEN [bytes |-> b.bytes \o data, capacity |-> 2 * b.capacity]
    ELSE [b EXCEPT !.bytes = @ \o data]

\* buffer_fill: extend when the free space is too small (malloc the new
\* capacity, memcpy the occupied bytes, free the old), then append.
buffer_fill(b, data) ==
    IF b.capacity - buffer_filled(b) < Len(data)
    THEN [bytes    |-> b.bytes \o data,
          capacity |-> GrownCapacity(2 * b.capacity, buffer_filled(b), Len(data))]
    ELSE [b EXCEPT !.bytes = @ \o data]

\* The condition under which buffer_fill_at_pos calls check_error
\* (positions are 0-based offsets, as in the code).
FillAtPosFails(b, pos, data_length) == buffer_filled(b) < pos + data_length

\* buffer_fill_at_pos: overwrite data_length occupied bytes from pos on.
buffer_fill_at_pos(b, pos, data) ==
    [b EXCEPT !.bytes = [i \in DOMAIN @ |->
                           IF i > pos /\ i <= pos + Len(data)
                           THEN data[i - pos] ELSE @[i]]]

\* The n bytes of v in network (big-endian) order, two's complement: what
\* htons/htonl/htobe64 followed by memcpy of the n-byte value stores.
RECURSIVE NetworkOrder(_, _)
NetworkOrder(v, n) ==
    IF n = 0 THEN <<>> ELSE NetworkOrder(v \div 256, n - 1) \o <<v % 256>>

\* The value of a byte sequence read in network order, unsigned and signed.
RECURSIVE FromNetworkOrder(_)
FromNetworkOrder(s) ==
    IF s = <<>> THEN 0 ELSE FromNetworkOrder(Front(s)) * 256 + Last(s)

SignedFromNetworkOrder(s) ==
    LET u == FromNetworkOrder(s)
    IN  IF s # <<>> /\ s[1] >= 128 THEN u - 2^(8 * Len(s)) ELSE u

pack_boolean(b, v) == buffer_fill(b, NetworkOrder(v, 1))
pack_byte(b, v)    == buffer_fill(b, NetworkOrder(v, 1))
pack_char(b, v)    == buffer_fill(b, NetworkOrder(v, 2))
pack_short(b, v)   == buffer_fill(b, NetworkOrder(v, 2))

pack_int(b, v)     == buffer_fill(b, NetworkOrder(v, 4))
pack_long(b, v)    == buffer_fill(b, NetworkOrder(v, 8))

\* pack_string_utf8: the uint16 length in network order, then the bytes.
pack_string_utf8(b, str) ==
    buffer_fill(buffer_fill(b, NetworkOrder(Len(str), 2)), str)

pack_bytes(b, data) == buffer_fill(b, data)

\* buff_put_short/int/long (dislreagent.c): the value in network order at
\* a position already filled.
buff_put_short(b, pos, v) == buffer_fill_at_pos(b, pos, NetworkOrder(v, 2))
buff_put_int(b, pos, v)   == buffer_fill_at_pos(b, pos, NetworkOrder(v, 4))
buff_put_long(b, pos, v)  == buffer_fill_at_pos(b, pos, NetworkOrder(v, 8))
=============================================================================

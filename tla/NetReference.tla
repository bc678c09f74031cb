--------------------------- MODULE NetReference ---------------------------
(***************************************************************************)
(* The net reference encoding of netref.h.  A net reference is the 64-bit  *)
(* JVMTI tag the agent gives an object; from the highest bit it holds the  *)
(* SPEC bit (extra data sent), the class-instance bit, the class id and    *)
(* the object id.  TLC integers are 32 bits wide, so the widths of the two *)
(* id fields are constants (40 and 22 in the code) and the positions of    *)
(* the other fields follow from them exactly as in netref.h: the class id  *)
(* starts where the object id ends, the class-instance bit where the class *)
(* id ends, and the SPEC bit above it.                                     *)
(***************************************************************************)
EXTENDS Integers, Bitwise

CONSTANTS ObjectIdBits,   \* 40 in netref.h
          ClassIdBits     \* 22 in netref.h (CLASS_ID_MASK = 0x3FFFFF)

ASSUME ObjectIdBits \in 1..8 /\ ClassIdBits \in 1..8

OBJECT_ID_POS      == 0
CLASS_ID_POS       == ObjectIdBits
CLASS_INSTANCE_POS == ObjectIdBits + ClassIdBits
SPEC_POS           == CLASS_INSTANCE_POS + 1

OBJECT_ID_MASK      == 2^ObjectIdBits - 1
CLASS_ID_MASK       == 2^ClassIdBits - 1
CLASS_INSTANCE_MASK == 1
SPEC_MASK           == 1

\* A variant of get_bits that masks before it shifts.
get_bits_mask_first(from, bit_mask, low_start) ==
    shiftR(from & bit_mask, low_start)

\* get_bits: shift right, then mask.
get_bits(from, bit_mask, low_start) == shiftR(from, low_start) & bit_mask

\* A variant of set_bits that forgets to mask the value first.
set_bits_unmasked(to, bits, bit_mask, low_start) ==
    to | (bits * 2^low_start)

\* set_bits: mask the value, move it to its position and OR it in.
set_bits(to, bits, bit_mask, low_start) ==
    to | ((bits & bit_mask) * 2^low_start)

net_ref_get_object_id(r)          == get_bits(r, OBJECT_ID_MASK, OBJECT_ID_POS)
net_ref_get_class_id(r)           == get_bits(r, CLASS_ID_MASK, CLASS_ID_POS)
net_ref_get_spec(r)               == get_bits(r, SPEC_MASK, SPEC_POS)
net_ref_get_class_instance_bit(r) == get_bits(r, CLASS_INSTANCE_MASK, CLASS_INSTANCE_POS)

net_ref_set_spec(r, spec) == set_bits(r, spec, SPEC_MASK, SPEC_POS)

\* _set_net_reference: start from 0 and set the four fields in the order of
\* the code.  (The SetTag call is the caller's update of the tag.)
_set_net_reference(object_id, class_id, spec, cbit) ==
    LET r1 == set_bits(0, object_id, OBJECT_ID_MASK, OBJECT_ID_POS)
        r2 == set_bits(r1, class_id, CLASS_ID_MASK, CLASS_ID_POS)
        r3 == set_bits(r2, spec, SPEC_MASK, SPEC_POS)
    IN  set_bits(r3, cbit, CLASS_INSTANCE_MASK, CLASS_INSTANCE_POS)

\* What the format comment of netref.h describes, written arithmetically:
\* every field reduced to its width and placed at its offset.
ReferenceEncoding(object_id, class_id, spec, cbit) ==
      (object_id % 2^ObjectIdBits)
    + (class_id % 2^ClassIdBits) * 2^CLASS_ID_POS
    + (cbit % 2) * 2^CLASS_INSTANCE_POS
    + (spec % 2) * 2^SPEC_POS

\* The same fields read and set with arithmetic, for the models that tag
\* many objects; MCDataPath checks they agree with the code's operators.
RefField(r, bit_mask, low_start) == (r \div 2^low_start) % (bit_mask + 1)
RefSetSpec(r) == IF RefField(r, SPEC_MASK, SPEC_POS) = 1 THEN r ELSE r + 2^SPEC_POS
=============================================================================

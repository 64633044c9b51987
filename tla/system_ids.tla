----------------------------- MODULE system_ids -----------------------------
(***************************************************************************)
(* system/system_ids.hpp: the ids of types, modules and threads.  An id is *)
(* a word of 64 bits whose bits lie in every second place of a field; the  *)
(* fields of modules and threads share a word, which is a system id.       *)
(***************************************************************************)
EXTENDS BitOps

TypeField == Hex(<<5,5,5,5,5,5,5,5>>)
ModuleField == Hex(<<10,10,10,0,0,0,0,0>>)
ThreadField == Hex(<<0,0,0,10,10,10,10,10>>)

payload_mask(field) == Minus(ShiftLeft({0}, count_set_bits(field, 64), 64), {0}, 64)
max_id_count(field) == Number(payload_mask(field))
field_shift(field) == lo_bit_index(field, 64)

is_valid_id(id, field) == id # {} /\ id \subseteq field

EncodedId(value, mask, shift) == ShiftLeft(spread_to_even_bits(Xor(Word(value) \cap mask, mask), 64), shift, 64)
encode_id(value, field) ==
    IF value < max_id_count(field) THEN EncodedId(value, payload_mask(field), field_shift(field)) ELSE {}

DecodedId(id, mask, shift) == Number(Xor(pack_from_even_bits(ShiftRight(id, shift), 64), mask) \cap mask)
decode_id(id, field) ==
    IF is_valid_id(id, field) THEN DecodedId(id, payload_mask(field), field_shift(field)) ELSE 0

is_valid_system_id(id) ==
    id \subseteq ModuleField \cup ThreadField /\ id \cap ModuleField # {} /\ id \cap ThreadField # {}
make_system_id(module, thread) ==
    IF is_valid_id(module, ModuleField) /\ is_valid_id(thread, ThreadField) THEN module \cup thread ELSE {}
get_module_id(id) == IF is_valid_system_id(id) THEN id \cap ModuleField ELSE {}
get_thread_id(id) == IF is_valid_system_id(id) THEN id \cap ThreadField ELSE {}

\* The values the named ids are encoded from.
TypeValues == 1 .. 5
ModuleValues == {1, 2, 4, 5, 6, 7, 16} \cup 32 .. 36 \cup 48 .. 52 \cup 64 .. 68
ThreadValues == {1, 2, 4, 5, 8, 16, 17} \cup 32 .. 63

----------------------------------------------------------------------------
(* What the functions are to compute *)

\* A value the field has room for becomes a valid id of its own and comes back,
\* and a pair of them comes back from a system id; any other value becomes the
\* invalid id.  The named values are among those with an id, but for the five
\* rendering modules, encoded from 64 to 68: the field of modules has room for
\* 63 values.
IdsAgree(value, other) ==
    \A ids \in {[n \in {value, other} |-> [f \in {TypeField, ModuleField, ThreadField} |-> encode_id(n, f)]]} :
        /\ \A field \in DOMAIN ids[value] :
              LET id == ids[value][field]
              IN IF value < 2^Cardinality(field) - 1
                   THEN /\ is_valid_id(id, field) /\ decode_id(id, field) = value
                        /\ id = ids[other][field] => value = other
                   ELSE id = {}
        /\ \A id \in {make_system_id(ids[value][ModuleField], ids[other][ThreadField])} :
              /\ is_valid_system_id(id) <=> value < 63 /\ other < 1023
              /\ is_valid_system_id(id) => /\ get_module_id(id) = ids[value][ModuleField]
                                           /\ get_thread_id(id) = ids[other][ThreadField]
        /\ value \in TypeValues => is_valid_id(ids[value][TypeField], TypeField)
        /\ value \in ThreadValues => is_valid_id(ids[value][ThreadField], ThreadField)
        /\ value \in ModuleValues \ 64 .. 68 => is_valid_id(ids[value][ModuleField], ModuleField)
=============================================================================

------------------------------- MODULE HkTlv -------------------------------
(***************************************************************************)
(* The TLV codec of the pairing messages (utils/hk_tlv.c) on the linked    *)
(* list of utils/hk_ll.c.  A list is the sequence of its elements, from    *)
(* the pointer onwards; a byte is a number.                                *)
(***************************************************************************)
EXTENDS Integers, Sequences, SequencesExt

CONSTANT MaxLength  \* 255, what the length byte can hold

ASSUME MaxLengthAssumption == MaxLength \in Nat \ {0}

\* _hk_ll_init: a new element, before the list that was there.
Prepend(list, type, value) == <<[type |-> type, value |-> value]>> \o list

\* The loop of hk_tlv_add_buffer runs once at least.
Chunks(data) == IF data = <<>> THEN 1 ELSE (Len(data) + MaxLength - 1) \div MaxLength

Chunk(data, i) ==
  SubSeq(data, (i - 1) * MaxLength + 1,
         IF i * MaxLength > Len(data) THEN Len(data) ELSE i * MaxLength)

\* hk_tlv_add_buffer; hk_tlv_add_uint8 and hk_tlv_add_mem are cases of it.
Add(list, type, data) ==
  FoldLeft(LAMBDA l, i : Prepend(l, type, Chunk(data, i)), list, [i \in 1..Chunks(data) |-> i])

\* hk_tlv_serialize: the list is in reverse order.
Serialize(list) ==
  FoldLeft(LAMBDA bytes, tlv : bytes \o <<tlv.type, Len(tlv.value)>> \o tlv.value,
           <<>>, Reverse(list))

\* hk_tlv_deserialize, of data that ends where an element ends.
Deserialize(data) ==
  LET from[i \in Nat \ {0}] ==
        IF i >= Len(data) THEN <<>>
        ELSE <<[type |-> data[i], value |-> SubSeq(data, i + 2, i + 1 + data[i + 1])]>>
               \o from[i + 2 + data[i + 1]]
  IN  from[1]

\* Mutant of Get: only one fragment.
GetFirst(list, type) ==
  LET found == SelectSeq(list, LAMBDA tlv : tlv.type = type)
  IN  IF found = <<>> THEN <<>> ELSE Head(found).value

\* hk_tlv_get_mem_by_type: all fragments of the value.
Get(list, type) ==
  FoldLeft(LAMBDA bytes, tlv : IF tlv.type = type THEN bytes \o tlv.value ELSE bytes, <<>>, list)

=============================================================================

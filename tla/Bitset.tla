------------------------------- MODULE Bitset -------------------------------
(***************************************************************************)
(* ztl_bitset.h: bits in an array of words.  A word is the set of its bits *)
(* that are 1.  obj is the bitset, spec the set of the indices set.        *)
(***************************************************************************)
EXTENDS Integers, FiniteSets, FiniteSetsExt

CONSTANTS ZTL_BIT_UNIT,  \* bits of a word, 32 in the code
          BitNums,       \* numbers of bits asked for
          MaxBit         \* largest index given to an operation

VARIABLES obj, spec

ztl_bits_align(d, a) == ((d + (a - 1)) \div a) * a
ZTL_ARR_IDX(idx) == idx \div ZTL_BIT_UNIT
ZTL_BIT_IDX(idx) == idx % ZTL_BIT_UNIT

\* Words of the allocation: one is in the structure already.
bitset_calc_space(bits_num) == 1 + ztl_bits_align(bits_num, ZTL_BIT_UNIT) \div ZTL_BIT_UNIT

\* pmem is cleared one word further than the bits reach.
ztl_bitset_new(bits_num) ==
    LET num == ztl_bits_align(bits_num, ZTL_BIT_UNIT)
        ints == num \div ZTL_BIT_UNIT
    IN [capacity |-> num, intnum |-> ints, pmem |-> [w \in 0..ints |-> {}]]

ZTL_CHECK_IDX(idx) == idx < obj.capacity
ztl_bitset_get(idx) == ZTL_CHECK_IDX(idx) /\ ZTL_BIT_IDX(idx) \in obj.pmem[ZTL_ARR_IDX(idx)]
ztl_bitset_any == \E w \in 0..obj.intnum - 1 : obj.pmem[w] # {}
ztl_bitset_count == MapThenSumSet(LAMBDA w : Cardinality(obj.pmem[w]), 0..obj.intnum - 1)

BitInit == \E n \in BitNums : obj = ztl_bitset_new(n) /\ spec = {}

\* Changes the bit, or returns false for an index behind the last one.
ztl_bitset_set1(idx) ==
    /\ ZTL_CHECK_IDX(idx)
    /\ obj' = [obj EXCEPT !.pmem[ZTL_ARR_IDX(idx)] = @ \cup {ZTL_BIT_IDX(idx)}]
    /\ spec' = spec \cup {idx}
ztl_bitset_set0(idx) ==
    /\ ZTL_CHECK_IDX(idx)
    /\ obj' = [obj EXCEPT !.pmem[ZTL_ARR_IDX(idx)] = @ \ {ZTL_BIT_IDX(idx)}]
    /\ spec' = spec \ {idx}
ztl_bitset_flip(idx) ==
    /\ ZTL_CHECK_IDX(idx)
    /\ obj' = [obj EXCEPT !.pmem[ZTL_ARR_IDX(idx)] =
                  IF ZTL_BIT_IDX(idx) \in @ THEN @ \ {ZTL_BIT_IDX(idx)} ELSE @ \cup {ZTL_BIT_IDX(idx)}]
    /\ spec' = IF idx \in spec THEN spec \ {idx} ELSE spec \cup {idx}
ztl_bitset_reset == obj' = [obj EXCEPT !.pmem = [w \in 0..obj.intnum |-> {}]] /\ spec' = {}

BitNext == \/ ztl_bitset_reset
           \/ \E idx \in 0..MaxBit : ztl_bitset_set1(idx) \/ ztl_bitset_set0(idx) \/ ztl_bitset_flip(idx)

(* A bit is read as it was written last, whatever happened to the bits     *)
(* around it; the count and the test for any bit agree; the words lie in   *)
(* the memory that was asked for, and the last one stays empty.            *)
BitsExact ==
    /\ \A idx \in 0..MaxBit : ztl_bitset_get(idx) <=> idx \in spec
    /\ ztl_bitset_count = Cardinality(spec)
    /\ ztl_bitset_any <=> spec # {}
    /\ \A w \in DOMAIN obj.pmem : w < bitset_calc_space(obj.capacity)
    /\ obj.pmem[obj.intnum] = {}
=============================================================================

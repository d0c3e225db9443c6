------------------------------- MODULE SeqNum -------------------------------
(* Circular sequence numbers: src/src/c/core/session/stream/seq_num.c.       *)
(* The code counts modulo 2^16; the width is a parameter here so that TLC    *)
(* wraps around within a few messages.                                       *)
EXTENDS Integers

CONSTANT SeqNumSize    \* SEQ_NUM_SIZE: 2^16 in the code, any even number here

(* SEQ_NUM_SIZE is a power of two; only its being even matters.              *)
ASSUME SeqNumSizeAssumption ==
    /\ SeqNumSize \in Nat \ {0}
    /\ \E half \in 1..SeqNumSize : SeqNumSize = 2 * half

SeqNumMidsize == SeqNumSize \div 2
SeqNumMax == SeqNumSize - 1

SeqNums == 0..SeqNumMax

(* Mutant of SeqNumAdd: the sum is not taken back into the circle.           *)
SeqNumAddUnwrapped(seq_num, increment) == seq_num + increment

(* uxr_seq_num_add                                                           *)
SeqNumAdd(seq_num, increment) == (seq_num + increment) % SeqNumSize

(* uxr_seq_num_sub                                                           *)
SeqNumSub(seq_num, decrement) ==
    IF decrement > seq_num
        THEN seq_num + (SeqNumSize - decrement)
        ELSE seq_num - decrement

(* The first number lies behind the second by less than half of the circle.  *)
SeqNumBehind(seq_num_1, seq_num_2) ==
    \/ seq_num_1 < seq_num_2 /\ seq_num_2 - seq_num_1 < SeqNumMidsize
    \/ seq_num_1 > seq_num_2 /\ seq_num_1 - seq_num_2 > SeqNumMidsize

(* uxr_seq_num_cmp: two numbers exactly half of the circle apart are each    *)
(* "greater" than the other.                                                 *)
SeqNumCmp(seq_num_1, seq_num_2) ==
    IF seq_num_1 = seq_num_2 THEN 0
    ELSE IF SeqNumBehind(seq_num_1, seq_num_2) THEN -1
    ELSE 1
=============================================================================

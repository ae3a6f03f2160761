------------------------------ MODULE MCSizes ------------------------------
(***************************************************************************)
(* The sizes of the small models, digests of two bytes and bytes of eight  *)
(* values, and their order of byte strings.                                *)
(***************************************************************************)
EXTENDS Ops

MCHashSize == 2
MCHashLen  == [f \in HashFunction |-> IF f = "SHA512" THEN 4 ELSE 2]
MCRadix    == 8
MCMaxVarintBytes == 4
MCIavlMaxPrefix  == 6

(* Plain strings are in lexicographic order.  The order of digests has     *)
(* nothing to do with that of the strings they are of: here it is the      *)
(* reverse.                                                                *)
PlainLess(a, b) ==
    \E k \in 1..Len(b) :
        /\ k - 1 <= Len(a)
        /\ \A i \in 1..(k - 1) : a[i] = b[i]
        /\ k <= Len(a) => a[k][1] < b[k][1]

IsDigestOf(a) == a # <<>> /\ Len(a[1]) = 2

MCLess(a, b) ==
    IF IsDigestOf(a) THEN PlainLess(b[1][2], a[1][2]) ELSE PlainLess(a, b)
=============================================================================

------------------------------ MODULE DerOrder ------------------------------
(***************************************************************************)
(* The DER order of a SET OF: its elements, sorted by their encodings.     *)
(***************************************************************************)
EXTENDS Integers, Sequences, Functions

(* sort_der, as_sorted and sorted_der_values order the encodings of the    *)
(* elements, so the result depends on the elements and not on the order    *)
(* they come in: the set holds that one rearrangement.  A rank stands for  *)
(* the first bytes of an encoding, and CHOOSE for the rest where the ranks *)
(* are equal.                                                              *)
Rearrangements(s) ==
  {[i \in DOMAIN s |-> s[p[i]]] : p \in Bijection(DOMAIN s, DOMAIN s)}

DerSorted(s, rank) ==
  LET sorted == {t \in Rearrangements(s) :
                   \A i, j \in DOMAIN s : i < j => rank[t[i]] <= rank[t[j]]}
  IN  {t \in sorted : t = CHOOSE u \in sorted : TRUE}
=============================================================================

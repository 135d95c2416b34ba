---------------------------- MODULE Errors_proofs ----------------------------
(***************************************************************************)
(* A list of checks reports "Ok" when none of them fails, and only then,   *)
(* and otherwise the error of the first that fails.  That there is a first *)
(* one is the least-number principle, taken here from the library's        *)
(* theorem about well-founded relations, which speaks of sets alone.       *)
(***************************************************************************)
EXTENDS Errors, WellFoundedInduction, TLAPS

(* A set of natural numbers that has an element has a least one.           *)
LEMMA LeastNatural ==
  ASSUME NEW T \in SUBSET Nat, T # {}
  PROVE  \E n \in T : \A m \in T : n <= m
<1> DEFINE R == {ss \in Nat \X Nat : ss[1] < ss[2]}
<1>1. IsWellFoundedOn(R, Nat)
  BY NatLessThanWellFounded DEF OpToRel
<1>2. PICK n \in T : \A m \in T : ~(<<m, n>> \in R)
  <2> HIDE DEF R
  <2> QED
    BY <1>1, WFMin
<1>3. ASSUME NEW m \in T PROVE n <= m
  <2>1. ~(m < n)
    BY <1>2
  <2> QED
    BY <2>1
<1> QED
  BY <1>3

(* So has a set of positions in a list.                                    *)
LEMMA FirstPosition ==
  ASSUME NEW T \in SUBSET (Nat \ {0}), T # {}
  PROVE  \E i \in T : \A j \in 1..(i - 1) : j \notin T
<1>1. PICK i \in T : \A j \in T : i <= j
  BY LeastNatural
<1>2. ASSUME NEW j \in 1..(i - 1), j \in T PROVE FALSE
  BY <1>1, <1>2
<1> QED
  BY <1>2

(* No check fails and the result is "Ok", or it is the error of one that   *)
(* fails.                                                                  *)
LEMMA FirstErrorListed ==
  ASSUME NEW n \in Nat, NEW checks, DOMAIN checks = 1..n
  PROVE  \/ FirstError(checks) = "Ok" /\ \A i \in 1..n : ~checks[i].fails
         \/ \E i \in 1..n : checks[i].fails /\ FirstError(checks) = checks[i].error
<1> DEFINE failing == {i \in 1..n : checks[i].fails}
<1>1. CASE failing = {}
  BY <1>1 DEF FirstError
<1>2. CASE failing # {}
  <2>1. PICK i \in failing : \A j \in 1..(i - 1) : j \notin failing
    <3>1. failing \in SUBSET (Nat \ {0})
      OBVIOUS
    <3> HIDE DEF failing
    <3> QED
      BY <1>2, <3>1, FirstPosition
  <2>2. /\ i \in 1..n /\ checks[i].fails
        /\ \A j \in 1..(i - 1) : ~checks[j].fails
    BY <2>1
  <2> DEFINE first == CHOOSE k \in DOMAIN checks :
                        checks[k].fails /\ \A j \in 1..(k - 1) : ~checks[j].fails
  <2>3. first \in 1..n /\ checks[first].fails
    BY <2>2
  <2>4. FirstError(checks) = checks[first].error
    BY <2>2 DEF FirstError
  <2> HIDE DEF first
  <2> QED
    BY <2>3, <2>4
<1> QED
  BY <1>1, <1>2

(* When a list of checks reports no error, none of them fails.             *)
LEMMA NoCheckFails ==
  ASSUME NEW n \in Nat, NEW checks, DOMAIN checks = 1..n,
         \A i \in 1..n : checks[i].fails => checks[i].error # "Ok",
         FirstError(checks) = "Ok"
  PROVE  \A i \in 1..n : ~checks[i].fails
BY FirstErrorListed

(* When none of them fails, it reports no error.                           *)
LEMMA AllChecksPass ==
  ASSUME NEW n \in Nat, NEW checks, DOMAIN checks = 1..n,
         \A i \in 1..n : ~checks[i].fails
  PROVE  FirstError(checks) = "Ok"
BY FirstErrorListed
=============================================================================

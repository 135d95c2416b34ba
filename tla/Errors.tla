------------------------------- MODULE Errors -------------------------------
(***************************************************************************)
(* A Rust function that returns early with the first error it meets.  Its  *)
(* checks are listed in the order of the code, and FirstError names the    *)
(* one whose error is returned.                                            *)
(***************************************************************************)
EXTENDS Integers, Sequences

Check(fails, error) == [fails |-> fails, error |-> error]

FirstError(checks) ==
  IF \E i \in DOMAIN checks : checks[i].fails
    THEN LET first == CHOOSE i \in DOMAIN checks :
                        checks[i].fails /\ \A j \in 1..(i - 1) : ~checks[j].fails
         IN  checks[first].error
    ELSE "Ok"
=============================================================================

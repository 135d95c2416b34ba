---------------------------- MODULE Authenticity ----------------------------
(***************************************************************************)
(* What signed messages promise, with no message in sight: signers endorse *)
(* statements, and a reader accepts only statements that were endorsed     *)
(* before.  A statement is that a key vouches for a content of a type.     *)
(***************************************************************************)

VARIABLES
  endorsed,  (* the statements the signers have endorsed                   *)
  accepted   (* the statements readers have accepted                       *)

vars == <<endorsed, accepted>>

Init == endorsed = {} /\ accepted = {}

Endorse == endorsed \subseteq endorsed' /\ UNCHANGED accepted

Accept(statement) ==
  /\ statement \in endorsed
  /\ accepted' = accepted \cup {statement}
  /\ UNCHANGED endorsed

Next == Endorse \/ \E statement \in endorsed : Accept(statement)

Spec == Init /\ [][Next]_vars
=============================================================================

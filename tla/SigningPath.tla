----------------------------- MODULE SigningPath -----------------------------
(***************************************************************************)
(* What resolve_signing_chain promises: a path of certificates that starts *)
(* at one, each signed by the next, all of them different and none the     *)
(* one it starts at, that ends only where no certificate is left that      *)
(* signed the last one.  Which of several issuers is taken is left open.   *)
(***************************************************************************)
EXTENDS Integers, Sequences

CONSTANTS
  Captured,        (* certificates as they were captured                *)
  Signatures       (* pairs of certificates: the first signed the other *)

VARIABLES
  start,   (* the certificate the path starts at              *)
  pool,    (* the certificates it may go through              *)
  path,    (* the path so far                                 *)
  ended    (* it was returned                                 *)

pathVars == <<start, pool, path, ended>>

Visited == {start} \cup {path[i] : i \in DOMAIN path}
Tip == IF path = <<>> THEN start ELSE path[Len(path)]
Issuers == {c \in pool \ Visited : <<c, Tip>> \in Signatures}

PathInit ==
  /\ start \in Captured /\ pool \in SUBSET Captured
  /\ path = <<>> /\ ended = FALSE

Extend ==
  /\ ~ended
  /\ \E issuer \in Issuers : path' = Append(path, issuer)
  /\ UNCHANGED <<start, pool, ended>>

End ==
  /\ ~ended /\ Issuers = {}
  /\ ended' = TRUE
  /\ UNCHANGED <<start, pool, path>>

PathNext == Extend \/ End

PathSpec == PathInit /\ [][PathNext]_pathVars /\ WF_pathVars(PathNext)
==============================================================================

------------------------ MODULE MCCertificateBuilder ------------------------
(***************************************************************************)
(* CertificateBuilder with two Ed25519 keys, a P-384 key and one whose     *)
(* algorithm the crate does not know.  Years have two seconds and seconds  *)
(* two halves.  Builders are made on a half second of 2049 and on a whole  *)
(* one of 2050, so that an hour (one second here) and the other durations  *)
(* end in 2049 and 2050, with and without fraction, before the start, and  *)
(* beyond the last time stamp.                                             *)
(***************************************************************************)
EXTENDS CertificateBuilder, TLC

CONSTANTS kA, kA2, kB, kUnknown, empty, n1, n2, attrA, attrB, attrEmpty

MCKey == {kA, kA2, kB, kUnknown}
MCKeyAlg ==
  (kA :> "Ed25519") @@ (kA2 :> "Ed25519") @@ (kB :> "EcdsaSecp384r1") @@ (kUnknown :> "Unknown")

(* Names and keys are compared for equality only, so that all names but    *)
(* the empty one are alike, and so are the keys of one algorithm.          *)
MCName == {empty, n1, n2}
Symmetry == Permutations({n1, n2}) \cup Permutations({kA, kA2})

MCNow == {Timestamp(2049, 0, 1), Timestamp(2050, 0, 0)}
MCMaxTimestamp == Timestamp(2050, 1, 1)
MCDuration == {-1, 3, 4}

(* A subjectAltName with names, and one without.  A caller clears the      *)
(* criticality of either.                                                  *)
MCDerExtension ==
  {Extension(SubjectAltName, "yes", "generalNames"),
   Extension(SubjectAltName, "yes", "emptySequence")}

(* Two attributes with values, of which the second comes first in DER, and *)
(* one without values.                                                     *)
MCCsrAttribute ==
  {[typ |-> attrA, values |-> {1, 2}], [typ |-> attrB, values |-> {1}],
   [typ |-> attrEmpty, values |-> {}]}
MCAttributeDer ==
  ([typ |-> attrA, values |-> {1, 2}] :> 3) @@ ([typ |-> attrB, values |-> {1}] :> 2)
    @@ ([typ |-> attrEmpty, values |-> {}] :> 1)
=============================================================================

--------------------------- MODULE MCSigningChain ---------------------------
(***************************************************************************)
(* SigningChain over a small public key infrastructure with a cycle: two   *)
(* authorities that are self-signed and also signed by each other.         *)
(*                                                                         *)
(*   leaf      issued by A                                                 *)
(*   rootA     A's certificate, self-signed                                *)
(*   rootAIndefinite     the same certificate in another encoding          *)
(*   crossA    A's name and key, signed by B                               *)
(*   crossB    B's name and key, signed by A                               *)
(*   wrongA    A's name and another key, self-signed                       *)
(*   mismatched   like crossB, but its outer algorithm identifier is       *)
(*             another than the signed one                                 *)
(***************************************************************************)
EXTENDS SigningChain, TLC

CONSTANTS
  kLeaf, kA, kB, empty, nameLeaf, nameA, nameB,
  leaf, rootA, rootAIndefinite, crossA, crossB, wrongA, mismatched

MCKey == {kLeaf, kA, kB}
MCKeyAlg ==
  (kLeaf :> "Unknown") @@ (kA :> "EcdsaSecp256r1") @@ (kB :> "Ed25519")

Issue(subject, key, issuer, issuerKey) ==
  LET alg == SigningAlgorithm(KeyAlg[issuerKey])
      tbs == [subject |-> subject, key |-> key, issuer |-> issuer,
              signature |-> AlgorithmIdentifier(alg)]
  IN  Certificate(tbs, AlgorithmIdentifier(alg), Signature(issuerKey, alg, tbs))

MCCertificateIn ==
  (leaf :> Issue(nameLeaf, kLeaf, nameA, kA))
    @@ (rootA :> Issue(nameA, kA, nameA, kA))
    @@ (rootAIndefinite :> Issue(nameA, kA, nameA, kA))
    @@ (crossA :> Issue(nameA, kA, nameB, kB))
    @@ (crossB :> Issue(nameB, kB, nameA, kA))
    @@ (wrongA :> Issue(nameA, kB, nameA, kB))
    @@ (mismatched :> [Issue(nameB, kB, nameA, kA) EXCEPT
                         !.signatureAlgorithm = AlgorithmIdentifier(SigningAlgorithm("Ed25519"))])
=============================================================================

----------------------------- MODULE Algorithms -----------------------------
(***************************************************************************)
(* The algorithm tables of x509-certificate (algorithm.rs): digest, key    *)
(* and signature algorithms, the identifiers that name them on the wire,   *)
(* the parameters each identifier may carry, and which signature           *)
(* algorithm can be verified under which key.                              *)
(*                                                                         *)
(* A signature algorithm is a record of its family and of the digest it    *)
(* applies.  An algorithm identifier is a record of an object identifier   *)
(* and of the kind of its parameters.                                      *)
(***************************************************************************)

DigestAlgorithm == {"Sha1", "Sha256", "Sha384", "Sha512"}

KeyAlgorithm == {"Rsa", "EcdsaSecp256r1", "EcdsaSecp384r1", "Ed25519"}

SignatureAlgorithm ==
  [family : {"Rsa", "NoSignature"}, digest : DigestAlgorithm]
    \cup [family : {"Ecdsa"}, digest : {"Sha256", "Sha384"}]
    \cup [family : {"Ed25519"}, digest : {"none"}]

(* What a failed resolution returns in place of an algorithm. *)
NoAlgorithm == [family |-> "unknown", digest |-> "none"]

----------------------------------------------------------------------------
(* Wire identifiers.  An object identifier names a signature algorithm, or *)
(* only a key family, or id-alg-noSignature.  The Ed25519 object           *)
(* identifier names both the key and the signature algorithm, and is read  *)
(* as the latter.  An identifier's parameters are absent, NULL, the object *)
(* identifier of a known curve, or something else.                         *)

SignatureOid(alg) == [names |-> "signature", alg |-> alg]
KeyOid(family) ==
  [names |-> "key", alg |-> [family |-> family, digest |-> "none"]]
NoSignatureOid == [names |-> "noSignature", alg |-> NoAlgorithm]

(* Oid::from(SignatureAlgorithm): noSignature has one identifier for every *)
(* digest, the other algorithms one each.                                  *)
OidOf(alg) ==
  IF alg.family = "NoSignature" THEN NoSignatureOid ELSE SignatureOid(alg)

(* AlgorithmIdentifier::from(SignatureAlgorithm): RSA alone writes NULL.   *)
AlgorithmIdentifier(alg) ==
  [oid |-> OidOf(alg),
   parameters |-> IF alg.family = "Rsa" THEN "null" ELSE "absent"]

(* AlgorithmIdentifier::from(DigestAlgorithm). *)
DigestIdentifier(digest) == [digest |-> digest, parameters |-> "absent"]

(* DigestAlgorithm::try_from(&AlgorithmIdentifier) succeeds. *)
DigestIdentifierOk(id) ==
  /\ id.digest \in DigestAlgorithm
  /\ id.parameters \in {"absent", "null"}

(* The parameter rules of SignatureAlgorithm::try_from and, for a generic  *)
(* key identifier, of KeyAlgorithm::try_from.                              *)
SignatureParametersOk(alg, parameters) ==
  \/ parameters = "absent"
  \/ alg.family = "Rsa" /\ parameters = "null"

KeyParametersOk(family, parameters) ==
  \/ family = "Rsa" /\ parameters \in {"absent", "null"}
  \/ family = "Ecdsa" /\ parameters = "curve"

(* SignatureAlgorithm::from_oid_and_digest_algorithm. *)
FromOidAndDigest(oid, digest) ==
  LET combined == [family |-> oid.alg.family, digest |-> digest]
      silent == [family |-> "NoSignature", digest |-> digest]
  IN  IF oid.names = "signature" THEN oid.alg
      ELSE IF oid.names = "key" /\ combined \in SignatureAlgorithm THEN combined
      ELSE IF oid.names = "noSignature" THEN silent
      ELSE NoAlgorithm

(* How SignerInfo::try_from reads SignerInfo.signatureAlgorithm: the       *)
(* algorithm, or NoAlgorithm when the identifier or its parameters are     *)
(* refused.                                                                *)
ResolveSignatureAlgorithm(id, digest) ==
  LET alg == FromOidAndDigest(id.oid, digest)
      accepted == IF id.oid.names = "key"
                    THEN KeyParametersOk(alg.family, id.parameters)
                    ELSE SignatureParametersOk(alg, id.parameters)
  IN  IF accepted THEN alg ELSE NoAlgorithm

----------------------------------------------------------------------------

(* The family of signatures that VerificationAlgorithm::verify checks      *)
(* under a key: resolve_verification_algorithm refuses every other pair,   *)
(* and noSignature under every key.                                        *)
KeyFamily(keyAlgorithm) ==
  IF keyAlgorithm \in {"EcdsaSecp256r1", "EcdsaSecp384r1"}
    THEN "Ecdsa" ELSE keyAlgorithm

Verifiable(keyAlgorithm, alg) ==
  /\ keyAlgorithm \in KeyAlgorithm
  /\ alg \in SignatureAlgorithm
  /\ alg.family = KeyFamily(keyAlgorithm)

(* InMemorySigningKeyPair::signature_algorithm; a key of an algorithm the  *)
(* crate does not know has none.                                           *)
SigningAlgorithm(keyAlgorithm) ==
  CASE keyAlgorithm = "Rsa"            -> [family |-> "Rsa", digest |-> "Sha256"]
    [] keyAlgorithm = "EcdsaSecp256r1" -> [family |-> "Ecdsa", digest |-> "Sha256"]
    [] keyAlgorithm = "EcdsaSecp384r1" -> [family |-> "Ecdsa", digest |-> "Sha384"]
    [] keyAlgorithm = "Ed25519"        -> [family |-> "Ed25519", digest |-> "none"]
    [] OTHER                           -> NoAlgorithm

(* The digest that SignerInfo.digestAlgorithm must name for a signature    *)
(* algorithm (validate_signature_digest_algorithms): RFC 8419 fixes        *)
(* SHA-512 for Ed25519, which applies no digest of its own.                *)
RequiredDigest(alg) ==
  IF alg.family = "Ed25519" THEN "Sha512" ELSE alg.digest

(* SignerBuilder::default_digest_algorithm. *)
DefaultDigest(keyAlgorithm) ==
  LET alg == SigningAlgorithm(keyAlgorithm)
  IN  IF alg = NoAlgorithm THEN "Sha256" ELSE RequiredDigest(alg)
=============================================================================

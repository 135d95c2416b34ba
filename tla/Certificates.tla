---------------------------- MODULE Certificates ----------------------------
(***************************************************************************)
(* X.509 certificates as the crate reads and verifies them: the fields of  *)
(* rfc5280::Certificate that the code acts on, what its decoder refuses,   *)
(* and which certificate signed which (certificate.rs).                    *)
(*                                                                         *)
(* A signature is a record of the key, the algorithm and the TBSCertificate*)
(* it was made over.  A public key stands for itself and its algorithm.    *)
(***************************************************************************)
EXTENDS Algorithms, Asn1Time, Errors

CONSTANTS
  None,       (* Option::None                                 *)
  Key,        (* key pairs                                    *)
  KeyAlg,     (* [Key -> KeyAlgorithm or "Unknown"]           *)
  Name,       (* X.501 names                                  *)
  EmptyName   (* the name without attributes, Name::default() *)

ASSUME NamesAssumption ==
  /\ EmptyName \in Name
  /\ None \notin Name \cup Key

ASSUME KeysAssumption == KeyAlg \in [Key -> KeyAlgorithm \cup {"Unknown"}]

SubjectAltName == "subjectAltName"

(* An extension: whether it is marked critical ("unset" when the BOOLEAN   *)
(* is absent), and its value.                                              *)
Extension(id, critical, value) == [id |-> id, critical |-> critical, value |-> value]

(* BOOLEAN DEFAULT FALSE: only TRUE is written. *)
EncodeExtension(extension) ==
  IF extension.critical = "yes" THEN extension ELSE [extension EXCEPT !.critical = "unset"]

Duplicated(extensions) ==
  \E i, j \in DOMAIN extensions : i # j /\ extensions[i].id = extensions[j].id

(* The first subjectAltName is critical and its value decodes as           *)
(* GeneralNames of one name or more.                                       *)
SubjectIsNamed(extensions) ==
  \E i \in DOMAIN extensions :
    /\ extensions[i].id = SubjectAltName
    /\ \A j \in 1..(i - 1) : extensions[j].id # SubjectAltName
    /\ extensions[i].critical = "yes"
    /\ extensions[i].value = "generalNames"

Signature(key, alg, message) == [key |-> key, alg |-> alg, message |-> message]

Certificate(tbs, algorithm, signature) ==
  [tbs |-> tbs, signatureAlgorithm |-> algorithm, signature |-> signature, unused |-> 0]

----------------------------------------------------------------------------
(* What TbsCertificate::take_from refuses, beyond the structure.           *)

DecodeError(tbs) ==
  FirstError(<<
    Check(tbs.issuer = EmptyName, "empty issuer"),
    Check(~Decodable(tbs.notBefore) \/ ~Decodable(tbs.notAfter), "time"),
    Check(DecodeTime(tbs.notAfter) < DecodeTime(tbs.notBefore), "reversed validity"),
    Check(Duplicated(tbs.extensions), "duplicate extension"),
    Check(tbs.subject = EmptyName /\ ~SubjectIsNamed(tbs.extensions), "empty subject") >>)

----------------------------------------------------------------------------
(* Who signed a certificate.                                               *)

(* SignatureAlgorithm::try_from(&AlgorithmIdentifier). *)
SignatureAlgorithmOf(identifier) ==
  IF /\ identifier.oid.names = "signature"
     /\ SignatureParametersOk(identifier.oid.alg, identifier.parameters)
    THEN identifier.oid.alg ELSE NoAlgorithm

(* verify_signed_by_certificate returns Ok. *)
M_VerifySignedBy_AnyKey(cert, other) ==
  LET alg == SignatureAlgorithmOf(cert.signatureAlgorithm)
  IN  /\ cert.signatureAlgorithm = cert.tbs.signature
      /\ cert.unused = 0
      /\ Verifiable(KeyAlg[other.tbs.key], alg)
VerifySignedBy(cert, other) ==
  LET alg == SignatureAlgorithmOf(cert.signatureAlgorithm)
  IN  /\ cert.signatureAlgorithm = cert.tbs.signature
      /\ cert.unused = 0
      /\ Verifiable(KeyAlg[other.tbs.key], alg)
      /\ cert.signature = Signature(other.tbs.key, alg, cert.tbs)

(* The test of find_signing_certificate on one candidate. *)
SignedBy(cert, candidate) ==
  cert.tbs.issuer = candidate.tbs.subject /\ VerifySignedBy(cert, candidate)
=============================================================================

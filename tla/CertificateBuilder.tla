------------------------- MODULE CertificateBuilder -------------------------
(***************************************************************************)
(* X509CertificateBuilder (certificate.rs): a caller configures a builder  *)
(* with any sequence of setters, and at any time creates a certificate or  *)
(* a certificate signing request from it.  What is created is encoded,     *)
(* signed and, when it is a certificate, read back by the crate's decoder  *)
(* before it is returned.                                                  *)
(***************************************************************************)
EXTENDS Certificates, DerOrder, FiniteSets

CONSTANTS
  Now,            (* the clock when a builder is made                          *)
  Hour,           (* one hour, in subseconds                                   *)
  MaxTimestamp,   (* the last time stamp there is                              *)
  Serial,         (* arguments of serial_number                                *)
  Duration,       (* arguments of validity_duration, in subseconds             *)
  Usage,          (* arguments of key_usage                                    *)
  DerExtension,   (* arguments of add_extension_der_data                       *)
  CsrAttribute,   (* arguments of add_csr_attribute                            *)
  AttributeDer,   (* [CsrAttribute -> Nat], their rank when encoded            *)
  MaxAdditions    (* bounds how many extensions and attributes a builder has   *)

ASSUME CertificateBuilderAssumption ==
  /\ Now \subseteq 0..MaxTimestamp
  /\ MaxTimestamp \in Nat
  /\ Hour \in Nat /\ \A now \in Now : now + Hour <= MaxTimestamp
  /\ Serial \subseteq Int
  /\ Duration \subseteq Int
  /\ \A e \in DerExtension : e = Extension(e.id, e.critical, e.value)
  /\ AttributeDer \in [CsrAttribute -> Nat]
  /\ MaxAdditions \in Nat

VARIABLES
  builder,   (* the X509CertificateBuilder                                   *)
  outcome    (* what the last call returned, if it could fail                *)

certificateVars == <<builder, outcome>>

(* X509CertificateBuilder::default. *)
DefaultBuilder(now) ==
  [subject |-> EmptyName, issuer |-> None, extensions |-> <<>>, serialNumber |-> 1,
   notBefore |-> now, notAfter |-> now + Hour, csrAttributes |-> <<>>]

(* error is "Ok" when the call succeeded; issuerKey is the key it was      *)
(* given to sign a certificate with.                                       *)
NoOutcome ==
  [call |-> "none", error |-> "Ok", issuerKey |-> None, certificate |-> None,
   request |-> None]

Fail(call, error) ==
  /\ outcome' = [NoOutcome EXCEPT !.call = call, !.error = error]
  /\ UNCHANGED builder

----------------------------------------------------------------------------
(* Setters. *)

Configure(config) ==
  /\ builder' = config
  /\ outcome' = NoOutcome

MayAdd == Len(builder.extensions) + Len(builder.csrAttributes) < MaxAdditions

AddExtension(extension) ==
  /\ MayAdd
  /\ Configure([builder EXCEPT !.extensions = Append(@, extension)])

(* subject() and issuer() lend the name to the caller, who may leave any   *)
(* name there; an issuer that was None is then empty.                      *)
SetSubject ==
  \E name \in Name : Configure([builder EXCEPT !.subject = name])

SetIssuer ==
  \E name \in Name : Configure([builder EXCEPT !.issuer = name])

SerialNumber ==
  \E n \in Serial : Configure([builder EXCEPT !.serialNumber = n])

AddExtensionDerData == \E extension \in DerExtension : AddExtension(extension)

(* The DER of an empty SEQUENCE, and a BIT STRING of one bit. *)
ConstraintNotCa == AddExtension(Extension("basicConstraints", "yes", "emptySequence"))

KeyUsage == \E usage \in Usage : AddExtension(Extension("keyUsage", "yes", usage))

(* extensions_mut() lends the extensions; a caller that drops the last one *)
(* or clears a criticality stands for all.                                 *)
ExtensionsMut ==
  /\ builder.extensions # <<>>
  /\ LET n == Len(builder.extensions)
     IN  \/ Configure([builder EXCEPT !.extensions = SubSeq(@, 1, n - 1)])
         \/ Configure([builder EXCEPT !.extensions[n].critical = "no"])

(* checked_add fails beyond the range of time stamps, and nothing changes. *)
M_ValidityDuration_Unchecked ==
  \E d \in Duration : Configure([builder EXCEPT !.notAfter = builder.notBefore + d])
ValidityDuration ==
  \E d \in Duration :
    IF builder.notBefore + d \in 0..MaxTimestamp
      THEN Configure([builder EXCEPT !.notAfter = builder.notBefore + d])
      ELSE Fail("validity", "InvalidCertificateValidity")

AddCsrAttribute ==
  /\ MayAdd
  /\ \E attribute \in CsrAttribute :
       Configure([builder EXCEPT !.csrAttributes = Append(@, attribute)])

----------------------------------------------------------------------------
(* Creating a certificate. *)

(* validate_certificate_fields. *)
M_FieldError_AnyCriticality ==
  FirstError(<<
    Check(builder.serialNumber <= 0, "InvalidCertificateSerialNumber"),
    Check(builder.notAfter < builder.notBefore, "InvalidCertificateValidity"),
    Check(Duplicated(builder.extensions), "DuplicateCertificateExtension") >>)
FieldError ==
  FirstError(<<
    Check(builder.serialNumber <= 0, "InvalidCertificateSerialNumber"),
    Check(builder.notAfter < builder.notBefore, "InvalidCertificateValidity"),
    Check(Duplicated(builder.extensions), "DuplicateCertificateExtension"),
    Check(builder.subject = EmptyName /\ ~SubjectIsNamed(builder.extensions),
          "EmptyCertificateSubjectWithoutSubjectAltName") >>)

IssuerName == IF builder.issuer = None THEN builder.subject ELSE builder.issuer

(* The errors of create_with_issuer_signing_key before it signs. *)
CreationError(subjectKey, issuerKey) ==
  FirstError(<<
    Check(FieldError # "Ok", FieldError),
    Check(builder.issuer = None /\ subjectKey # issuerKey, "IssuerNameRequired"),
    Check(SigningAlgorithm(KeyAlg[issuerKey]) = NoAlgorithm, "UnknownSignatureAlgorithm"),
    Check(IssuerName = EmptyName, "EmptyCertificateIssuer"),
    Check(KeyAlg[subjectKey] = "Unknown", "UnknownKeyAlgorithm") >>)

(* The TBSCertificate as it is encoded. *)
TbsCertificate(subjectKey, issuerKey) ==
  [serialNumber |-> builder.serialNumber,
   signature |-> AlgorithmIdentifier(SigningAlgorithm(KeyAlg[issuerKey])),
   issuer |-> IssuerName,
   notBefore |-> EncodeTime(builder.notBefore), notAfter |-> EncodeTime(builder.notAfter),
   subject |-> builder.subject, key |-> subjectKey,
   extensions |-> [i \in DOMAIN builder.extensions |-> EncodeExtension(builder.extensions[i])]]

SignedCertificate(subjectKey, issuerKey) ==
  LET alg == SigningAlgorithm(KeyAlg[issuerKey])
      tbs == TbsCertificate(subjectKey, issuerKey)
  IN  Certificate(tbs, AlgorithmIdentifier(alg), Signature(issuerKey, alg, tbs))

ReturnCertificate(call, issuerKey, certificate) ==
  /\ outcome' = [NoOutcome EXCEPT !.call = call, !.issuerKey = issuerKey,
                                  !.certificate = certificate]
  /\ UNCHANGED builder

(* create_with_issuer_signing_key, whose key may also fail to sign. *)
Create(call, subjectKey, issuerKey) ==
  LET refusal == CreationError(subjectKey, issuerKey)
      decoding == DecodeError(TbsCertificate(subjectKey, issuerKey))
  IN  \/ refusal # "Ok" /\ Fail(call, refusal)
      \/ refusal = "Ok" /\ Fail(call, "Signature")
      \/ refusal = "Ok" /\ decoding # "Ok" /\ Fail(call, "Asn1Decode")
      \/ /\ refusal = "Ok" /\ decoding = "Ok"
         /\ ReturnCertificate(call, issuerKey, SignedCertificate(subjectKey, issuerKey))

CreateWithIssuerSigningKey ==
  \E subjectKey, issuerKey \in Key : Create("issuer", subjectKey, issuerKey)

(* An InMemorySigningKeyPair always has a known algorithm.                 *)
InMemoryKey == {k \in Key : KeyAlg[k] \in KeyAlgorithm}

M_IssuerIsOther_Never == FALSE
IssuerIsOther == builder.issuer # None /\ builder.issuer # builder.subject

CreateWithKeyPair ==
  \E k \in InMemoryKey :
    \/ IssuerIsOther /\ Fail("keyPair", "IssuerSigningKeyRequired")
    \/ ~IssuerIsOther /\ Create("keyPair", k, k)

(* The key is new, which no certificate tells from another key. *)
CreateWithRandomKeypair ==
  \/ Fail("keyPair", "KeyPairGenerationError")
  \/ CreateWithKeyPair

----------------------------------------------------------------------------
(* Creating a certificate signing request. *)

RequestError(k) ==
  FirstError(<<
    Check(\E i \in DOMAIN builder.csrAttributes : builder.csrAttributes[i].values = {},
          "EmptyCsrAttributeValues"),
    Check(KeyAlg[k] = "Unknown", "UnknownKeyAlgorithm") >>)

M_RequestAttributes_AsAdded == {builder.csrAttributes}
RequestAttributes == DerSorted(builder.csrAttributes, AttributeDer)

CertificationRequest(k, attributes) ==
  LET info == [subject |-> builder.subject, key |-> k, attributes |-> attributes]
      alg == SigningAlgorithm(KeyAlg[k])
  IN  [info |-> info, signatureAlgorithm |-> AlgorithmIdentifier(alg),
       signature |-> Signature(k, alg, info)]

ReturnRequest(request) ==
  /\ outcome' = [NoOutcome EXCEPT !.call = "request", !.request = request]
  /\ UNCHANGED builder

CreateCertificateSigningRequest ==
  \E k \in Key :
    \/ RequestError(k) # "Ok" /\ Fail("request", RequestError(k))
    \/ RequestError(k) = "Ok" /\ Fail("request", "Signature")
    \/ /\ RequestError(k) = "Ok"
       /\ \E attributes \in RequestAttributes :
            ReturnRequest(CertificationRequest(k, attributes))

----------------------------------------------------------------------------

CertificateBuilderInit ==
  /\ \E now \in Now : builder = DefaultBuilder(now)
  /\ outcome = NoOutcome

CertificateBuilderNext ==
  \/ SetSubject
  \/ SetIssuer
  \/ SerialNumber
  \/ AddExtensionDerData
  \/ ConstraintNotCa
  \/ KeyUsage
  \/ ExtensionsMut
  \/ ValidityDuration
  \/ AddCsrAttribute
  \/ CreateWithIssuerSigningKey
  \/ CreateWithKeyPair
  \/ CreateWithRandomKeypair
  \/ CreateCertificateSigningRequest

CertificateBuilderSpec ==
  CertificateBuilderInit /\ [][CertificateBuilderNext]_certificateVars
----------------------------------------------------------------------------
(* Properties. *)

BuilderExtension ==
  LET added == DerExtension \cup {Extension("basicConstraints", "yes", "emptySequence")}
                 \cup {Extension("keyUsage", "yes", usage) : usage \in Usage}
  IN  added \cup {[e EXCEPT !.critical = "no"] : e \in added}

(* The builder keeps to the types of its fields: in particular its times   *)
(* are time stamps that exist, whatever durations validity_duration is     *)
(* given.                                                                  *)
CertificateBuilderTypeOK ==
  /\ builder \in [subject : Name, issuer : Name \cup {None}, extensions : Seq(BuilderExtension),
                  serialNumber : Serial \cup {1}, notBefore : 0..MaxTimestamp,
                  notAfter : 0..MaxTimestamp, csrAttributes : Seq(CsrAttribute)]
  /\ Len(builder.extensions) + Len(builder.csrAttributes) <= MaxAdditions
  /\ outcome.issuerKey \in Key \cup {None}

Created == outcome.certificate # None

(* A certificate that was created reads back as it was configured: its     *)
(* names, serial number, extensions in their order, and its validity to    *)
(* the second, on either side of 2050 (Time::from against Time::take_from);*)
(* and its validity is never reversed by the loss of fractions.            *)
CertificateAsConfigured ==
  LET tbs == outcome.certificate.tbs
      read == tbs.extensions
  IN  Created =>
        /\ tbs.serialNumber = builder.serialNumber /\ tbs.serialNumber > 0
        /\ tbs.subject = builder.subject
        /\ tbs.issuer # EmptyName
        /\ tbs.issuer = IF builder.issuer = None THEN builder.subject ELSE builder.issuer
        /\ DecodeTime(tbs.notBefore) = WholeSecond(builder.notBefore)
        /\ DecodeTime(tbs.notAfter) = WholeSecond(builder.notAfter)
        /\ DecodeTime(tbs.notBefore) <= DecodeTime(tbs.notAfter)
        /\ Len(read) = Len(builder.extensions)
        /\ \A i \in DOMAIN read :
             /\ read[i].id = builder.extensions[i].id
             /\ read[i].value = builder.extensions[i].value
             /\ (read[i].critical = "yes") = (builder.extensions[i].critical = "yes")

(* find_signing_certificate finds the issuer of a created certificate, and *)
(* nothing else: among certificates of any name and key it accepts exactly *)
(* those of the issuer's name that hold the key it was signed with.        *)
IssuerIsFound ==
  Created =>
    \A name \in Name, k \in Key :
      LET candidate == [outcome.certificate EXCEPT !.tbs.subject = name, !.tbs.key = k]
      IN  SignedBy(outcome.certificate, candidate)
            <=> /\ name = outcome.certificate.tbs.issuer
                /\ k = outcome.issuerKey

(* A certificate made by create_with_key_pair, or without an issuer, is    *)
(* self-signed: it is its own issuer and verifies under its own key.  This *)
(* is what the documentation of the builder says of a builder without      *)
(* issuer, and what its two checks on issuer names are for.                *)
SelfSigned ==
  Created /\ (builder.issuer = None \/ outcome.call = "keyPair")
    => SignedBy(outcome.certificate, outcome.certificate)

GeneralizedFraction(t) == YearOf(t) \notin 1950..2049 /\ Fraction(t) > 0

(* What the builder accepts its own decoder accepts: the rules of          *)
(* validate_certificate_fields and of TbsCertificate::take_from are        *)
(* written twice and agree, but for times beyond 2049 that have a fraction *)
(* of a second.                                                            *)
DecoderAgrees ==
  outcome.error = "Asn1Decode"
    => GeneralizedFraction(builder.notBefore) \/ GeneralizedFraction(builder.notAfter)

(* The same without the exception: a validity that validity_duration       *)
(* accepted, and that is not reversed, can be issued.                      *)
ValidityCanBeIssued == outcome.error # "Asn1Decode"

(* A certificate signing request has the attributes that were added, each  *)
(* as often as it was added, with values, and in DER order, whatever the   *)
(* order of the calls.                                                     *)
RequestIsCanonical ==
  LET written == outcome.request.info.attributes
      Copies(s, a) == {i \in DOMAIN s : s[i] = a}
  IN  outcome.request # None =>
        /\ \A i, j \in DOMAIN written :
             i < j => AttributeDer[written[i]] <= AttributeDer[written[j]]
        /\ \A a \in CsrAttribute :
             /\ Cardinality(Copies(written, a)) = Cardinality(Copies(builder.csrAttributes, a))
             /\ a.values = {} => Copies(written, a) = {}
=============================================================================

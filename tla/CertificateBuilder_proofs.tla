---------------------- MODULE CertificateBuilder_proofs ----------------------
(***************************************************************************)
(* The certificate builder, for any keys, names, extensions, attributes,   *)
(* calendar and sequence of calls: what it creates is what was asked for,  *)
(* its decoder agrees with it, and issuers are found by their keys.        *)
(***************************************************************************)
EXTENDS CertificateBuilder, Errors_proofs, FiniteSetTheorems, TLAPS

----------------------------------------------------------------------------
(* Times. *)

(* A number is its quotient times the divisor, and its remainder.          *)
LEMMA Division ==
  ASSUME NEW a \in Int, NEW d \in Nat \ {0}
  PROVE  /\ a \div d \in Int /\ a % d \in 0..(d - 1)
         /\ a = (a \div d) * d + (a % d)
OBVIOUS

(* A time is its year, second and fraction.                                *)
LEMMA TimeSplit ==
  ASSUME NEW t \in Int
  PROVE  /\ YearOf(t) \in Int /\ Second(t) \in Int /\ Fraction(t) \in Int
         /\ WholeSecond(t) \in Int
         /\ Timestamp(YearOf(t), Second(t), 0) = WholeSecond(t)
<1> DEFINE q == t \div SubsecondsPerSecond
<1>1. /\ q \in Int /\ Fraction(t) \in Int
      /\ t = q * SubsecondsPerSecond + Fraction(t)
  BY CalendarAssumption, Division DEF Fraction
<1> HIDE DEF q
<1>2. /\ q \div SecondsPerYear \in Int /\ q % SecondsPerYear \in Int
      /\ q = (q \div SecondsPerYear) * SecondsPerYear + (q % SecondsPerYear)
  BY <1>1, CalendarAssumption, Division
<1>3. YearOf(t) = q \div SecondsPerYear /\ Second(t) = q % SecondsPerYear
  BY DEF YearOf, Second, q
<1>4. Timestamp(YearOf(t), Second(t), 0) = q * SubsecondsPerSecond + 0
  BY <1>2, <1>3 DEF Timestamp
<1>5. q * SubsecondsPerSecond \in Int
  BY <1>1, CalendarAssumption
<1>6. WholeSecond(t) = q * SubsecondsPerSecond
  BY <1>1, <1>5 DEF WholeSecond
<1> QED
  BY <1>1, <1>2, <1>3, <1>4, <1>5, <1>6

(* What is written and can be read is read as the time without fraction.   *)
LEMMA TimeRoundTrip ==
  ASSUME NEW t \in Int, Decodable(EncodeTime(t))
  PROVE  DecodeTime(EncodeTime(t)) = WholeSecond(t)
<1>1. CASE YearOf(t) \in 1950..2049
  <2>1. EncodeTime(t) = [tag |-> "UTCTime", year |-> YearOf(t) % 100, second |-> Second(t),
                         fraction |-> 0]
    BY <1>1 DEF EncodeTime
  <2>2. Century(YearOf(t) % 100) = YearOf(t)
    BY <1>1 DEF Century
  <2> QED
    BY <2>1, <2>2, TimeSplit DEF DecodeTime
<1>2. CASE YearOf(t) \notin 1950..2049
  <2>1. EncodeTime(t) = [tag |-> "GeneralizedTime", year |-> YearOf(t), second |-> Second(t),
                         fraction |-> Fraction(t)]
    BY <1>2 DEF EncodeTime
  <2>2. Fraction(t) = 0
    BY <2>1 DEF Decodable
  <2> QED
    BY <2>1, <2>2, TimeSplit DEF DecodeTime
<1> QED
  BY <1>1, <1>2

(* A time without the fraction that GeneralizedTime would have can be read. *)
LEMMA TimeDecodable ==
  ASSUME NEW t \in Int, ~GeneralizedFraction(t)
  PROVE  Decodable(EncodeTime(t))
<1>1. Fraction(t) >= 0 /\ Fraction(t) \in Int
  BY CalendarAssumption, Division DEF Fraction
<1> QED
  BY <1>1 DEF GeneralizedFraction, EncodeTime, Decodable

(* Dropping fractions does not change the order of times.                  *)
LEMMA TimeOrder ==
  ASSUME NEW t \in Int, NEW u \in Int, t <= u
  PROVE  WholeSecond(t) <= WholeSecond(u)
<1> DEFINE s == SubsecondsPerSecond
           q == t \div s
           r == u \div s
<1>1. /\ s \in Nat /\ q \in Int /\ r \in Int
      /\ Fraction(t) \in 0..(s - 1) /\ Fraction(u) \in 0..(s - 1)
      /\ t = q * s + Fraction(t) /\ u = r * s + Fraction(u)
  BY CalendarAssumption, Division DEF Fraction
<1> HIDE DEF s, q, r
<1>2. q <= r
  <2> SUFFICES ASSUME q >= r + 1 PROVE FALSE
    BY <1>1
  <2>1. q * s >= (r + 1) * s
    BY <1>1
  <2>2. (r + 1) * s = r * s + s
    BY <1>1
  <2> QED
    BY <1>1, <2>1, <2>2
<1>3. q * s <= r * s /\ q * s \in Int /\ r * s \in Int
  BY <1>1, <1>2
<1>4. WholeSecond(t) = q * s /\ WholeSecond(u) = r * s
  BY <1>1, <1>3 DEF WholeSecond
<1> QED
  BY <1>3, <1>4

----------------------------------------------------------------------------
(* Signing. *)

(* What a key signs, verifies under it, and the identifier of the          *)
(* algorithm names the algorithm.                                          *)
LEMMA SigningVerifies ==
  ASSUME NEW keyAlgorithm, NEW alg, alg = SigningAlgorithm(keyAlgorithm), alg # NoAlgorithm
  PROVE  /\ Verifiable(keyAlgorithm, alg)
         /\ SignatureAlgorithmOf(AlgorithmIdentifier(alg)) = alg
<1>1. \/ keyAlgorithm = "Rsa" /\ alg = [family |-> "Rsa", digest |-> "Sha256"]
      \/ keyAlgorithm = "EcdsaSecp256r1" /\ alg = [family |-> "Ecdsa", digest |-> "Sha256"]
      \/ keyAlgorithm = "EcdsaSecp384r1" /\ alg = [family |-> "Ecdsa", digest |-> "Sha384"]
      \/ keyAlgorithm = "Ed25519" /\ alg = [family |-> "Ed25519", digest |-> "none"]
  BY DEF SigningAlgorithm
<1>2. Verifiable(keyAlgorithm, alg)
  BY <1>1 DEF Verifiable, KeyAlgorithm, SignatureAlgorithm, KeyFamily, DigestAlgorithm
<1>3. alg.family # "NoSignature"
  BY <1>1
<1>4. /\ AlgorithmIdentifier(alg).oid = [names |-> "signature", alg |-> alg]
      /\ AlgorithmIdentifier(alg).parameters = IF alg.family = "Rsa" THEN "null" ELSE "absent"
  BY <1>3 DEF AlgorithmIdentifier, OidOf, SignatureOid
<1>5. SignatureAlgorithmOf(AlgorithmIdentifier(alg)) = alg
  BY <1>4 DEF SignatureAlgorithmOf, SignatureParametersOk
<1> QED
  BY <1>2, <1>5

----------------------------------------------------------------------------
(* What the builder refuses, and what its decoder refuses. *)

(* What validate_certificate_fields accepts. *)
LEMMA FieldsAccepted ==
  ASSUME FieldError = "Ok"
  PROVE  /\ ~(builder.serialNumber <= 0)
         /\ ~(builder.notAfter < builder.notBefore)
         /\ ~Duplicated(builder.extensions)
         /\ ~(builder.subject = EmptyName /\ ~SubjectIsNamed(builder.extensions))
<1> DEFINE checks == <<
      Check(builder.serialNumber <= 0, "InvalidCertificateSerialNumber"),
      Check(builder.notAfter < builder.notBefore, "InvalidCertificateValidity"),
      Check(Duplicated(builder.extensions), "DuplicateCertificateExtension"),
      Check(builder.subject = EmptyName /\ ~SubjectIsNamed(builder.extensions),
            "EmptyCertificateSubjectWithoutSubjectAltName") >>
<1>1. FirstError(checks) = "Ok"
  BY DEF FieldError
<1>2. DOMAIN checks = 1..4 /\ \A i \in 1..4 : checks[i].error # "Ok"
  BY DEF Check
<1>3. ~checks[1].fails /\ ~checks[2].fails /\ ~checks[3].fails /\ ~checks[4].fails
  <2> HIDE DEF checks
  <2>1. \A i \in 1..4 : ~checks[i].fails
    BY <1>1, <1>2, NoCheckFails
  <2> QED
    BY <2>1
<1> QED
  BY <1>3 DEF Check

(* The errors of validate_certificate_fields are its own. *)
LEMMA FieldErrors == FieldError # "Asn1Decode"
<1> DEFINE checks == <<
      Check(builder.serialNumber <= 0, "InvalidCertificateSerialNumber"),
      Check(builder.notAfter < builder.notBefore, "InvalidCertificateValidity"),
      Check(Duplicated(builder.extensions), "DuplicateCertificateExtension"),
      Check(builder.subject = EmptyName /\ ~SubjectIsNamed(builder.extensions),
            "EmptyCertificateSubjectWithoutSubjectAltName") >>
<1>1. DOMAIN checks = 1..4 /\ \A i \in 1..4 : checks[i].error # "Asn1Decode"
  BY DEF Check
<1>2. FirstError(checks) # "Asn1Decode"
  <2> HIDE DEF checks
  <2> QED
    BY <1>1, FirstErrorListed
<1> QED
  BY <1>2 DEF FieldError

(* What the builder signs. *)
LEMMA CreationAccepted ==
  ASSUME NEW subjectKey, NEW issuerKey
  PROVE  /\ CreationError(subjectKey, issuerKey) = "Ok" =>
              /\ FieldError = "Ok"
              /\ ~(builder.issuer = None /\ subjectKey # issuerKey)
              /\ SigningAlgorithm(KeyAlg[issuerKey]) # NoAlgorithm
              /\ IssuerName # EmptyName
         /\ CreationError(subjectKey, issuerKey) # "Asn1Decode"
<1> DEFINE checks == <<
      Check(FieldError # "Ok", FieldError),
      Check(builder.issuer = None /\ subjectKey # issuerKey, "IssuerNameRequired"),
      Check(SigningAlgorithm(KeyAlg[issuerKey]) = NoAlgorithm, "UnknownSignatureAlgorithm"),
      Check(IssuerName = EmptyName, "EmptyCertificateIssuer"),
      Check(KeyAlg[subjectKey] = "Unknown", "UnknownKeyAlgorithm") >>
<1>1. CreationError(subjectKey, issuerKey) = FirstError(checks)
  BY DEF CreationError
<1>2. /\ DOMAIN checks = 1..5
      /\ \A i \in 1..5 : checks[i].error # "Asn1Decode"
      /\ \A i \in 1..5 : checks[i].fails => checks[i].error # "Ok"
  <2>1. /\ checks[1].error = FieldError /\ (checks[1].fails => FieldError # "Ok")
        /\ checks[2].error = "IssuerNameRequired"
        /\ checks[3].error = "UnknownSignatureAlgorithm"
        /\ checks[4].error = "EmptyCertificateIssuer"
        /\ checks[5].error = "UnknownKeyAlgorithm"
    BY DEF Check
  <2>2. DOMAIN checks = 1..5
    OBVIOUS
  <2>3. ASSUME NEW i \in 1..5
        PROVE  checks[i].error # "Asn1Decode" /\ (checks[i].fails => checks[i].error # "Ok")
    <3> HIDE DEF checks
    <3>1. i = 1 \/ i = 2 \/ i = 3 \/ i = 4 \/ i = 5
      OBVIOUS
    <3> QED
      BY <2>1, <3>1, FieldErrors
  <2> HIDE DEF checks
  <2> QED
    BY <2>2, <2>3
<1>3. /\ FirstError(checks) # "Asn1Decode"
      /\ FirstError(checks) = "Ok" => \A i \in 1..5 : ~checks[i].fails
  <2> HIDE DEF checks
  <2> QED
    BY <1>2, FirstErrorListed
<1>4. FirstError(checks) = "Ok" => /\ ~checks[1].fails /\ ~checks[2].fails /\ ~checks[3].fails
                                   /\ ~checks[4].fails
  <2> HIDE DEF checks
  <2> QED
    BY <1>3
<1> QED
  BY <1>1, <1>3, <1>4 DEF Check

(* Encoding an extension keeps what it says.                               *)
LEMMA ExtensionKept ==
  ASSUME NEW added, NEW id, NEW critical, NEW value, added = Extension(id, critical, value)
  PROVE  /\ EncodeExtension(added).id = id
         /\ EncodeExtension(added).value = value
         /\ (EncodeExtension(added).critical = "yes") = (critical = "yes")
BY DEF Extension, EncodeExtension

(* What the decoder accepts. *)
LEMMA DecodingAccepted ==
  ASSUME NEW tbs, DecodeError(tbs) = "Ok"
  PROVE  Decodable(tbs.notBefore) /\ Decodable(tbs.notAfter)
<1> DEFINE checks == <<
      Check(tbs.issuer = EmptyName, "empty issuer"),
      Check(~Decodable(tbs.notBefore) \/ ~Decodable(tbs.notAfter), "time"),
      Check(DecodeTime(tbs.notAfter) < DecodeTime(tbs.notBefore), "reversed validity"),
      Check(Duplicated(tbs.extensions), "duplicate extension"),
      Check(tbs.subject = EmptyName /\ ~SubjectIsNamed(tbs.extensions), "empty subject") >>
<1>1. FirstError(checks) = "Ok"
  BY DEF DecodeError
<1>2. DOMAIN checks = 1..5 /\ \A i \in 1..5 : checks[i].error # "Ok"
  <2>1. /\ checks[1].error = "empty issuer" /\ checks[2].error = "time"
        /\ checks[3].error = "reversed validity" /\ checks[4].error = "duplicate extension"
        /\ checks[5].error = "empty subject"
    BY DEF Check
  <2>2. DOMAIN checks = 1..5
    OBVIOUS
  <2>3. ASSUME NEW i \in 1..5 PROVE checks[i].error # "Ok"
    <3> HIDE DEF checks
    <3>1. i = 1 \/ i = 2 \/ i = 3 \/ i = 4 \/ i = 5
      OBVIOUS
    <3> QED
      BY <2>1, <3>1
  <2> HIDE DEF checks
  <2> QED
    BY <2>2, <2>3
<1>3. ~checks[2].fails
  <2> HIDE DEF checks
  <2>1. \A i \in 1..5 : ~checks[i].fails
    BY <1>1, <1>2, NoCheckFails
  <2> QED
    BY <2>1
<1> QED
  BY <1>3 DEF Check

(* It accepts what fails none of its checks.                               *)
LEMMA DecodingAccepts ==
  ASSUME NEW tbs, tbs.issuer # EmptyName,
         Decodable(tbs.notBefore), Decodable(tbs.notAfter),
         ~(DecodeTime(tbs.notAfter) < DecodeTime(tbs.notBefore)),
         ~Duplicated(tbs.extensions),
         ~(tbs.subject = EmptyName /\ ~SubjectIsNamed(tbs.extensions))
  PROVE  DecodeError(tbs) = "Ok"
<1> DEFINE checks == <<
      Check(tbs.issuer = EmptyName, "empty issuer"),
      Check(~Decodable(tbs.notBefore) \/ ~Decodable(tbs.notAfter), "time"),
      Check(DecodeTime(tbs.notAfter) < DecodeTime(tbs.notBefore), "reversed validity"),
      Check(Duplicated(tbs.extensions), "duplicate extension"),
      Check(tbs.subject = EmptyName /\ ~SubjectIsNamed(tbs.extensions), "empty subject") >>
<1>1. DOMAIN checks = 1..5 /\ \A i \in 1..5 : ~checks[i].fails
  <2>1. /\ ~checks[1].fails /\ ~checks[2].fails /\ ~checks[3].fails
        /\ ~checks[4].fails /\ ~checks[5].fails
    BY DEF Check
  <2>2. DOMAIN checks = 1..5
    OBVIOUS
  <2> HIDE DEF checks
  <2> QED
    BY <2>1, <2>2
<1>2. FirstError(checks) = "Ok"
  <2> HIDE DEF checks
  <2> QED
    BY <1>1, AllChecksPass
<1> QED
  BY <1>2 DEF DecodeError

----------------------------------------------------------------------------
(* The inductive invariant: the types, and where what was returned comes   *)
(* from.  A creation leaves the builder as it is, and any other call       *)
(* clears the outcome.                                                     *)

Accepted(subjectKey, issuerKey) ==
  /\ CreationError(subjectKey, issuerKey) = "Ok"
  /\ outcome.call = "keyPair" => subjectKey = issuerKey /\ ~IssuerIsOther

CertificateCame ==
  Created => \E subjectKey, issuerKey \in Key :
    /\ Accepted(subjectKey, issuerKey)
    /\ DecodeError(TbsCertificate(subjectKey, issuerKey)) = "Ok"
    /\ outcome.issuerKey = issuerKey
    /\ outcome.certificate = SignedCertificate(subjectKey, issuerKey)

RefusalCame ==
  outcome.error = "Asn1Decode" => \E subjectKey, issuerKey \in Key :
    /\ CreationError(subjectKey, issuerKey) = "Ok"
    /\ DecodeError(TbsCertificate(subjectKey, issuerKey)) # "Ok"

RequestCame ==
  outcome.request # None => \E k \in Key, attributes \in RequestAttributes :
    /\ RequestError(k) = "Ok"
    /\ outcome.request = CertificationRequest(k, attributes)

OutcomeCame == CertificateCame /\ RefusalCame /\ RequestCame

CertificateBuilderInv == CertificateBuilderTypeOK /\ OutcomeCame

(* What is computed from the builder depends on nothing else.              *)
LEMMA SameBuilder ==
  ASSUME builder' = builder, NEW subjectKey, NEW issuerKey, NEW attributes
  PROVE  /\ CreationError(subjectKey, issuerKey)' = CreationError(subjectKey, issuerKey)
         /\ TbsCertificate(subjectKey, issuerKey)' = TbsCertificate(subjectKey, issuerKey)
         /\ SignedCertificate(subjectKey, issuerKey)' = SignedCertificate(subjectKey, issuerKey)
         /\ IssuerIsOther' = IssuerIsOther
         /\ RequestAttributes' = RequestAttributes
         /\ RequestError(subjectKey)' = RequestError(subjectKey)
         /\ CertificationRequest(subjectKey, attributes)'
              = CertificationRequest(subjectKey, attributes)
<1>1. FieldError' = FieldError
  BY DEF FieldError
<1>2. IssuerName' = IssuerName
  BY DEF IssuerName
<1>3. CreationError(subjectKey, issuerKey)' = CreationError(subjectKey, issuerKey)
  BY <1>1, <1>2 DEF CreationError
<1>4. TbsCertificate(subjectKey, issuerKey)' = TbsCertificate(subjectKey, issuerKey)
  BY <1>2 DEF TbsCertificate
<1>5. SignedCertificate(subjectKey, issuerKey)' = SignedCertificate(subjectKey, issuerKey)
  BY <1>4 DEF SignedCertificate
<1>6. IssuerIsOther' = IssuerIsOther /\ RequestAttributes' = RequestAttributes
  BY DEF IssuerIsOther, RequestAttributes
<1>7. RequestError(subjectKey)' = RequestError(subjectKey)
  BY DEF RequestError
<1>8. CertificationRequest(subjectKey, attributes)' = CertificationRequest(subjectKey, attributes)
  BY DEF CertificationRequest
<1> QED
  BY <1>3, <1>4, <1>5, <1>6, <1>7, <1>8

(* A setter leaves no outcome.                                             *)
LEMMA ConfigureCame ==
  ASSUME NEW config, Configure(config)
  PROVE  OutcomeCame' /\ outcome'.issuerKey = None
<1>1. /\ outcome'.certificate = None /\ outcome'.error = "Ok" /\ outcome'.request = None
      /\ outcome'.issuerKey = None
  BY DEF Configure, NoOutcome
<1> QED
  BY <1>1 DEF OutcomeCame, CertificateCame, RefusalCame, RequestCame, Created

(* Nor does a call that fails, but for its error.                          *)
LEMMA FailCame ==
  ASSUME NEW call, NEW error, Fail(call, error), error # "Asn1Decode"
  PROVE  OutcomeCame' /\ outcome'.issuerKey = None /\ builder' = builder
<1>1. /\ outcome'.certificate = None /\ outcome'.error = error /\ outcome'.request = None
      /\ outcome'.issuerKey = None /\ builder' = builder
  BY DEF Fail, NoOutcome
<1> QED
  BY <1>1 DEF OutcomeCame, CertificateCame, RefusalCame, RequestCame, Created

(* A creation returns what it signed, or an error.                         *)
LEMMA CreateCame ==
  ASSUME NEW call, NEW subjectKey \in Key, NEW issuerKey \in Key,
         Create(call, subjectKey, issuerKey),
         call = "keyPair" => subjectKey = issuerKey /\ ~IssuerIsOther
  PROVE  OutcomeCame' /\ outcome'.issuerKey \in Key \cup {None} /\ builder' = builder
<1> DEFINE refusal == CreationError(subjectKey, issuerKey)
           decoding == DecodeError(TbsCertificate(subjectKey, issuerKey))
<1>1. CASE refusal # "Ok" /\ Fail(call, refusal)
  BY <1>1, CreationAccepted, FailCame
<1>2. CASE refusal = "Ok" /\ Fail(call, "Signature")
  BY <1>2, FailCame
<1>3. CASE refusal = "Ok" /\ decoding # "Ok" /\ Fail(call, "Asn1Decode")
  <2>1. /\ outcome'.certificate = None /\ outcome'.request = None
        /\ outcome'.issuerKey = None /\ builder' = builder
    BY <1>3 DEF Fail, NoOutcome
  <2>2. /\ CreationError(subjectKey, issuerKey)' = CreationError(subjectKey, issuerKey)
        /\ TbsCertificate(subjectKey, issuerKey)' = TbsCertificate(subjectKey, issuerKey)
    BY <2>1, SameBuilder
  <2>3. RefusalCame'
    BY <1>3, <2>2 DEF RefusalCame
  <2> QED
    BY <2>1, <2>3 DEF OutcomeCame, CertificateCame, RequestCame, Created
<1>4. CASE /\ refusal = "Ok" /\ decoding = "Ok"
           /\ ReturnCertificate(call, issuerKey, SignedCertificate(subjectKey, issuerKey))
  <2>1. /\ outcome'.certificate = SignedCertificate(subjectKey, issuerKey)
        /\ outcome'.call = call /\ outcome'.error = "Ok" /\ outcome'.request = None
        /\ outcome'.issuerKey = issuerKey /\ builder' = builder
    BY <1>4 DEF ReturnCertificate, NoOutcome
  <2>2. /\ CreationError(subjectKey, issuerKey)' = CreationError(subjectKey, issuerKey)
        /\ TbsCertificate(subjectKey, issuerKey)' = TbsCertificate(subjectKey, issuerKey)
        /\ SignedCertificate(subjectKey, issuerKey)' = SignedCertificate(subjectKey, issuerKey)
        /\ IssuerIsOther' = IssuerIsOther
    BY <2>1, SameBuilder
  <2>3. Accepted(subjectKey, issuerKey)'
    BY <1>4, <2>1, <2>2 DEF Accepted
  <2>4. CertificateCame'
    BY <1>4, <2>1, <2>2, <2>3 DEF CertificateCame
  <2> QED
    BY <2>1, <2>4 DEF OutcomeCame, RefusalCame, RequestCame
<1> QED
  BY <1>1, <1>2, <1>3, <1>4 DEF Create

(* So does the creation of a request. *)
LEMMA RequestErrors == ASSUME NEW k PROVE RequestError(k) # "Asn1Decode"
<1> DEFINE checks == <<
      Check(\E i \in DOMAIN builder.csrAttributes : builder.csrAttributes[i].values = {},
            "EmptyCsrAttributeValues"),
      Check(KeyAlg[k] = "Unknown", "UnknownKeyAlgorithm") >>
<1>1. DOMAIN checks = 1..2 /\ \A i \in 1..2 : checks[i].error # "Asn1Decode"
  BY DEF Check
<1>2. FirstError(checks) # "Asn1Decode"
  <2> HIDE DEF checks
  <2> QED
    BY <1>1, FirstErrorListed
<1> QED
  BY <1>2 DEF RequestError

LEMMA RequestCreated ==
  ASSUME CreateCertificateSigningRequest
  PROVE  OutcomeCame' /\ outcome'.issuerKey = None /\ builder' = builder
<1>1. PICK k \in Key :
        \/ RequestError(k) # "Ok" /\ Fail("request", RequestError(k))
        \/ RequestError(k) = "Ok" /\ Fail("request", "Signature")
        \/ /\ RequestError(k) = "Ok"
           /\ \E attributes \in RequestAttributes :
                ReturnRequest(CertificationRequest(k, attributes))
  BY DEF CreateCertificateSigningRequest
<1>2. CASE Fail("request", RequestError(k)) \/ Fail("request", "Signature")
  BY <1>2, RequestErrors, FailCame
<1>3. ASSUME RequestError(k) = "Ok", NEW attributes \in RequestAttributes,
             ReturnRequest(CertificationRequest(k, attributes))
      PROVE  OutcomeCame' /\ outcome'.issuerKey = None /\ builder' = builder
  <2>1. /\ outcome'.certificate = None /\ outcome'.error = "Ok" /\ outcome'.issuerKey = None
        /\ outcome'.request = CertificationRequest(k, attributes) /\ builder' = builder
    BY <1>3 DEF ReturnRequest, NoOutcome
  <2>2. /\ RequestError(k)' = RequestError(k)
        /\ RequestAttributes' = RequestAttributes
        /\ CertificationRequest(k, attributes)' = CertificationRequest(k, attributes)
    BY <2>1, SameBuilder
  <2>3. RequestCame'
    BY <1>3, <2>1, <2>2 DEF RequestCame
  <2> QED
    BY <2>1, <2>3 DEF OutcomeCame, CertificateCame, RefusalCame, Created
<1> QED
  BY <1>1, <1>2, <1>3

----------------------------------------------------------------------------
(* The setters keep to the types of the builder. *)

BuilderRecord ==
  [subject : Name, issuer : Name \cup {None}, extensions : Seq(BuilderExtension),
   serialNumber : Serial \cup {1}, notBefore : 0..MaxTimestamp,
   notAfter : 0..MaxTimestamp, csrAttributes : Seq(CsrAttribute)]

(* Clearing a criticality twice is clearing it once.                       *)
LEMMA NotCritical ==
  ASSUME NEW e \in BuilderExtension
  PROVE  [e EXCEPT !.critical = "no"] \in BuilderExtension
<1> DEFINE added == DerExtension \cup {Extension("basicConstraints", "yes", "emptySequence")}
                      \cup {Extension("keyUsage", "yes", usage) : usage \in Usage}
<1>1. BuilderExtension = added \cup {[x EXCEPT !.critical = "no"] : x \in added}
  BY DEF BuilderExtension
<1>2. ASSUME NEW x \in added
      PROVE  [[x EXCEPT !.critical = "no"] EXCEPT !.critical = "no"] = [x EXCEPT !.critical = "no"]
  <2>1. PICK id, critical, value : x = Extension(id, critical, value)
    BY CertificateBuilderAssumption
  <2> QED
    BY <2>1 DEF Extension
<1> HIDE DEF added
<1>3. CASE e \in added
  BY <1>1, <1>3
<1>4. ASSUME NEW x \in added, e = [x EXCEPT !.critical = "no"]
      PROVE  [e EXCEPT !.critical = "no"] \in BuilderExtension
  BY <1>1, <1>2, <1>4
<1> QED
  BY <1>1, <1>3, <1>4

(* A configuration of the right type is the next builder.                  *)
LEMMA ConfigureTypes ==
  ASSUME NEW config \in BuilderRecord,
         Len(config.extensions) + Len(config.csrAttributes) <= MaxAdditions,
         Configure(config)
  PROVE  CertificateBuilderInv'
<1>1. builder' = config /\ outcome'.issuerKey = None /\ OutcomeCame'
  BY ConfigureCame DEF Configure
<1>2. CertificateBuilderTypeOK'
  BY <1>1 DEF CertificateBuilderTypeOK, BuilderRecord
<1> QED
  BY <1>1, <1>2 DEF CertificateBuilderInv

(* A call that leaves the builder keeps its types.                         *)
LEMMA OutcomeTypes ==
  ASSUME CertificateBuilderTypeOK, builder' = builder, OutcomeCame',
         outcome'.issuerKey \in Key \cup {None}
  PROVE  CertificateBuilderInv'
BY DEF CertificateBuilderTypeOK, CertificateBuilderInv

(* The bound of the additions is a number.                                             *)
LEMMA MaxIsNat == MaxAdditions \in Nat
BY CertificateBuilderAssumption

(* An extension is added at the end.                                       *)
LEMMA ExtensionAdded ==
  ASSUME CertificateBuilderTypeOK, NEW e \in BuilderExtension, AddExtension(e)
  PROVE  CertificateBuilderInv'
<1> DEFINE config == [builder EXCEPT !.extensions = Append(@, e)]
<1>1. /\ builder \in BuilderRecord
      /\ Len(builder.extensions) + Len(builder.csrAttributes) < MaxAdditions
      /\ Configure(config)
  BY DEF CertificateBuilderTypeOK, BuilderRecord, AddExtension, MayAdd
<1>2. builder.extensions \in Seq(BuilderExtension) /\ builder.csrAttributes \in Seq(CsrAttribute)
  BY <1>1 DEF BuilderRecord
<1>3. /\ Append(builder.extensions, e) \in Seq(BuilderExtension)
      /\ Len(Append(builder.extensions, e)) = Len(builder.extensions) + 1
      /\ Len(builder.extensions) \in Nat /\ Len(builder.csrAttributes) \in Nat
  BY <1>2
<1>4. /\ config \in BuilderRecord
      /\ config.extensions = Append(builder.extensions, e)
      /\ config.csrAttributes = builder.csrAttributes
  BY <1>1, <1>3 DEF BuilderRecord
<1> HIDE DEF config
<1>5. Len(config.extensions) + Len(config.csrAttributes) <= MaxAdditions
  <2> DEFINE a == Len(builder.extensions)
             b == Len(builder.csrAttributes)
  <2>1. Len(config.extensions) = a + 1 /\ Len(config.csrAttributes) = b
    BY <1>3, <1>4
  <2>2. a \in Nat /\ b \in Nat /\ a + b < MaxAdditions
    BY <1>1, <1>3
  <2> HIDE DEF a, b
  <2> QED
    BY <2>1, <2>2, MaxIsNat
<1> QED
  BY <1>1, <1>4, <1>5, ConfigureTypes

(* The extensions a setter makes.                                          *)
LEMMA SetterExtensions ==
  /\ DerExtension \subseteq BuilderExtension
  /\ Extension("basicConstraints", "yes", "emptySequence") \in BuilderExtension
  /\ \A usage \in Usage : Extension("keyUsage", "yes", usage) \in BuilderExtension
BY DEF BuilderExtension

(* What the caller of extensions_mut does.                                 *)
LEMMA ExtensionsMutated ==
  ASSUME CertificateBuilderTypeOK, ExtensionsMut
  PROVE  CertificateBuilderInv'
<1> DEFINE n == Len(builder.extensions)
           shorter == [builder EXCEPT !.extensions = SubSeq(@, 1, n - 1)]
           cleared == [builder EXCEPT !.extensions[n].critical = "no"]
<1>1. /\ builder \in BuilderRecord
      /\ Len(builder.extensions) + Len(builder.csrAttributes) <= MaxAdditions
      /\ builder.extensions # <<>>
      /\ Configure(shorter) \/ Configure(cleared)
  BY DEF CertificateBuilderTypeOK, BuilderRecord, ExtensionsMut
<1>2. /\ builder.extensions \in Seq(BuilderExtension) /\ builder.csrAttributes \in Seq(CsrAttribute)
      /\ n \in Nat /\ n > 0 /\ Len(builder.csrAttributes) \in Nat
  BY <1>1 DEF BuilderRecord
<1>3. CASE Configure(shorter)
  <2>1. /\ SubSeq(builder.extensions, 1, n - 1) \in Seq(BuilderExtension)
        /\ Len(SubSeq(builder.extensions, 1, n - 1)) = n - 1
    BY <1>2
  <2>2. /\ shorter \in BuilderRecord
        /\ shorter.extensions = SubSeq(builder.extensions, 1, n - 1)
        /\ shorter.csrAttributes = builder.csrAttributes
    BY <1>1, <2>1 DEF BuilderRecord
  <2>3. Len(shorter.extensions) + Len(shorter.csrAttributes) <= MaxAdditions
    <3> DEFINE b == Len(builder.csrAttributes)
    <3>1. Len(shorter.extensions) = n - 1 /\ Len(shorter.csrAttributes) = b
      BY <2>1, <2>2
    <3>2. n \in Nat /\ b \in Nat /\ n + b <= MaxAdditions
      BY <1>1, <1>2
    <3> HIDE DEF n, b, shorter
    <3> QED
      BY <3>1, <3>2, MaxIsNat
  <2> HIDE DEF shorter
  <2> QED
    BY <1>3, <2>2, <2>3, ConfigureTypes
<1>4. CASE Configure(cleared)
  <2> DEFINE less == [builder.extensions EXCEPT ![n].critical = "no"]
  <2>1. n \in 1..n /\ builder.extensions[n] \in BuilderExtension
    BY <1>2
  <2>2. [builder.extensions[n] EXCEPT !.critical = "no"] \in BuilderExtension
    BY <2>1, NotCritical
  <2>3. less \in Seq(BuilderExtension) /\ Len(less) = n
    BY <1>2, <2>1, <2>2
  <2>4. /\ cleared \in BuilderRecord
        /\ cleared.extensions = less
        /\ cleared.csrAttributes = builder.csrAttributes
    <3> HIDE DEF less
    <3>1. cleared = [builder EXCEPT !.extensions = less]
      BY DEF less
    <3> QED
      BY <1>1, <2>3, <3>1 DEF BuilderRecord
  <2> HIDE DEF cleared, less
  <2>5. Len(cleared.extensions) + Len(cleared.csrAttributes) <= MaxAdditions
    BY <1>1, <2>3, <2>4
  <2> QED
    BY <1>4, <2>4, <2>5, ConfigureTypes
<1> QED
  BY <1>1, <1>3, <1>4

(* An attribute is added at the end.                                       *)
LEMMA AttributeAdded ==
  ASSUME CertificateBuilderTypeOK, AddCsrAttribute
  PROVE  CertificateBuilderInv'
<1>1. PICK a \in CsrAttribute : Configure([builder EXCEPT !.csrAttributes = Append(@, a)])
  BY DEF AddCsrAttribute
<1> DEFINE config == [builder EXCEPT !.csrAttributes = Append(@, a)]
<1>2. /\ builder \in BuilderRecord
      /\ Len(builder.extensions) + Len(builder.csrAttributes) < MaxAdditions
  BY DEF CertificateBuilderTypeOK, BuilderRecord, AddCsrAttribute, MayAdd
<1>3. builder.extensions \in Seq(BuilderExtension) /\ builder.csrAttributes \in Seq(CsrAttribute)
  BY <1>2 DEF BuilderRecord
<1>4. /\ Append(builder.csrAttributes, a) \in Seq(CsrAttribute)
      /\ Len(Append(builder.csrAttributes, a)) = Len(builder.csrAttributes) + 1
      /\ Len(builder.extensions) \in Nat /\ Len(builder.csrAttributes) \in Nat
  BY <1>3
<1>5. /\ config \in BuilderRecord
      /\ config.csrAttributes = Append(builder.csrAttributes, a)
      /\ config.extensions = builder.extensions
  BY <1>2, <1>4 DEF BuilderRecord
<1>6. Configure(config)
  BY <1>1
<1> HIDE DEF config
<1>7. Len(config.extensions) + Len(config.csrAttributes) <= MaxAdditions
  <2> DEFINE m == Len(builder.extensions)
             n == Len(builder.csrAttributes)
  <2>1. Len(config.extensions) = m /\ Len(config.csrAttributes) = n + 1
    BY <1>4, <1>5
  <2>2. m \in Nat /\ n \in Nat /\ m + n < MaxAdditions
    BY <1>2, <1>4
  <2> HIDE DEF m, n
  <2> QED
    BY <2>1, <2>2, MaxIsNat
<1> QED
  BY <1>5, <1>6, <1>7, ConfigureTypes

(* The setters of a single field, and validity_duration.                   *)
LEMMA FieldSet ==
  ASSUME CertificateBuilderTypeOK, SetSubject \/ SetIssuer \/ SerialNumber
  PROVE  CertificateBuilderInv'
<1>1. /\ builder \in BuilderRecord
      /\ Len(builder.extensions) + Len(builder.csrAttributes) <= MaxAdditions
  BY DEF CertificateBuilderTypeOK, BuilderRecord
<1>2. PICK config :
        /\ Configure(config)
        /\ \/ \E name \in Name : config = [builder EXCEPT !.subject = name]
           \/ \E name \in Name : config = [builder EXCEPT !.issuer = name]
           \/ \E n \in Serial : config = [builder EXCEPT !.serialNumber = n]
  BY DEF SetSubject, SetIssuer, SerialNumber
<1>3. /\ config \in BuilderRecord
      /\ config.extensions = builder.extensions /\ config.csrAttributes = builder.csrAttributes
  BY <1>1, <1>2 DEF BuilderRecord
<1> QED
  BY <1>1, <1>2, <1>3, ConfigureTypes

LEMMA ValiditySet ==
  ASSUME CertificateBuilderTypeOK, ValidityDuration
  PROVE  CertificateBuilderInv'
<1>1. PICK d \in Duration :
        IF builder.notBefore + d \in 0..MaxTimestamp
          THEN Configure([builder EXCEPT !.notAfter = builder.notBefore + d])
          ELSE Fail("validity", "InvalidCertificateValidity")
  BY DEF ValidityDuration
<1>2. CASE builder.notBefore + d \in 0..MaxTimestamp
  <2> DEFINE config == [builder EXCEPT !.notAfter = builder.notBefore + d]
  <2>1. /\ config \in BuilderRecord
        /\ config.extensions = builder.extensions /\ config.csrAttributes = builder.csrAttributes
    BY <1>2 DEF CertificateBuilderTypeOK, BuilderRecord
  <2>2. Len(builder.extensions) + Len(builder.csrAttributes) <= MaxAdditions
    BY DEF CertificateBuilderTypeOK
  <2>3. Configure(config)
    BY <1>1, <1>2
  <2> HIDE DEF config
  <2> QED
    BY <2>1, <2>2, <2>3, ConfigureTypes
<1>3. CASE Fail("validity", "InvalidCertificateValidity")
  BY <1>3, FailCame, OutcomeTypes
<1> QED
  BY <1>1, <1>2, <1>3

(* A call of create_with_key_pair.                                         *)
LEMMA KeyPairCreated ==
  ASSUME CreateWithKeyPair
  PROVE  OutcomeCame' /\ outcome'.issuerKey \in Key \cup {None} /\ builder' = builder
<1>1. PICK k \in Key :
        \/ IssuerIsOther /\ Fail("keyPair", "IssuerSigningKeyRequired")
        \/ ~IssuerIsOther /\ Create("keyPair", k, k)
  BY DEF CreateWithKeyPair, InMemoryKey
<1>2. CASE Fail("keyPair", "IssuerSigningKeyRequired")
  BY <1>2, FailCame
<1>3. CASE ~IssuerIsOther /\ Create("keyPair", k, k)
  BY <1>3, CreateCame
<1> QED
  BY <1>1, <1>2, <1>3

----------------------------------------------------------------------------

(* Every call keeps the invariant.                                         *)
LEMMA BuilderStep ==
  ASSUME CertificateBuilderInv, [CertificateBuilderNext]_certificateVars
  PROVE  CertificateBuilderInv'
<1>1. CertificateBuilderTypeOK /\ OutcomeCame
  BY DEF CertificateBuilderInv
<1>2. CASE SetSubject \/ SetIssuer \/ SerialNumber
  BY <1>1, <1>2, FieldSet
<1>3. CASE AddExtensionDerData
  BY <1>1, <1>3, SetterExtensions, ExtensionAdded DEF AddExtensionDerData
<1>4. CASE ConstraintNotCa
  BY <1>1, <1>4, SetterExtensions, ExtensionAdded DEF ConstraintNotCa
<1>5. CASE KeyUsage
  BY <1>1, <1>5, SetterExtensions, ExtensionAdded DEF KeyUsage
<1>6. CASE ExtensionsMut
  BY <1>1, <1>6, ExtensionsMutated
<1>7. CASE ValidityDuration
  BY <1>1, <1>7, ValiditySet
<1>8. CASE AddCsrAttribute
  BY <1>1, <1>8, AttributeAdded
<1>9. CASE CreateWithIssuerSigningKey
  <2>1. PICK subjectKey \in Key, issuerKey \in Key : Create("issuer", subjectKey, issuerKey)
    BY <1>9 DEF CreateWithIssuerSigningKey
  <2>2. OutcomeCame' /\ outcome'.issuerKey \in Key \cup {None} /\ builder' = builder
    BY <2>1, CreateCame
  <2> QED
    BY <1>1, <2>2, OutcomeTypes
<1>10. CASE CreateWithKeyPair
  BY <1>1, <1>10, KeyPairCreated, OutcomeTypes
<1>11. CASE CreateWithRandomKeypair
  <2>1. CASE Fail("keyPair", "KeyPairGenerationError")
    BY <1>1, <2>1, FailCame, OutcomeTypes
  <2> QED
    BY <1>1, <1>11, <2>1, KeyPairCreated, OutcomeTypes DEF CreateWithRandomKeypair
<1>12. CASE CreateCertificateSigningRequest
  BY <1>1, <1>12, RequestCreated, OutcomeTypes
<1>13. CASE UNCHANGED certificateVars
  <2>1. builder' = builder /\ outcome' = outcome
    BY <1>13 DEF certificateVars
  <2>2. OutcomeCame'
    <3>1. CertificateCame'
      BY <1>1, <2>1, SameBuilder DEF OutcomeCame, CertificateCame, Created, Accepted
    <3>2. RefusalCame'
      BY <1>1, <2>1, SameBuilder DEF OutcomeCame, RefusalCame
    <3>3. RequestCame'
      BY <1>1, <2>1, SameBuilder DEF OutcomeCame, RequestCame
    <3> QED
      BY <3>1, <3>2, <3>3 DEF OutcomeCame
  <2>3. outcome'.issuerKey \in Key \cup {None}
    BY <1>1, <2>1 DEF CertificateBuilderTypeOK
  <2> QED
    BY <1>1, <2>1, <2>2, <2>3, OutcomeTypes
<1> QED
  BY <1>2, <1>3, <1>4, <1>5, <1>6, <1>7, <1>8, <1>9, <1>10, <1>11, <1>12, <1>13
     DEF CertificateBuilderNext

(* It holds of a new builder.                                              *)
LEMMA BuilderStart == CertificateBuilderInit => CertificateBuilderInv
<1> SUFFICES ASSUME CertificateBuilderInit PROVE CertificateBuilderInv
  OBVIOUS
<1>1. PICK now \in Now : builder = DefaultBuilder(now)
  BY DEF CertificateBuilderInit
<1>2. /\ outcome.certificate = None /\ outcome.error = "Ok" /\ outcome.request = None
      /\ outcome.issuerKey = None
  BY DEF CertificateBuilderInit, NoOutcome
<1>3. now \in 0..MaxTimestamp /\ now + Hour \in 0..MaxTimestamp
  BY CertificateBuilderAssumption
<1>4. builder \in BuilderRecord /\ builder.extensions = <<>> /\ builder.csrAttributes = <<>>
  BY <1>1, <1>3, NamesAssumption DEF DefaultBuilder, BuilderRecord
<1>5. CertificateBuilderTypeOK
  BY <1>2, <1>4, CertificateBuilderAssumption DEF CertificateBuilderTypeOK, BuilderRecord
<1>6. OutcomeCame
  BY <1>2 DEF OutcomeCame, CertificateCame, RefusalCame, RequestCame, Created
<1> QED
  BY <1>5, <1>6 DEF CertificateBuilderInv

(* What a builder returned came from its configuration, by one of its      *)
(* calls, and its fields are of their types.                               *)
THEOREM CertificateBuilderInvariant == CertificateBuilderSpec => []CertificateBuilderInv
BY BuilderStart, BuilderStep, PTL DEF CertificateBuilderSpec

(* The builder keeps to its types, whatever is called.                     *)
THEOREM CertificateBuilderTypes == CertificateBuilderSpec => []CertificateBuilderTypeOK
<1>1. CertificateBuilderInv => CertificateBuilderTypeOK
  BY DEF CertificateBuilderInv
<1> QED
  BY <1>1, CertificateBuilderInvariant, PTL

----------------------------------------------------------------------------
(* What the invariant says of a certificate that was created. *)

(* The fields of a signed certificate.                                     *)
LEMMA SignedFields ==
  ASSUME NEW subjectKey, NEW issuerKey
  PROVE  LET alg == SigningAlgorithm(KeyAlg[issuerKey])
             tbs == TbsCertificate(subjectKey, issuerKey)
             cert == SignedCertificate(subjectKey, issuerKey)
         IN  /\ cert.tbs = tbs
             /\ cert.signatureAlgorithm = AlgorithmIdentifier(alg)
             /\ cert.signature = Signature(issuerKey, alg, tbs)
             /\ cert.unused = 0
             /\ tbs.serialNumber = builder.serialNumber
             /\ tbs.signature = AlgorithmIdentifier(alg)
             /\ tbs.issuer = IssuerName
             /\ tbs.notBefore = EncodeTime(builder.notBefore)
             /\ tbs.notAfter = EncodeTime(builder.notAfter)
             /\ tbs.subject = builder.subject
             /\ tbs.key = subjectKey
             /\ DOMAIN tbs.extensions = DOMAIN builder.extensions
             /\ \A i \in DOMAIN builder.extensions :
                   tbs.extensions[i] = EncodeExtension(builder.extensions[i])
BY DEF SignedCertificate, TbsCertificate, Certificate

(* Every extension of the builder is made by Extension.                    *)
LEMMA BuilderExtensions ==
  ASSUME NEW e \in BuilderExtension
  PROVE  e = Extension(e.id, e.critical, e.value)
<1> DEFINE added == DerExtension \cup {Extension("basicConstraints", "yes", "emptySequence")}
                      \cup {Extension("keyUsage", "yes", usage) : usage \in Usage}
<1>1. BuilderExtension = added \cup {[x EXCEPT !.critical = "no"] : x \in added}
  BY DEF BuilderExtension
<1>2. \A x \in added : x = Extension(x.id, x.critical, x.value)
  BY CertificateBuilderAssumption DEF Extension
<1> HIDE DEF added
<1>3. ASSUME NEW x \in added, e = [x EXCEPT !.critical = "no"]
      PROVE  e = Extension(e.id, e.critical, e.value)
  BY <1>2, <1>3 DEF Extension
<1> QED
  BY <1>1, <1>2, <1>3

(* Its validity reads back to the second.                                  *)
LEMMA ValidityReads ==
  ASSUME CertificateBuilderTypeOK, NEW subjectKey, NEW issuerKey,
         FieldError = "Ok", DecodeError(TbsCertificate(subjectKey, issuerKey)) = "Ok"
  PROVE  LET tbs == TbsCertificate(subjectKey, issuerKey)
         IN  /\ DecodeTime(tbs.notBefore) = WholeSecond(builder.notBefore)
             /\ DecodeTime(tbs.notAfter) = WholeSecond(builder.notAfter)
             /\ DecodeTime(tbs.notBefore) <= DecodeTime(tbs.notAfter)
<1> DEFINE tbs == TbsCertificate(subjectKey, issuerKey)
<1>1. tbs.notBefore = EncodeTime(builder.notBefore) /\ tbs.notAfter = EncodeTime(builder.notAfter)
  BY SignedFields
<1>2. builder.notBefore \in Int /\ builder.notAfter \in Int
  BY CertificateBuilderAssumption DEF CertificateBuilderTypeOK
<1>3. Decodable(tbs.notBefore) /\ Decodable(tbs.notAfter)
  BY DecodingAccepted
<1> HIDE DEF tbs
<1>4. /\ DecodeTime(tbs.notBefore) = WholeSecond(builder.notBefore)
      /\ DecodeTime(tbs.notAfter) = WholeSecond(builder.notAfter)
  BY <1>1, <1>2, <1>3, TimeRoundTrip
<1>5. builder.notBefore <= builder.notAfter
  BY <1>2, FieldsAccepted
<1>6. WholeSecond(builder.notBefore) <= WholeSecond(builder.notAfter)
  BY <1>2, <1>5, TimeOrder
<1> QED
  BY <1>4, <1>6 DEF tbs

(* CertificateAsConfigured: what reads back is what was configured.        *)
LEMMA InvAsConfigured == CertificateBuilderInv => CertificateAsConfigured
<1> SUFFICES ASSUME CertificateBuilderInv, Created PROVE CertificateAsConfigured
  BY DEF CertificateAsConfigured
<1>1. CertificateBuilderTypeOK /\ CertificateCame
  BY DEF CertificateBuilderInv, OutcomeCame
<1>2. PICK subjectKey \in Key, issuerKey \in Key :
        /\ Accepted(subjectKey, issuerKey)
        /\ DecodeError(TbsCertificate(subjectKey, issuerKey)) = "Ok"
        /\ outcome.certificate = SignedCertificate(subjectKey, issuerKey)
  BY <1>1 DEF CertificateCame
<1> DEFINE tbs == TbsCertificate(subjectKey, issuerKey)
<1>3. outcome.certificate.tbs = tbs
  BY <1>2, SignedFields
<1>4. FieldError = "Ok" /\ IssuerName # EmptyName
  BY <1>2, CreationAccepted DEF Accepted
<1>5. tbs.serialNumber = builder.serialNumber /\ tbs.serialNumber > 0
  <2>1. tbs.serialNumber = builder.serialNumber
    BY SignedFields
  <2>2. builder.serialNumber \in Int
    <3>1. builder.serialNumber \in Serial \cup {1}
      BY <1>1 DEF CertificateBuilderTypeOK
    <3>2. Serial \subseteq Int
      BY CertificateBuilderAssumption
    <3>3. builder.serialNumber \in Serial \/ builder.serialNumber = 1
      BY <3>1
    <3>4. CASE builder.serialNumber \in Serial
      BY ONLY <3>2, <3>4
    <3>5. CASE builder.serialNumber = 1
      BY ONLY <3>5
    <3> QED
      BY <3>3, <3>4, <3>5
  <2>3. ~(builder.serialNumber <= 0)
    BY <1>4, FieldsAccepted
  <2> HIDE DEF tbs
  <2> QED
    BY <2>1, <2>2, <2>3
<1>6. /\ tbs.subject = builder.subject /\ tbs.issuer # EmptyName
      /\ tbs.issuer = IF builder.issuer = None THEN builder.subject ELSE builder.issuer
  BY <1>4, SignedFields DEF IssuerName
<1>7. /\ DecodeTime(tbs.notBefore) = WholeSecond(builder.notBefore)
      /\ DecodeTime(tbs.notAfter) = WholeSecond(builder.notAfter)
      /\ DecodeTime(tbs.notBefore) <= DecodeTime(tbs.notAfter)
  BY <1>1, <1>2, <1>4, ValidityReads
<1>8. /\ Len(tbs.extensions) = Len(builder.extensions)
      /\ DOMAIN tbs.extensions = DOMAIN builder.extensions
  <2>1. builder.extensions \in Seq(BuilderExtension)
    BY <1>1 DEF CertificateBuilderTypeOK
  <2>2. tbs.extensions = [i \in DOMAIN builder.extensions |-> EncodeExtension(builder.extensions[i])]
    BY DEF TbsCertificate
  <2> HIDE DEF tbs
  <2> QED
    BY <2>1, <2>2
<1>9. ASSUME NEW i \in DOMAIN tbs.extensions
      PROVE  /\ tbs.extensions[i].id = builder.extensions[i].id
             /\ tbs.extensions[i].value = builder.extensions[i].value
             /\ (tbs.extensions[i].critical = "yes") = (builder.extensions[i].critical = "yes")
  <2> DEFINE e == builder.extensions[i]
  <2>1. e \in BuilderExtension
    BY <1>1, <1>8, <1>9 DEF CertificateBuilderTypeOK
  <2>2. tbs.extensions[i] = EncodeExtension(e)
    BY <1>8, <1>9, SignedFields
  <2> HIDE DEF e, tbs
  <2>3. e = Extension(e.id, e.critical, e.value)
    BY <2>1, BuilderExtensions
  <2>4. /\ EncodeExtension(e).id = e.id /\ EncodeExtension(e).value = e.value
        /\ (EncodeExtension(e).critical = "yes") = (e.critical = "yes")
    BY ONLY <2>3, ExtensionKept
  <2> QED
    BY <2>2, <2>4 DEF e
<1> HIDE DEF tbs
<1> QED
  BY <1>3, <1>5, <1>6, <1>7, <1>8, <1>9 DEF CertificateAsConfigured

(* A certificate that was created reads back as it was configured.         *)
THEOREM CertificateReadsBack == CertificateBuilderSpec => []CertificateAsConfigured
BY CertificateBuilderInvariant, InvAsConfigured, PTL

----------------------------------------------------------------------------
(* Issuers. *)

(* A signature verifies under the key that made it, and under no other.    *)
LEMMA VerifiesUnderIssuer ==
  ASSUME NEW subjectKey, NEW issuerKey, NEW cert, NEW other,
         cert = SignedCertificate(subjectKey, issuerKey),
         SigningAlgorithm(KeyAlg[issuerKey]) # NoAlgorithm
  PROVE  VerifySignedBy(cert, other) <=> other.tbs.key = issuerKey
<1> DEFINE alg == SigningAlgorithm(KeyAlg[issuerKey])
           tbs == TbsCertificate(subjectKey, issuerKey)
<1>1. /\ cert.tbs = tbs /\ cert.unused = 0
      /\ cert.signatureAlgorithm = AlgorithmIdentifier(alg)
      /\ tbs.signature = AlgorithmIdentifier(alg)
      /\ cert.signature = Signature(issuerKey, alg, tbs)
  BY SignedFields
<1>2. Verifiable(KeyAlg[issuerKey], alg) /\ SignatureAlgorithmOf(AlgorithmIdentifier(alg)) = alg
  BY SigningVerifies
<1> HIDE DEF alg, tbs
<1>3. \A k : Signature(issuerKey, alg, tbs) = Signature(k, alg, tbs) <=> issuerKey = k
  BY DEF Signature
<1>4. VerifySignedBy(cert, other) <=> /\ Verifiable(KeyAlg[other.tbs.key], alg)
                                     /\ Signature(issuerKey, alg, tbs)
                                          = Signature(other.tbs.key, alg, tbs)
  BY <1>1, <1>2 DEF VerifySignedBy
<1> QED
  BY <1>2, <1>3, <1>4

(* A candidate has the name and key it was given.                          *)
LEMMA CandidateFields ==
  ASSUME NEW cert, "tbs" \in DOMAIN cert,
         "subject" \in DOMAIN cert.tbs, "key" \in DOMAIN cert.tbs, NEW name, NEW k,
         NEW candidate, candidate = [cert EXCEPT !.tbs.subject = name, !.tbs.key = k]
  PROVE  candidate.tbs.subject = name /\ candidate.tbs.key = k
<1> DEFINE tbs == cert.tbs
           renamed == [tbs EXCEPT !.subject = name]
           both == [renamed EXCEPT !.key = k]
<1>1. both.subject = name /\ both.key = k
  OBVIOUS
<1>2. "tbs" \in DOMAIN cert /\ cert.tbs = tbs
  OBVIOUS
<1> HIDE DEF both, renamed
<1>3. [cert EXCEPT !.tbs = renamed].tbs = renamed /\ "tbs" \in DOMAIN [cert EXCEPT !.tbs = renamed]
  BY <1>2
<1>4. candidate = [[cert EXCEPT !.tbs = renamed] EXCEPT !.tbs = both]
  BY <1>2, <1>3 DEF renamed, both
<1>5. candidate.tbs = both
  BY <1>3, <1>4
<1> QED
  BY <1>1, <1>5

(* IssuerIsFound: the issuer is found, and nothing else.                   *)
LEMMA InvIssuerIsFound == CertificateBuilderInv => IssuerIsFound
<1> SUFFICES ASSUME CertificateBuilderInv, Created,
                    NEW name \in Name, NEW k \in Key
             PROVE  LET candidate == [outcome.certificate EXCEPT !.tbs.subject = name, !.tbs.key = k]
                    IN  SignedBy(outcome.certificate, candidate)
                          <=> /\ name = outcome.certificate.tbs.issuer
                              /\ k = outcome.issuerKey
  BY DEF IssuerIsFound
<1>1. PICK subjectKey \in Key, issuerKey \in Key :
        /\ Accepted(subjectKey, issuerKey)
        /\ outcome.issuerKey = issuerKey
        /\ outcome.certificate = SignedCertificate(subjectKey, issuerKey)
  BY DEF CertificateBuilderInv, OutcomeCame, CertificateCame
<1>2. SigningAlgorithm(KeyAlg[issuerKey]) # NoAlgorithm
  BY <1>1, CreationAccepted DEF Accepted
<1> DEFINE candidate == [outcome.certificate EXCEPT !.tbs.subject = name, !.tbs.key = k]
<1>3. candidate.tbs.subject = name /\ candidate.tbs.key = k
  <2> DEFINE cert == outcome.certificate
  <2>1. "tbs" \in DOMAIN cert /\ "subject" \in DOMAIN cert.tbs /\ "key" \in DOMAIN cert.tbs
    BY <1>1 DEF SignedCertificate, TbsCertificate, Certificate
  <2>2. candidate = [cert EXCEPT !.tbs.subject = name, !.tbs.key = k]
    OBVIOUS
  <2> HIDE DEF cert, candidate
  <2> QED
    BY ONLY <2>1, <2>2, CandidateFields
<1> HIDE DEF candidate
<1>4. VerifySignedBy(outcome.certificate, candidate) <=> candidate.tbs.key = issuerKey
  BY ONLY <1>1, <1>2, VerifiesUnderIssuer
<1>5. SignedBy(outcome.certificate, candidate)
        <=> name = outcome.certificate.tbs.issuer /\ k = outcome.issuerKey
  BY <1>1, <1>3, <1>4 DEF SignedBy
<1> QED
  BY <1>5 DEF candidate

(* SelfSigned: it is its own issuer.                                       *)
LEMMA InvSelfSigned == CertificateBuilderInv => SelfSigned
<1> SUFFICES ASSUME CertificateBuilderInv, Created,
                    builder.issuer = None \/ outcome.call = "keyPair"
             PROVE  SignedBy(outcome.certificate, outcome.certificate)
  BY DEF SelfSigned
<1>1. PICK subjectKey \in Key, issuerKey \in Key :
        /\ Accepted(subjectKey, issuerKey)
        /\ outcome.certificate = SignedCertificate(subjectKey, issuerKey)
  BY DEF CertificateBuilderInv, OutcomeCame, CertificateCame
<1>2. /\ SigningAlgorithm(KeyAlg[issuerKey]) # NoAlgorithm
      /\ ~(builder.issuer = None /\ subjectKey # issuerKey)
  BY <1>1, CreationAccepted DEF Accepted
<1>3. subjectKey = issuerKey /\ ~IssuerIsOther
  BY <1>1, <1>2 DEF Accepted, IssuerIsOther
<1>4. IssuerName = builder.subject
  BY <1>3 DEF IssuerIsOther, IssuerName
<1>5. /\ outcome.certificate.tbs.key = issuerKey
      /\ outcome.certificate.tbs.issuer = outcome.certificate.tbs.subject
  BY <1>1, <1>3, <1>4, SignedFields
<1>6. VerifySignedBy(outcome.certificate, outcome.certificate)
  BY ONLY <1>1, <1>2, <1>5, VerifiesUnderIssuer
<1> QED
  BY <1>5, <1>6 DEF SignedBy

(* The issuer of a created certificate is found among any candidates.      *)
THEOREM IssuersAreFound == CertificateBuilderSpec => []IssuerIsFound
BY CertificateBuilderInvariant, InvIssuerIsFound, PTL

(* What is made without an issuer, or with a key pair, is self-signed.     *)
THEOREM WithoutIssuerSelfSigned == CertificateBuilderSpec => []SelfSigned
BY CertificateBuilderInvariant, InvSelfSigned, PTL

----------------------------------------------------------------------------
(* The builder and the decoder. *)

(* DecoderAgrees: the decoder refuses a fraction of a second, or nothing.  *)
LEMMA InvDecoderAgrees == CertificateBuilderInv => DecoderAgrees
<1> SUFFICES ASSUME CertificateBuilderInv, outcome.error = "Asn1Decode",
                    ~GeneralizedFraction(builder.notBefore), ~GeneralizedFraction(builder.notAfter)
             PROVE  FALSE
  BY DEF DecoderAgrees
<1>1. PICK subjectKey \in Key, issuerKey \in Key :
        /\ CreationError(subjectKey, issuerKey) = "Ok"
        /\ DecodeError(TbsCertificate(subjectKey, issuerKey)) # "Ok"
  BY DEF CertificateBuilderInv, OutcomeCame, RefusalCame
<1> DEFINE tbs == TbsCertificate(subjectKey, issuerKey)
<1>2. /\ tbs.issuer = IssuerName /\ tbs.subject = builder.subject
      /\ tbs.notBefore = EncodeTime(builder.notBefore)
      /\ tbs.notAfter = EncodeTime(builder.notAfter)
      /\ DOMAIN tbs.extensions = DOMAIN builder.extensions
      /\ \A i \in DOMAIN builder.extensions :
            tbs.extensions[i] = EncodeExtension(builder.extensions[i])
  BY SignedFields
<1>3. DecodeError(tbs) # "Ok"
  BY <1>1
<1> HIDE DEF tbs
<1>4. FieldError = "Ok" /\ IssuerName # EmptyName
  BY <1>1, CreationAccepted
<1>5. /\ builder.notBefore \in Int /\ builder.notAfter \in Int
      /\ builder.extensions \in Seq(BuilderExtension)
  BY CertificateBuilderAssumption DEF CertificateBuilderInv, CertificateBuilderTypeOK
<1>6. /\ Decodable(tbs.notBefore) /\ Decodable(tbs.notAfter)
      /\ DecodeTime(tbs.notBefore) = WholeSecond(builder.notBefore)
      /\ DecodeTime(tbs.notAfter) = WholeSecond(builder.notAfter)
  BY <1>2, <1>5, TimeDecodable, TimeRoundTrip
<1>7. ~(DecodeTime(tbs.notAfter) < DecodeTime(tbs.notBefore))
  <2>1. builder.notBefore <= builder.notAfter
    BY <1>4, <1>5, FieldsAccepted
  <2>2. /\ WholeSecond(builder.notBefore) <= WholeSecond(builder.notAfter)
        /\ WholeSecond(builder.notBefore) \in Int /\ WholeSecond(builder.notAfter) \in Int
    BY <1>5, <2>1, TimeOrder, TimeSplit
  <2> QED
    BY <1>6, <2>2
<1>8. ASSUME NEW i \in DOMAIN builder.extensions
      PROVE  /\ tbs.extensions[i].id = builder.extensions[i].id
             /\ tbs.extensions[i].value = builder.extensions[i].value
             /\ (tbs.extensions[i].critical = "yes") = (builder.extensions[i].critical = "yes")
  <2> DEFINE e == builder.extensions[i]
  <2>1. e \in BuilderExtension
    BY <1>5
  <2>2. tbs.extensions[i] = EncodeExtension(e)
    BY <1>2
  <2> HIDE DEF e
  <2>3. e = Extension(e.id, e.critical, e.value)
    BY <2>1, BuilderExtensions
  <2>4. /\ EncodeExtension(e).id = e.id /\ EncodeExtension(e).value = e.value
        /\ (EncodeExtension(e).critical = "yes") = (e.critical = "yes")
    BY ONLY <2>3, ExtensionKept
  <2> QED
    BY <2>2, <2>4 DEF e
<1>9. ~Duplicated(tbs.extensions)
  BY <1>2, <1>4, <1>8, FieldsAccepted DEF Duplicated
<1>10. SubjectIsNamed(builder.extensions) => SubjectIsNamed(tbs.extensions)
  <2> SUFFICES ASSUME NEW i \in DOMAIN builder.extensions,
                      builder.extensions[i].id = SubjectAltName,
                      \A j \in 1..(i - 1) : builder.extensions[j].id # SubjectAltName,
                      builder.extensions[i].critical = "yes",
                      builder.extensions[i].value = "generalNames"
               PROVE  SubjectIsNamed(tbs.extensions)
    BY DEF SubjectIsNamed
  <2>1. i \in Nat /\ \A j \in 1..(i - 1) : j \in DOMAIN builder.extensions
    BY <1>5
  <2>2. \A j \in 1..(i - 1) : tbs.extensions[j].id # SubjectAltName
    BY <1>8, <2>1
  <2> QED
    BY <1>2, <1>8, <2>2 DEF SubjectIsNamed
<1>11. ~(tbs.subject = EmptyName /\ ~SubjectIsNamed(tbs.extensions))
  BY <1>2, <1>4, <1>10, FieldsAccepted
<1>12. DecodeError(tbs) = "Ok"
  BY <1>2, <1>4, <1>6, <1>7, <1>9, <1>11, DecodingAccepts
<1> QED
  BY <1>3, <1>12

(* What the builder accepts its decoder accepts, fractions apart.          *)
THEOREM DecoderAgreesWithBuilder == CertificateBuilderSpec => []DecoderAgrees
BY CertificateBuilderInvariant, InvDecoderAgrees, PTL

----------------------------------------------------------------------------
(* Requests. *)

Places(s, a) == {i \in DOMAIN s : s[i] = a}

(* A sorted sequence has the elements it was sorted from, as often.        *)
LEMMA SortedKeeps ==
  ASSUME NEW S, NEW s \in Seq(S), NEW rank, NEW t \in DerSorted(s, rank), NEW a
  PROVE  /\ DOMAIN t = DOMAIN s
         /\ \A i, j \in DOMAIN t : i < j => rank[t[i]] <= rank[t[j]]
         /\ \A i \in DOMAIN t : \E j \in DOMAIN s : t[i] = s[j]
         /\ Cardinality(Places(t, a)) = Cardinality(Places(s, a))
<1>1. /\ t \in Rearrangements(s)
      /\ \A i, j \in DOMAIN s : i < j => rank[t[i]] <= rank[t[j]]
  BY DEF DerSorted
<1>2. PICK p \in Bijection(DOMAIN s, DOMAIN s) : t = [i \in DOMAIN s |-> s[p[i]]]
  BY <1>1 DEF Rearrangements
<1>3. DOMAIN t = DOMAIN s /\ \A i \in DOMAIN s : p[i] \in DOMAIN s /\ t[i] = s[p[i]]
  BY <1>2 DEF Bijection, Injection, Surjection
<1>4. /\ \A i, j \in DOMAIN s : p[i] = p[j] => i = j
      /\ \A j \in DOMAIN s : \E i \in DOMAIN s : p[i] = j
  BY <1>2 DEF Bijection, Injection, Surjection, IsInjective
<1> DEFINE S1 == Places(t, a)
           S2 == Places(s, a)
           f == [i \in S1 |-> p[i]]
<1>5. f \in Bijection(S1, S2)
  <2>1. f \in [S1 -> S2]
    BY <1>3 DEF Places
  <2>2. \A i, j \in S1 : f[i] = f[j] => i = j
    BY <1>3, <1>4 DEF Places
  <2>3. ASSUME NEW j \in S2 PROVE \E i \in S1 : f[i] = j
    <3>1. j \in DOMAIN s /\ s[j] = a
      BY DEF Places
    <3>2. PICK i \in DOMAIN s : p[i] = j
      BY <1>4, <3>1
    <3>3. i \in S1
      BY <1>3, <3>1, <3>2 DEF Places
    <3>4. f[i] = j
      BY <3>2, <3>3
    <3> QED
      BY <3>3, <3>4
  <2> HIDE DEF S1, S2, f
  <2> QED
    BY <2>1, <2>2, <2>3 DEF Bijection, Injection, Surjection, IsInjective
<1>6. IsFiniteSet(S1)
  <2>1. Len(s) \in Nat /\ DOMAIN s = 1..Len(s)
    OBVIOUS
  <2>2. IsFiniteSet(1..Len(s))
    BY <2>1, FS_Interval
  <2>3. S1 \subseteq 1..Len(s)
    BY <1>3, <2>1 DEF Places
  <2> HIDE DEF S1
  <2> QED
    BY <2>2, <2>3, FS_Subset
<1>7. Cardinality(S1) = Cardinality(S2)
  <2> HIDE DEF S1, S2, f
  <2>1. ExistsBijection(S1, S2)
    BY <1>5 DEF ExistsBijection
  <2> QED
    BY <1>6, <2>1, FS_Bijection
<1> QED
  BY <1>1, <1>3, <1>7

(* A request that was created has no attribute without values.             *)
LEMMA RequestAccepted ==
  ASSUME NEW k, RequestError(k) = "Ok"
  PROVE  \A i \in DOMAIN builder.csrAttributes : builder.csrAttributes[i].values # {}
<1> DEFINE checks == <<
      Check(\E i \in DOMAIN builder.csrAttributes : builder.csrAttributes[i].values = {},
            "EmptyCsrAttributeValues"),
      Check(KeyAlg[k] = "Unknown", "UnknownKeyAlgorithm") >>
<1>1. FirstError(checks) = "Ok"
  BY DEF RequestError
<1>2. DOMAIN checks = 1..2 /\ \A i \in 1..2 : checks[i].error # "Ok"
  BY DEF Check
<1>3. ~checks[1].fails
  <2> HIDE DEF checks
  <2>1. \A i \in 1..2 : ~checks[i].fails
    BY <1>1, <1>2, NoCheckFails
  <2> QED
    BY <2>1
<1> QED
  BY <1>3 DEF Check

(* RequestIsCanonical: the attributes that were added, sorted.             *)
LEMMA InvRequestIsCanonical == CertificateBuilderInv => RequestIsCanonical
<1> SUFFICES ASSUME CertificateBuilderInv, outcome.request # None
             PROVE  RequestIsCanonical
  BY DEF RequestIsCanonical
<1>1. PICK k \in Key, attributes \in RequestAttributes :
        /\ RequestError(k) = "Ok"
        /\ outcome.request = CertificationRequest(k, attributes)
  BY DEF CertificateBuilderInv, OutcomeCame, RequestCame
<1> DEFINE added == builder.csrAttributes
<1>2. outcome.request.info.attributes = attributes
  BY <1>1 DEF CertificationRequest
<1>3. added \in Seq(CsrAttribute)
  BY DEF CertificateBuilderInv, CertificateBuilderTypeOK
<1>4. attributes \in DerSorted(added, AttributeDer)
  BY <1>1 DEF RequestAttributes
<1>5. \A i \in DOMAIN added : added[i].values # {}
  BY <1>1, RequestAccepted
<1> HIDE DEF added
<1>6. \A i, j \in DOMAIN attributes :
        i < j => AttributeDer[attributes[i]] <= AttributeDer[attributes[j]]
  BY <1>3, <1>4, SortedKeeps
<1>7. ASSUME NEW a \in CsrAttribute
      PROVE  /\ Cardinality(Places(attributes, a)) = Cardinality(Places(added, a))
             /\ a.values = {} => Places(attributes, a) = {}
  <2>1. /\ Cardinality(Places(attributes, a)) = Cardinality(Places(added, a))
        /\ \A i \in DOMAIN attributes : \E j \in DOMAIN added : attributes[i] = added[j]
    BY <1>3, <1>4, SortedKeeps
  <2>2. ASSUME a.values = {} PROVE Places(attributes, a) = {}
    BY <1>5, <2>1, <2>2 DEF Places
  <2> QED
    BY <2>1, <2>2
<1> QED
  BY <1>2, <1>6, <1>7 DEF RequestIsCanonical, Places, added

(* A request has the attributes that were added, in the order of DER.      *)
THEOREM RequestsAreCanonical == CertificateBuilderSpec => []RequestIsCanonical
BY CertificateBuilderInvariant, InvRequestIsCanonical, PTL
=============================================================================

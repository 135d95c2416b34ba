----------------------------- MODULE SignedData -----------------------------
(***************************************************************************)
(* CMS SignedData messages: their structure (asn1/rfc5652.rs), the checks  *)
(* under which the crate accepts one (SignedData::try_from and             *)
(* SignerInfo::try_from in lib.rs), and its verification methods (the      *)
(* verify_* methods of SignerInfo).                                        *)
(*                                                                         *)
(* Cryptography is symbolic.  A digest is a record of its algorithm and of *)
(* what was digested; a signature is a record of the key, the algorithm    *)
(* and the message.  Two digests or signatures are equal only when all of  *)
(* that is.  A method that returns Result<()> is a predicate, TRUE when it *)
(* returns Ok.                                                             *)
(***************************************************************************)
EXTENDS Algorithms, DerOrder, Integers, Sequences

CONSTANTS
  None,            (* Option::None                                         *)
  Key,             (* key pairs                                            *)
  KeyAlg,          (* [Key -> KeyAlgorithm or "Unknown"]                   *)
  Cert,            (* X.509 certificates                                   *)
  CertInfo,        (* [Cert -> what the crate reads in a certificate]      *)
  Content,         (* byte strings that can be signed                      *)
  Empty,           (* the empty one                                        *)
  ContentType,     (* object identifiers of content types                  *)
  IdData,          (* id-data                                              *)
  IdTstInfo,       (* id-ct-TSTInfo                                        *)
  OtherAttribute,  (* attribute types the crate gives no meaning to        *)
  AttributeRank    (* DER order of attributes, by type                     *)

EssAttribute == {"signingCertificate", "signingCertificateV2"}

AttributeType ==
  {"contentType", "messageDigest", "signingTime"} \cup EssAttribute \cup OtherAttribute

ASSUME ContentsAssumption ==
  /\ Empty \in Content
  /\ {IdData, IdTstInfo} \subseteq ContentType
  /\ IdData # IdTstInfo
  /\ None \notin Key \cup Cert \cup Content \cup ContentType

ASSUME KeyAssumption == KeyAlg \in [Key -> KeyAlgorithm \cup {"Unknown"}]

ASSUME RankAssumption ==
  /\ AttributeRank \in [AttributeType -> Nat]
  /\ \A a, b \in AttributeType : AttributeRank[a] = AttributeRank[b] => a = b

ASSUME CertAssumption ==
  \A c \in Cert : /\ CertInfo[c].key \in Key
                  /\ CertInfo[c].notBefore \in Int
                  /\ CertInfo[c].notAfter \in Int

----------------------------------------------------------------------------
(* Structure. *)

Digest(alg, content) == [alg |-> alg, of |-> content]

(* SignerIdentifier: a certificate's issuer and serial number, or the key  *)
(* identifier of its SubjectKeyIdentifier extension.                       *)
IssuerAndSerial(c) ==
  [form |-> "IssuerAndSerialNumber", value |-> CertInfo[c].issuerAndSerial]
KeyIdentifier(id) == [form |-> "SubjectKeyIdentifier", value |-> id]

SignerVersion(sid) == IF sid.form = "SubjectKeyIdentifier" THEN 3 ELSE 1

(* An attribute is its type and its SET OF values. *)
Attribute(typ, values) == [typ |-> typ, values |-> values]

Carries(attributes, typ) ==
  \E i \in DOMAIN attributes : attributes[i].typ = typ

Values(attributes, typ) ==
  UNION {attributes[i].values : i \in {j \in DOMAIN attributes : attributes[j].typ = typ}}

Single(values) == \E v \in values : values = {v}

Repeats(attributes) ==
  \E i, j \in DOMAIN attributes : i # j /\ attributes[i].typ = attributes[j].typ

(* SignedAttributes::as_sorted: the attributes are in DER order. *)
Canonical(attributes) ==
  \A i, j \in DOMAIN attributes :
    i < j => AttributeRank[attributes[i].typ] <= AttributeRank[attributes[j].typ]

(* SignedAttributes::as_sorted. *)
SortedAttributes(attributes) ==
  DerSorted(attributes, [a \in Range(attributes) |-> AttributeRank[a.typ]])

(* UTCTime keeps two digits of the year, and the reader picks the century. *)
UtcTime(year) == [yy |-> year % 100]
M_YearOf_Pivot(time) == IF time.yy > 50 THEN 1900 + time.yy ELSE 2000 + time.yy
YearOf(time) == IF time.yy >= 50 THEN 1900 + time.yy ELSE 2000 + time.yy

(* The message a signature covers: the DER of the signed attributes when   *)
(* there are some, and else the content itself (SignerInfo::signed_content *)
(* and signed_attributes_digested_content).                                *)
SignedMessage(info, content) ==
  IF info.signedAttributes # None
    THEN [covers |-> "attributes", value |-> info.signedAttributes]
    ELSE [covers |-> "content", value |-> IF content = None THEN Empty ELSE content]

Signature(key, alg, message) == [key |-> key, alg |-> alg, message |-> message]

----------------------------------------------------------------------------
(* Parsing. *)

AlgorithmOf(info) ==
  ResolveSignatureAlgorithm(info.signatureAlgorithm, info.digestAlgorithm.digest)

(* What SignerInfo::try_from demands of the signed attributes: no type     *)
(* twice, and exactly one value for those it reads.                        *)
SignedAttributesOk(attributes) ==
  /\ ~Repeats(attributes)
  /\ Single(Values(attributes, "contentType"))
  /\ Single(Values(attributes, "messageDigest"))
  /\ Carries(attributes, "signingTime") => Single(Values(attributes, "signingTime"))

UnsignedAttributesOk(attributes) ==
  /\ ~Repeats(attributes)
  /\ Carries(attributes, "timeStampToken") => Single(Values(attributes, "timeStampToken"))

(* SignerInfo::from_sequence, which refuses signed attributes that are not *)
(* in canonical DER, and SignerInfo::try_from.                             *)
SignerInfoOk(info) ==
  LET alg == AlgorithmOf(info)
  IN  /\ info.signedAttributes # None => Canonical(info.signedAttributes)
      /\ info.version = SignerVersion(info.sid)
      /\ DigestIdentifierOk(info.digestAlgorithm)
      /\ alg # NoAlgorithm
      /\ info.digestAlgorithm.digest = RequiredDigest(alg)
      /\ alg.family = "Ed25519" => info.digestAlgorithm.parameters = "absent"
      /\ info.signedAttributes # None => SignedAttributesOk(info.signedAttributes)
      /\ info.unsignedAttributes # None => UnsignedAttributesOk(info.unsignedAttributes)

(* The version a message must carry: RFC 5652 section 5.1, as              *)
(* SignedData::try_from computes it.                                       *)
ExpectedVersion(raw) ==
  LET Holds(form) == /\ raw.certificates # None
                     /\ \E i \in DOMAIN raw.certificates : raw.certificates[i].form = form
      third == \/ raw.contentType # IdData
               \/ \E i \in DOMAIN raw.signerInfos : raw.signerInfos[i].version = 3
  IN  CASE Holds("Other")                  -> 5
        [] ~Holds("Other") /\ Holds("AttributeCertificateV2") -> 4
        [] OTHER                           -> IF third THEN 3 ELSE 1

(* SignedData::try_from, after the decoder has accepted the structure.     *)
Parses(raw) ==
  LET digests == raw.digestAlgorithms
      infos == raw.signerInfos
  IN  /\ raw.version = ExpectedVersion(raw)
      /\ \A i \in DOMAIN digests : DigestIdentifierOk(digests[i])
      /\ \A i, j \in DOMAIN digests : digests[i].digest = digests[j].digest => i = j
      /\ raw.certificates # None =>
           \A i \in DOMAIN raw.certificates : raw.certificates[i].form = "Certificate"
      /\ \A i \in DOMAIN infos : SignerInfoOk(infos[i])
      /\ (\E i \in DOMAIN infos : AlgorithmOf(infos[i]).family = "Ed25519") =>
           \A i \in DOMAIN digests :
             digests[i].digest = "Sha512" => digests[i].parameters = "absent"
      /\ raw.contentType # IdData => \A i \in DOMAIN infos : infos[i].signedAttributes # None
      /\ \A i \in DOMAIN infos : \E j \in DOMAIN digests :
           digests[j].digest = infos[i].digestAlgorithm.digest

----------------------------------------------------------------------------
(* Verification.  These methods work on a parsed message; the arguments    *)
(* are its wire form, which SignedData::try_from copies.                   *)

(* SignerInfo::signing_certificate: does this certificate match?           *)
Identifies(sid, c) ==
  \/ sid.form = "IssuerAndSerialNumber" /\ sid.value = CertInfo[c].issuerAndSerial
  \/ /\ sid.form = "SubjectKeyIdentifier"
     /\ CertInfo[c].ski # None
     /\ sid.value = CertInfo[c].ski

(* The certificate that signing_certificate returns, the first one that    *)
(* matches: a set of one, or empty for CertificateNotFound.                *)
SigningCertificate(info, raw) ==
  LET certs == IF raw.certificates = None THEN <<>> ELSE raw.certificates
      Match(i) == Identifies(info.sid, certs[i].cert)
  IN  {certs[i].cert : i \in {j \in DOMAIN certs :
                                Match(j) /\ \A k \in 1..(j - 1) : ~Match(k)}}

(* VerificationAlgorithm::verify under the public key of a certificate. *)
SignatureValid(info, c, message) ==
  LET key == CertInfo[c].key
      alg == AlgorithmOf(info)
  IN  /\ Verifiable(KeyAlg[key], alg)
      /\ info.signature = Signature(key, alg, message)

(* verify_signature_with_signed_data_and_content. *)
VerifySignatureWithContent(info, raw, message) ==
  \E c \in SigningCertificate(info, raw) : SignatureValid(info, c, message)

(* verify_signature_with_signed_data. *)
VerifySignature(info, raw) ==
  /\ info.signedAttributes # None \/ raw.content # None
  /\ VerifySignatureWithContent(info, raw, SignedMessage(info, raw.content))

(* The content-type attribute names the type of the message. *)
ContentTypeMatches(info, raw) ==
  Values(info.signedAttributes, "contentType") = {raw.contentType}

(* verify_message_digest_with_content, which compares digests only. *)
VerifyMessageDigestWithContent(info, content) ==
  /\ info.signedAttributes # None
  /\ Values(info.signedAttributes, "messageDigest")
       = {Digest(info.digestAlgorithm.digest, content)}

(* verify_message_digest_with_signed_data. *)
VerifyMessageDigest(info, raw) ==
  /\ info.signedAttributes # None
  /\ raw.content # None
  /\ ContentTypeMatches(info, raw)
  /\ VerifyMessageDigestWithContent(info, raw.content)

M_VerifyWithSignedData_NoDigest(info, raw) ==
  /\ raw.content # None
  /\ VerifySignature(info, raw)

(* verify_with_signed_data. *)
VerifyWithSignedData(info, raw) ==
  /\ raw.content # None
  /\ VerifySignature(info, raw)
  /\ info.signedAttributes # None => VerifyMessageDigest(info, raw)

M_VerifyWithContent_NoType(info, raw, content) ==
  IF info.signedAttributes # None
    THEN /\ VerifySignature(info, raw)
         /\ VerifyMessageDigestWithContent(info, content)
    ELSE VerifySignatureWithContent(info, raw, SignedMessage(info, content))

(* verify_with_content. *)
VerifyWithContent(info, raw, content) ==
  IF info.signedAttributes # None
    THEN /\ ContentTypeMatches(info, raw)
         /\ VerifySignature(info, raw)
         /\ VerifyMessageDigestWithContent(info, content)
    ELSE VerifySignatureWithContent(info, raw, SignedMessage(info, content))

----------------------------------------------------------------------------
(* Time-stamp tokens: SignedData whose content is a TSTInfo. *)

(* time_stamp_signing_certificate_digest: exactly one of the two forms of  *)
(* the ESS attribute, with one value; v1 is SHA-1 by definition.           *)
EssDigest(info) ==
  LET present == {typ \in EssAttribute : Carries(info.signedAttributes, typ)}
      values == UNION {Values(info.signedAttributes, typ) : typ \in present}
  IN  IF info.signedAttributes # None /\ Single(present) /\ Single(values)
        THEN {IF "signingCertificate" \in present
                THEN Digest("Sha1", v.of) ELSE v : v \in values}
        ELSE {}

(* verify_time_stamp_signing_certificate. *)
VerifyTimeStampCertificate(info, token) ==
  /\ token.contentType = IdTstInfo
  /\ \E c \in SigningCertificate(info, token) :
       /\ \E d \in EssDigest(info) : d = Digest(d.alg, c)
       /\ CertInfo[c].purpose = "timeStampingOnly"
       /\ token.content # None
       /\ token.content.genTime \in CertInfo[c].notBefore..CertInfo[c].notAfter

(* The token of a signer, when it carries one: a set of at most one. *)
TimeStampToken(info) ==
  IF info.unsignedAttributes = None THEN {}
  ELSE Values(info.unsignedAttributes, "timeStampToken")

M_VerifyTimeStampToken_NoImprint(info, token) ==
  /\ Parses(token)
  /\ Len(token.signerInfos) = 1
  /\ token.contentType = IdTstInfo
  /\ token.content # None
  /\ token.content.version = 1
  /\ DigestIdentifierOk(token.content.hashAlgorithm)
  /\ VerifyWithSignedData(token.signerInfos[1], token)
  /\ VerifyTimeStampCertificate(token.signerInfos[1], token)

(* verify_time_stamp_token returns Ok(Some(())) for a signer that carries  *)
(* this token.                                                             *)
VerifyTimeStampToken(info, token) ==
  /\ Parses(token)
  /\ Len(token.signerInfos) = 1
  /\ token.contentType = IdTstInfo
  /\ token.content # None
  /\ token.content.version = 1
  /\ DigestIdentifierOk(token.content.hashAlgorithm)
  /\ token.content.imprint = Digest(token.content.hashAlgorithm.digest, info.signature)
  /\ VerifyWithSignedData(token.signerInfos[1], token)
  /\ VerifyTimeStampCertificate(token.signerInfos[1], token)
=============================================================================

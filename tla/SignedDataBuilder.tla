-------------------------- MODULE SignedDataBuilder --------------------------
(***************************************************************************)
(* SignedDataBuilder and SignerBuilder (signing.rs): a caller configures a *)
(* builder and its signers, in any order of calls, and builds messages     *)
(* from it, each build signing once per signer and asking an authority for *)
(* a time stamp where the signer has a time_stamp_url.                     *)
(*                                                                         *)
(* build_signed_data borrows the builder, so no setter runs during a       *)
(* build; the same builder can be built again, after a failure or not.     *)
(***************************************************************************)
EXTENDS TimeStampProtocol

CONSTANTS
  SigningKey,     (* keys signers are created with                         *)
  SigningCert,    (* certificates given to signers and to the builder      *)
  SigningKeyId,   (* key identifiers of new_with_signer_identifier         *)
  Data,           (* contents given to the setters                         *)
  TypeChoice,     (* content types given to the setters                    *)
  DigestChoice,   (* arguments of SignerBuilder::digest_algorithm          *)
  ExtraAttribute, (* arguments of SignerBuilder::signed_attribute          *)
  Override,       (* which digest overrides callers use                    *)
  Year,           (* years of signing times                                *)
  UseUrl,         (* TRUE when callers use time_stamp_url                  *)
  MaxSigners,     (* bound: signers of a builder                           *)
  MaxExtra,       (* bound: extra attributes of a signer                   *)
  MaxCertificates,(* bound: certificates of a builder                      *)
  MaxBuilds       (* bound: builds                                         *)

ASSUME BuilderAssumption ==
  /\ SigningKey \subseteq Key
  /\ SigningCert \subseteq Cert
  /\ Data \subseteq Content
  /\ TypeChoice \subseteq ContentType
  /\ DigestChoice \subseteq DigestAlgorithm
  /\ Override \subseteq {"messageId", "detached"}
  /\ Year \subseteq Nat
  /\ UseUrl \in BOOLEAN
  /\ MaxSigners \in Nat
  /\ MaxExtra \in Nat
  /\ MaxCertificates \in Nat
  /\ MaxBuilds \in Nat

(* Some(list) is not Option::None, for the attributes that a signer signs  *)
(* and for the certificates of a message.                                  *)
ASSUME ListAssumption ==
  LET signedAttribute ==
        {Attribute("contentType", {typ}) : typ \in ContentType}
          \cup {Attribute("messageDigest", {digest}) :
                  digest \in [alg : DigestAlgorithm, of : Content]}
          \cup {Attribute("signingTime", {UtcTime(year)}) : year \in Year}
          \cup ExtraAttribute
  IN  /\ None \notin Seq(signedAttribute)
      /\ None \notin Seq([form : {"Certificate"}, cert : SigningCert])

VARIABLES
  builder,  (* the SignedDataBuilder                                       *)
  draft,    (* the SignerBuilder being configured, or None                 *)
  job,      (* the build under way                                         *)
  built,    (* ghost: each message built, with the builder it came from    *)
  signed    (* ghost: every signature made                                 *)

builderVars == <<builder, draft, job, built, signed>>
vars == <<builderVars, tspVars>>

----------------------------------------------------------------------------
(* The caller's setters. *)

NewBuilder(year) ==
  [content      |-> [kind |-> "None", data |-> None],
   signers      |-> <<>>,
   certificates |-> <<>>,
   contentType  |-> IdData,
   signingTime  |-> year]

(* SignerBuilder::new and new_with_signer_identifier.  The ghost field     *)
(* digestCall names the method that last set messageIdContent.             *)
NewSigner(key, sid, cert) ==
  [key              |-> key,
   sid              |-> sid,
   certificate      |-> cert,
   digest           |-> DefaultDigest(KeyAlg[key]),
   messageIdContent |-> None,
   allowDetached    |-> FALSE,
   contentType      |-> IdData,
   extra            |-> <<>>,
   url              |-> FALSE,
   digestCall       |-> "none"]

MayConfigure == job.pc = "idle"
MayDraft == MayConfigure /\ draft # None

SetBuilder(b) == builder' = b /\ UNCHANGED <<draft, job, built, signed, tspVars>>
SetDraft(d) == draft' = d /\ UNCHANGED <<builder, job, built, signed, tspVars>>

ContentInline(data) ==
  /\ MayConfigure
  /\ SetBuilder([builder EXCEPT !.content = [kind |-> "Inline", data |-> data]])

ContentExternal(data) ==
  /\ MayConfigure
  /\ SetBuilder([builder EXCEPT !.content = [kind |-> "External", data |-> data]])

BuilderContentType(typ) ==
  /\ MayConfigure
  /\ SetBuilder([builder EXCEPT !.contentType = typ])

SigningTime(year) ==
  /\ MayConfigure
  /\ SetBuilder([builder EXCEPT !.signingTime = year])

M_WithCertificate_NoLookup(certs, c) == Append(certs, c)

(* Push a certificate unless an equal one is there. *)
WithCertificate(certs, c) ==
  IF \E i \in DOMAIN certs : certs[i] = c THEN certs ELSE Append(certs, c)

Certificate(c) ==
  /\ MayConfigure
  /\ Len(builder.certificates) < MaxCertificates
  /\ SetBuilder([builder EXCEPT !.certificates = WithCertificate(@, c)])

(* No signer is started that could not be added. *)
MayStartSigner ==
  MayConfigure /\ draft = None /\ Len(builder.signers) < MaxSigners

StartSigner(key, cert) ==
  /\ MayStartSigner
  /\ SetDraft(NewSigner(key, IssuerAndSerial(cert), cert))

StartSignerWithIdentifier(key, id) ==
  /\ MayStartSigner
  /\ SetDraft(NewSigner(key, KeyIdentifier(id), None))

SignerDigest(digest) ==
  /\ MayDraft
  /\ SetDraft([draft EXCEPT !.digest = digest])

MessageIdContent(data) ==
  /\ MayDraft
  /\ SetDraft([draft EXCEPT !.messageIdContent = data, !.digestCall = "messageId"])

DetachedMessageDigest(data) ==
  /\ MayDraft
  /\ SetDraft([draft EXCEPT !.messageIdContent = data, !.allowDetached = TRUE,
                            !.digestCall = "detached"])

SignerContentType(typ) ==
  /\ MayDraft
  /\ SetDraft([draft EXCEPT !.contentType = typ])

SignedAttribute(attribute) ==
  /\ MayDraft
  /\ Len(draft.extra) < MaxExtra
  /\ SetDraft([draft EXCEPT !.extra = Append(@, attribute)])

TimeStampUrl ==
  /\ MayDraft
  /\ SetDraft([draft EXCEPT !.url = TRUE])

(* SignedDataBuilder::signer. *)
AddSigner ==
  /\ MayDraft
  /\ builder' = [builder EXCEPT !.signers = Append(@, draft)]
  /\ draft' = None
  /\ UNCHANGED <<job, built, signed, tspVars>>

----------------------------------------------------------------------------
(* build_signed_data: one signer. *)

(* The configured content, and what the message-digest attribute covers.   *)
DigestedContent(b, s) ==
  IF s.messageIdContent # None THEN s.messageIdContent
  ELSE IF b.content.kind = "None" THEN Empty
  ELSE b.content.data

ExtraAttributesError(extra) ==
  LET reserved(i) == \/ extra[i].typ \in {"contentType", "messageDigest", "signingTime"}
                     \/ \E j \in 1..(i - 1) : extra[j].typ = extra[i].typ
  IN  FirstError([i \in DOMAIN extra |->
        Check(reserved(i) \/ extra[i].values = {},
              IF reserved(i) THEN "DuplicateSignedAttribute"
                             ELSE "EmptySignedAttributeValues")])

ConflictingDigest(s) ==
  /\ s.messageIdContent # None
  /\ ~s.allowDetached
  /\ builder.content.kind # "None"
  /\ builder.content.data # s.messageIdContent

M_SignerError_NoDigestCheck(s) ==
  LET alg == SigningAlgorithm(KeyAlg[s.key])
  IN  FirstError(<<
        Check(alg = NoAlgorithm, "X509Certificate"),
        Check(s.contentType # builder.contentType, "SignedAttributeContentTypeMismatch"),
        Check(ExtraAttributesError(s.extra) # "Ok", ExtraAttributesError(s.extra)),
        Check(ConflictingDigest(s), "ConflictingDigestContent"),
        Check(s.certificate # None /\ CertInfo[s.certificate].key # s.key,
              "SigningKeyCertificateMismatch") >>)

M_SignerError_NoKeyCheck(s) ==
  LET alg == SigningAlgorithm(KeyAlg[s.key])
  IN  FirstError(<<
        Check(alg = NoAlgorithm, "X509Certificate"),
        Check(s.digest # RequiredDigest(alg), "SignatureDigestAlgorithmMismatch"),
        Check(s.contentType # builder.contentType, "SignedAttributeContentTypeMismatch"),
        Check(ExtraAttributesError(s.extra) # "Ok", ExtraAttributesError(s.extra)),
        Check(ConflictingDigest(s), "ConflictingDigestContent") >>)

(* The checks made before a signer signs, in order. *)
SignerError(s) ==
  LET alg == SigningAlgorithm(KeyAlg[s.key])
  IN  FirstError(<<
        Check(alg = NoAlgorithm, "X509Certificate"),
        Check(s.digest # RequiredDigest(alg), "SignatureDigestAlgorithmMismatch"),
        Check(s.contentType # builder.contentType, "SignedAttributeContentTypeMismatch"),
        Check(ExtraAttributesError(s.extra) # "Ok", ExtraAttributesError(s.extra)),
        Check(ConflictingDigest(s), "ConflictingDigestContent"),
        Check(s.certificate # None /\ CertInfo[s.certificate].key # s.key,
              "SigningKeyCertificateMismatch") >>)

(* The signed attributes, in DER order: a set of one. *)
SignedAttributes(s) ==
  SortedAttributes(<<Attribute("contentType", {s.contentType}),
                     Attribute("messageDigest", {Digest(s.digest, DigestedContent(builder, s))}),
                     Attribute("signingTime", {UtcTime(builder.signingTime)})>> \o s.extra)

SignerInfo(s, attributes) ==
  LET alg == SigningAlgorithm(KeyAlg[s.key])
      unsigned == [version            |-> SignerVersion(s.sid),
                   sid                |-> s.sid,
                   digestAlgorithm    |-> DigestIdentifier(s.digest),
                   signedAttributes   |-> attributes,
                   signatureAlgorithm |-> AlgorithmIdentifier(alg),
                   signature          |-> None,
                   unsignedAttributes |-> None]
  IN  [unsigned EXCEPT !.signature = Signature(s.key, alg, SignedMessage(unsigned, None))]

----------------------------------------------------------------------------
(* build_signed_data: the build. *)

(* No build is under way; the last one, if any, ended with this error.     *)
NoJob(error, builds) ==
  [pc |-> "idle", infos |-> <<>>, pending |-> None, digests |-> {},
   certificates |-> <<>>, version |-> 1, error |-> error, builds |-> builds]

BeginBuild ==
  /\ job.pc = "idle" /\ draft = None
  /\ job.builds < MaxBuilds
  /\ job' = [NoJob("Ok", job.builds + 1) EXCEPT
               !.pc = "signing",
               !.certificates = builder.certificates,
               !.version = IF builder.contentType = IdData THEN 1 ELSE 3]
  /\ UNCHANGED <<builder, draft, built, signed, tspVars>>

(* The signer whose turn it is; defined while one is left. *)
CurrentSigner == builder.signers[Len(job.infos) + 1]
SignersLeft == Len(job.infos) < Len(builder.signers)

FailBuild(error) == job' = NoJob(error, job.builds)

RefuseSigner ==
  /\ job.pc = "signing" /\ SignersLeft
  /\ SignerError(CurrentSigner) # "Ok"
  /\ FailBuild(SignerError(CurrentSigner))
  /\ UNCHANGED <<builder, draft, built, signed, tspVars>>

(* KeyInfoSigner::try_sign fails. *)
SigningFails ==
  /\ job.pc = "signing" /\ SignersLeft
  /\ SignerError(CurrentSigner) = "Ok"
  /\ FailBuild("X509Certificate")
  /\ UNCHANGED <<builder, draft, built, signed, tspVars>>

(* The signer signs; a signer with a time_stamp_url then waits for the     *)
(* authority.                                                              *)
Sign ==
  LET s == CurrentSigner
  IN  /\ job.pc = "signing" /\ SignersLeft
      /\ SignerError(s) = "Ok"
      /\ \E attributes \in SignedAttributes(s) :
           LET info == SignerInfo(s, attributes)
           IN  /\ signed' = signed \cup {info.signature}
               /\ job' = [job EXCEPT
                    !.pc = IF s.url THEN "requesting" ELSE "signing",
                    !.infos = IF s.url THEN @ ELSE Append(@, info),
                    !.pending = IF s.url THEN info ELSE None,
                    !.digests = @ \cup {s.digest},
                    !.certificates = IF s.certificate = None THEN @
                                     ELSE WithCertificate(@, s.certificate),
                    !.version = IF s.sid.form = "SubjectKeyIdentifier" THEN 3 ELSE @]
      /\ UNCHANGED <<builder, draft, built, tspVars>>

(* The message sent to the authority is the signature. *)
RequestStamp ==
  /\ job.pc = "requesting"
  /\ \/ SendMessage(job.pending.signature, job.pending.digestAlgorithm.digest)
     \/ RandomFails
  /\ job' = [job EXCEPT !.pc = "stamping"]
  /\ UNCHANGED <<builder, draft, built, signed>>

(* What the build makes of the client's outcome. *)
StampingError ==
  CASE client.pc = "failed"       -> client.error
    [] ~IsSuccess(client.reply)   -> "Unsuccessful"
    [] client.reply.token = None  -> "BadResponse"
    [] ~TokenGenuine(client.reply.token) -> "MalformedTimeStampToken"
    [] OTHER -> "Ok"

M_AttachStamp_Detached ==
  /\ job.pc = "stamping" /\ client.pc = "ok"
  /\ StampingError = "Ok"
  /\ job' = [job EXCEPT !.pc = "signing", !.infos = Append(@, job.pending), !.pending = None]
  /\ UNCHANGED <<builder, draft, built, signed, tspVars>>

AttachStamp ==
  /\ job.pc = "stamping" /\ client.pc = "ok"
  /\ StampingError = "Ok"
  /\ LET token == Attribute("timeStampToken", {client.reply.token})
     IN  job' = [job EXCEPT
                   !.pc = "signing",
                   !.infos = Append(@, [job.pending EXCEPT !.unsignedAttributes = <<token>>]),
                   !.pending = None]
  /\ UNCHANGED <<builder, draft, built, signed, tspVars>>

M_StampingFails_RepliesOnly ==
  /\ job.pc = "stamping" /\ client.pc = "ok"
  /\ StampingError # "Ok"
  /\ FailBuild(StampingError)
  /\ UNCHANGED <<builder, draft, built, signed, tspVars>>

StampingFails ==
  /\ job.pc = "stamping" /\ client.pc \in {"ok", "failed"}
  /\ StampingError # "Ok"
  /\ FailBuild(StampingError)
  /\ UNCHANGED <<builder, draft, built, signed, tspVars>>

----------------------------------------------------------------------------
(* build_signed_data: the message. *)

(* The orders in which a HashSet may yield its elements. *)
Iterations(S) ==
  {e \in [1..Cardinality(S) -> S] : \A x \in S : \E i \in DOMAIN e : e[i] = x}

DigestRank(digest) ==
  CASE digest = "Sha1" -> 0 [] digest = "Sha256" -> 1
    [] digest = "Sha384" -> 2 [] OTHER -> 3

Identifiers(digests) == [i \in DOMAIN digests |-> DigestIdentifier(digests[i])]
Choices(certs) == [i \in DOMAIN certs |-> [form |-> "Certificate", cert |-> certs[i]]]

M_SortedDigests_Unsorted == {Identifiers(e) : e \in Iterations(job.digests)}

SortedDigests ==
  LET Sorted(ids) == DerSorted(ids, [id \in Range(ids) |-> DigestRank(id.digest)])
  IN  UNION {Sorted(Identifiers(e)) : e \in Iterations(job.digests)}

SortedCertificates ==
  LET choices == Choices(job.certificates)
  IN  DerSorted(choices, [choice \in Range(choices) |-> CertInfo[choice.cert].der])

(* Signer informations are ordered first by the length of their encoding,  *)
(* which the model does not have.                                          *)
SortedInfos == DerSorted(job.infos, [info \in Range(job.infos) |-> 0])

(* The messages that can come out of the loop's results: one, whatever the *)
(* iteration order, when sort_der does its work.                           *)
Messages ==
  {[version          |-> job.version,
    digestAlgorithms |-> digests,
    contentType      |-> builder.contentType,
    content          |-> IF builder.content.kind = "Inline" THEN builder.content.data ELSE None,
    certificates     |-> IF certs = <<>> THEN None ELSE certs,
    signerInfos      |-> infos] :
     digests \in SortedDigests,
     certs \in SortedCertificates,
     infos \in SortedInfos}

FinishBuild ==
  /\ job.pc = "signing" /\ ~SignersLeft
  /\ \E message \in Messages :
       built' = built \cup {[from |-> builder, message |-> message]}
  /\ job' = NoJob("Ok", job.builds)
  /\ UNCHANGED <<builder, draft, signed, tspVars>>

----------------------------------------------------------------------------

BuilderInit ==
  /\ builder \in {NewBuilder(year) : year \in Year}
  /\ draft = None
  /\ job = NoJob("Ok", 0)
  /\ built = {}
  /\ signed = {}
  /\ TspInit

Configure ==
  \/ \E data \in Data : ContentInline(data) \/ ContentExternal(data)
  \/ \E typ \in TypeChoice : BuilderContentType(typ) \/ SignerContentType(typ)
  \/ \E year \in Year : SigningTime(year)
  \/ \E c \in SigningCert : Certificate(c)
  \/ \E key \in SigningKey, cert \in SigningCert : StartSigner(key, cert)
  \/ \E key \in SigningKey, id \in SigningKeyId : StartSignerWithIdentifier(key, id)
  \/ \E digest \in DigestChoice : SignerDigest(digest)
  \/ \E data \in Data : "messageId" \in Override /\ MessageIdContent(data)
  \/ \E data \in Data : "detached" \in Override /\ DetachedMessageDigest(data)
  \/ \E attribute \in ExtraAttribute : SignedAttribute(attribute)
  \/ UseUrl /\ TimeStampUrl
  \/ AddSigner

(* The steps of a build that the crate itself takes. *)
BuildStep ==
  \/ RefuseSigner
  \/ Sign
  \/ RequestStamp
  \/ AttachStamp
  \/ StampingFails
  \/ FinishBuild

Network == NetworkNext /\ UNCHANGED builderVars

BuilderNext ==
  \/ Configure
  \/ BeginBuild
  \/ BuildStep
  \/ SigningFails
  \/ Network

(* The crate's own steps run to their end, and HTTP_TIMEOUT ends every     *)
(* exchange; nothing forces a caller to configure or to build.             *)
BuilderFairness ==
  /\ WF_vars(BuildStep)
  /\ WF_vars(TransportFails /\ UNCHANGED builderVars)

BuilderSpec == BuilderInit /\ [][BuilderNext]_vars /\ BuilderFairness

----------------------------------------------------------------------------
(* Properties. *)

SignerBuilderType ==
  [key              : SigningKey,
   sid              : {IssuerAndSerial(c) : c \in SigningCert}
                        \cup {KeyIdentifier(id) : id \in SigningKeyId},
   certificate      : SigningCert \cup {None},
   digest           : DigestAlgorithm,
   messageIdContent : Data \cup {None},
   allowDetached    : BOOLEAN,
   contentType      : TypeChoice \cup {IdData},
   extra            : Seq(ExtraAttribute),
   url              : BOOLEAN,
   digestCall       : {"none", "messageId", "detached"}]

BuilderType ==
  [content      : [kind : {"None", "Inline", "External"}, data : Data \cup {None}],
   signers      : Seq(SignerBuilderType),
   certificates : Seq(SigningCert),
   contentType  : TypeChoice \cup {IdData},
   signingTime  : Year]

Distinct(certs) == \A i, j \in DOMAIN certs : certs[i] = certs[j] => i = j

(* The job, without the signer infos, of which only the number is given.   *)
JobTypeOK ==
  /\ job.pc \in {"idle", "signing", "requesting", "stamping"}
  /\ job.digests \subseteq DigestAlgorithm
  /\ job.certificates \in Seq(SigningCert)
  /\ job.version \in {1, 3}
  /\ job.builds \in 0..MaxBuilds
  /\ Len(job.infos) <= Len(builder.signers)
  /\ job.pc \in {"requesting", "stamping"} => Len(job.infos) < Len(builder.signers)

(* The variables stay within their types; a build works through the        *)
(* signers in order and never past them, and no certificate is listed      *)
(* twice, neither by the caller's calls nor by signers that share one.     *)
BuilderTypeOK ==
  /\ builder \in BuilderType
  /\ draft \in SignerBuilderType \cup {None}
  /\ JobTypeOK
  /\ Distinct(builder.certificates)
  /\ Distinct(job.certificates)

(* Whatever the caller configured, a message that build_signed_data        *)
(* returns is one that SignedData::try_from accepts: the version, the      *)
(* declared digests, the order of the attributes and the algorithm rules   *)
(* are computed by separate code on the two sides.                         *)
BuiltMessageParses == \A r \in built : Parses(r.message)

(* A signer of the builder against the signer information it left behind.  *)
MadeBy(s, info) ==
  /\ info.sid = s.sid
  /\ info.signature.key = s.key
  /\ info.digestAlgorithm.digest = s.digest
  /\ (info.unsignedAttributes # None) = s.url

(* The message lets a reader find the signer's key: no other certificate   *)
(* that the signer's identifier matches holds another key, and there is    *)
(* one that matches (a signer with a certificate brings its own).          *)
KeyCanBeFound(s, message) ==
  LET certs == IF message.certificates = None THEN <<>> ELSE message.certificates
      matching == {i \in DOMAIN certs : Identifies(s.sid, certs[i].cert)}
  IN  /\ \A i \in matching : \/ certs[i].cert = s.certificate
                              \/ CertInfo[certs[i].cert].key = s.key
      /\ s.certificate = None => matching # {}

(* Every signer of a built message verifies, over what it was configured   *)
(* to digest and, when that is the inline content, over the message        *)
(* alone: verify_with_content and verify_with_signed_data undo what        *)
(* build_signed_data did, for every content, override, digest, identifier  *)
(* and attribute.                                                          *)
BuiltSignersVerify ==
  \A r \in built : \A n \in DOMAIN r.from.signers :
    LET s == r.from.signers[n]
        content == DigestedContent(r.from, s)
    IN  KeyCanBeFound(s, r.message) =>
          \E i \in DOMAIN r.message.signerInfos :
            LET info == r.message.signerInfos[i]
            IN  /\ MadeBy(s, info)
                /\ VerifyWithContent(info, r.message, content)
                /\ r.message.content = content => VerifyWithSignedData(info, r.message)

(* A build is all or nothing: a message it returns has each configured     *)
(* signer exactly as often as the builder has it, with a time-stamp token  *)
(* exactly when the signer has a time_stamp_url, even when other signers   *)
(* were refused, or not stamped, in earlier builds.                        *)
EverySignerOnce ==
  \A r \in built :
    LET signers == r.from.signers
        infos == r.message.signerInfos
    IN  /\ Len(infos) = Len(signers)
        /\ \E p \in Bijection(DOMAIN signers, DOMAIN infos) :
             \A n \in DOMAIN signers : MadeBy(signers[n], infos[p[n]])

(* Building again gives the same message, whatever order a HashSet yields  *)
(* its digests in and whatever failed in between.                          *)
SameBuilderSameMessage ==
  \A q, r \in built :
    /\ q.from = r.from
    /\ \A n \in DOMAIN q.from.signers : ~q.from.signers[n].url
    => q.message = r.message

(* A token in a built message verifies for the signer that carries it, and *)
(* an authority did stamp that signature.                                  *)
TokenStampsItsSigner ==
  \A r \in built : \A i \in DOMAIN r.message.signerInfos :
    LET info == r.message.signerInfos[i]
    IN  \A token \in TimeStampToken(info) :
          /\ VerifyTimeStampToken(info, token)
          /\ \E s \in stamps : /\ s.tst = token.content
                               /\ s.tst.imprint.of = info.signature

(* The signing time read back from a message is the one the builder had.   *)
SigningTimeSurvives ==
  \A r \in built : \A i \in DOMAIN r.message.signerInfos :
    \A time \in Values(r.message.signerInfos[i].signedAttributes, "signingTime") :
      YearOf(time) = r.from.signingTime

(* message_id_content must match the configured content: only              *)
(* detached_message_digest is the exception (signing.rs, on both methods). *)
MessageIdContentMatches ==
  \A r \in built : \A n \in DOMAIN r.from.signers :
    LET s == r.from.signers[n]
    IN  s.digestCall = "messageId" /\ r.from.content.kind # "None" =>
          s.messageIdContent = r.from.content.data

(* Every build ends, in a message or in an error. *)
BuildEnds == job.pc # "idle" ~> job.pc = "idle"
=============================================================================

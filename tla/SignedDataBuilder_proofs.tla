---------------------- MODULE SignedDataBuilder_proofs ----------------------
(***************************************************************************)
(* The types of SignedDataBuilder, and that every signer information in a  *)
(* message carries a signature that was made, for every value of the       *)
(* constants.                                                              *)
(***************************************************************************)
EXTENDS SignedDataBuilder, Errors_proofs, FiniteSetTheorems, TLAPS

(* What every rearrangement, and so every DER order, of a sequence keeps.  *)
LEMMA RearrangementType ==
  ASSUME NEW S, NEW s \in Seq(S), NEW t \in Rearrangements(s)
  PROVE  t \in Seq(S) /\ Len(t) = Len(s)
<1>1. PICK p \in Bijection(DOMAIN s, DOMAIN s) : t = [i \in DOMAIN s |-> s[p[i]]]
  BY DEF Rearrangements
<1>2. p \in [DOMAIN s -> DOMAIN s]
  BY DEF Bijection, Injection, Surjection
<1>3. t \in [1..Len(s) -> S]
  BY <1>1, <1>2
<1> QED
  BY <1>3

(* A certificate is pushed once: certificate, certificates and the loop    *)
(* over the signers.                                                       *)
LEMMA WithCertificateType ==
  ASSUME NEW S, NEW certs \in Seq(S), NEW c \in S, Distinct(certs)
  PROVE  WithCertificate(certs, c) \in Seq(S) /\ Distinct(WithCertificate(certs, c))
<1>1. CASE \E i \in DOMAIN certs : certs[i] = c
  BY <1>1 DEF WithCertificate
<1>2. CASE \A i \in DOMAIN certs : certs[i] # c
  <2>1. WithCertificate(certs, c) = Append(certs, c)
    BY <1>2 DEF WithCertificate
  <2>2. Distinct(Append(certs, c))
    BY <1>2 DEF Distinct
  <2> QED
    BY <2>1, <2>2
<1> QED
  BY <1>1, <1>2

(* RequiredDigest and DefaultDigest are digest algorithms.                 *)
LEMMA DefaultDigestType ==
  ASSUME NEW key \in Key
  PROVE  DefaultDigest(KeyAlg[key]) \in DigestAlgorithm
BY KeyAssumption
DEF DefaultDigest, SigningAlgorithm, NoAlgorithm, RequiredDigest, DigestAlgorithm, KeyAlgorithm

(* Every signer starts out well typed.                                     *)
LEMMA NewSignerType ==
  ASSUME NEW key \in SigningKey, NEW cert \in SigningCert \cup {None},
         NEW sid \in {IssuerAndSerial(c) : c \in SigningCert}
                       \cup {KeyIdentifier(id) : id \in SigningKeyId}
  PROVE  NewSigner(key, sid, cert) \in SignerBuilderType
<1>1. DefaultDigest(KeyAlg[key]) \in DigestAlgorithm
  BY DefaultDigestType, BuilderAssumption
<1>2. <<>> \in Seq(ExtraAttribute)
  OBVIOUS
<1> QED
  BY <1>1, <1>2 DEF NewSigner, SignerBuilderType

----------------------------------------------------------------------------
(* The inductive invariant: the types, and a set of signer infos, all with *)
(* signatures that were made, from which the job and the messages are put  *)
(* together.                                                               *)

Made(info) == "signature" \in DOMAIN info /\ info.signature \in signed

JobType(S, error) ==
  [pc : {"idle", "signing", "requesting", "stamping"}, infos : Seq(S),
   pending : S \cup {None}, digests : SUBSET DigestAlgorithm,
   certificates : Seq(SigningCert), version : {1, 3},
   error : {error}, builds : 0..MaxBuilds]

JobOk(S) ==
  /\ job \in JobType(S, job.error)
  /\ job.pc \in {"requesting", "stamping"} => job.pending \in S

Choice == [form : {"Certificate"}, cert : Cert]

MessageOk(m, S) ==
  /\ DOMAIN m = {"version", "digestAlgorithms", "contentType", "content",
                 "certificates", "signerInfos"}
  /\ m.certificates \in Seq(Choice) \cup {None}
  /\ m.signerInfos \in Seq(S)

PartsOk(S) ==
  /\ \A info \in S : Made(info)
  /\ JobOk(S)
  /\ \A r \in built : MessageOk(r.message, S)

BuilderInv == BuilderTypeOK /\ \E S : PartsOk(S)

(* The initial states satisfy the invariant.                               *)
LEMMA BuilderInitInv == BuilderInit => BuilderInv
<1> SUFFICES ASSUME BuilderInit PROVE BuilderInv
  OBVIOUS
<1>1. BuilderTypeOK
  <2>1. PICK year \in Year : builder = NewBuilder(year)
    BY DEF BuilderInit
  <2>2. builder \in BuilderType /\ Len(builder.signers) = 0 /\ Distinct(builder.certificates)
    BY <2>1 DEF NewBuilder, BuilderType, Distinct
  <2>3. JobTypeOK /\ Distinct(job.certificates)
    BY <2>2, BuilderAssumption DEF BuilderInit, JobTypeOK, NoJob, Distinct
  <2> QED
    BY <2>2, <2>3 DEF BuilderInit, BuilderTypeOK
<1>2. PartsOk({})
  BY BuilderAssumption DEF BuilderInit, PartsOk, JobOk, JobType, NoJob
<1> QED
  BY <1>1, <1>2 DEF BuilderInv

(* A step that leaves the builder's variables alone, but for signatures    *)
(* that are made, keeps the invariant.                                     *)
LEMMA BuilderInvMonotone ==
  ASSUME BuilderInv, UNCHANGED <<builder, draft, job, built>>, signed \subseteq signed'
  PROVE  BuilderInv'
<1>1. PICK S : PartsOk(S)
  BY DEF BuilderInv
<1>2. PartsOk(S)'
  BY <1>1 DEF PartsOk, Made, JobOk, MessageOk
<1>3. BuilderTypeOK'
  BY DEF BuilderInv, BuilderTypeOK, JobTypeOK
<1> QED
  BY <1>2, <1>3 DEF BuilderInv

(* A setter of the builder keeps the invariant when it keeps the builder   *)
(* well typed and its signers no fewer.                                    *)
LEMMA BuilderSetterInv ==
  ASSUME BuilderInv, job.pc = "idle", NEW b \in BuilderType, SetBuilder(b),
         Len(b.signers) = Len(builder.signers), Distinct(b.certificates)
  PROVE  BuilderInv'
<1>1. BuilderTypeOK'
  BY DEF BuilderInv, BuilderTypeOK, JobTypeOK, SetBuilder, tspVars
<1>2. PICK S : PartsOk(S)
  BY DEF BuilderInv
<1>3. PartsOk(S)'
  BY <1>2 DEF PartsOk, Made, JobOk, MessageOk, SetBuilder
<1> QED
  BY <1>1, <1>3 DEF BuilderInv

(* So does a setter of the draft.                                          *)
LEMMA DraftSetterInv ==
  ASSUME BuilderInv, NEW d \in SignerBuilderType, SetDraft(d)
  PROVE  BuilderInv'
<1>1. BuilderTypeOK'
  BY DEF BuilderInv, BuilderTypeOK, JobTypeOK, SetDraft
<1>2. PICK S : PartsOk(S)
  BY DEF BuilderInv
<1>3. PartsOk(S)'
  BY <1>2 DEF PartsOk, Made, JobOk, MessageOk, SetDraft
<1> QED
  BY <1>1, <1>3 DEF BuilderInv

(* Every call of a setter keeps the invariant.                             *)
LEMMA ConfigureInv == BuilderInv /\ Configure => BuilderInv'
<1> SUFFICES ASSUME BuilderInv, Configure PROVE BuilderInv'
  OBVIOUS
<1>1. builder \in BuilderType /\ draft \in SignerBuilderType \cup {None} /\ Distinct(builder.certificates)
  BY DEF BuilderInv, BuilderTypeOK
<1>2. ASSUME NEW data \in Data, ContentInline(data) \/ ContentExternal(data) PROVE BuilderInv'
  <2>1. ASSUME NEW kind \in {"Inline", "External"}
        PROVE  [builder EXCEPT !.content = [kind |-> kind, data |-> data]] \in BuilderType
    BY <1>1 DEF BuilderType
  <2> QED
    BY <1>1, <1>2, <2>1, BuilderSetterInv DEF ContentInline, ContentExternal, MayConfigure, BuilderType
<1>3. ASSUME NEW typ \in TypeChoice, BuilderContentType(typ) PROVE BuilderInv'
  BY <1>1, <1>3, BuilderSetterInv DEF BuilderContentType, MayConfigure, BuilderType
<1>4. ASSUME NEW year \in Year, SigningTime(year) PROVE BuilderInv'
  BY <1>1, <1>4, BuilderSetterInv DEF SigningTime, MayConfigure, BuilderType
<1>5. ASSUME NEW c \in SigningCert, Certificate(c) PROVE BuilderInv'
  <2>1. WithCertificate(builder.certificates, c) \in Seq(SigningCert)
        /\ Distinct(WithCertificate(builder.certificates, c))
    BY <1>1, WithCertificateType DEF BuilderType
  <2> QED
    BY <1>1, <1>5, <2>1, BuilderSetterInv DEF Certificate, MayConfigure, BuilderType
<1>6. ASSUME NEW key \in SigningKey, NEW cert \in SigningCert, StartSigner(key, cert) PROVE BuilderInv'
  BY <1>6, NewSignerType, DraftSetterInv DEF StartSigner
<1>7. ASSUME NEW key \in SigningKey, NEW id \in SigningKeyId, StartSignerWithIdentifier(key, id)
      PROVE  BuilderInv'
  BY <1>7, NewSignerType, DraftSetterInv DEF StartSignerWithIdentifier
<1>8. ASSUME MayDraft PROVE draft \in SignerBuilderType
  BY <1>1, <1>8 DEF MayDraft
<1>9. ASSUME NEW typ \in TypeChoice, SignerContentType(typ) PROVE BuilderInv'
  BY <1>8, <1>9, DraftSetterInv DEF SignerContentType, SignerBuilderType
<1>10. ASSUME NEW digest \in DigestChoice, SignerDigest(digest) PROVE BuilderInv'
  BY <1>8, <1>10, DraftSetterInv, BuilderAssumption DEF SignerDigest, SignerBuilderType
<1>11. ASSUME NEW data \in Data, MessageIdContent(data) \/ DetachedMessageDigest(data)
       PROVE  BuilderInv'
  BY <1>8, <1>11, DraftSetterInv DEF MessageIdContent, DetachedMessageDigest, SignerBuilderType
<1>12. ASSUME NEW attribute \in ExtraAttribute, SignedAttribute(attribute) PROVE BuilderInv'
  BY <1>8, <1>12, DraftSetterInv DEF SignedAttribute, SignerBuilderType
<1>13. ASSUME TimeStampUrl PROVE BuilderInv'
  BY <1>8, <1>13, DraftSetterInv DEF TimeStampUrl, SignerBuilderType
<1>14. ASSUME AddSigner PROVE BuilderInv'
  <2>1. builder.signers \in Seq(SignerBuilderType)
    BY <1>1 DEF BuilderType
  <2>2. Append(builder.signers, draft) \in Seq(SignerBuilderType)
        /\ Len(Append(builder.signers, draft)) = Len(builder.signers) + 1
    BY <1>8, <1>14, <2>1 DEF AddSigner
  <2>3. builder' \in BuilderType /\ Len(builder.signers) <= Len(builder'.signers)
        /\ builder'.certificates = builder.certificates
    <3> DEFINE more == Append(builder.signers, draft)
    <3>1. builder' = [builder EXCEPT !.signers = more]
      BY <1>14 DEF AddSigner
    <3>2. more \in Seq(SignerBuilderType) /\ Len(more) = Len(builder.signers) + 1
      BY <2>2
    <3> HIDE DEF more
    <3>3. builder' \in BuilderType /\ builder'.signers = more
          /\ builder'.certificates = builder.certificates
      BY <1>1, <3>1, <3>2 DEF BuilderType
    <3>4. Len(builder.signers) \in Nat
      BY <2>1
    <3> QED
      BY <3>2, <3>3, <3>4
  <2>4. BuilderTypeOK'
    <3>1. JobTypeOK'
      <4>1. Len(builder.signers) \in Nat /\ Len(builder'.signers) \in Nat /\ Len(job.infos) \in Nat
        <5>1. PICK S : PartsOk(S)
          BY DEF BuilderInv
        <5> QED
          BY <2>1, <2>3, <5>1 DEF BuilderType, PartsOk, JobOk, JobType
      <4> QED
        BY <1>14, <2>3, <4>1 DEF AddSigner, BuilderInv, BuilderTypeOK, JobTypeOK
    <3> QED
      BY <1>1, <1>14, <2>3, <3>1 DEF AddSigner, BuilderInv, BuilderTypeOK
  <2>5. PICK S : PartsOk(S)
    BY DEF BuilderInv
  <2>6. PartsOk(S)'
    BY <1>14, <2>5 DEF AddSigner, PartsOk, Made, JobOk, MessageOk
  <2> QED
    BY <2>4, <2>6 DEF BuilderInv
<1> QED
  BY <1>2, <1>3, <1>4, <1>5, <1>6, <1>7, <1>9, <1>10, <1>11, <1>12, <1>13, <1>14 DEF Configure

----------------------------------------------------------------------------
(* The steps of a build. *)

(* Outside the loop the job holds nothing of the messages it made.         *)
LEMMA NoJobOk ==
  ASSUME NEW S, NEW e, NEW n \in 0..MaxBuilds,
         job' = NoJob(e, n)
  PROVE  JobOk(S)' /\ job'.infos = <<>> /\ job'.certificates = <<>>
<1>1. job' = [pc |-> "idle", infos |-> <<>>, pending |-> None, digests |-> {},
              certificates |-> <<>>, version |-> 1, error |-> e, builds |-> n]
  BY DEF NoJob
<1>2. <<>> \in Seq(S) /\ <<>> \in Seq(SigningCert)
  OBVIOUS
<1>3. job' \in JobType(S, e)
  BY <1>1, <1>2 DEF JobType
<1> QED
  BY <1>1, <1>3 DEF JobOk

(* A build that begins has signed nothing yet.                             *)
LEMMA BeginBuildInv == BuilderInv /\ BeginBuild => BuilderInv'
<1> SUFFICES ASSUME BuilderInv, BeginBuild PROVE BuilderInv'
  OBVIOUS
<1>1. PICK S : PartsOk(S)
  BY DEF BuilderInv
<1>2. builder \in BuilderType /\ Distinct(builder.certificates)
  BY DEF BuilderInv, BuilderTypeOK
<1>3. job.builds + 1 \in 0..MaxBuilds
  BY <1>1, BuilderAssumption DEF BeginBuild, PartsOk, JobOk, JobType
<1>4. JobOk(S)'
  <2>1. job' = [pc |-> "signing", infos |-> <<>>, pending |-> None, digests |-> {},
                certificates |-> builder.certificates,
                version |-> IF builder.contentType = IdData THEN 1 ELSE 3,
                error |-> "Ok", builds |-> job.builds + 1]
    BY DEF BeginBuild, NoJob
  <2>2. <<>> \in Seq(S) /\ builder.certificates \in Seq(SigningCert)
    BY <1>2 DEF BuilderType
  <2>3. job' \in JobType(S, "Ok") /\ job'.error = "Ok" /\ job'.pc = "signing"
    BY <1>3, <2>1, <2>2 DEF JobType
  <2> QED
    BY <2>3 DEF JobOk
<1>5. /\ job'.pc = "signing" /\ job'.digests = {} /\ job'.infos = <<>>
      /\ job'.certificates = builder.certificates /\ job'.version \in {1, 3}
      /\ job'.builds = job.builds + 1
  BY DEF BeginBuild, NoJob
<1>6. JobTypeOK' /\ Distinct(job'.certificates)
  BY <1>2, <1>3, <1>5 DEF BeginBuild, JobTypeOK, BuilderType
<1>7. PartsOk(S)'
  BY <1>1, <1>4 DEF PartsOk, BeginBuild, Made, MessageOk
<1> QED
  BY <1>2, <1>6, <1>7 DEF BeginBuild, BuilderInv, BuilderTypeOK

(* A build that ends, in an error or in a message made of its parts.       *)
LEMMA EndBuildInv ==
  ASSUME BuilderInv, NEW S, PartsOk(S), NEW e,
         job' = NoJob(e, job.builds),
         UNCHANGED <<builder, draft, signed>>,
         \A r \in built' : r \in built \/ MessageOk(r.message, S)
  PROVE  BuilderInv'
<1>1. builder \in BuilderType /\ draft \in SignerBuilderType \cup {None}
      /\ Distinct(builder.certificates)
  BY DEF BuilderInv, BuilderTypeOK
<1>2. job.builds \in 0..MaxBuilds
  BY DEF PartsOk, JobOk, JobType
<1>3. JobOk(S)' /\ job'.infos = <<>> /\ job'.certificates = <<>>
  BY <1>2, NoJobOk
<1>4. JobTypeOK' /\ Distinct(job'.certificates)
  <2>1. /\ job'.pc = "idle" /\ job'.digests = {} /\ job'.version = 1
        /\ job'.builds = job.builds
    BY DEF NoJob
  <2>2. Len(builder'.signers) \in Nat
    BY <1>1 DEF BuilderType
  <2>3. <<>> \in Seq(SigningCert) /\ Len(<<>>) = 0 /\ DOMAIN <<>> = {}
    OBVIOUS
  <2>4. JobTypeOK'
    <3>1. Len(job'.infos) = 0 /\ job'.certificates \in Seq(SigningCert)
      BY <1>3, <2>3
    <3>2. Len(job'.infos) <= Len(builder'.signers)
      BY <2>2, <3>1
    <3> QED
      BY <1>2, <2>1, <3>1, <3>2 DEF JobTypeOK
  <2> QED
    BY <1>3, <2>4 DEF Distinct
<1>5. PartsOk(S)'
  BY <1>3 DEF PartsOk, Made, MessageOk
<1> QED
  BY <1>1, <1>4, <1>5 DEF BuilderInv, BuilderTypeOK

(* The signer infos of a job, with one more that was made.                 *)
LEMMA AppendInfoType ==
  ASSUME NEW S, NEW infos \in Seq(S), NEW info
  PROVE  Append(infos, info) \in Seq(S \cup {info}) /\ Len(Append(infos, info)) = Len(infos) + 1
<1>1. infos \in Seq(S \cup {info})
  OBVIOUS
<1> QED
  BY <1>1

(* The set of parts may grow.                                              *)
LEMMA MorePartsOk ==
  ASSUME NEW S, NEW T, S \subseteq T, \A r \in built : MessageOk(r.message, S)
  PROVE  \A r \in built : MessageOk(r.message, T)
BY DEF MessageOk

(* A signer info that Sign makes carries the signature it adds.            *)
LEMMA SignerInfoSignature ==
  ASSUME NEW s, NEW attributes
  PROVE  "signature" \in DOMAIN SignerInfo(s, attributes)
BY DEF SignerInfo

(* Signing one signer.                                                     *)
LEMMA SignInv == BuilderInv /\ Sign => BuilderInv'
<1> SUFFICES ASSUME BuilderInv, Sign PROVE BuilderInv'
  OBVIOUS
<1> DEFINE s == CurrentSigner
<1>1. PICK S : PartsOk(S)
  BY DEF BuilderInv
<1>2. builder \in BuilderType /\ JobTypeOK /\ Distinct(job.certificates)
  BY DEF BuilderInv, BuilderTypeOK
<1>3. PICK attributes \in SignedAttributes(s) :
        LET info == SignerInfo(s, attributes)
        IN  /\ signed' = signed \cup {info.signature}
            /\ job' = [job EXCEPT
                 !.pc = IF s.url THEN "requesting" ELSE "signing",
                 !.infos = IF s.url THEN @ ELSE Append(@, info),
                 !.pending = IF s.url THEN info ELSE None,
                 !.digests = @ \cup {s.digest},
                 !.certificates = IF s.certificate = None THEN @
                                  ELSE WithCertificate(@, s.certificate),
                 !.version = IF s.sid.form = "SubjectKeyIdentifier" THEN 3 ELSE @]
  BY DEF Sign
<1> DEFINE info == SignerInfo(s, attributes)
           T == S \cup {info}
           infos == IF s.url THEN job.infos ELSE Append(job.infos, info)
           certs == IF s.certificate = None THEN job.certificates
                    ELSE WithCertificate(job.certificates, s.certificate)
           version == IF s.sid.form = "SubjectKeyIdentifier" THEN 3 ELSE job.version
<1>4. job.infos \in Seq(S) /\ Len(job.infos) \in Nat /\ Len(builder.signers) \in Nat
      /\ Len(job.infos) < Len(builder.signers)
  BY <1>1, <1>2 DEF PartsOk, JobOk, JobType, BuilderType, JobTypeOK, Sign, SignersLeft
<1>5. s \in SignerBuilderType
  <2>1. builder.signers \in Seq(SignerBuilderType) /\ Len(job.infos) + 1 \in 1..Len(builder.signers)
    BY <1>2, <1>4 DEF BuilderType
  <2> QED
    BY <2>1 DEF CurrentSigner
<1>6. /\ Append(job.infos, info) \in Seq(T) /\ job.infos \in Seq(T)
      /\ Len(Append(job.infos, info)) = Len(job.infos) + 1
  BY <1>4, AppendInfoType
<1>7. /\ job.certificates \in Seq(SigningCert)
      /\ s.certificate # None =>
           /\ WithCertificate(job.certificates, s.certificate) \in Seq(SigningCert)
           /\ Distinct(WithCertificate(job.certificates, s.certificate))
  BY <1>2, <1>5, WithCertificateType DEF JobTypeOK, SignerBuilderType
<1>8. job \in JobType(S, job.error)
  BY <1>1 DEF PartsOk, JobOk
<1>9. /\ signed' = signed \cup {info.signature}
      /\ job' = [job EXCEPT !.pc = IF s.url THEN "requesting" ELSE "signing",
                            !.infos = infos,
                            !.pending = IF s.url THEN info ELSE None,
                            !.digests = job.digests \cup {s.digest},
                            !.certificates = certs,
                            !.version = version]
  BY <1>3
<1>10. infos \in Seq(T) /\ Len(infos) <= Len(job.infos) + 1 /\ (s.url => infos = job.infos)
  BY <1>4, <1>6
<1>11. certs \in Seq(SigningCert) /\ Distinct(certs)
  BY <1>2, <1>7
<1>12. version \in {1, 3}
  BY <1>2 DEF JobTypeOK
<1>13. s.digest \in DigestAlgorithm /\ s.url \in BOOLEAN
  BY <1>5 DEF SignerBuilderType
<1>14. S \subseteq T /\ info \in T /\ \A x \in T : x \in S \/ x = info
  OBVIOUS
<1>15. "signature" \in DOMAIN info
  BY SignerInfoSignature
<1> HIDE DEF s, info, T, infos, certs, version
<1>16. job' = [pc |-> IF s.url THEN "requesting" ELSE "signing", infos |-> infos,
               pending |-> IF s.url THEN info ELSE None,
               digests |-> job.digests \cup {s.digest}, certificates |-> certs,
               version |-> version, error |-> job.error, builds |-> job.builds]
  BY <1>8, <1>9 DEF JobType
<1>17a. PICK U : U = T
  OBVIOUS
<1>17. job' \in JobType(U, job'.error)
  <2>1. job.digests \subseteq DigestAlgorithm /\ job.builds \in 0..MaxBuilds
    BY <1>8 DEF JobType
  <2>2. (IF s.url THEN info ELSE None) \in U \cup {None}
    BY <1>14, <1>17a
  <2>3. job' \in JobType(U, job.error)
    BY <1>17a, <1>10, <1>11, <1>12, <1>13, <1>16, <2>1, <2>2 DEF JobType
  <2> QED
    BY <1>16, <2>3
<1>18. PartsOk(U)'
  <2>1. JobOk(U)'
    BY <1>17a, <1>13, <1>14, <1>16, <1>17 DEF JobOk
  <2>2. \A x \in U : Made(x)'
    BY <1>17a, <1>1, <1>9, <1>14, <1>15 DEF PartsOk, Made
  <2>3. \A r \in built : MessageOk(r.message, U)
    BY <1>17a, <1>1, <1>14, MorePartsOk DEF PartsOk
  <2> QED
    BY <2>1, <2>2, <2>3 DEF PartsOk, Sign, MessageOk
<1>19. BuilderTypeOK'
  <2>1. builder' = builder /\ draft' = draft
    BY DEF Sign
  <2>2. Len(infos) \in Nat
    BY <1>10
  <2>3. Len(infos) <= Len(builder.signers) /\ (s.url => Len(infos) < Len(builder.signers))
    BY <1>4, <1>10, <2>2
  <2>4. JobTypeOK'
    BY <1>11, <1>13, <1>16, <1>17, <2>1, <2>3 DEF JobTypeOK, JobType
  <2> QED
    BY <1>11, <1>16, <2>1, <2>4 DEF BuilderInv, BuilderTypeOK
<1> QED
  BY <1>18, <1>19 DEF BuilderInv

(* Asking for a time stamp.                                                *)
LEMMA RequestStampInv == BuilderInv /\ RequestStamp => BuilderInv'
<1> SUFFICES ASSUME BuilderInv, RequestStamp PROVE BuilderInv'
  OBVIOUS
<1>1. PICK S : PartsOk(S)
  BY DEF BuilderInv
<1>2. job' = [job EXCEPT !.pc = "stamping"] /\ job.pc = "requesting"
      /\ UNCHANGED <<builder, draft, built, signed>>
  BY DEF RequestStamp
<1>3. job \in JobType(S, job.error) /\ job.pending \in S
  BY <1>1, <1>2 DEF PartsOk, JobOk
<1>4. /\ job' \in JobType(S, job'.error)
      /\ job'.pc = "stamping" /\ job'.pending = job.pending /\ job'.infos = job.infos
      /\ job'.digests = job.digests /\ job'.certificates = job.certificates
      /\ job'.version = job.version /\ job'.builds = job.builds
  BY <1>2, <1>3 DEF JobType
<1>5. PartsOk(S)'
  BY <1>1, <1>2, <1>3, <1>4 DEF PartsOk, JobOk, Made, MessageOk
<1>6. BuilderTypeOK'
  BY <1>2, <1>4 DEF BuilderInv, BuilderTypeOK, JobTypeOK
<1> QED
  BY <1>5, <1>6 DEF BuilderInv

(* Attaching the stamp leaves the signature of the signer info alone.      *)
LEMMA AttachStampInv == BuilderInv /\ AttachStamp => BuilderInv'
<1> SUFFICES ASSUME BuilderInv, AttachStamp PROVE BuilderInv'
  OBVIOUS
<1>1. PICK S : PartsOk(S)
  BY DEF BuilderInv
<1>2. PICK tokens :
        /\ job' = [job EXCEPT
                    !.pc = "signing",
                    !.infos = Append(@, [job.pending EXCEPT !.unsignedAttributes = tokens]),
                    !.pending = None]
        /\ job.pc = "stamping"
        /\ UNCHANGED <<builder, draft, built, signed>>
  BY DEF AttachStamp
<1>3. job \in JobType(S, job.error) /\ job.pending \in S /\ Made(job.pending)
  BY <1>1, <1>2 DEF PartsOk, JobOk
<1>4. PICK info : info = [job.pending EXCEPT !.unsignedAttributes = tokens]
  OBVIOUS
<1>5. PICK infos : infos = Append(job.infos, info)
  OBVIOUS
<1>6. Made(info)
  BY <1>3, <1>4 DEF Made
<1>7. infos \in Seq(S \cup {info}) /\ Len(infos) = Len(job.infos) + 1
  <2>1. job.infos \in Seq(S)
    BY <1>3 DEF JobType
  <2> QED
    BY <1>5, <2>1, AppendInfoType
<1>8. job' = [job EXCEPT !.pc = "signing", !.infos = infos, !.pending = None]
  BY <1>2, <1>4, <1>5
<1>9. /\ job' \in JobType(S \cup {info}, job'.error)
      /\ job'.pc = "signing" /\ job'.infos = infos /\ job'.digests = job.digests
      /\ job'.certificates = job.certificates /\ job'.version = job.version
      /\ job'.builds = job.builds
  BY <1>3, <1>7, <1>8 DEF JobType
<1>10. PartsOk(S \cup {info})'
  <2>1. \A r \in built : MessageOk(r.message, S \cup {info})
    BY <1>1, MorePartsOk DEF PartsOk
  <2>2. \A x \in S \cup {info} : Made(x)'
    BY <1>1, <1>2, <1>6 DEF PartsOk, Made
  <2> QED
    BY <1>2, <1>9, <2>1, <2>2 DEF PartsOk, JobOk, MessageOk
<1>11. BuilderTypeOK'
  <2>1. Len(job.infos) < Len(builder.signers) /\ Len(job.infos) \in Nat
        /\ Len(builder.signers) \in Nat
    BY <1>2, <1>3 DEF BuilderInv, BuilderTypeOK, JobTypeOK, JobType, BuilderType
  <2>2. Len(infos) <= Len(builder.signers)
    BY <1>7, <2>1
  <2>3. JobTypeOK'
    BY <1>2, <1>9, <2>2 DEF BuilderInv, BuilderTypeOK, JobTypeOK
  <2> QED
    BY <1>2, <1>9, <2>3 DEF BuilderInv, BuilderTypeOK
<1> QED
  BY <1>10, <1>11 DEF BuilderInv

(* A message is put together from the job's parts.                         *)
LEMMA MessagesOk ==
  ASSUME NEW S, JobOk(S), NEW message \in Messages
  PROVE  MessageOk(message, S)
<1>1. PICK digests \in SortedDigests,
           certs \in SortedCertificates,
           infos \in SortedInfos :
        message = [version          |-> job.version,
                   digestAlgorithms |-> digests,
                   contentType      |-> builder.contentType,
                   content          |-> IF builder.content.kind = "Inline"
                                          THEN builder.content.data ELSE None,
                   certificates     |-> IF certs = <<>> THEN None ELSE certs,
                   signerInfos      |-> infos]
  BY DEF Messages
<1>2. certs \in Rearrangements(Choices(job.certificates)) /\ infos \in Rearrangements(job.infos)
  BY DEF DerSorted, SortedCertificates, SortedInfos
<1>3. Choices(job.certificates) \in Seq(Choice)
  <2>1. job.certificates \in Seq(Cert)
    BY BuilderAssumption DEF JobOk, JobType
  <2>2. Choices(job.certificates) \in [1..Len(job.certificates) -> Choice]
    BY <2>1 DEF Choices, Choice
  <2>3. Len(job.certificates) \in Nat
    BY <2>1
  <2> QED
    BY <2>2, <2>3
<1>4. certs \in Seq(Choice) /\ infos \in Seq(S)
  BY <1>2, <1>3, RearrangementType DEF JobOk, JobType
<1> QED
  BY <1>1, <1>4 DEF MessageOk

(* Every step of the builder keeps the invariant.                          *)
LEMMA BuilderNextInv == BuilderInv /\ [BuilderNext]_vars => BuilderInv'
<1> SUFFICES ASSUME BuilderInv, [BuilderNext]_vars PROVE BuilderInv'
  OBVIOUS
<1>1. PICK S : PartsOk(S)
  BY DEF BuilderInv
<1>2. ASSUME NEW e, FailBuild(e), UNCHANGED <<builder, draft, built, signed>>
      PROVE  BuilderInv'
  BY <1>1, <1>2, EndBuildInv DEF FailBuild
<1>3. CASE Configure
  BY <1>3, ConfigureInv
<1>4. CASE BeginBuild
  BY <1>4, BeginBuildInv
<1>5. CASE RefuseSigner
  BY <1>2, <1>5 DEF RefuseSigner
<1>6. CASE SigningFails
  BY <1>2, <1>6 DEF SigningFails
<1>7. CASE Sign
  BY <1>7, SignInv
<1>8. CASE RequestStamp
  BY <1>8, RequestStampInv
<1>9. CASE AttachStamp
  BY <1>9, AttachStampInv
<1>10. CASE StampingFails
  BY <1>2, <1>10 DEF StampingFails
<1>11. CASE FinishBuild
  <2>1. PICK message \in Messages : built' = built \cup {[from |-> builder, message |-> message]}
    BY <1>11 DEF FinishBuild
  <2>2. MessageOk(message, S)
    BY <1>1, MessagesOk DEF PartsOk
  <2>3. \A r \in built' : r \in built \/ MessageOk(r.message, S)
    BY <2>1, <2>2
  <2> QED
    BY <1>1, <1>11, <2>3, EndBuildInv DEF FinishBuild
<1>12. CASE Network
  BY <1>12, BuilderInvMonotone DEF Network, builderVars
<1>13. CASE UNCHANGED vars
  BY <1>13, BuilderInvMonotone DEF vars, builderVars
<1> QED
  BY <1>3, <1>4, <1>5, <1>6, <1>7, <1>8, <1>9, <1>10, <1>11, <1>12, <1>13
  DEF BuilderNext, BuildStep

----------------------------------------------------------------------------

(* The invariant holds of every behaviour of the builder.                  *)
THEOREM BuilderInvariant == BuilderSpec => []BuilderInv
<1>1. BuilderInit => BuilderInv
  BY BuilderInitInv
<1>2. BuilderInv /\ [BuilderNext]_vars => BuilderInv'
  BY BuilderNextInv
<1> QED
  BY <1>1, <1>2, PTL DEF BuilderSpec

(* The builder's variables stay within their types, with every caller, at  *)
(* every number of signers, certificates and builds: a build never runs    *)
(* past its signers and never lists a certificate twice.                   *)
THEOREM BuilderTypeCorrect == BuilderSpec => []BuilderTypeOK
<1>1. BuilderInv => BuilderTypeOK
  BY DEF BuilderInv
<1> QED
  BY <1>1, BuilderInvariant, PTL

-----------------------------------------------------------------------------
(* What a message that build_signed_data returns is: the crate parses it,  *)
(* each signer verifies and is there once, and the message is a function   *)
(* of the builder.                                                         *)


----------------------------------------------------------------------------
(* Rearrangements. *)

(* What a rearrangement is, without the library's operators.               *)
LEMMA Permutation ==
  ASSUME NEW D, NEW p
  PROVE  p \in Bijection(D, D) <=> /\ p \in [D -> D]
                                   /\ \A i, j \in D : p[i] = p[j] => i = j
                                   /\ \A j \in D : \E i \in D : p[i] = j
BY DEF Bijection, Injection, Surjection, IsInjective

(* A permutation can be undone.                                            *)
LEMMA PermutationInverse ==
  ASSUME NEW D, NEW p \in Bijection(D, D)
  PROVE  \E q \in Bijection(D, D) : \A i \in D : q[p[i]] = i /\ p[q[i]] = i
<1>1. /\ p \in [D -> D]
      /\ \A i, j \in D : p[i] = p[j] => i = j
      /\ \A j \in D : \E i \in D : p[i] = j
  BY Permutation
<1> DEFINE q == [j \in D |-> CHOOSE i \in D : p[i] = j]
<1>2. \A j \in D : q[j] \in D /\ p[q[j]] = j
  BY <1>1
<1>3. \A i \in D : q[p[i]] = i
  <2> HIDE DEF q
  <2> QED
    BY <1>1, <1>2
<1>4. q \in [D -> D]
  <2>1. \A j \in D : (CHOOSE i \in D : p[i] = j) \in D
    BY <1>1
  <2> QED
    BY <2>1
<1>5. q \in Bijection(D, D)
  <2> HIDE DEF q
  <2>1. \A i, j \in D : q[i] = q[j] => i = j
    BY <1>2
  <2>2. \A j \in D : \E i \in D : q[i] = j
    BY <1>1, <1>3
  <2> QED
    BY <1>4, <2>1, <2>2, Permutation
<1> HIDE DEF q
<1> QED
  BY <1>2, <1>3, <1>5

(* Two lists are rearrangements of one another when one is of the other.   *)
LEMMA RearrangementsKept ==
  ASSUME NEW D, NEW s, DOMAIN s = D, NEW t, DOMAIN t = D,
         NEW q \in Bijection(D, D), \A i \in D : s[i] = t[q[i]]
  PROVE  Rearrangements(s) \subseteq Rearrangements(t)
<1> SUFFICES ASSUME NEW p \in Bijection(D, D)
             PROVE  [i \in D |-> s[p[i]]] \in Rearrangements(t)
  BY DEF Rearrangements
<1> DEFINE r == [i \in D |-> q[p[i]]]
<1>1. /\ p \in [D -> D]
      /\ \A i, j \in D : p[i] = p[j] => i = j
      /\ \A j \in D : \E i \in D : p[i] = j
      /\ q \in [D -> D]
      /\ \A i, j \in D : q[i] = q[j] => i = j
      /\ \A j \in D : \E i \in D : q[i] = j
  BY Permutation
<1>2. r \in Bijection(D, D)
  <2>1. r \in [D -> D] /\ \A i \in D : r[i] = q[p[i]]
    BY <1>1
  <2> HIDE DEF r
  <2>2. \A i, j \in D : r[i] = r[j] => i = j
    BY <1>1, <2>1
  <2>3. \A j \in D : \E i \in D : r[i] = j
    BY <1>1, <2>1
  <2> QED
    BY <2>1, <2>2, <2>3, Permutation
<1>3. [i \in D |-> s[p[i]]] = [i \in D |-> t[r[i]]]
  BY <1>1
<1> HIDE DEF r
<1> QED
  BY <1>2, <1>3 DEF Rearrangements

(* sort_der depends on the elements alone: two lists without repetitions   *)
(* that have the same elements are sorted into the same list.              *)
LEMMA SortedBySet ==
  ASSUME NEW S, NEW m \in Nat, NEW s \in [1..m -> S], NEW n \in Nat, NEW t \in [1..n -> S],
         IsInjective(s), IsInjective(t), Range(s) = Range(t),
         NEW rank
  PROVE  DerSorted(s, rank) = DerSorted(t, rank)
<1>1. m = n
  <2>1. s \in Bijection(1..m, Range(s)) /\ t \in Bijection(1..n, Range(s))
    <3>2. s \in [1..m -> Range(s)] /\ t \in [1..n -> Range(s)]
      BY DEF Range
    <3>3. /\ \A x \in Range(s) : \E i \in 1..m : s[i] = x
          /\ \A x \in Range(s) : \E i \in 1..n : t[i] = x
      BY DEF Range
    <3> QED
      BY <3>2, <3>3 DEF Bijection, Injection, Surjection
  <2>2. ExistsBijection(1..m, Range(s)) /\ ExistsBijection(1..n, Range(s))
    BY <2>1 DEF ExistsBijection
  <2> QED
    BY <2>2, FS_CountingElements
<1> DEFINE D == 1..m
           q == [i \in D |-> CHOOSE j \in D : t[j] = s[i]]
           p == [i \in D |-> CHOOSE j \in D : s[j] = t[i]]
<1>2. /\ \A i \in D : \E j \in D : t[j] = s[i]
      /\ \A i \in D : \E j \in D : s[j] = t[i]
  BY <1>1 DEF Range
<1>3. /\ q \in [D -> D] /\ \A i \in D : t[q[i]] = s[i]
      /\ p \in [D -> D] /\ \A i \in D : s[p[i]] = t[i]
  BY <1>2
<1>4. \A i, j \in D : (s[i] = s[j] => i = j) /\ (t[i] = t[j] => i = j)
  BY <1>1 DEF IsInjective
<1> HIDE DEF p, q
<1>5. ASSUME NEW i \in D PROVE p[q[i]] = i /\ q[p[i]] = i
  <2>1. q[i] \in D /\ p[i] \in D
    BY <1>3
  <2>2. p[q[i]] \in D /\ q[p[i]] \in D
    BY <1>3, <2>1
  <2>3. s[p[q[i]]] = s[i] /\ t[q[p[i]]] = t[i]
    BY <1>3, <2>1
  <2> QED
    BY <1>4, <2>2, <2>3
<1>6. q \in Bijection(D, D) /\ p \in Bijection(D, D)
  <2>1. \A i, j \in D : (q[i] = q[j] => i = j) /\ (p[i] = p[j] => i = j)
    BY <1>5
  <2>2. \A j \in D : p[j] \in D /\ q[j] \in D
    BY <1>3
  <2>3. \A j \in D : (\E i \in D : q[i] = j) /\ (\E i \in D : p[i] = j)
    BY <1>5, <2>2
  <2>4. q \in [D -> D] /\ p \in [D -> D]
    BY <1>3
  <2> HIDE DEF D
  <2> QED
    BY <2>1, <2>3, <2>4, Permutation
<1>7. Rearrangements(s) = Rearrangements(t)
  <2>1. DOMAIN s = D /\ DOMAIN t = D
    BY <1>1
  <2>2. \A i \in D : s[i] = t[q[i]] /\ t[i] = s[p[i]]
    BY <1>3
  <2> HIDE DEF D
  <2>3. Rearrangements(s) \subseteq Rearrangements(t)
    BY <1>6, <2>1, <2>2, RearrangementsKept
  <2>4. Rearrangements(t) \subseteq Rearrangements(s)
    BY <1>6, <2>1, <2>2, RearrangementsKept
  <2> QED
    BY <2>3, <2>4
<1>8. DOMAIN s = DOMAIN t
  BY <1>1
<1> QED
  BY <1>7, <1>8 DEF DerSorted

(* There is one sorted list.                                               *)
LEMMA SortedIsOne ==
  ASSUME NEW s, NEW rank, NEW t \in DerSorted(s, rank), NEW u \in DerSorted(s, rank)
  PROVE  t = u
BY DEF DerSorted

(* A sorted list is in order, and it is the list it was sorted from, read  *)
(* through a permutation.                                                  *)
LEMMA SortedPermutes ==
  ASSUME NEW s, NEW rank, NEW t \in DerSorted(s, rank), NEW D, DOMAIN s = D
  PROVE  /\ DOMAIN t = D
         /\ \A i, j \in D : i < j => rank[t[i]] <= rank[t[j]]
         /\ \E p, q \in Bijection(D, D) :
              \A i \in D : /\ p[i] \in D /\ t[i] = s[p[i]]
                           /\ q[i] \in D /\ s[i] = t[q[i]]
                           /\ q[p[i]] = i /\ p[q[i]] = i
<1>1. /\ t \in Rearrangements(s)
      /\ \A i, j \in D : i < j => rank[t[i]] <= rank[t[j]]
  BY DEF DerSorted
<1>2. PICK p \in Bijection(D, D) : t = [i \in D |-> s[p[i]]]
  BY <1>1 DEF Rearrangements
<1>3. PICK q \in Bijection(D, D) : \A i \in D : q[p[i]] = i /\ p[q[i]] = i
  BY PermutationInverse
<1>4. \A i \in D : p[i] \in D /\ q[i] \in D
  BY Permutation
<1>5. \A i \in D : t[i] = s[p[i]] /\ s[i] = t[q[i]]
  BY <1>2, <1>3, <1>4
<1> QED
  BY <1>1, <1>2, <1>3, <1>4, <1>5

----------------------------------------------------------------------------
(* One signer. *)

ExtraOk(extra) ==
  \A i \in DOMAIN extra :
    /\ extra[i].typ \notin {"contentType", "messageDigest", "signingTime"}
    /\ \A j \in 1..(i - 1) : extra[j].typ # extra[i].typ

(* What the checks before signing establish of a signer of a builder.      *)
SignerOk(b, s) ==
  LET alg == SigningAlgorithm(KeyAlg[s.key])
  IN  /\ alg # NoAlgorithm
      /\ s.digest = RequiredDigest(alg)
      /\ s.contentType = b.contentType
      /\ ExtraOk(s.extra)
      /\ s.certificate # None => CertInfo[s.certificate].key = s.key

(* The extra attributes that pass.                                         *)
LEMMA ExtraAccepted ==
  ASSUME NEW S, NEW extra \in Seq(S), ExtraAttributesError(extra) = "Ok"
  PROVE  ExtraOk(extra)
<1> DEFINE reserved(i) == \/ extra[i].typ \in {"contentType", "messageDigest", "signingTime"}
                          \/ \E j \in 1..(i - 1) : extra[j].typ = extra[i].typ
           checks == [i \in DOMAIN extra |->
                        Check(reserved(i) \/ extra[i].values = {},
                              IF reserved(i) THEN "DuplicateSignedAttribute"
                                             ELSE "EmptySignedAttributeValues")]
<1>1. FirstError(checks) = "Ok"
  BY DEF ExtraAttributesError
<1>2. Len(extra) \in Nat /\ DOMAIN checks = 1..Len(extra) /\ DOMAIN extra = 1..Len(extra)
  OBVIOUS
<1>3. \A i \in 1..Len(extra) : checks[i].error # "Ok" /\ (checks[i].fails <=> reserved(i) \/ extra[i].values = {})
  BY <1>2 DEF Check
<1>4. \A i \in 1..Len(extra) : ~checks[i].fails
  <2> HIDE DEF checks, reserved
  <2> QED
    BY <1>1, <1>2, <1>3, NoCheckFails
<1>5. \A i \in 1..Len(extra) : ~reserved(i)
  BY <1>3, <1>4
<1> QED
  BY <1>2, <1>5 DEF ExtraOk

(* A signer that is not refused.                                           *)
LEMMA SignerAccepted ==
  ASSUME NEW s \in SignerBuilderType, SignerError(s) = "Ok"
  PROVE  SignerOk(builder, s)
<1> DEFINE alg == SigningAlgorithm(KeyAlg[s.key])
           checks == <<
             Check(alg = NoAlgorithm, "X509Certificate"),
             Check(s.digest # RequiredDigest(alg), "SignatureDigestAlgorithmMismatch"),
             Check(s.contentType # builder.contentType, "SignedAttributeContentTypeMismatch"),
             Check(ExtraAttributesError(s.extra) # "Ok", ExtraAttributesError(s.extra)),
             Check(ConflictingDigest(s), "ConflictingDigestContent"),
             Check(s.certificate # None /\ CertInfo[s.certificate].key # s.key,
                   "SigningKeyCertificateMismatch") >>
<1>1. FirstError(checks) = "Ok"
  BY DEF SignerError
<1>2. DOMAIN checks = 1..6 /\ \A i \in 1..6 : checks[i].fails => checks[i].error # "Ok"
  <2>1. DOMAIN checks = 1..6
    OBVIOUS
  <2>2. \A i \in {1, 2, 3, 5, 6} : checks[i].error # "Ok"
    BY DEF Check
  <2>3. checks[4].fails => checks[4].error # "Ok"
    BY DEF Check
  <2>4. \A i \in 1..6 : i = 4 \/ i \in {1, 2, 3, 5, 6}
    OBVIOUS
  <2> HIDE DEF checks
  <2> QED
    BY <2>1, <2>2, <2>3, <2>4
<1>3. \A i \in 1..6 : ~checks[i].fails
  <2> HIDE DEF checks
  <2> QED
    BY <1>1, <1>2, NoCheckFails
<1>4. /\ ~checks[1].fails /\ ~checks[2].fails /\ ~checks[3].fails
      /\ ~checks[4].fails /\ ~checks[6].fails
  <2> HIDE DEF checks
  <2> QED
    BY <1>3
<1>5. ExtraAttributesError(s.extra) = "Ok"
  BY <1>4 DEF Check
<1>6. ExtraOk(s.extra)
  BY <1>5, ExtraAccepted DEF SignerBuilderType
<1> QED
  BY <1>4, <1>6 DEF Check, SignerOk

(* The signed attributes of a signer of a builder, before sorting.         *)
Unsorted(b, s) ==
  <<Attribute("contentType", {s.contentType}),
    Attribute("messageDigest", {Digest(s.digest, DigestedContent(b, s))}),
    Attribute("signingTime", {UtcTime(b.signingTime)})>> \o s.extra

AttributesFor(b, s) == SortedAttributes(Unsorted(b, s))

(* Two lists, joined.                                                      *)
LEMMA Joined ==
  ASSUME NEW S, NEW s \in Seq(S), NEW t \in Seq(S)
  PROVE  /\ Len(s) \in Nat /\ Len(t) \in Nat /\ DOMAIN t = 1..Len(t)
         /\ DOMAIN (s \o t) = 1..(Len(s) + Len(t))
         /\ \A i \in 1..(Len(s) + Len(t)) :
              (s \o t)[i] = IF i <= Len(s) THEN s[i] ELSE t[i - Len(s)]
<1>1. s \o t \in Seq(S) /\ Len(s \o t) = Len(s) + Len(t)
  OBVIOUS
<1> QED
  BY <1>1

(* They are of different types.                                            *)
LEMMA UnsortedShape ==
  ASSUME NEW b, NEW s \in SignerBuilderType, SignerOk(b, s)
  PROVE  LET list == Unsorted(b, s)
         IN  /\ DOMAIN list = 1..(3 + Len(s.extra)) /\ Len(s.extra) \in Nat
             /\ list[1] = Attribute("contentType", {s.contentType})
             /\ list[2] = Attribute("messageDigest", {Digest(s.digest, DigestedContent(b, s))})
             /\ list[3] = Attribute("signingTime", {UtcTime(b.signingTime)})
             /\ \A i \in DOMAIN list :
                  i > 3 => list[i].typ \notin {"contentType", "messageDigest", "signingTime"}
             /\ \A i, j \in DOMAIN list : list[i].typ = list[j].typ => i = j
<1> DEFINE a1 == Attribute("contentType", {s.contentType})
           a2 == Attribute("messageDigest", {Digest(s.digest, DigestedContent(b, s))})
           a3 == Attribute("signingTime", {UtcTime(b.signingTime)})
           T == {a1, a2, a3} \cup ExtraAttribute
           front == <<a1, a2, a3>>
           extra == s.extra
           list == Unsorted(b, s)
<1>1. a1.typ = "contentType" /\ a2.typ = "messageDigest" /\ a3.typ = "signingTime"
  BY DEF Attribute
<1>2. extra \in Seq(ExtraAttribute) /\ extra \in Seq(T)
  BY DEF SignerBuilderType
<1>3. list = front \o extra
  BY DEF Unsorted
<1> HIDE DEF a1, a2, a3, extra, list
<1>4. front \in Seq(T) /\ Len(front) = 3 /\ front[1] = a1 /\ front[2] = a2 /\ front[3] = a3
  OBVIOUS
<1> HIDE DEF front, T
<1>4a. /\ Len(extra) \in Nat /\ DOMAIN extra = 1..Len(extra)
       /\ DOMAIN list = 1..(3 + Len(extra))
       /\ \A i \in 1..(3 + Len(extra)) : list[i] = IF i <= 3 THEN front[i] ELSE extra[i - 3]
  <2>1. /\ Len(front) \in Nat /\ Len(extra) \in Nat /\ DOMAIN extra = 1..Len(extra)
        /\ DOMAIN (front \o extra) = 1..(Len(front) + Len(extra))
        /\ \A i \in 1..(Len(front) + Len(extra)) :
             (front \o extra)[i] = IF i <= Len(front) THEN front[i] ELSE extra[i - Len(front)]
    BY <1>2, <1>4, Joined
  <2> QED
    BY <1>3, <1>4, <2>1, Zenon
<1>5. /\ DOMAIN list = 1..(3 + Len(extra)) /\ Len(extra) \in Nat
      /\ DOMAIN extra = 1..Len(extra)
      /\ list[1] = a1 /\ list[2] = a2 /\ list[3] = a3
  BY <1>4, <1>4a
<1>6. \A i \in 4..(3 + Len(extra)) : list[i] = extra[i - 3]
  BY <1>4a
<1>7. \A i \in DOMAIN extra :
        /\ extra[i].typ \notin {"contentType", "messageDigest", "signingTime"}
        /\ \A j \in 1..(i - 1) : extra[j].typ # extra[i].typ
  BY DEF SignerOk, ExtraOk, extra
<1>8. ASSUME NEW i \in DOMAIN list, i > 3
      PROVE  /\ i - 3 \in DOMAIN extra /\ list[i] = extra[i - 3]
             /\ list[i].typ \notin {"contentType", "messageDigest", "signingTime"}
  BY <1>5, <1>6, <1>7, <1>8
<1>9. ASSUME NEW i \in DOMAIN list, NEW j \in DOMAIN list, i < j
      PROVE  list[i].typ # list[j].typ
  <2>1. i \in Nat /\ j \in Nat
    BY <1>5
  <2>2. CASE j <= 3
    BY <1>1, <1>5, <1>9, <2>1, <2>2
  <2>3. CASE j > 3 /\ i <= 3
    <3>1. i = 1 \/ i = 2 \/ i = 3
      BY <1>5, <2>3
    <3>2. list[i].typ \in {"contentType", "messageDigest", "signingTime"}
      BY <1>1, <1>5, <3>1
    <3> QED
      BY <1>8, <2>3, <3>2
  <2>4. CASE i > 3
    <3>1. /\ j - 3 \in DOMAIN extra /\ i - 3 \in 1..((j - 3) - 1)
          /\ list[i] = extra[i - 3] /\ list[j] = extra[j - 3]
      BY <1>8, <1>9, <2>1, <2>4
    <3> QED
      BY <1>7, <3>1
  <2> QED
    BY <2>1, <2>2, <2>3, <2>4
<1>10. \A i, j \in DOMAIN list : list[i].typ = list[j].typ => i = j
  <2>1. \A i, j \in DOMAIN list : i < j \/ j < i \/ i = j
    BY <1>5
  <2> QED
    BY <1>9, <2>1
<1> QED
  BY <1>5, <1>8, <1>10 DEF a1, a2, a3, extra, list

(* The signed attributes, sorted: in DER order, no type twice, and the     *)
(* three that the crate reads have the values it was given.                *)
LEMMA AttributesShape ==
  ASSUME NEW b, NEW s \in SignerBuilderType, SignerOk(b, s),
         NEW attributes \in AttributesFor(b, s)
  PROVE  /\ Canonical(attributes)
         /\ ~Repeats(attributes)
         /\ Values(attributes, "contentType") = {s.contentType}
         /\ Values(attributes, "messageDigest") = {Digest(s.digest, DigestedContent(b, s))}
         /\ Values(attributes, "signingTime") = {UtcTime(b.signingTime)}
<1> DEFINE list == Unsorted(b, s)
           D == DOMAIN list
           rank == [a \in Range(list) |-> AttributeRank[a.typ]]
<1>1. /\ D = 1..(3 + Len(s.extra)) /\ Len(s.extra) \in Nat
      /\ list[1] = Attribute("contentType", {s.contentType})
      /\ list[2] = Attribute("messageDigest", {Digest(s.digest, DigestedContent(b, s))})
      /\ list[3] = Attribute("signingTime", {UtcTime(b.signingTime)})
      /\ \A i \in D : i > 3 => list[i].typ \notin {"contentType", "messageDigest", "signingTime"}
      /\ \A i, j \in D : list[i].typ = list[j].typ => i = j
  BY UnsortedShape
<1>2. attributes \in DerSorted(list, rank)
  BY DEF AttributesFor, SortedAttributes
<1>5. /\ DOMAIN attributes = D
      /\ \A i, j \in D : i < j => rank[attributes[i]] <= rank[attributes[j]]
      /\ \E p, q \in Bijection(D, D) :
           \A i \in D : /\ p[i] \in D /\ attributes[i] = list[p[i]]
                        /\ q[i] \in D /\ list[i] = attributes[q[i]]
                        /\ q[p[i]] = i /\ p[q[i]] = i
  <2> HIDE DEF rank
  <2> QED
    BY <1>2, SortedPermutes
<1>6. PICK p, q \in Bijection(D, D) :
        \A i \in D : /\ p[i] \in D /\ attributes[i] = list[p[i]]
                     /\ q[i] \in D /\ list[i] = attributes[q[i]]
                     /\ q[p[i]] = i /\ p[q[i]] = i
  BY <1>5
<1>7. Canonical(attributes)
  <2>1. \A i \in D : rank[attributes[i]] = AttributeRank[attributes[i].typ]
    <3>1. \A i \in D : attributes[i] \in Range(list)
      BY <1>6 DEF Range
    <3> QED
      BY <3>1
  <2> HIDE DEF rank
  <2> QED
    BY <1>5, <2>1 DEF Canonical
<1> HIDE DEF list, rank
<1>8. ~Repeats(attributes)
  <2>1. ASSUME NEW i \in D, NEW j \in D, attributes[i].typ = attributes[j].typ PROVE i = j
    <3>1. p[i] = p[j]
      BY <1>1, <1>6, <2>1
    <3> QED
      BY <1>6, <3>1
  <2> QED
    BY <1>5, <2>1 DEF Repeats
<1>9. ASSUME NEW typ, NEW v, NEW k \in D, list[k] = Attribute(typ, v)
      PROVE  Values(attributes, typ) = v
  <2>1. list[k].typ = typ /\ list[k].values = v
    BY <1>9 DEF Attribute
  <2>2. \A i \in D : attributes[i].typ = typ => p[i] = k
    BY <1>1, <1>6, <2>1
  <2>3. {j \in DOMAIN attributes : attributes[j].typ = typ} = {q[k]}
    <3>1. q[k] \in D /\ attributes[q[k]].typ = typ
      BY <1>6, <2>1
    <3>2. \A i \in D : p[i] = k => i = q[k]
      BY <1>6
    <3>3. \A i \in DOMAIN attributes : attributes[i].typ = typ <=> i = q[k]
      BY <1>5, <2>2, <3>1, <3>2
    <3>4. q[k] \in DOMAIN attributes
      BY <1>5, <3>1
    <3> QED
      BY <3>3, <3>4
  <2>4. attributes[q[k]].values = v
    BY <1>6, <2>1
  <2> QED
    BY <2>3, <2>4 DEF Values
<1>10. 1 \in D /\ 2 \in D /\ 3 \in D
  BY <1>1
<1> QED
  BY <1>1, <1>7, <1>8, <1>9, <1>10

----------------------------------------------------------------------------
(* What a build has put together: of the signers it is done with, each was *)
(* accepted and left its signer information, its digest, its certificate   *)
(* and its part in the version.                                            *)

(* A signer's identifier is that of its certificate, and what was set as   *)
(* content is a content.                                                   *)
SidFits(s) == s.certificate # None => s.sid = IssuerAndSerial(s.certificate)
ContentFits(b) == b.content.kind # "None" => b.content.data \in Data

BuilderFits(b) ==
  /\ b \in BuilderType
  /\ \A k \in DOMAIN b.signers : SidFits(b.signers[k])
  /\ ContentFits(b)

OneToken(attributes) ==
  /\ attributes = <<Attribute("timeStampToken", attributes[1].values)>>
  /\ Single(attributes[1].values)

(* This is the signer information of a signer of a builder, stamped if it  *)
(* was to be.                                                              *)
InfoOf(b, s, info) ==
  \E attributes \in AttributesFor(b, s) :
    /\ info = [SignerInfo(s, attributes) EXCEPT !.unsignedAttributes = info.unsignedAttributes]
    /\ IF s.url THEN OneToken(info.unsignedAttributes) ELSE info.unsignedAttributes = None

Waits(j) == j.pc \in {"requesting", "stamping"}
Turns(j) == 1..(IF Waits(j) THEN Len(j.infos) + 1 ELSE Len(j.infos))

UsesKeyIdentifier(b, K) == \E k \in K : b.signers[k].sid.form = "SubjectKeyIdentifier"

InfosAssembled(b, j) ==
  /\ \A i \in DOMAIN j.infos : InfoOf(b, b.signers[i], j.infos[i])
  /\ Waits(j) =>
       LET s == b.signers[Len(j.infos) + 1]
       IN  /\ s.url
           /\ \E attributes \in AttributesFor(b, s) : j.pending = SignerInfo(s, attributes)

RestAssembled(b, j) ==
  /\ \A k \in Turns(j) : SignerOk(b, b.signers[k])
  /\ j.digests = {b.signers[k].digest : k \in Turns(j)}
  /\ Range(j.certificates) = Range(b.certificates)
                            \cup ({b.signers[k].certificate : k \in Turns(j)} \ {None})
  /\ j.version = IF b.contentType # IdData \/ UsesKeyIdentifier(b, Turns(j)) THEN 3 ELSE 1

JobAssembled == job.pc # "idle" => InfosAssembled(builder, job) /\ RestAssembled(builder, job)
SettersFit ==
  /\ BuilderFits(builder)
  /\ draft # None => SidFits(draft)

(* Messages, as an operator of the builder and of the finished job.        *)
DigestsInOrder(ids) == DerSorted(ids, [id \in Range(ids) |-> DigestRank(id.digest)])
ChoicesInOrder(choices) ==
  DerSorted(choices, [choice \in Range(choices) |-> CertInfo[choice.cert].der])
InfosInOrder(infos) == DerSorted(infos, [info \in Range(infos) |-> 0])

MessagesOf(b, j) ==
  {[version          |-> j.version,
    digestAlgorithms |-> digests,
    contentType      |-> b.contentType,
    content          |-> IF b.content.kind = "Inline" THEN b.content.data ELSE None,
    certificates     |-> IF certs = <<>> THEN None ELSE certs,
    signerInfos      |-> infos] :
     digests \in UNION {DigestsInOrder(Identifiers(e)) : e \in Iterations(j.digests)},
     certs \in ChoicesInOrder(Choices(j.certificates)),
     infos \in InfosInOrder(j.infos)}

(* The job is done with every signer.                                      *)
Complete(b, j, S) ==
  /\ ~Waits(j)
  /\ j.infos \in Seq(S)
  /\ Len(j.infos) = Len(b.signers)
  /\ j.digests \subseteq DigestAlgorithm
  /\ j.certificates \in Seq(SigningCert)
  /\ Distinct(j.certificates)
  /\ InfosAssembled(b, j)
  /\ RestAssembled(b, j)

BuiltFrom(b, m) ==
  /\ BuilderFits(b)
  /\ \E j, S : Complete(b, j, S) /\ m \in MessagesOf(b, j)

AssemblyInv ==
  /\ BuilderInv
  /\ SettersFit
  /\ JobAssembled
  /\ \A r \in built : BuiltFrom(r.from, r.message)

----------------------------------------------------------------------------
(* Every step keeps it. *)

(* The setters keep identifiers and certificates together.                 *)
LEMMA SettersKeep ==
  ASSUME BuilderInv, BuilderInv', SettersFit, Configure
  PROVE  SettersFit'
<1>1. /\ builder \in BuilderType /\ builder' \in BuilderType
      /\ draft \in SignerBuilderType \cup {None}
  BY DEF BuilderInv, BuilderTypeOK
<1>2. /\ \A k \in DOMAIN builder.signers : SidFits(builder.signers[k])
      /\ ContentFits(builder)
      /\ draft # None => SidFits(draft)
  BY DEF SettersFit, BuilderFits
<1>3. ASSUME NEW d, SetDraft(d), SidFits(d) PROVE SettersFit'
  BY <1>1, <1>2, <1>3 DEF SetDraft, SettersFit, BuilderFits
<1>4. ASSUME NEW d, SetDraft(d), draft # None,
             d.sid = draft.sid, d.certificate = draft.certificate
      PROVE  SettersFit'
  BY <1>2, <1>3, <1>4 DEF SidFits
<1>5. ASSUME NEW b, SetBuilder(b), b.signers = builder.signers, ContentFits(b)
      PROVE  SettersFit'
  BY <1>1, <1>2, <1>5 DEF SetBuilder, SettersFit, BuilderFits
<1>6. ASSUME MayDraft PROVE draft \in SignerBuilderType /\ draft # None
  BY <1>1, <1>6 DEF MayDraft
<1>7. ASSUME NEW data \in Data, ContentInline(data) \/ ContentExternal(data) PROVE SettersFit'
  <2>1. ASSUME NEW kind \in {"Inline", "External"},
               SetBuilder([builder EXCEPT !.content = [kind |-> kind, data |-> data]])
        PROVE  SettersFit'
    <3> DEFINE b == [builder EXCEPT !.content = [kind |-> kind, data |-> data]]
    <3>1. b.signers = builder.signers /\ ContentFits(b)
      BY <1>1 DEF BuilderType, ContentFits
    <3> HIDE DEF b
    <3> QED
      BY <1>5, <2>1, <3>1 DEF b
  <2> QED
    BY <1>7, <2>1 DEF ContentInline, ContentExternal
<1>8. ASSUME NEW typ \in TypeChoice, BuilderContentType(typ) PROVE SettersFit'
  <2> DEFINE b == [builder EXCEPT !.contentType = typ]
  <2>1. b.signers = builder.signers /\ ContentFits(b)
    BY <1>1, <1>2 DEF BuilderType, ContentFits
  <2> HIDE DEF b
  <2> QED
    BY <1>5, <1>8, <2>1 DEF BuilderContentType, b
<1>9. ASSUME NEW year \in Year, SigningTime(year) PROVE SettersFit'
  <2> DEFINE b == [builder EXCEPT !.signingTime = year]
  <2>1. b.signers = builder.signers /\ ContentFits(b)
    BY <1>1, <1>2 DEF BuilderType, ContentFits
  <2> HIDE DEF b
  <2> QED
    BY <1>5, <1>9, <2>1 DEF SigningTime, b
<1>10. ASSUME NEW c \in SigningCert, Certificate(c) PROVE SettersFit'
  <2> DEFINE b == [builder EXCEPT !.certificates = WithCertificate(@, c)]
  <2>1. b.signers = builder.signers /\ ContentFits(b)
    BY <1>1, <1>2 DEF BuilderType, ContentFits
  <2> HIDE DEF b
  <2> QED
    BY <1>5, <1>10, <2>1 DEF Certificate, b
<1>11. ASSUME NEW key \in SigningKey, NEW cert \in SigningCert, StartSigner(key, cert)
       PROVE  SettersFit'
  BY <1>3, <1>11 DEF StartSigner, NewSigner, SidFits
<1>12. ASSUME NEW key \in SigningKey, NEW id \in SigningKeyId, StartSignerWithIdentifier(key, id)
       PROVE  SettersFit'
  BY <1>3, <1>12 DEF StartSignerWithIdentifier, NewSigner, SidFits
<1>13. ASSUME NEW typ \in TypeChoice, SignerContentType(typ) PROVE SettersFit'
  BY <1>4, <1>6, <1>13 DEF SignerContentType, SignerBuilderType
<1>14. ASSUME NEW digest \in DigestChoice, SignerDigest(digest) PROVE SettersFit'
  BY <1>4, <1>6, <1>14 DEF SignerDigest, SignerBuilderType
<1>15. ASSUME NEW data \in Data, MessageIdContent(data) \/ DetachedMessageDigest(data)
       PROVE  SettersFit'
  BY <1>4, <1>6, <1>15 DEF MessageIdContent, DetachedMessageDigest, SignerBuilderType
<1>16. ASSUME NEW attribute \in ExtraAttribute, SignedAttribute(attribute) PROVE SettersFit'
  BY <1>4, <1>6, <1>16 DEF SignedAttribute, SignerBuilderType
<1>17. ASSUME TimeStampUrl PROVE SettersFit'
  BY <1>4, <1>6, <1>17 DEF TimeStampUrl, SignerBuilderType
<1>18. ASSUME AddSigner PROVE SettersFit'
  <2> DEFINE more == Append(builder.signers, draft)
  <2>1. draft # None /\ draft' = None /\ builder' = [builder EXCEPT !.signers = more]
        /\ draft \in SignerBuilderType
    BY <1>6, <1>18 DEF AddSigner, MayDraft
  <2>2. builder.signers \in Seq(SignerBuilderType)
    BY <1>1 DEF BuilderType
  <2>3. \A k \in DOMAIN more : SidFits(more[k])
    <3>1. \A k \in DOMAIN more :
            more[k] = draft \/ (k \in DOMAIN builder.signers /\ more[k] = builder.signers[k])
      BY <2>1, <2>2
    <3> QED
      BY <1>2, <2>1, <3>1
  <2> HIDE DEF more
  <2>4. builder'.signers = more /\ builder'.content = builder.content
    BY <1>1, <2>1 DEF BuilderType
  <2> QED
    BY <1>1, <1>2, <2>1, <2>3, <2>4 DEF SettersFit, BuilderFits, ContentFits
<1> QED
  BY <1>7, <1>8, <1>9, <1>10, <1>11, <1>12, <1>13, <1>14, <1>15, <1>16, <1>17, <1>18 DEF Configure

(* The fields of a signer information that Sign makes.                     *)
LEMMA SignerInfoFields ==
  ASSUME NEW s, NEW attributes, NEW info, info = SignerInfo(s, attributes)
  PROVE  /\ info.version = SignerVersion(s.sid)
         /\ info.sid = s.sid
         /\ info.digestAlgorithm = DigestIdentifier(s.digest)
         /\ info.signedAttributes = attributes
         /\ info.signatureAlgorithm = AlgorithmIdentifier(SigningAlgorithm(KeyAlg[s.key]))
         /\ info.signature.key = s.key
         /\ info.signature = Signature(s.key, SigningAlgorithm(KeyAlg[s.key]),
                                       IF attributes # None
                                         THEN [covers |-> "attributes", value |-> attributes]
                                         ELSE [covers |-> "content", value |-> Empty])
         /\ info.unsignedAttributes = None
         /\ DOMAIN info = {"version", "sid", "digestAlgorithm", "signedAttributes",
                           "signatureAlgorithm", "signature", "unsignedAttributes"}
<1> DEFINE alg == SigningAlgorithm(KeyAlg[s.key])
           message == IF attributes # None
                        THEN [covers |-> "attributes", value |-> attributes]
                        ELSE [covers |-> "content", value |-> Empty]
           signature == Signature(s.key, alg, message)
<1>1. info = [version            |-> SignerVersion(s.sid),
              sid                |-> s.sid,
              digestAlgorithm    |-> DigestIdentifier(s.digest),
              signedAttributes   |-> attributes,
              signatureAlgorithm |-> AlgorithmIdentifier(alg),
              signature          |-> signature,
              unsignedAttributes |-> None]
  BY DEF SignerInfo, SignedMessage
<1>2. signature.key = s.key
  BY DEF Signature
<1> HIDE DEF alg, signature
<1> QED
  BY <1>1, <1>2 DEF alg, signature

(* It has no unsigned attributes.                                          *)
LEMMA SignerInfoUnstamped ==
  ASSUME NEW s, NEW attributes, NEW info, info = SignerInfo(s, attributes)
  PROVE  /\ info.unsignedAttributes = None
         /\ info = [info EXCEPT !.unsignedAttributes = info.unsignedAttributes]
<1> DEFINE signature == Signature(s.key, SigningAlgorithm(KeyAlg[s.key]),
                                  IF attributes # None
                                    THEN [covers |-> "attributes", value |-> attributes]
                                    ELSE [covers |-> "content", value |-> Empty])
<1>1. info = [version            |-> SignerVersion(s.sid),
              sid                |-> s.sid,
              digestAlgorithm    |-> DigestIdentifier(s.digest),
              signedAttributes   |-> attributes,
              signatureAlgorithm |-> AlgorithmIdentifier(SigningAlgorithm(KeyAlg[s.key])),
              signature          |-> signature,
              unsignedAttributes |-> None]
  BY DEF SignerInfo, SignedMessage
<1> HIDE DEF signature
<1> QED
  BY <1>1

(* The certificates, with one pushed.                                      *)
LEMMA CertificatePushed ==
  ASSUME NEW S, NEW certs \in Seq(S), NEW c, NEW more, more = WithCertificate(certs, c)
  PROVE  Range(more) = Range(certs) \cup {c}
<1>1. CASE \E i \in DOMAIN certs : certs[i] = c
  BY <1>1 DEF WithCertificate, Range
<1>2. CASE ~\E i \in DOMAIN certs : certs[i] = c
  <2>1. more = Append(certs, c)
    BY <1>2 DEF WithCertificate
  <2>2. /\ DOMAIN more = DOMAIN certs \cup {Len(certs) + 1}
        /\ more[Len(certs) + 1] = c
        /\ \A i \in DOMAIN certs : more[i] = certs[i]
    BY <2>1
  <2> QED
    BY <2>2 DEF Range
<1> QED
  BY <1>1, <1>2

(* A job whose parts did not change, and one that did one more signer.     *)
LEMMA RestKept ==
  ASSUME NEW b, NEW j, NEW k, RestAssembled(b, j), Turns(k) = Turns(j),
         k.digests = j.digests, k.certificates = j.certificates, k.version = j.version
  PROVE  RestAssembled(b, k)
BY DEF RestAssembled

LEMMA RestExtended ==
  ASSUME NEW b, NEW j, NEW k, NEW n \in Nat, RestAssembled(b, j),
         Turns(j) = 1..n, Turns(k) = 1..(n + 1),
         NEW s, s = b.signers[n + 1], SignerOk(b, s),
         k.digests = j.digests \cup {s.digest},
         Range(k.certificates) = Range(j.certificates) \cup ({s.certificate} \ {None}),
         k.version = IF s.sid.form = "SubjectKeyIdentifier" THEN 3 ELSE j.version
  PROVE  RestAssembled(b, k)
<1>1. Turns(k) = Turns(j) \cup {n + 1}
  OBVIOUS
<1>2. \A i \in Turns(k) : SignerOk(b, b.signers[i])
  BY <1>1 DEF RestAssembled
<1>3. k.digests = {b.signers[i].digest : i \in Turns(k)}
  BY <1>1 DEF RestAssembled
<1>4. Range(k.certificates) = Range(b.certificates)
                             \cup ({b.signers[i].certificate : i \in Turns(k)} \ {None})
  BY <1>1 DEF RestAssembled
<1>5. k.version = IF b.contentType # IdData \/ UsesKeyIdentifier(b, Turns(k)) THEN 3 ELSE 1
  BY <1>1 DEF RestAssembled, UsesKeyIdentifier
<1> QED
  BY <1>2, <1>3, <1>4, <1>5 DEF RestAssembled

(* Signing a signer, whose turn it is.                                     *)
LEMMA SignAssembles ==
  ASSUME BuilderInv, JobAssembled, Sign
  PROVE  InfosAssembled(builder, job') /\ RestAssembled(builder, job')
<1>0. PICK s : s = CurrentSigner
  OBVIOUS
<1> DEFINE n == Len(job.infos)
<1>1. PICK attributes \in SignedAttributes(s) :
        LET info == SignerInfo(s, attributes)
        IN  job' = [job EXCEPT
              !.pc = IF s.url THEN "requesting" ELSE "signing",
              !.infos = IF s.url THEN @ ELSE Append(@, info),
              !.pending = IF s.url THEN info ELSE None,
              !.digests = @ \cup {s.digest},
              !.certificates = IF s.certificate = None THEN @
                               ELSE WithCertificate(@, s.certificate),
              !.version = IF s.sid.form = "SubjectKeyIdentifier" THEN 3 ELSE @]
  BY <1>0 DEF Sign
<1>1a. PICK info : info = SignerInfo(s, attributes)
  OBVIOUS
<1> DEFINE infos == IF s.url THEN job.infos ELSE Append(job.infos, info)
           certs == IF s.certificate = None THEN job.certificates
                    ELSE WithCertificate(job.certificates, s.certificate)
           version == IF s.sid.form = "SubjectKeyIdentifier" THEN 3 ELSE job.version
<1>2. PICK S : job \in JobType(S, job.error)
  BY DEF BuilderInv, PartsOk, JobOk
<1>3. /\ job.pc = "signing" /\ SignerError(s) = "Ok"
      /\ InfosAssembled(builder, job) /\ RestAssembled(builder, job)
  BY <1>0 DEF Sign, JobAssembled
<1>4. /\ n \in Nat /\ DOMAIN job.infos = 1..n /\ s = builder.signers[n + 1]
      /\ job.infos \in Seq(S) /\ job.certificates \in Seq(SigningCert)
  BY <1>0, <1>2 DEF JobType, CurrentSigner
<1>5. s \in SignerBuilderType
  <2>1. /\ builder.signers \in Seq(SignerBuilderType)
        /\ n < Len(builder.signers)
    BY DEF BuilderInv, BuilderTypeOK, BuilderType, Sign, SignersLeft
  <2>2. n + 1 \in 1..Len(builder.signers)
    BY <1>4, <2>1
  <2> QED
    BY <1>4, <2>1, <2>2
<1>6. SignerOk(builder, s) /\ s.url \in BOOLEAN /\ attributes \in AttributesFor(builder, s)
  BY <1>3, <1>5, SignerAccepted DEF SignerBuilderType, AttributesFor, Unsorted, SignedAttributes
<1>7. info = [info EXCEPT !.unsignedAttributes = info.unsignedAttributes]
      /\ info.unsignedAttributes = None
  BY <1>1a, SignerInfoUnstamped
<1> HIDE DEF n, infos, certs, version
<1>8. job' = [job EXCEPT !.pc = IF s.url THEN "requesting" ELSE "signing",
                         !.infos = infos,
                         !.pending = IF s.url THEN info ELSE None,
                         !.digests = job.digests \cup {s.digest},
                         !.certificates = certs,
                         !.version = version]
  BY <1>1, <1>1a DEF infos, certs, version
<1>9. /\ job'.pc = IF s.url THEN "requesting" ELSE "signing"
      /\ job'.infos = infos /\ (s.url => job'.pending = info)
      /\ job'.digests = job.digests \cup {s.digest}
      /\ job'.certificates = certs /\ job'.version = version
  BY <1>2, <1>8 DEF JobType
<1>10. Len(job.infos) = n
  BY DEF n
<1>11. ASSUME ~s.url
       PROVE  /\ infos = Append(job.infos, info) /\ Len(infos) = n + 1
              /\ \A i \in DOMAIN infos : infos[i] = IF i = n + 1 THEN info ELSE job.infos[i]
              /\ \A i \in DOMAIN infos : i = n + 1 \/ i \in DOMAIN job.infos
  <2>1. infos = Append(job.infos, info)
    BY <1>11 DEF infos
  <2> QED
    BY <1>4, <1>10, <2>1
<1>12. ASSUME s.url PROVE infos = job.infos
  BY <1>12 DEF infos
<1>13. Turns(job) = 1..n /\ Turns(job') = 1..(n + 1)
  <2>1. Turns(job) = 1..n
    BY <1>3, <1>10 DEF Turns, Waits
  <2>2. CASE s.url
    <3>1. Waits(job') /\ Len(job'.infos) = n
      BY <1>9, <1>10, <1>12, <2>2 DEF Waits
    <3> QED
      BY <2>1, <3>1 DEF Turns
  <2>3. CASE ~s.url
    <3>1. ~Waits(job') /\ Len(job'.infos) = n + 1
      BY <1>9, <1>11, <2>3 DEF Waits
    <3> QED
      BY <2>1, <3>1 DEF Turns
  <2> QED
    BY <2>2, <2>3
<1>14. Range(job'.certificates) = Range(job.certificates) \cup ({s.certificate} \ {None})
  <2>1. CASE s.certificate = None
    BY <1>9, <2>1 DEF certs
  <2>2. CASE s.certificate # None
    <3>1. certs = WithCertificate(job.certificates, s.certificate)
      BY <2>2 DEF certs
    <3>2. Range(certs) = Range(job.certificates) \cup {s.certificate}
      BY <1>4, <3>1, CertificatePushed
    <3> QED
      BY <1>9, <2>2, <3>2
  <2> QED
    BY <2>1, <2>2
<1>15. RestAssembled(builder, job')
  <2>1. job'.version = IF s.sid.form = "SubjectKeyIdentifier" THEN 3 ELSE job.version
    BY <1>9 DEF version
  <2> QED
    BY <1>3, <1>4, <1>6, <1>9, <1>13, <1>14, <2>1, RestExtended
<1>16. InfosAssembled(builder, job')
  <2>1. CASE s.url
    <3>1. \E a \in AttributesFor(builder, s) : info = SignerInfo(s, a)
      BY <1>1a, <1>6
    <3>2. Len(infos) + 1 = n + 1
      BY <1>10, <1>12, <2>1
    <3> QED
      BY <1>3, <1>4, <1>9, <1>12, <2>1, <3>1, <3>2 DEF InfosAssembled
  <2>2. CASE ~s.url
    <3>1. InfoOf(builder, s, info)
      <4>1. info = [SignerInfo(s, attributes) EXCEPT !.unsignedAttributes = info.unsignedAttributes]
        BY <1>1a, <1>7
      <4> QED
        BY <1>6, <1>7, <2>2, <4>1 DEF InfoOf
    <3>2. \A i \in DOMAIN infos : InfoOf(builder, builder.signers[i], infos[i])
      BY <1>3, <1>4, <1>11, <2>2, <3>1 DEF InfosAssembled
    <3>3. ~Waits(job')
      BY <1>9, <2>2 DEF Waits
    <3> QED
      BY <1>9, <3>2, <3>3 DEF InfosAssembled
  <2> QED
    BY <2>1, <2>2
<1> QED
  BY <1>15, <1>16

(* Asking for a stamp, and attaching it.                                   *)
LEMMA RequestAssembles ==
  ASSUME BuilderInv, JobAssembled, RequestStamp
  PROVE  InfosAssembled(builder, job') /\ RestAssembled(builder, job')
<1>1. PICK S : job \in JobType(S, job.error)
  BY DEF BuilderInv, PartsOk, JobOk
<1>2. /\ job.pc = "requesting" /\ job' = [job EXCEPT !.pc = "stamping"]
      /\ InfosAssembled(builder, job) /\ RestAssembled(builder, job)
  BY DEF RequestStamp, JobAssembled
<1>3. /\ job'.pc = "stamping" /\ job'.infos = job.infos /\ job'.pending = job.pending
      /\ job'.digests = job.digests /\ job'.certificates = job.certificates
      /\ job'.version = job.version
  BY <1>1, <1>2 DEF JobType
<1>4. Waits(job) /\ Waits(job') /\ Turns(job') = Turns(job)
  BY <1>2, <1>3 DEF Waits, Turns
<1>5. RestAssembled(builder, job')
  BY <1>2, <1>3, <1>4, RestKept
<1> QED
  BY <1>2, <1>3, <1>4, <1>5 DEF InfosAssembled

LEMMA AttachAssembles ==
  ASSUME BuilderInv, JobAssembled, AttachStamp
  PROVE  InfosAssembled(builder, job') /\ RestAssembled(builder, job')
<1> DEFINE n == Len(job.infos)
           s == builder.signers[n + 1]
           token == client.reply.token
           tokens == <<Attribute("timeStampToken", {token})>>
           info == [job.pending EXCEPT !.unsignedAttributes = tokens]
           infos == Append(job.infos, info)
<1>1. PICK S : job \in JobType(S, job.error)
  BY DEF BuilderInv, PartsOk, JobOk
<1>2. /\ job.pc = "stamping"
      /\ job' = [job EXCEPT !.pc = "signing", !.infos = infos, !.pending = None]
      /\ InfosAssembled(builder, job) /\ RestAssembled(builder, job)
  BY DEF AttachStamp, JobAssembled
<1>3. n \in Nat /\ DOMAIN job.infos = 1..n /\ job.infos \in Seq(S)
  BY <1>1 DEF JobType
<1>4. PICK attributes \in AttributesFor(builder, s) : job.pending = SignerInfo(s, attributes)
  BY <1>2 DEF InfosAssembled, Waits
<1>5. s.url
  BY <1>2 DEF InfosAssembled, Waits
<1>6. OneToken(tokens)
  <2>1. tokens[1].values = {token}
    BY DEF Attribute
  <2> QED
    BY <2>1 DEF OneToken, Single
<1>7. InfoOf(builder, s, info)
  <2>1. info.unsignedAttributes = tokens
    <3> HIDE DEF tokens
    <3> QED
      BY <1>4, SignerInfoFields
  <2>2. info = [SignerInfo(s, attributes) EXCEPT !.unsignedAttributes = info.unsignedAttributes]
    BY <1>4, <2>1
  <2> HIDE DEF info, tokens
  <2> QED
    BY <1>4, <1>5, <1>6, <2>1, <2>2 DEF InfoOf
<1>8. Len(infos) = n + 1
      /\ \A i \in DOMAIN infos : \/ i = n + 1 /\ infos[i] = info
                                 \/ i \in DOMAIN job.infos /\ infos[i] = job.infos[i]
  <2> HIDE DEF info
  <2> QED
    BY <1>3
<1> HIDE DEF infos
<1>9. /\ job'.pc = "signing" /\ job'.infos = infos
      /\ job'.digests = job.digests /\ job'.certificates = job.certificates
      /\ job'.version = job.version
  BY <1>1, <1>2 DEF JobType
<1>10. Turns(job') = Turns(job) /\ ~Waits(job')
  BY <1>2, <1>8, <1>9 DEF Turns, Waits
<1>11. RestAssembled(builder, job')
  BY <1>2, <1>9, <1>10, RestKept
<1>12. \A i \in DOMAIN infos : InfoOf(builder, builder.signers[i], infos[i])
  <2> HIDE DEF info
  <2> QED
    BY <1>2, <1>7, <1>8 DEF InfosAssembled
<1> QED
  BY <1>9, <1>10, <1>11, <1>12 DEF InfosAssembled

(* A build that begins has done no signer.                                 *)
LEMMA BeginAssembles ==
  ASSUME BuilderInv, BeginBuild
  PROVE  InfosAssembled(builder, job') /\ RestAssembled(builder, job')
<1>1. /\ job'.pc = "signing" /\ job'.infos = <<>> /\ job'.digests = {}
      /\ job'.certificates = builder.certificates
      /\ job'.version = IF builder.contentType = IdData THEN 1 ELSE 3
  BY DEF BeginBuild, NoJob
<1>2. Turns(job') = {} /\ ~Waits(job')
  BY <1>1 DEF Turns, Waits
<1> QED
  BY <1>1, <1>2
  DEF InfosAssembled, RestAssembled, UsesKeyIdentifier

(* A message that a build returns.                                         *)
LEMMA FinishAssembles ==
  ASSUME AssemblyInv, FinishBuild, NEW message \in Messages
  PROVE  BuiltFrom(builder, message)
<1>1. PICK S : job \in JobType(S, job.error)
  BY DEF AssemblyInv, BuilderInv, PartsOk, JobOk
<1>2. job.pc = "signing" /\ Len(job.infos) = Len(builder.signers)
  <2>1. Len(job.infos) \in Nat /\ Len(builder.signers) \in Nat
        /\ Len(job.infos) <= Len(builder.signers)
    BY <1>1 DEF JobType, AssemblyInv, BuilderInv, BuilderTypeOK, JobTypeOK, BuilderType
  <2> QED
    BY <2>1 DEF FinishBuild, SignersLeft
<1>3. Complete(builder, job, S)
  <2>1. Distinct(job.certificates)
    BY DEF AssemblyInv, BuilderInv, BuilderTypeOK
  <2>2. InfosAssembled(builder, job) /\ RestAssembled(builder, job)
    BY <1>2 DEF AssemblyInv, JobAssembled
  <2> QED
    BY <1>1, <1>2, <2>1, <2>2 DEF Complete, Waits, JobType
<1>4. message \in MessagesOf(builder, job)
  <2>1. SortedDigests = UNION {DigestsInOrder(Identifiers(e)) : e \in Iterations(job.digests)}
    BY DEF SortedDigests, DigestsInOrder
  <2>2. SortedCertificates = ChoicesInOrder(Choices(job.certificates))
    BY DEF SortedCertificates, ChoicesInOrder
  <2>3. SortedInfos = InfosInOrder(job.infos)
    BY DEF SortedInfos, InfosInOrder
  <2> QED
    BY <2>1, <2>2, <2>3 DEF Messages, MessagesOf
<1> QED
  BY <1>3, <1>4 DEF BuiltFrom, AssemblyInv, SettersFit

(* Every step keeps the invariant.                                         *)
LEMMA AssemblyNext == AssemblyInv /\ [BuilderNext]_vars => AssemblyInv'
<1> SUFFICES ASSUME AssemblyInv, [BuilderNext]_vars PROVE AssemblyInv'
  OBVIOUS
<1>1. BuilderInv /\ BuilderInv' /\ SettersFit /\ JobAssembled
      /\ \A r \in built : BuiltFrom(r.from, r.message)
  BY BuilderNextInv DEF AssemblyInv
<1>2. ASSUME UNCHANGED <<builder, draft, built>>,
             \/ job'.pc = "idle" \/ job' = job
             \/ InfosAssembled(builder, job') /\ RestAssembled(builder, job')
      PROVE  AssemblyInv'
  BY <1>1, <1>2 DEF AssemblyInv, SettersFit, JobAssembled
<1>3. ASSUME NEW e, FailBuild(e), UNCHANGED <<builder, draft, built>> PROVE AssemblyInv'
  <2>1. job'.pc = "idle"
    BY <1>3 DEF FailBuild, NoJob
  <2> QED
    BY <1>2, <1>3, <2>1
<1>4. CASE Configure
  <2>1. job.pc = "idle" /\ job' = job /\ built' = built
    BY <1>4 DEF Configure, MayStartSigner, MayDraft, MayConfigure, SetBuilder, SetDraft,
       ContentInline, ContentExternal, BuilderContentType, SigningTime, Certificate,
       StartSigner, StartSignerWithIdentifier, SignerDigest, MessageIdContent,
       DetachedMessageDigest, SignerContentType, SignedAttribute, TimeStampUrl, AddSigner
  <2>2. SettersFit'
    BY <1>1, <1>4, SettersKeep
  <2> QED
    BY <1>1, <2>1, <2>2 DEF AssemblyInv, JobAssembled
<1>5. CASE BeginBuild
  BY <1>1, <1>2, <1>5, BeginAssembles DEF BeginBuild
<1>6. CASE RefuseSigner
  BY <1>3, <1>6 DEF RefuseSigner
<1>7. CASE SigningFails
  BY <1>3, <1>7 DEF SigningFails
<1>8. CASE Sign
  BY <1>1, <1>2, <1>8, SignAssembles DEF Sign
<1>9. CASE RequestStamp
  BY <1>1, <1>2, <1>9, RequestAssembles DEF RequestStamp
<1>10. CASE AttachStamp
  BY <1>1, <1>2, <1>10, AttachAssembles DEF AttachStamp
<1>11. CASE StampingFails
  BY <1>3, <1>11 DEF StampingFails
<1>12. CASE FinishBuild
  <2>1. PICK message \in Messages : built' = built \cup {[from |-> builder, message |-> message]}
    BY <1>12 DEF FinishBuild
  <2>2. \A r \in built' : BuiltFrom(r.from, r.message)
    BY <1>1, <1>12, <2>1, FinishAssembles
  <2>3. job'.pc = "idle" /\ UNCHANGED <<builder, draft>>
    BY <1>12 DEF FinishBuild, NoJob
  <2> QED
    BY <1>1, <2>2, <2>3 DEF AssemblyInv, SettersFit, JobAssembled
<1>13. CASE Network
  BY <1>2, <1>13 DEF Network, builderVars
<1>14. CASE UNCHANGED vars
  BY <1>2, <1>14 DEF vars, builderVars
<1> QED
  BY <1>4, <1>5, <1>6, <1>7, <1>8, <1>9, <1>10, <1>11, <1>12, <1>13, <1>14
  DEF BuilderNext, BuildStep

(* And it holds at the start.                                              *)
LEMMA AssemblyInit == BuilderInit => AssemblyInv
<1> SUFFICES ASSUME BuilderInit PROVE AssemblyInv
  OBVIOUS
<1>1. BuilderInv
  BY BuilderInitInv
<1>2. SettersFit
  <2>1. PICK year \in Year : builder = NewBuilder(year)
    BY DEF BuilderInit
  <2>2. DOMAIN builder.signers = {} /\ ContentFits(builder)
    BY <2>1 DEF NewBuilder, ContentFits
  <2> QED
    BY <1>1, <2>2 DEF BuilderInit, SettersFit, BuilderFits, BuilderInv, BuilderTypeOK
<1>3. JobAssembled /\ built = {}
  BY DEF BuilderInit, NoJob, JobAssembled
<1> QED
  BY <1>1, <1>2, <1>3 DEF AssemblyInv

(* What build_signed_data returns was assembled from the signers.          *)
THEOREM AssemblyInvariant == BuilderSpec => []AssemblyInv
BY AssemblyInit, AssemblyNext, PTL DEF BuilderSpec

----------------------------------------------------------------------------
(* What a built message is made of. *)

(* A signer has signed attributes.                                         *)
LEMMA AttributesPresent ==
  ASSUME NEW b, BuilderFits(b), NEW s \in SignerBuilderType, SignerOk(b, s),
         NEW attributes \in AttributesFor(b, s)
  PROVE  attributes # None
<1> DEFINE types == {Attribute("contentType", {typ}) : typ \in ContentType}
           digests == {Attribute("messageDigest", {digest}) :
                         digest \in [alg : DigestAlgorithm, of : Content]}
           times == {Attribute("signingTime", {UtcTime(year)}) : year \in Year}
           T == types \cup digests \cup times \cup ExtraAttribute
<1>1. None \notin Seq(T)
  BY ListAssumption
<1>2. Attribute("contentType", {s.contentType}) \in T
  <2>1. s.contentType \in ContentType
    BY ContentsAssumption, BuilderAssumption DEF SignerBuilderType
  <2>2. Attribute("contentType", {s.contentType}) \in types
    BY <2>1
  <2> HIDE DEF types, digests, times
  <2> QED
    BY <2>2
<1>3. Attribute("messageDigest", {Digest(s.digest, DigestedContent(b, s))}) \in T
  <2>1. s.digest \in DigestAlgorithm /\ s.messageIdContent \in Data \cup {None}
    BY DEF SignerBuilderType
  <2>2. DigestedContent(b, s) \in Content
    BY <2>1, ContentsAssumption, BuilderAssumption DEF DigestedContent, BuilderFits, ContentFits
  <2>3. Attribute("messageDigest", {Digest(s.digest, DigestedContent(b, s))}) \in digests
    <3>1. Digest(s.digest, DigestedContent(b, s)) \in [alg : DigestAlgorithm, of : Content]
      BY <2>1, <2>2 DEF Digest
    <3> QED
      BY <3>1
  <2> HIDE DEF types, digests, times
  <2> QED
    BY <2>3
<1>4. Attribute("signingTime", {UtcTime(b.signingTime)}) \in T
  <2>1. b.signingTime \in Year
    BY DEF BuilderFits, BuilderType
  <2>2. Attribute("signingTime", {UtcTime(b.signingTime)}) \in times
    BY <2>1
  <2> HIDE DEF types, digests, times
  <2> QED
    BY <2>2
<1>5. s.extra \in Seq(T)
  <2>1. s.extra \in Seq(ExtraAttribute) /\ ExtraAttribute \subseteq T
    BY DEF SignerBuilderType
  <2> HIDE DEF T
  <2> QED
    BY <2>1
<1>6. Unsorted(b, s) \in Seq(T)
  <2> HIDE DEF T
  <2>1. <<Attribute("contentType", {s.contentType}),
          Attribute("messageDigest", {Digest(s.digest, DigestedContent(b, s))}),
          Attribute("signingTime", {UtcTime(b.signingTime)})>> \in Seq(T)
    BY <1>2, <1>3, <1>4
  <2> QED
    BY <1>5, <2>1 DEF Unsorted
<1> HIDE DEF T
<1>7. attributes \in Rearrangements(Unsorted(b, s))
  BY DEF AttributesFor, SortedAttributes, DerSorted
<1> QED
  BY <1>1, <1>6, <1>7, RearrangementType

(* What a signer information says of its signer.                           *)
InfoSays(b, s, info) ==
  /\ info.version = SignerVersion(s.sid)
  /\ info.sid = s.sid
  /\ info.digestAlgorithm = DigestIdentifier(s.digest)
  /\ info.signedAttributes \in AttributesFor(b, s)
  /\ info.signedAttributes # None
  /\ info.signatureAlgorithm = AlgorithmIdentifier(SigningAlgorithm(KeyAlg[s.key]))
  /\ info.signature = Signature(s.key, SigningAlgorithm(KeyAlg[s.key]),
                                [covers |-> "attributes", value |-> info.signedAttributes])
  /\ info.signature.key = s.key
  /\ s.url => OneToken(info.unsignedAttributes)
  /\ ~s.url => info.unsignedAttributes = None

LEMMA InfoFacts ==
  ASSUME NEW b, BuilderFits(b), NEW s \in SignerBuilderType, SignerOk(b, s),
         NEW info, InfoOf(b, s, info)
  PROVE  InfoSays(b, s, info)
<1>1. PICK attributes \in AttributesFor(b, s) :
        /\ info = [SignerInfo(s, attributes) EXCEPT !.unsignedAttributes = info.unsignedAttributes]
        /\ IF s.url THEN OneToken(info.unsignedAttributes) ELSE info.unsignedAttributes = None
  BY DEF InfoOf
<1>2. PICK base : base = SignerInfo(s, attributes)
  OBVIOUS
<1>3. info = [base EXCEPT !.unsignedAttributes = info.unsignedAttributes]
  BY <1>1, <1>2
<1> DEFINE alg == SigningAlgorithm(KeyAlg[s.key])
           signature == Signature(s.key, alg, [covers |-> "attributes", value |-> attributes])
<1>7. attributes # None
  BY AttributesPresent
<1>4. base = [version            |-> SignerVersion(s.sid),
              sid                |-> s.sid,
              digestAlgorithm    |-> DigestIdentifier(s.digest),
              signedAttributes   |-> attributes,
              signatureAlgorithm |-> AlgorithmIdentifier(alg),
              signature          |-> signature,
              unsignedAttributes |-> None]
  BY <1>2, <1>7 DEF SignerInfo, SignedMessage
<1>5. signature.key = s.key
  BY DEF Signature
<1> HIDE DEF alg, signature
<1>6. /\ info.version = SignerVersion(s.sid)
      /\ info.sid = s.sid
      /\ info.digestAlgorithm = DigestIdentifier(s.digest)
      /\ info.signedAttributes = attributes
      /\ info.signatureAlgorithm = AlgorithmIdentifier(alg)
      /\ info.signature = signature
  <2> PICK tokens : tokens = info.unsignedAttributes
    OBVIOUS
  <2>1. info = [base EXCEPT !.unsignedAttributes = tokens]
    BY <1>3
  <2> QED
    BY <1>4, <2>1
<1> QED
  BY <1>1, <1>5, <1>6, <1>7 DEF alg, signature, InfoSays

(* A reader finds the algorithm that the signer signed with.               *)
LEMMA AlgorithmFound ==
  ASSUME NEW keyAlgorithm, NEW alg, alg = SigningAlgorithm(keyAlgorithm), alg # NoAlgorithm,
         NEW digest
  PROVE  /\ ResolveSignatureAlgorithm(AlgorithmIdentifier(alg), digest) = alg
         /\ Verifiable(keyAlgorithm, alg)
<1>1. \/ keyAlgorithm = "Rsa" /\ alg = [family |-> "Rsa", digest |-> "Sha256"]
      \/ keyAlgorithm = "EcdsaSecp256r1" /\ alg = [family |-> "Ecdsa", digest |-> "Sha256"]
      \/ keyAlgorithm = "EcdsaSecp384r1" /\ alg = [family |-> "Ecdsa", digest |-> "Sha384"]
      \/ keyAlgorithm = "Ed25519" /\ alg = [family |-> "Ed25519", digest |-> "none"]
  BY DEF SigningAlgorithm
<1>2. alg \in SignatureAlgorithm /\ keyAlgorithm \in KeyAlgorithm /\ alg.family = KeyFamily(keyAlgorithm)
  BY <1>1 DEF SignatureAlgorithm, DigestAlgorithm, KeyAlgorithm, KeyFamily
<1>3. alg.family # "NoSignature"
  BY <1>1
<1> DEFINE id == AlgorithmIdentifier(alg)
<1>4. id.oid = SignatureOid(alg) /\ id.parameters = IF alg.family = "Rsa" THEN "null" ELSE "absent"
  BY <1>3 DEF AlgorithmIdentifier, OidOf
<1>5. id.oid.names = "signature" /\ id.oid.alg = alg
  BY <1>4 DEF SignatureOid
<1>6. FromOidAndDigest(id.oid, digest) = alg
  <2> HIDE DEF id
  <2> QED
    BY <1>5 DEF FromOidAndDigest
<1>7. SignatureParametersOk(alg, id.parameters)
  BY <1>4 DEF SignatureParametersOk
<1>8. ResolveSignatureAlgorithm(id, digest) = alg
  <2> HIDE DEF id
  <2> QED
    BY <1>5, <1>6, <1>7 DEF ResolveSignatureAlgorithm
<1> QED
  BY <1>2, <1>8 DEF Verifiable

(* The parts of a message.                                                 *)
LEMMA MessageParts ==
  ASSUME NEW b, NEW m, BuiltFrom(b, m)
  PROVE  \E j, S : \E e \in Iterations(j.digests), certs \in ChoicesInOrder(Choices(j.certificates)) :
           /\ Complete(b, j, S)
           /\ m.digestAlgorithms \in DigestsInOrder(Identifiers(e))
           /\ m.signerInfos \in InfosInOrder(j.infos)
           /\ m.version = j.version
           /\ m.contentType = b.contentType
           /\ m.content = (IF b.content.kind = "Inline" THEN b.content.data ELSE None)
           /\ certs = <<>> => m.certificates = None
           /\ certs # <<>> => m.certificates = certs
           /\ m = [version          |-> m.version,
                   digestAlgorithms |-> m.digestAlgorithms,
                   contentType      |-> m.contentType,
                   content          |-> m.content,
                   certificates     |-> m.certificates,
                   signerInfos      |-> m.signerInfos]
<1>1. PICK j, S : Complete(b, j, S) /\ m \in MessagesOf(b, j)
  BY DEF BuiltFrom
<1>2. PICK digests \in UNION {DigestsInOrder(Identifiers(e)) : e \in Iterations(j.digests)},
           certs \in ChoicesInOrder(Choices(j.certificates)),
           infos \in InfosInOrder(j.infos) :
        m = [version          |-> j.version,
             digestAlgorithms |-> digests,
             contentType      |-> b.contentType,
             content          |-> IF b.content.kind = "Inline" THEN b.content.data ELSE None,
             certificates     |-> IF certs = <<>> THEN None ELSE certs,
             signerInfos      |-> infos]
  BY <1>1 DEF MessagesOf
<1>3. PICK e \in Iterations(j.digests) : digests \in DigestsInOrder(Identifiers(e))
  OBVIOUS
<1> QED
  BY <1>1, <1>2, <1>3

(* A job that is done with every signer.                                   *)
LEMMA CompleteShape ==
  ASSUME NEW b, BuilderFits(b), NEW j, NEW S, Complete(b, j, S)
  PROVE  /\ DOMAIN b.signers = 1..Len(b.signers) /\ Len(b.signers) \in Nat
         /\ DOMAIN j.infos = DOMAIN b.signers
         /\ \A k \in DOMAIN b.signers :
              /\ b.signers[k] \in SignerBuilderType
              /\ SidFits(b.signers[k])
              /\ SignerOk(b, b.signers[k])
              /\ InfoOf(b, b.signers[k], j.infos[k])
         /\ j.digests = {b.signers[k].digest : k \in DOMAIN b.signers}
         /\ Range(j.certificates) = Range(b.certificates)
              \cup ({b.signers[k].certificate : k \in DOMAIN b.signers} \ {None})
         /\ j.version = IF b.contentType # IdData \/ UsesKeyIdentifier(b, DOMAIN b.signers)
                          THEN 3 ELSE 1
<1>1. b.signers \in Seq(SignerBuilderType)
  BY DEF BuilderFits, BuilderType
<1>2. DOMAIN b.signers = 1..Len(b.signers) /\ Len(b.signers) \in Nat
      /\ \A k \in DOMAIN b.signers : b.signers[k] \in SignerBuilderType
  BY <1>1
<1>3. DOMAIN j.infos = DOMAIN b.signers /\ Turns(j) = DOMAIN b.signers
  <2>1. j.infos \in Seq(S) /\ Len(j.infos) = Len(b.signers) /\ ~Waits(j)
    BY DEF Complete
  <2> QED
    BY <1>2, <2>1 DEF Turns
<1> QED
  BY <1>2, <1>3 DEF Complete, InfosAssembled, RestAssembled, BuilderFits

(* Every signer information of a message is that of a signer, and every    *)
(* signer has one.                                                         *)
LEMMA InfosKept ==
  ASSUME NEW b, NEW m, BuiltFrom(b, m)
  PROVE  LET D == DOMAIN b.signers
         IN  /\ D = 1..Len(b.signers) /\ Len(b.signers) \in Nat
             /\ DOMAIN m.signerInfos = D /\ Len(m.signerInfos) = Len(b.signers)
             /\ \A k \in D : /\ b.signers[k] \in SignerBuilderType
                             /\ SidFits(b.signers[k])
                             /\ SignerOk(b, b.signers[k])
             /\ \E p, q \in Bijection(D, D) :
                  \A i \in D : /\ p[i] \in D /\ InfoOf(b, b.signers[p[i]], m.signerInfos[i])
                               /\ q[i] \in D /\ InfoOf(b, b.signers[i], m.signerInfos[q[i]])
<1> DEFINE D == DOMAIN b.signers
<1>1. PICK j, S : Complete(b, j, S) /\ m.signerInfos \in InfosInOrder(j.infos)
  BY MessageParts
<1>2. BuilderFits(b)
  BY DEF BuiltFrom
<1>3. /\ D = 1..Len(b.signers) /\ Len(b.signers) \in Nat
      /\ DOMAIN j.infos = D
      /\ \A k \in D : /\ b.signers[k] \in SignerBuilderType
                      /\ SidFits(b.signers[k])
                      /\ SignerOk(b, b.signers[k])
                      /\ InfoOf(b, b.signers[k], j.infos[k])
  BY <1>1, <1>2, CompleteShape
<1>4. j.infos \in Seq(S) /\ Len(j.infos) = Len(b.signers)
  BY <1>1 DEF Complete
<1>5. PICK rank, l, t : l = j.infos /\ t = m.signerInfos /\ t \in DerSorted(l, rank)
  BY <1>1 DEF InfosInOrder
<1>6. Len(t) = Len(b.signers)
  <2>1. t \in Rearrangements(l)
    BY <1>5 DEF DerSorted
  <2> QED
    BY <1>4, <1>5, <2>1, RearrangementType
<1>7. DOMAIN l = D
  BY <1>3, <1>5
<1> HIDE DEF D
<1>8. /\ DOMAIN t = D
      /\ \E p, q \in Bijection(D, D) :
           \A i \in D : /\ p[i] \in D /\ t[i] = l[p[i]]
                        /\ q[i] \in D /\ l[i] = t[q[i]]
                        /\ q[p[i]] = i /\ p[q[i]] = i
  BY <1>5, <1>7, SortedPermutes
<1>9. PICK p, q \in Bijection(D, D) :
        \A i \in D : /\ p[i] \in D /\ t[i] = l[p[i]]
                     /\ q[i] \in D /\ l[i] = t[q[i]]
  BY <1>8
<1>10. \A k \in D : InfoOf(b, b.signers[k], l[k])
  BY <1>3, <1>5
<1>11. \A i \in D : /\ p[i] \in D /\ InfoOf(b, b.signers[p[i]], t[i])
                    /\ q[i] \in D /\ InfoOf(b, b.signers[i], t[q[i]])
  BY <1>9, <1>10
<1> QED
  BY <1>3, <1>5, <1>6, <1>8, <1>11 DEF D

(* Whose information it is.                                                *)
SaysOf(b, k, info) ==
  /\ b.signers[k] \in SignerBuilderType
  /\ SidFits(b.signers[k])
  /\ SignerOk(b, b.signers[k])
  /\ InfoOf(b, b.signers[k], info)
  /\ InfoSays(b, b.signers[k], info)

LEMMA InfosSay ==
  ASSUME NEW b, NEW m, BuiltFrom(b, m)
  PROVE  /\ \A i \in DOMAIN m.signerInfos : \E k \in DOMAIN b.signers :
              SaysOf(b, k, m.signerInfos[i])
         /\ \A k \in DOMAIN b.signers : \E i \in DOMAIN m.signerInfos :
              SaysOf(b, k, m.signerInfos[i])
<1>1. BuilderFits(b)
  BY DEF BuiltFrom
<1>2. PICK D : /\ D = DOMAIN b.signers
               /\ DOMAIN m.signerInfos = D
               /\ \A k \in D : /\ b.signers[k] \in SignerBuilderType
                               /\ SidFits(b.signers[k])
                               /\ SignerOk(b, b.signers[k])
               /\ \E p, q \in Bijection(D, D) :
                    \A i \in D : /\ p[i] \in D /\ InfoOf(b, b.signers[p[i]], m.signerInfos[i])
                                 /\ q[i] \in D /\ InfoOf(b, b.signers[i], m.signerInfos[q[i]])
  BY InfosKept
<1>3. PICK p, q : \A i \in D : /\ p[i] \in D /\ InfoOf(b, b.signers[p[i]], m.signerInfos[i])
                               /\ q[i] \in D /\ InfoOf(b, b.signers[i], m.signerInfos[q[i]])
  BY <1>2
<1>4. ASSUME NEW k \in D, NEW info, InfoOf(b, b.signers[k], info)
      PROVE  SaysOf(b, k, info)
  <2>1. PICK s : s = b.signers[k] /\ s \in SignerBuilderType /\ SignerOk(b, s) /\ InfoOf(b, s, info)
    BY <1>2, <1>4
  <2>2. InfoSays(b, s, info)
    BY <1>1, <2>1, InfoFacts
  <2> QED
    BY <1>2, <2>1, <2>2 DEF SaysOf
<1>5. ASSUME NEW i \in D
      PROVE  \E k \in D : SaysOf(b, k, m.signerInfos[i])
  BY <1>3, <1>4
<1>6. ASSUME NEW k \in D
      PROVE  \E i \in D : SaysOf(b, k, m.signerInfos[i])
  BY <1>3, <1>4
<1> QED
  BY <1>2, <1>5, <1>6

(* A HashSet yields each of its elements once.                             *)
LEMMA IterationOnce ==
  ASSUME NEW S, IsFiniteSet(S), NEW e \in Iterations(S)
  PROVE  /\ Cardinality(S) \in Nat
         /\ e \in [1..Cardinality(S) -> S]
         /\ IsInjective(e)
         /\ Range(e) = S
<1> DEFINE n == Cardinality(S)
<1>1. n \in Nat
  BY FS_CardinalityType
<1>2. e \in [1..n -> S] /\ \A x \in S : \E i \in 1..n : e[i] = x
  BY DEF Iterations
<1>3. IsFiniteSet(1..n) /\ Cardinality(1..n) = n
  <2> HIDE DEF n
  <2> QED
    BY <1>1, FS_Interval
<1>4. e \in Surjection(1..n, S)
  BY <1>2 DEF Surjection
<1>5. e \in Injection(1..n, S)
  BY <1>3, <1>4, FS_SurjSameCardinalityImpliesInj
<1>6. IsInjective(e)
  BY <1>5 DEF Injection
<1> QED
  BY <1>1, <1>2, <1>6 DEF Range

LEMMA DigestsFinite ==
  ASSUME NEW S \in SUBSET DigestAlgorithm
  PROVE  IsFiniteSet(S)
<1>1. IsFiniteSet(DigestAlgorithm)
  <2>1. IsFiniteSet({})
    BY FS_EmptySet
  <2>2. IsFiniteSet({} \cup {"Sha1"})
    BY <2>1, FS_AddElement
  <2>3. IsFiniteSet(({} \cup {"Sha1"}) \cup {"Sha256"})
    BY <2>2, FS_AddElement
  <2>4. IsFiniteSet((({} \cup {"Sha1"}) \cup {"Sha256"}) \cup {"Sha384"})
    BY <2>3, FS_AddElement
  <2>5. IsFiniteSet(((({} \cup {"Sha1"}) \cup {"Sha256"}) \cup {"Sha384"}) \cup {"Sha512"})
    BY <2>4, FS_AddElement
  <2>6. DigestAlgorithm = ((({} \cup {"Sha1"}) \cup {"Sha256"}) \cup {"Sha384"}) \cup {"Sha512"}
    BY DEF DigestAlgorithm
  <2> QED
    BY <2>5, <2>6
<1> QED
  BY <1>1, FS_Subset

(* The digests of a message are those of its signers, each once.           *)
LEMMA DigestsKept ==
  ASSUME NEW b, NEW m, BuiltFrom(b, m)
  PROVE  /\ \A i \in DOMAIN m.digestAlgorithms :
              \E k \in DOMAIN b.signers :
                m.digestAlgorithms[i] = DigestIdentifier(b.signers[k].digest)
         /\ \A i, j \in DOMAIN m.digestAlgorithms :
              m.digestAlgorithms[i].digest = m.digestAlgorithms[j].digest => i = j
         /\ \A k \in DOMAIN b.signers : \E i \in DOMAIN m.digestAlgorithms :
              m.digestAlgorithms[i] = DigestIdentifier(b.signers[k].digest)
<1>1. PICK j, S : \E e \in Iterations(j.digests) :
        Complete(b, j, S) /\ m.digestAlgorithms \in DigestsInOrder(Identifiers(e))
  BY MessageParts
<1>2. PICK e \in Iterations(j.digests) :
        Complete(b, j, S) /\ m.digestAlgorithms \in DigestsInOrder(Identifiers(e))
  BY <1>1
<1>3. j.digests = {b.signers[k].digest : k \in DOMAIN b.signers}
  BY <1>2, CompleteShape DEF BuiltFrom
<1>4. PICK n \in Nat : /\ e \in [1..n -> j.digests]
                       /\ IsInjective(e)
                       /\ Range(e) = j.digests
  BY <1>2, DigestsFinite, IterationOnce DEF Complete
<1>5. PICK D, ids, rank, t : /\ D = 1..n /\ ids = Identifiers(e)
                             /\ t = m.digestAlgorithms /\ t \in DerSorted(ids, rank)
  BY <1>2 DEF DigestsInOrder
<1>6. DOMAIN ids = D /\ \A i \in D : ids[i] = DigestIdentifier(e[i])
  BY <1>4, <1>5 DEF Identifiers
<1>7. /\ \A i \in D : e[i] \in j.digests
      /\ \A i, k \in D : e[i] = e[k] => i = k
      /\ \A x \in j.digests : \E i \in D : e[i] = x
  BY <1>4, <1>5 DEF IsInjective, Range
<1>8. /\ DOMAIN t = D
      /\ \E p, q \in Bijection(D, D) :
           \A i \in D : /\ p[i] \in D /\ t[i] = ids[p[i]]
                        /\ q[i] \in D /\ ids[i] = t[q[i]]
                        /\ q[p[i]] = i /\ p[q[i]] = i
  <2>1. t \in DerSorted(ids, rank)
    BY <1>5
  <2>2. DOMAIN ids = D
    BY <1>6
  <2> QED
    BY <2>1, <2>2, SortedPermutes
<1>9. PICK p, q \in Bijection(D, D) :
        \A i \in D : /\ p[i] \in D /\ t[i] = ids[p[i]]
                     /\ q[i] \in D /\ ids[i] = t[q[i]]
                     /\ q[p[i]] = i /\ p[q[i]] = i
  BY <1>8
<1>10. \A x : DigestIdentifier(x).digest = x
  BY DEF DigestIdentifier
<1>11. \A i \in D : p[i] \in D /\ t[i] = DigestIdentifier(e[p[i]])
  BY <1>6, <1>9
<1>12. \A i, k \in D : t[i].digest = t[k].digest => i = k
  <2> SUFFICES ASSUME NEW i \in D, NEW k \in D, t[i].digest = t[k].digest
               PROVE  i = k
    OBVIOUS
  <2>1. e[p[i]] = e[p[k]]
    BY <1>10, <1>11
  <2>2. p[i] = p[k]
    BY <1>7, <1>9, <2>1
  <2> QED
    BY <1>9, <2>2
<1>13. \A i \in D : \E k \in DOMAIN b.signers : t[i] = DigestIdentifier(b.signers[k].digest)
  <2> SUFFICES ASSUME NEW i \in D
               PROVE  \E k \in DOMAIN b.signers : t[i] = DigestIdentifier(b.signers[k].digest)
    OBVIOUS
  <2>1. e[p[i]] \in j.digests
    BY <1>7, <1>9
  <2> QED
    BY <1>3, <1>11, <2>1
<1>14. ASSUME NEW k \in DOMAIN b.signers
       PROVE  \E i \in D : t[i] = DigestIdentifier(b.signers[k].digest)
  <2>1. PICK i \in D : e[i] = b.signers[k].digest
    BY <1>3, <1>7
  <2> QED
    BY <1>6, <1>9, <2>1
<1> QED
  BY <1>5, <1>8, <1>12, <1>13, <1>14

(* The certificates of a message are the builder's and the signers', and   *)
(* the field is absent when there are none.                                *)
Kept(b) ==
  Range(b.certificates) \cup ({b.signers[k].certificate : k \in DOMAIN b.signers} \ {None})

HasCertificates(m, n, l) ==
  /\ n = 0 => m.certificates = None
  /\ n # 0 => /\ m.certificates # None
              /\ DOMAIN m.certificates = 1..n
              /\ \A i \in 1..n : m.certificates[i] = [form |-> "Certificate", cert |-> l[i]]

LEMMA CertificatesKept ==
  ASSUME NEW b, NEW m, BuiltFrom(b, m)
  PROVE  \E n \in Nat : \E l \in [1..n -> SigningCert] :
           {l[i] : i \in 1..n} = Kept(b) /\ HasCertificates(m, n, l)
<1>1. PICK j, S : \E certs \in ChoicesInOrder(Choices(j.certificates)) :
        Complete(b, j, S) /\ (certs = <<>> => m.certificates = None) /\ (certs # <<>> => m.certificates = certs)
  <2>1. PICK j, S : \E e \in Iterations(j.digests), certs \in ChoicesInOrder(Choices(j.certificates)) :
          Complete(b, j, S) /\ (certs = <<>> => m.certificates = None) /\ (certs # <<>> => m.certificates = certs)
    BY MessageParts
  <2> QED
    BY <2>1
<1>2. PICK t \in ChoicesInOrder(Choices(j.certificates)) :
        Complete(b, j, S) /\ (t = <<>> => m.certificates = None) /\ (t # <<>> => m.certificates = t)
  BY <1>1
<1>3. Range(j.certificates) = Kept(b)
  BY <1>2, CompleteShape DEF BuiltFrom, Kept
<1>4. PICK n \in Nat : \E c \in [1..n -> SigningCert] : c = j.certificates
  <2>1. j.certificates \in Seq(SigningCert)
    BY <1>2 DEF Complete
  <2> QED
    BY <2>1
<1> PICK c \in [1..n -> SigningCert] : c = j.certificates
  BY <1>4
<1>5. PICK D, choices, rank : D = 1..n /\ choices = Choices(c) /\ t \in DerSorted(choices, rank)
  BY <1>4 DEF ChoicesInOrder
<1>6. DOMAIN choices = D /\ \A i \in D : choices[i] = [form |-> "Certificate", cert |-> c[i]]
  BY <1>4, <1>5 DEF Choices
<1>7. /\ DOMAIN t = D
      /\ \E p, q \in Bijection(D, D) :
           \A i \in D : /\ p[i] \in D /\ t[i] = choices[p[i]]
                        /\ q[i] \in D /\ choices[i] = t[q[i]]
                        /\ q[p[i]] = i /\ p[q[i]] = i
  <2>1. t \in DerSorted(choices, rank)
    BY <1>5
  <2>2. DOMAIN choices = D
    BY <1>6
  <2> QED
    BY <2>1, <2>2, SortedPermutes
<1>8. PICK p, q \in Bijection(D, D) :
        \A i \in D : /\ p[i] \in D /\ t[i] = choices[p[i]]
                     /\ q[i] \in D /\ q[p[i]] = i /\ p[q[i]] = i
  BY <1>7
<1> DEFINE l == [i \in D |-> c[p[i]]]
<1>9. /\ l \in [1..n -> SigningCert]
      /\ \A i \in D : l[i] = c[p[i]]
  BY <1>4, <1>5, <1>8
<1> HIDE DEF l
<1>10. {l[i] : i \in D} = {c[i] : i \in D}
  <2>1. \A i \in D : l[i] \in {c[k] : k \in D}
    BY <1>8, <1>9
  <2>2. \A i \in D : c[i] = l[q[i]]
    BY <1>8, <1>9
  <2>3. \A i \in D : c[i] \in {l[k] : k \in D}
    BY <1>8, <2>2
  <2> QED
    BY <2>1, <2>3
<1>11. {c[i] : i \in D} = Kept(b)
  BY <1>3, <1>4, <1>5 DEF Range
<1>12. t \in Rearrangements(choices)
  BY <1>5 DEF DerSorted
<1>13. t # None
  <2>1. PICK T : T = [form : {"Certificate"}, cert : SigningCert] /\ None \notin Seq(T)
    BY ListAssumption
  <2>2. ASSUME NEW i \in D PROVE choices[i] \in T
    <3>1. c[i] \in SigningCert
      BY <1>5
    <3> QED
      BY <1>6, <2>1, <3>1
  <2>3. choices \in Seq(T)
    <3>1. choices = [i \in D |-> choices[i]]
      BY <1>4, <1>5 DEF Choices
    <3>2. choices \in [1..n -> T]
      BY <1>5, <2>2, <3>1
    <3> QED
      BY <3>2
  <2> QED
    BY <1>12, <2>1, <2>3, RearrangementType
<1>14. ASSUME n = 0 PROVE m.certificates = None
  <2>1. D = {}
    BY <1>5, <1>14
  <2>2. t = <<>>
    BY <1>6, <1>12, <2>1 DEF Rearrangements
  <2> QED
    BY <1>2, <2>2
<1>15. ASSUME n # 0
       PROVE  /\ m.certificates # None
              /\ DOMAIN m.certificates = 1..n
              /\ \A i \in 1..n : m.certificates[i] = [form |-> "Certificate", cert |-> l[i]]
  <2>1. 1 \in DOMAIN t
    BY <1>5, <1>7, <1>15
  <2>2. t # <<>>
    BY <2>1
  <2>3. m.certificates = t
    BY <1>2, <2>2
  <2>4. \A i \in D : t[i] = [form |-> "Certificate", cert |-> l[i]]
    BY <1>6, <1>8, <1>9
  <2> QED
    BY <1>5, <1>7, <1>13, <2>3, <2>4
<1>16. HasCertificates(m, n, l)
  BY <1>14, <1>15 DEF HasCertificates
<1>17. {l[i] : i \in 1..n} = Kept(b)
  BY <1>5, <1>10, <1>11
<1> QED
  BY <1>9, <1>16, <1>17

----------------------------------------------------------------------------
(* The properties of built messages. *)

(* Callers give signing times within the century that UTCTime can tell.    *)
YearsAreTold == Year \subseteq 1950..2049

(* The reader picks the century that such a year is of.                    *)
LEMMA YearTold ==
  ASSUME YearsAreTold, NEW year \in Year
  PROVE  YearOf(UtcTime(year)) = year
<1>0. year \in 1950..2049
  BY DEF YearsAreTold
<1>1. CASE year \in 1950..1999
  <2>1. year % 100 = year - 1900
    BY <1>1
  <2> QED
    BY <1>1, <2>1 DEF YearOf, UtcTime
<1>2. CASE year \in 2000..2049
  <2>1. year % 100 = year - 2000
    BY <1>2
  <2> QED
    BY <1>2, <2>1 DEF YearOf, UtcTime
<1> QED
  BY <1>0, <1>1, <1>2

(* The signing time that a reader finds in a message is the one that       *)
(* signing_time gave the builder, as long as callers stay within the       *)
(* century of UTCTime; the crate does not make them.                       *)
LEMMA TimesOfMessage ==
  ASSUME YearsAreTold, NEW b, NEW m, BuiltFrom(b, m)
  PROVE  \A i \in DOMAIN m.signerInfos :
           \A time \in Values(m.signerInfos[i].signedAttributes, "signingTime") :
             YearOf(time) = b.signingTime
<1> SUFFICES ASSUME NEW i \in DOMAIN m.signerInfos
             PROVE  \A time \in Values(m.signerInfos[i].signedAttributes, "signingTime") :
                      YearOf(time) = b.signingTime
  OBVIOUS
<1>1. PICK k \in DOMAIN b.signers : SaysOf(b, k, m.signerInfos[i])
  BY InfosSay
<1>2. PICK s, attributes :
        /\ s \in SignerBuilderType /\ SignerOk(b, s)
        /\ attributes \in AttributesFor(b, s)
        /\ attributes = m.signerInfos[i].signedAttributes
  BY <1>1 DEF SaysOf, InfoSays
<1>3. Values(attributes, "signingTime") = {UtcTime(b.signingTime)}
  BY <1>2, AttributesShape
<1>4. b.signingTime \in Year
  BY DEF BuiltFrom, BuilderFits, BuilderType
<1>5. YearOf(UtcTime(b.signingTime)) = b.signingTime
  BY <1>4, YearTold
<1> QED
  BY <1>2, <1>3, <1>5

THEOREM SigningTimesSurvive ==
  ASSUME YearsAreTold
  PROVE  BuilderSpec => []SigningTimeSurvives
<1>1. AssemblyInv => SigningTimeSurvives
  BY TimesOfMessage DEF AssemblyInv, SigningTimeSurvives
<1> QED
  BY <1>1, AssemblyInvariant, PTL

(* A list that is there is not Option::None.                               *)
NoneIsNoList == \A S : None \notin Seq(S)

(* Such values exist: the assumption leaves None to be one of them.        *)
LEMMA NotEveryValueIsAList == \E none : \A S : none \notin Seq(S)
<1> DEFINE none == [x \in {0} |-> 0]
<1>1. DOMAIN none = {0}
  OBVIOUS
<1>2. ASSUME NEW S PROVE none \notin Seq(S)
  <2> HIDE DEF none
  <2>1. none \in Seq(S) => DOMAIN none = 1..Len(none) /\ Len(none) \in Nat
    OBVIOUS
  <2>2. 0 \notin 1..Len(none)
    OBVIOUS
  <2> QED
    BY <1>1, <2>1, <2>2
<1> QED
  BY <1>2

(* A signer's information is recognised as made by it.                     *)
LEMMA InfoMadeBy ==
  ASSUME NoneIsNoList,
         NEW b, BuilderFits(b), NEW s \in SignerBuilderType, SignerOk(b, s),
         NEW info, InfoOf(b, s, info)
  PROVE  MadeBy(s, info)
<1>1. /\ info.sid = s.sid
      /\ info.signature.key = s.key
      /\ info.digestAlgorithm = DigestIdentifier(s.digest)
      /\ s.url => OneToken(info.unsignedAttributes)
      /\ ~s.url => info.unsignedAttributes = None
  <2>1. InfoSays(b, s, info)
    BY InfoFacts
  <2> QED
    BY <2>1 DEF InfoSays
<1>2. s.url \in BOOLEAN
  BY DEF SignerBuilderType
<1>3. ASSUME NEW tokens, OneToken(tokens) PROVE tokens # None
  <2>1. PICK a : tokens = <<a>>
    BY <1>3 DEF OneToken
  <2>2. tokens \in Seq({a})
    BY <2>1
  <2> QED
    BY <2>2 DEF NoneIsNoList
<1> QED
  BY <1>1, <1>2, <1>3 DEF MadeBy, DigestIdentifier

(* A build is all or nothing: a message has each configured signer exactly *)
(* as often as the builder has it, with a token exactly when the signer    *)
(* has a time_stamp_url.                                                   *)
THEOREM EverySignerIsThereOnce ==
  ASSUME NoneIsNoList
  PROVE  BuilderSpec => []EverySignerOnce
<1>1. AssemblyInv => EverySignerOnce
  <2> SUFFICES ASSUME AssemblyInv, NEW r \in built
               PROVE  LET signers == r.from.signers
                          infos == r.message.signerInfos
                      IN  /\ Len(infos) = Len(signers)
                          /\ \E p \in Bijection(DOMAIN signers, DOMAIN infos) :
                               \A n \in DOMAIN signers : MadeBy(signers[n], infos[p[n]])
    BY DEF EverySignerOnce
  <2>1. PICK b, m : b = r.from /\ m = r.message /\ BuiltFrom(b, m)
    BY DEF AssemblyInv
  <2>2. PICK D : /\ D = DOMAIN b.signers /\ D = DOMAIN m.signerInfos
                 /\ Len(m.signerInfos) = Len(b.signers)
                 /\ \A k \in D : b.signers[k] \in SignerBuilderType /\ SignerOk(b, b.signers[k])
                 /\ \E q \in Bijection(D, D) :
                      \A i \in D : q[i] \in D /\ InfoOf(b, b.signers[i], m.signerInfos[q[i]])
    BY <2>1, InfosKept
  <2>3. PICK q \in Bijection(D, D) :
          \A i \in D : q[i] \in D /\ InfoOf(b, b.signers[i], m.signerInfos[q[i]])
    BY <2>2
  <2>4. \A i \in D : MadeBy(b.signers[i], m.signerInfos[q[i]])
    BY <2>1, <2>2, <2>3, InfoMadeBy DEF BuiltFrom
  <2> QED
    BY <2>1, <2>2, <2>3, <2>4
<1> QED
  BY <1>1, AssemblyInvariant, PTL

(* The version, the content type and the content of a message.             *)
LEMMA HeaderKept ==
  ASSUME NEW b, NEW m, BuiltFrom(b, m)
  PROVE  /\ m.version = IF b.contentType # IdData \/ UsesKeyIdentifier(b, DOMAIN b.signers)
                          THEN 3 ELSE 1
         /\ m.contentType = b.contentType
         /\ m.content = IF b.content.kind = "Inline" THEN b.content.data ELSE None
<1>1. PICK j, S : /\ Complete(b, j, S)
                  /\ m.version = j.version
                  /\ m.contentType = b.contentType
                  /\ m.content = (IF b.content.kind = "Inline" THEN b.content.data ELSE None)
  BY MessageParts
<1>2. j.version = IF b.contentType # IdData \/ UsesKeyIdentifier(b, DOMAIN b.signers)
                    THEN 3 ELSE 1
  BY <1>1, CompleteShape DEF BuiltFrom
<1> QED
  BY <1>1, <1>2

(* One unsigned attribute, the token.                                      *)
LEMMA TokenAccepted ==
  ASSUME NEW tokens, OneToken(tokens)
  PROVE  UnsignedAttributesOk(tokens)
<1>1. PICK v : tokens = <<Attribute("timeStampToken", v)>> /\ Single(v)
  <2>1. PICK v : v = tokens[1].values
    OBVIOUS
  <2> QED
    BY <2>1 DEF OneToken
<1>2. /\ DOMAIN tokens = {1}
      /\ tokens[1].typ = "timeStampToken" /\ tokens[1].values = v
  BY <1>1 DEF Attribute
<1>3. Values(tokens, "timeStampToken") = v
  <2>1. {i \in DOMAIN tokens : tokens[i].typ = "timeStampToken"} = {1}
    BY <1>2
  <2> QED
    BY <1>2, <2>1 DEF Values
<1>4. ~Repeats(tokens)
  BY <1>2 DEF Repeats
<1> QED
  BY <1>1, <1>3, <1>4 DEF UnsignedAttributesOk

(* The reader resolves the signer's algorithm, and it demands nothing that *)
(* a signer was not checked for before it signed.                          *)
LEMMA InfoAccepted ==
  ASSUME NEW b, NEW k, NEW info, SaysOf(b, k, info)
  PROVE  /\ AlgorithmOf(info) = SigningAlgorithm(KeyAlg[b.signers[k].key])
         /\ Verifiable(KeyAlg[b.signers[k].key], AlgorithmOf(info))
         /\ SignerInfoOk(info)
<1>1. PICK s : s = b.signers[k]
  OBVIOUS
<1>2. s \in SignerBuilderType /\ SignerOk(b, s) /\ InfoSays(b, s, info)
  BY <1>1 DEF SaysOf
<1>3. PICK alg, attributes, tokens :
        /\ alg = SigningAlgorithm(KeyAlg[s.key])
        /\ attributes = info.signedAttributes
        /\ tokens = info.unsignedAttributes
  OBVIOUS
<1>4. /\ info.version = SignerVersion(s.sid)
      /\ info.sid = s.sid
      /\ info.digestAlgorithm = DigestIdentifier(s.digest)
      /\ attributes \in AttributesFor(b, s)
      /\ info.signatureAlgorithm = AlgorithmIdentifier(alg)
      /\ s.url => OneToken(tokens)
      /\ ~s.url => tokens = None
  BY <1>2, <1>3 DEF InfoSays
<1>5. alg # NoAlgorithm /\ s.digest = RequiredDigest(alg)
  BY <1>2, <1>3 DEF SignerOk
<1>6. AlgorithmOf(info) = alg /\ Verifiable(KeyAlg[s.key], alg)
  BY <1>3, <1>4, <1>5, AlgorithmFound DEF AlgorithmOf
<1>7. /\ info.digestAlgorithm.digest = s.digest
      /\ info.digestAlgorithm.parameters = "absent"
      /\ DigestIdentifierOk(info.digestAlgorithm)
  <2>1. s.digest \in DigestAlgorithm
    BY <1>2 DEF SignerBuilderType
  <2> QED
    BY <1>4, <2>1 DEF DigestIdentifier, DigestIdentifierOk
<1>8. Canonical(attributes) /\ SignedAttributesOk(attributes)
  <2>1. /\ Canonical(attributes)
        /\ ~Repeats(attributes)
        /\ Values(attributes, "contentType") = {s.contentType}
        /\ Values(attributes, "messageDigest") = {Digest(s.digest, DigestedContent(b, s))}
        /\ Values(attributes, "signingTime") = {UtcTime(b.signingTime)}
    BY <1>2, <1>4, AttributesShape
  <2>2. \A x : Single({x})
    BY DEF Single
  <2> QED
    BY <2>1, <2>2 DEF SignedAttributesOk
<1>9. tokens # None => UnsignedAttributesOk(tokens)
  BY <1>4, TokenAccepted
<1>10. SignerInfoOk(info)
  BY <1>3, <1>4, <1>5, <1>6, <1>7, <1>8, <1>9 DEF SignerInfoOk
<1> QED
  BY <1>1, <1>3, <1>6, <1>10

(* SignedData::try_from accepts what build_signed_data returned.           *)
LEMMA MessageAccepted ==
  ASSUME NEW b, NEW m, BuiltFrom(b, m)
  PROVE  Parses(m)
<1>1. PICK infos, digests, certs :
        infos = m.signerInfos /\ digests = m.digestAlgorithms /\ certs = m.certificates
  OBVIOUS
<1>2. /\ \A i \in DOMAIN infos : \E k \in DOMAIN b.signers : SaysOf(b, k, infos[i])
      /\ \A k \in DOMAIN b.signers : \E i \in DOMAIN infos : SaysOf(b, k, infos[i])
  BY <1>1, InfosSay
<1>3. /\ \A i \in DOMAIN digests : \E k \in DOMAIN b.signers :
           digests[i] = DigestIdentifier(b.signers[k].digest)
      /\ \A i, j \in DOMAIN digests : digests[i].digest = digests[j].digest => i = j
      /\ \A k \in DOMAIN b.signers : \E i \in DOMAIN digests :
           digests[i] = DigestIdentifier(b.signers[k].digest)
  BY <1>1, DigestsKept
<1>4. certs # None => \A i \in DOMAIN certs : certs[i].form = "Certificate"
  <2>1. PICK n \in Nat : \E l \in [1..n -> SigningCert] : HasCertificates(m, n, l)
    BY CertificatesKept
  <2>2. PICK l : HasCertificates(m, n, l)
    BY <2>1
  <2>3. ASSUME certs # None, NEW i \in DOMAIN certs PROVE certs[i].form = "Certificate"
    <3>1. certs[i] = [form |-> "Certificate", cert |-> l[i]]
      BY <1>1, <2>2, <2>3 DEF HasCertificates
    <3> QED
      BY <3>1
  <2> QED
    BY <2>3
<1>5. \A i \in DOMAIN infos : SignerInfoOk(infos[i])
  BY <1>2, InfoAccepted
<1>6. \A i \in DOMAIN digests : DigestIdentifierOk(digests[i]) /\ digests[i].parameters = "absent"
  <2>1. \A k \in DOMAIN b.signers : b.signers[k].digest \in DigestAlgorithm
    <3>1. \A k \in DOMAIN b.signers : b.signers[k] \in SignerBuilderType
      BY <1>2 DEF SaysOf
    <3> QED
      BY <3>1 DEF SignerBuilderType
  <2> QED
    BY <1>3, <2>1 DEF DigestIdentifier, DigestIdentifierOk
<1>7. \A i \in DOMAIN infos : infos[i].signedAttributes # None
  BY <1>2 DEF SaysOf, InfoSays
<1>8. \A i \in DOMAIN infos : \E j \in DOMAIN digests :
        digests[j].digest = infos[i].digestAlgorithm.digest
  <2> SUFFICES ASSUME NEW i \in DOMAIN infos
               PROVE  \E j \in DOMAIN digests : digests[j].digest = infos[i].digestAlgorithm.digest
    OBVIOUS
  <2>1. PICK k \in DOMAIN b.signers : SaysOf(b, k, infos[i])
    BY <1>2
  <2>2. infos[i].digestAlgorithm = DigestIdentifier(b.signers[k].digest)
    BY <2>1 DEF SaysOf, InfoSays
  <2>3. PICK j \in DOMAIN digests : digests[j] = DigestIdentifier(b.signers[k].digest)
    BY <1>3
  <2> QED
    BY <2>2, <2>3
<1>9. m.version = ExpectedVersion(m)
  <2>1. (\E i \in DOMAIN infos : infos[i].version = 3) <=> UsesKeyIdentifier(b, DOMAIN b.signers)
    <3>1. \A k, info :
            SaysOf(b, k, info) =>
              (info.version = 3 <=> b.signers[k].sid.form = "SubjectKeyIdentifier")
      BY DEF SaysOf, InfoSays, SignerVersion
    <3> QED
      BY <1>2, <3>1 DEF UsesKeyIdentifier
  <2>2. \A form \in {"Other", "AttributeCertificateV2"} :
          ~(certs # None /\ \E i \in DOMAIN certs : certs[i].form = form)
    BY <1>4
  <2>3. ExpectedVersion(m) =
          IF m.contentType # IdData \/ \E i \in DOMAIN infos : infos[i].version = 3 THEN 3 ELSE 1
    BY <1>1, <2>2 DEF ExpectedVersion
  <2>4. /\ m.version = IF b.contentType # IdData \/ UsesKeyIdentifier(b, DOMAIN b.signers)
                         THEN 3 ELSE 1
        /\ m.contentType = b.contentType
    BY HeaderKept
  <2> QED
    BY <2>1, <2>3, <2>4
<1> QED
  BY <1>1, <1>3, <1>4, <1>5, <1>6, <1>7, <1>8, <1>9 DEF Parses

(* Whatever the caller configured, a message that build_signed_data        *)
(* returns is one that SignedData::try_from accepts.                       *)
THEOREM BuiltMessagesParse == BuilderSpec => []BuiltMessageParses
<1>1. AssemblyInv => BuiltMessageParses
  BY MessageAccepted DEF AssemblyInv, BuiltMessageParses
<1> QED
  BY <1>1, AssemblyInvariant, PTL

(* The certificate that a reader takes for a signer's holds its key.       *)
LEMMA KeyFound ==
  ASSUME NEW b, NEW m, BuiltFrom(b, m), NEW k \in DOMAIN b.signers,
         NEW info, SaysOf(b, k, info), KeyCanBeFound(b.signers[k], m)
  PROVE  \E c \in SigningCertificate(info, m) : CertInfo[c].key = b.signers[k].key
<1>1. PICK s : /\ s = b.signers[k] /\ s \in SignerBuilderType /\ SidFits(s) /\ SignerOk(b, s)
               /\ InfoSays(b, s, info) /\ KeyCanBeFound(s, m)
  BY DEF SaysOf
<1>2. info.sid = s.sid
  BY <1>1 DEF InfoSays
<1>3. s.certificate # None => CertInfo[s.certificate].key = s.key
  BY <1>1 DEF SignerOk
<1>4. s.certificate # None => Identifies(s.sid, s.certificate)
  BY <1>1 DEF SidFits, IssuerAndSerial, Identifies
<1>5. PICK certs : certs = (IF m.certificates = None THEN <<>> ELSE m.certificates)
  OBVIOUS
<1>6. PICK n \in Nat : /\ DOMAIN certs = 1..n
                       /\ \A i \in 1..n : certs[i].cert \in SigningCert
                       /\ s.certificate # None => \E i \in 1..n : certs[i].cert = s.certificate
  <2>1. PICK n \in Nat : \E l \in [1..n -> SigningCert] :
          {l[i] : i \in 1..n} = Kept(b) /\ HasCertificates(m, n, l)
    BY CertificatesKept
  <2>2. PICK l \in [1..n -> SigningCert] :
          {l[i] : i \in 1..n} = Kept(b) /\ HasCertificates(m, n, l)
    BY <2>1
  <2>3. DOMAIN certs = 1..n /\ \A i \in 1..n : certs[i].cert = l[i]
    <3>1. CASE n = 0
      <4>1. certs = <<>>
        BY <1>5, <2>2, <3>1 DEF HasCertificates
      <4>2. DOMAIN certs = {} /\ 1..n = {}
        BY <3>1, <4>1
      <4> QED
        BY <4>2
    <3>2. CASE n # 0
      <4>1. certs = m.certificates
        BY <1>5, <2>2, <3>2 DEF HasCertificates
      <4>2. /\ DOMAIN certs = 1..n
            /\ \A i \in 1..n : certs[i] = [form |-> "Certificate", cert |-> l[i]]
        BY <2>2, <3>2, <4>1 DEF HasCertificates
      <4>3. \A x : [form |-> "Certificate", cert |-> x].cert = x
        OBVIOUS
      <4> QED
        BY <4>2, <4>3
    <3> QED
      BY <3>1, <3>2
  <2>4. s.certificate # None => s.certificate \in Kept(b)
    BY <1>1 DEF Kept
  <2> QED
    BY <2>2, <2>3, <2>4
<1> DEFINE matching == {i \in DOMAIN certs : Identifies(s.sid, certs[i].cert)}
<1>7. /\ \A i \in matching : \/ certs[i].cert = s.certificate
                              \/ CertInfo[certs[i].cert].key = s.key
      /\ s.certificate = None => matching # {}
  BY <1>1, <1>5 DEF KeyCanBeFound
<1>8. matching # {}
  BY <1>4, <1>6, <1>7
<1>9. matching \in SUBSET (Nat \ {0})
  BY <1>6
<1>10. PICK i \in matching : \A j \in 1..(i - 1) : j \notin matching
  <2> HIDE DEF matching
  <2> QED
    BY <1>8, <1>9, FirstPosition
<1>11. i \in 1..n /\ \A j \in 1..(i - 1) : j \in DOMAIN certs
  BY <1>6
<1>12. certs[i].cert \in SigningCertificate(info, m)
  <2>1. /\ i \in DOMAIN certs
        /\ Identifies(info.sid, certs[i].cert)
        /\ \A j \in 1..(i - 1) : ~Identifies(info.sid, certs[j].cert)
    BY <1>2, <1>6, <1>10, <1>11
  <2> HIDE DEF matching
  <2> QED
    BY <1>5, <2>1 DEF SigningCertificate
<1>13. CertInfo[certs[i].cert].key = s.key
  <2>1. certs[i].cert # None
    BY <1>6, <1>11, BuilderAssumption, ContentsAssumption
  <2> QED
    BY <1>3, <1>7, <2>1
<1> QED
  BY <1>1, <1>12, <1>13

(* A signer's information verifies over what the signer digested.          *)
LEMMA InfoVerifies ==
  ASSUME NEW b, NEW m, BuiltFrom(b, m), NEW k \in DOMAIN b.signers,
         NEW info, SaysOf(b, k, info), KeyCanBeFound(b.signers[k], m),
         NEW content, content = DigestedContent(b, b.signers[k])
  PROVE  /\ VerifyWithContent(info, m, content)
         /\ m.content = content => VerifyWithSignedData(info, m)
<1>1. PICK s : s = b.signers[k] /\ s \in SignerBuilderType /\ SignerOk(b, s) /\ InfoSays(b, s, info)
  BY DEF SaysOf
<1>2. PICK alg, attributes :
        alg = SigningAlgorithm(KeyAlg[s.key]) /\ attributes = info.signedAttributes
  OBVIOUS
<1>3. /\ info.digestAlgorithm = DigestIdentifier(s.digest)
      /\ attributes \in AttributesFor(b, s)
      /\ attributes # None
      /\ info.signature = Signature(s.key, alg, [covers |-> "attributes", value |-> attributes])
  BY <1>1, <1>2 DEF InfoSays
<1>4. AlgorithmOf(info) = alg /\ Verifiable(KeyAlg[s.key], alg)
  BY <1>1, <1>2, InfoAccepted
<1>5. /\ Values(attributes, "contentType") = {s.contentType}
      /\ Values(attributes, "messageDigest") = {Digest(s.digest, content)}
  BY <1>1, <1>3, AttributesShape
<1>6. s.contentType = m.contentType
  <2>1. m.contentType = b.contentType
    BY HeaderKept
  <2> QED
    BY <1>1, <2>1 DEF SignerOk
<1>7. ContentTypeMatches(info, m)
  BY <1>2, <1>5, <1>6 DEF ContentTypeMatches
<1>8. VerifySignature(info, m)
  <2>1. PICK c \in SigningCertificate(info, m) : CertInfo[c].key = s.key
    BY <1>1, KeyFound
  <2>2. SignedMessage(info, m.content) = [covers |-> "attributes", value |-> attributes]
    BY <1>2, <1>3 DEF SignedMessage
  <2>3. SignatureValid(info, c, SignedMessage(info, m.content))
    BY <1>3, <1>4, <2>1, <2>2 DEF SignatureValid
  <2> QED
    BY <1>2, <1>3, <2>1, <2>3 DEF VerifySignature, VerifySignatureWithContent
<1>9. VerifyMessageDigestWithContent(info, content)
  BY <1>2, <1>3, <1>5 DEF VerifyMessageDigestWithContent, DigestIdentifier
<1>10. content # None
  <2>1. s.messageIdContent \in Data \cup {None}
    BY <1>1 DEF SignerBuilderType
  <2>2. ContentFits(b)
    BY DEF BuiltFrom, BuilderFits
  <2>3. content \in Content
    BY <1>1, <2>1, <2>2, ContentsAssumption, BuilderAssumption DEF DigestedContent, ContentFits
  <2> QED
    BY <2>3, ContentsAssumption
<1> QED
  BY <1>2, <1>3, <1>7, <1>8, <1>9, <1>10
  DEF VerifyWithContent, VerifyWithSignedData, VerifyMessageDigest

(* Every signer of a built message verifies, over what it was configured   *)
(* to digest and, when that is the inline content, over the message alone. *)
THEOREM BuiltSignersAllVerify ==
  ASSUME NoneIsNoList
  PROVE  BuilderSpec => []BuiltSignersVerify
<1>1. AssemblyInv => BuiltSignersVerify
  <2> SUFFICES ASSUME AssemblyInv, NEW r \in built, NEW n \in DOMAIN r.from.signers,
                      KeyCanBeFound(r.from.signers[n], r.message)
               PROVE  \E i \in DOMAIN r.message.signerInfos :
                        LET s == r.from.signers[n]
                            content == DigestedContent(r.from, s)
                            info == r.message.signerInfos[i]
                        IN  /\ MadeBy(s, info)
                            /\ VerifyWithContent(info, r.message, content)
                            /\ r.message.content = content => VerifyWithSignedData(info, r.message)
    BY DEF BuiltSignersVerify
  <2>1. PICK b, m : b = r.from /\ m = r.message /\ BuiltFrom(b, m)
    BY DEF AssemblyInv
  <2>2. PICK i \in DOMAIN m.signerInfos : SaysOf(b, n, m.signerInfos[i])
    BY <2>1, InfosSay
  <2>3. PICK info, content : info = m.signerInfos[i] /\ content = DigestedContent(b, b.signers[n])
    OBVIOUS
  <2>4. MadeBy(b.signers[n], info)
    BY <2>1, <2>2, <2>3, InfoMadeBy DEF SaysOf, BuiltFrom
  <2>5. /\ VerifyWithContent(info, m, content)
        /\ m.content = content => VerifyWithSignedData(info, m)
    BY <2>1, <2>2, <2>3, InfoVerifies
  <2> QED
    BY <2>1, <2>2, <2>3, <2>4, <2>5
<1> QED
  BY <1>1, AssemblyInvariant, PTL

----------------------------------------------------------------------------
(* A message is a function of its builder. *)

(* Whatever the order a HashSet yields its digests in.                     *)
LEMMA SameDigests ==
  ASSUME NEW b, NEW m1, BuiltFrom(b, m1), NEW m2, BuiltFrom(b, m2)
  PROVE  m1.digestAlgorithms = m2.digestAlgorithms
<1>1. PICK S : S = {b.signers[k].digest : k \in DOMAIN b.signers}
  OBVIOUS
<1>2. ASSUME NEW m, BuiltFrom(b, m)
      PROVE  \E e : /\ e \in Iterations(S) /\ S \subseteq DigestAlgorithm
                    /\ m.digestAlgorithms \in DigestsInOrder(Identifiers(e))
  <2>1. PICK j, T : \E e \in Iterations(j.digests) :
          Complete(b, j, T) /\ m.digestAlgorithms \in DigestsInOrder(Identifiers(e))
    BY <1>2, MessageParts
  <2>2. j.digests = S
    BY <1>1, <1>2, <2>1, CompleteShape DEF BuiltFrom
  <2>3. j.digests \subseteq DigestAlgorithm
    BY <2>1 DEF Complete
  <2> QED
    BY <2>1, <2>2, <2>3
<1>3. PICK e1 : /\ e1 \in Iterations(S) /\ S \subseteq DigestAlgorithm
                /\ m1.digestAlgorithms \in DigestsInOrder(Identifiers(e1))
  BY <1>2
<1>4. PICK e2 : /\ e2 \in Iterations(S)
                /\ m2.digestAlgorithms \in DigestsInOrder(Identifiers(e2))
  BY <1>2
<1>5. PICK n \in Nat : /\ e1 \in [1..n -> S] /\ IsInjective(e1) /\ Range(e1) = S
                       /\ e2 \in [1..n -> S] /\ IsInjective(e2) /\ Range(e2) = S
  BY <1>3, <1>4, DigestsFinite, IterationOnce
<1>6. PICK U : U = {DigestIdentifier(d) : d \in S}
  OBVIOUS
<1>7. ASSUME NEW e, e \in [1..n -> S], IsInjective(e), Range(e) = S
      PROVE  /\ Identifiers(e) \in [1..n -> U]
             /\ IsInjective(Identifiers(e))
             /\ Range(Identifiers(e)) = U
  <2>1. PICK ids : ids = Identifiers(e)
    OBVIOUS
  <2>2. DOMAIN ids = 1..n /\ \A i \in 1..n : ids[i] = DigestIdentifier(e[i])
    BY <1>7, <2>1 DEF Identifiers
  <2>3. ids \in [1..n -> U]
    <3>1. ids = [i \in 1..n |-> ids[i]]
      BY <1>7, <2>1 DEF Identifiers
    <3> QED
      BY <1>6, <1>7, <2>2, <3>1
  <2>4. \A x, y : DigestIdentifier(x) = DigestIdentifier(y) => x = y
    <3>1. \A x : DigestIdentifier(x).digest = x
      BY DEF DigestIdentifier
    <3> QED
      BY <3>1
  <2>5. IsInjective(ids)
    BY <1>7, <2>2, <2>4 DEF IsInjective
  <2>6. ASSUME NEW u \in U PROVE \E i \in 1..n : ids[i] = u
    <3>1. PICK d \in S : u = DigestIdentifier(d)
      BY <1>6
    <3>2. PICK i \in 1..n : e[i] = d
      BY <1>7 DEF Range
    <3> QED
      BY <2>2, <3>1, <3>2
  <2>7. \A i \in 1..n : ids[i] \in U
    BY <2>3
  <2>8. Range(ids) = U
    BY <2>2, <2>6, <2>7 DEF Range
  <2> QED
    BY <2>1, <2>3, <2>5, <2>8
<1>8. PICK s, t, rank : /\ s = Identifiers(e1) /\ t = Identifiers(e2)
                        /\ rank = [id \in U |-> DigestRank(id.digest)]
  OBVIOUS
<1>9. /\ s \in [1..n -> U] /\ IsInjective(s) /\ Range(s) = U
      /\ t \in [1..n -> U] /\ IsInjective(t) /\ Range(t) = U
  BY <1>5, <1>7, <1>8
<1>10. m1.digestAlgorithms \in DerSorted(s, rank) /\ m2.digestAlgorithms \in DerSorted(t, rank)
  BY <1>3, <1>4, <1>8, <1>9 DEF DigestsInOrder
<1>11. DerSorted(s, rank) = DerSorted(t, rank)
  <2>1. /\ s \in [1..n -> U] /\ t \in [1..n -> U]
        /\ IsInjective(s) /\ IsInjective(t)
        /\ Range(s) = Range(t)
    BY <1>9
  <2> QED
    BY <2>1, SortedBySet
<1> QED
  BY <1>10, <1>11, SortedIsOne

(* Whatever the order the certificates were given in.                      *)
LEMMA SameCertificates ==
  ASSUME NEW b, NEW m1, BuiltFrom(b, m1), NEW m2, BuiltFrom(b, m2)
  PROVE  m1.certificates = m2.certificates
<1>1. PICK K : K = Range(b.certificates)
                     \cup ({b.signers[k].certificate : k \in DOMAIN b.signers} \ {None})
  OBVIOUS
<1>2. ASSUME NEW m, BuiltFrom(b, m)
      PROVE  \E c, certs :
               /\ c \in Seq(SigningCert) /\ Distinct(c) /\ Range(c) = K
               /\ certs \in ChoicesInOrder(Choices(c))
               /\ certs = <<>> => m.certificates = None
               /\ certs # <<>> => m.certificates = certs
  <2>1. PICK j, T : \E e \in Iterations(j.digests), certs \in ChoicesInOrder(Choices(j.certificates)) :
          /\ Complete(b, j, T)
          /\ certs = <<>> => m.certificates = None
          /\ certs # <<>> => m.certificates = certs
    BY <1>2, MessageParts
  <2>2. PICK certs : /\ Complete(b, j, T)
                     /\ certs \in ChoicesInOrder(Choices(j.certificates))
                     /\ certs = <<>> => m.certificates = None
                     /\ certs # <<>> => m.certificates = certs
    BY <2>1
  <2>3. Range(j.certificates) = K
    BY <1>1, <1>2, <2>2, CompleteShape DEF BuiltFrom
  <2>4. j.certificates \in Seq(SigningCert) /\ Distinct(j.certificates)
    BY <2>2 DEF Complete
  <2> QED
    BY <2>2, <2>3, <2>4
<1>3. PICK c1, certs1 : /\ c1 \in Seq(SigningCert) /\ Distinct(c1) /\ Range(c1) = K
                        /\ certs1 \in ChoicesInOrder(Choices(c1))
                        /\ certs1 = <<>> => m1.certificates = None
                        /\ certs1 # <<>> => m1.certificates = certs1
  BY <1>2
<1>4. PICK c2, certs2 : /\ c2 \in Seq(SigningCert) /\ Distinct(c2) /\ Range(c2) = K
                        /\ certs2 \in ChoicesInOrder(Choices(c2))
                        /\ certs2 = <<>> => m2.certificates = None
                        /\ certs2 # <<>> => m2.certificates = certs2
  BY <1>2
<1>5. PICK U : U = {[form |-> "Certificate", cert |-> x] : x \in K}
  OBVIOUS
<1>6. ASSUME NEW c \in Seq(SigningCert), Distinct(c), Range(c) = K
      PROVE  \E n \in Nat : /\ Choices(c) \in [1..n -> U]
                            /\ IsInjective(Choices(c))
                            /\ Range(Choices(c)) = U
  <2>1. PICK n, s : n \in Nat /\ n = Len(c) /\ s = Choices(c)
    OBVIOUS
  <2>2. DOMAIN c = 1..n /\ \A i \in 1..n : c[i] \in K
    BY <1>6, <2>1 DEF Range
  <2>3. /\ DOMAIN s = 1..n
        /\ \A i \in 1..n : s[i] = [form |-> "Certificate", cert |-> c[i]]
        /\ s = [i \in 1..n |-> s[i]]
    BY <2>1, <2>2 DEF Choices
  <2>4. \A i \in 1..n : s[i] \in U
    BY <1>5, <2>2, <2>3
  <2>5. s \in [1..n -> U]
    BY <2>3, <2>4
  <2>6. ASSUME NEW i \in 1..n, NEW k \in 1..n, s[i] = s[k] PROVE i = k
    <3>1. s[i].cert = c[i] /\ s[k].cert = c[k]
      BY <2>3
    <3> QED
      BY <1>6, <2>2, <2>6, <3>1 DEF Distinct
  <2>7. ASSUME NEW u \in U PROVE \E i \in 1..n : s[i] = u
    <3>1. PICK x \in K : u = [form |-> "Certificate", cert |-> x]
      BY <1>5
    <3>2. PICK i \in 1..n : c[i] = x
      BY <1>6, <2>2 DEF Range
    <3> QED
      BY <2>3, <3>1, <3>2
  <2>8. IsInjective(s) /\ Range(s) = U
    BY <2>3, <2>4, <2>6, <2>7 DEF IsInjective, Range
  <2> QED
    BY <2>1, <2>5, <2>8
<1>7. PICK s, t, rank : /\ s = Choices(c1) /\ t = Choices(c2)
                        /\ rank = [choice \in U |-> CertInfo[choice.cert].der]
  OBVIOUS
<1>8. PICK n1 \in Nat : s \in [1..n1 -> U] /\ IsInjective(s) /\ Range(s) = U
  BY <1>3, <1>6, <1>7
<1>9. PICK n2 \in Nat : t \in [1..n2 -> U] /\ IsInjective(t) /\ Range(t) = U
  BY <1>4, <1>6, <1>7
<1>10. certs1 \in DerSorted(s, rank) /\ certs2 \in DerSorted(t, rank)
  BY <1>3, <1>4, <1>7, <1>8, <1>9 DEF ChoicesInOrder
<1>11. DerSorted(s, rank) = DerSorted(t, rank)
  <2>1. /\ s \in [1..n1 -> U] /\ t \in [1..n2 -> U]
        /\ IsInjective(s) /\ IsInjective(t)
        /\ Range(s) = Range(t)
    BY <1>8, <1>9
  <2>2. \A r : DerSorted(s, r) = DerSorted(t, r)
    BY <2>1, SortedBySet
  <2> QED
    BY <2>2
<1>12. certs1 = certs2
  BY <1>10, <1>11, SortedIsOne
<1> QED
  BY <1>3, <1>4, <1>12

(* A signer that is not stamped has one signer information: its signed     *)
(* attributes are sorted, and signing is deterministic.                    *)
LEMMA SameInfo ==
  ASSUME NEW b, NEW s, ~s.url,
         NEW info1, InfoOf(b, s, info1), NEW info2, InfoOf(b, s, info2)
  PROVE  info1 = info2
<1>1. PICK a1 \in AttributesFor(b, s) :
        info1 = [SignerInfo(s, a1) EXCEPT !.unsignedAttributes = None]
  BY DEF InfoOf
<1>2. PICK a2 \in AttributesFor(b, s) :
        info2 = [SignerInfo(s, a2) EXCEPT !.unsignedAttributes = None]
  BY DEF InfoOf
<1>3. a1 = a2
  BY SortedIsOne DEF AttributesFor, SortedAttributes
<1> QED
  BY <1>1, <1>2, <1>3

LEMMA SameInfos ==
  ASSUME NEW b, \A k \in DOMAIN b.signers : ~b.signers[k].url,
         NEW m1, BuiltFrom(b, m1), NEW m2, BuiltFrom(b, m2)
  PROVE  m1.signerInfos = m2.signerInfos
<1>1. PICK D : D = DOMAIN b.signers
  OBVIOUS
<1>2. ASSUME NEW m, BuiltFrom(b, m)
      PROVE  \E infos : /\ m.signerInfos \in InfosInOrder(infos)
                        /\ infos = [k \in D |-> infos[k]]
                        /\ \A k \in D : InfoOf(b, b.signers[k], infos[k])
  <2>1. PICK j, T : Complete(b, j, T) /\ m.signerInfos \in InfosInOrder(j.infos)
    BY <1>2, MessageParts
  <2>2. PICK infos : infos = j.infos
    OBVIOUS
  <2>3. DOMAIN infos = D /\ \A k \in D : InfoOf(b, b.signers[k], infos[k])
    BY <1>1, <1>2, <2>1, <2>2, CompleteShape DEF BuiltFrom
  <2>4. infos \in Seq(T)
    BY <2>1, <2>2 DEF Complete
  <2>5. infos = [k \in D |-> infos[k]]
    BY <2>3, <2>4
  <2> QED
    BY <2>1, <2>2, <2>3, <2>5
<1>3. PICK l1 : /\ m1.signerInfos \in InfosInOrder(l1)
                /\ l1 = [k \in D |-> l1[k]]
                /\ \A k \in D : InfoOf(b, b.signers[k], l1[k])
  BY <1>2
<1>4. PICK l2 : /\ m2.signerInfos \in InfosInOrder(l2)
                /\ l2 = [k \in D |-> l2[k]]
                /\ \A k \in D : InfoOf(b, b.signers[k], l2[k])
  BY <1>2
<1>5. ASSUME NEW k \in D PROVE l1[k] = l2[k]
  <2>1. PICK s : s = b.signers[k] /\ ~s.url
    BY <1>1
  <2>2. InfoOf(b, s, l1[k]) /\ InfoOf(b, s, l2[k])
    BY <1>3, <1>4, <2>1
  <2> QED
    BY <2>1, <2>2, SameInfo
<1>6. l1 = l2
  BY <1>3, <1>4, <1>5
<1> QED
  BY <1>3, <1>4, <1>6, SortedIsOne DEF InfosInOrder

LEMMA SameMessage ==
  ASSUME NEW b, \A k \in DOMAIN b.signers : ~b.signers[k].url,
         NEW m1, BuiltFrom(b, m1), NEW m2, BuiltFrom(b, m2)
  PROVE  m1 = m2
<1>1. ASSUME NEW m, BuiltFrom(b, m)
      PROVE  m = [version          |-> m.version,
                  digestAlgorithms |-> m.digestAlgorithms,
                  contentType      |-> m.contentType,
                  content          |-> m.content,
                  certificates     |-> m.certificates,
                  signerInfos      |-> m.signerInfos]
  BY <1>1, MessageParts
<1>2. m1.version = m2.version /\ m1.contentType = m2.contentType /\ m1.content = m2.content
  BY HeaderKept
<1>3. /\ m1.digestAlgorithms = m2.digestAlgorithms
      /\ m1.certificates = m2.certificates
      /\ m1.signerInfos = m2.signerInfos
  BY SameDigests, SameCertificates, SameInfos
<1> QED
  BY <1>1, <1>2, <1>3

(* Building again gives the same message, whatever order a HashSet yields  *)
(* its digests in and whatever failed in between.                          *)
THEOREM BuildingIsDeterministic == BuilderSpec => []SameBuilderSameMessage
<1>1. AssemblyInv => SameBuilderSameMessage
  <2> SUFFICES ASSUME AssemblyInv, NEW q \in built, NEW r \in built, q.from = r.from,
                      \A n \in DOMAIN q.from.signers : ~q.from.signers[n].url
               PROVE  q.message = r.message
    BY DEF SameBuilderSameMessage
  <2>1. PICK b : b = q.from /\ BuiltFrom(b, q.message) /\ BuiltFrom(b, r.message)
    BY DEF AssemblyInv
  <2> QED
    BY <2>1, SameMessage
<1> QED
  BY <1>1, AssemblyInvariant, PTL
=============================================================================

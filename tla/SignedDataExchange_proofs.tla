--------------------- MODULE SignedDataExchange_proofs ---------------------
(***************************************************************************)
(* A reader accepts only what was signed, and the exchange implements      *)
(* Authenticity; and a time-stamp token is over the signature of the       *)
(* signer that carries it, in every message a builder returns and in every *)
(* one a reader accepts after the wire has moved tokens about.  For every  *)
(* value of the constants: any number of keys, certificates, authorities,  *)
(* faults, signers, messages and alterations.                              *)
(***************************************************************************)
EXTENDS SignedDataExchange, SignedDataBuilder_proofs, TimeStampProtocol_proofs

(* signing_certificate finds at most one certificate.                      *)
LEMMA SigningCertificateUnique ==
  ASSUME NEW S, NEW m, MessageOk(m, S), NEW info,
         NEW c \in SigningCertificate(info, m), NEW d \in SigningCertificate(info, m)
  PROVE  c = d
<1> DEFINE certs == IF m.certificates = None THEN <<>> ELSE m.certificates
           Match(i) == Identifies(info.sid, certs[i].cert)
           First(i) == Match(i) /\ \A k \in 1..(i - 1) : ~Match(k)
<1>1. DOMAIN certs \subseteq Nat \ {0}
  <2>1. CASE m.certificates = None
    BY <2>1
  <2>2. CASE m.certificates \in Seq(Choice)
    BY <2>2
  <2> QED
    BY <2>1, <2>2 DEF MessageOk
<1>2. PICK i \in DOMAIN certs : First(i) /\ c = certs[i].cert
  BY DEF SigningCertificate
<1>3. PICK j \in DOMAIN certs : First(j) /\ d = certs[j].cert
  BY DEF SigningCertificate
<1>4. ~(i < j) /\ ~(j < i)
  <2>1. i \in Nat \ {0} /\ j \in Nat \ {0}
    BY <1>1, <1>2, <1>3
  <2>2. i < j => i \in 1..(j - 1)
    BY <2>1
  <2>3. j < i => j \in 1..(i - 1)
    BY <2>1
  <2> HIDE DEF Match, certs
  <2> QED
    BY <1>2, <1>3, <2>2, <2>3
<1>5. i = j
  BY <1>1, <1>2, <1>3, <1>4
<1> QED
  BY <1>2, <1>3, <1>5

(* A signature that verifies under a certificate was made by its key over  *)
(* the message.                                                            *)
LEMMA VerifiedSignature ==
  ASSUME NEW S, NEW m, MessageOk(m, S), NEW info, NEW c \in SigningCertificate(info, m),
         NEW message, VerifySignatureWithContent(info, m, message)
  PROVE  info.signature.key = CertInfo[c].key /\ info.signature.message = message
<1>1. PICK d \in SigningCertificate(info, m) : SignatureValid(info, d, message)
  BY DEF VerifySignatureWithContent
<1>2. c = d
  BY SigningCertificateUnique
<1> QED
  BY <1>1, <1>2 DEF SignatureValid, Signature

(* With signed attributes, the signature covers the content type and the   *)
(* digest that the reader compared.                                        *)
LEMMA AttributesStatement ==
  ASSUME NEW S, NEW m, MessageOk(m, S), NEW info, NEW c \in SigningCertificate(info, m),
         NEW content, info.signedAttributes # None,
         VerifySignature(info, m), ContentTypeMatches(info, m),
         VerifyMessageDigestWithContent(info, content)
  PROVE  Statement(Accepted(c, m, info, content)) \in Statements(info.signature)
<1>1. /\ info.signature.key = CertInfo[c].key
      /\ info.signature.message = [covers |-> "attributes", value |-> info.signedAttributes]
  BY VerifiedSignature DEF VerifySignature, SignedMessage
<1>2. m.contentType \in Values(info.signedAttributes, "contentType")
  BY DEF ContentTypeMatches
<1>3. Digest(info.digestAlgorithm.digest, content) \in Values(info.signedAttributes, "messageDigest")
  BY DEF VerifyMessageDigestWithContent
<1>4. Digest(info.digestAlgorithm.digest, content).of = content
  BY DEF Digest
<1>5. Statements(info.signature)
        = {[key |-> info.signature.key, contentType |-> typ, content |-> d.of] :
             typ \in Values(info.signedAttributes, "contentType"),
             d \in Values(info.signedAttributes, "messageDigest")}
  BY <1>1 DEF Statements
<1>6. Statement(Accepted(c, m, info, content))
        = [key |-> CertInfo[c].key, contentType |-> m.contentType, content |-> content]
  BY DEF Statement, Accepted
<1> QED
  BY <1>1, <1>2, <1>3, <1>4, <1>5, <1>6

(* Without, it covers the content itself, and try_from has seen to it that *)
(* the content is id-data.                                                 *)
LEMMA ContentStatement ==
  ASSUME NEW S, NEW m, MessageOk(m, S), NEW n \in DOMAIN m.signerInfos, Parses(m),
         NEW c \in SigningCertificate(m.signerInfos[n], m), NEW content,
         content # None, m.signerInfos[n].signedAttributes = None,
         VerifySignatureWithContent(m.signerInfos[n], m,
                                    SignedMessage(m.signerInfos[n], content))
  PROVE  Statement(Accepted(c, m, m.signerInfos[n], content))
           \in Statements(m.signerInfos[n].signature)
<1> DEFINE info == m.signerInfos[n]
<1>1. m.contentType = IdData
  BY DEF Parses
<1>2. /\ info.signature.key = CertInfo[c].key
      /\ info.signature.message = [covers |-> "content", value |-> content]
  <2>1. SignedMessage(info, content) = [covers |-> "content", value |-> content]
    BY DEF SignedMessage
  <2> QED
    BY <2>1, VerifiedSignature
<1>3. Statements(info.signature)
        = {[key |-> info.signature.key, contentType |-> IdData, content |-> content]}
  BY <1>2 DEF Statements
<1>4. Statement(Accepted(c, m, info, content))
        = [key |-> CertInfo[c].key, contentType |-> m.contentType, content |-> content]
  BY DEF Statement, Accepted
<1> QED
  BY <1>1, <1>2, <1>3, <1>4

----------------------------------------------------------------------------
(* The inductive invariant: every signer info on the wire carries a        *)
(* signature that was made, and what was accepted was signed.              *)

WireOk(S) ==
  /\ \A info \in S : Made(info)
  /\ \A m \in wire : MessageOk(m, S)

ExchangeInv ==
  /\ BuilderInv
  /\ \E S : WireOk(S)
  /\ AcceptedWasSigned

(* A message joins the wire.                                               *)
LEMMA TransmitInv ==
  ASSUME ExchangeInv, NEW message, NEW T, MessageOk(message, T),
         \A info \in T : "signature" \in DOMAIN info /\ info.signature \in signed',
         wire' = wire \cup {message}, UNCHANGED <<builder, draft, job, built, accepted>>,
         signed \subseteq signed'
  PROVE  ExchangeInv'
<1>1. BuilderInv'
  BY BuilderInvMonotone DEF ExchangeInv
<1>2. PICK S : WireOk(S)
  BY DEF ExchangeInv
<1>3. WireOk(S \cup T)'
  <2>1. \A info \in S \cup T : Made(info)'
    BY <1>2 DEF WireOk, Made
  <2>2. \A m \in wire' : MessageOk(m, S \cup T)
    BY <1>2 DEF WireOk, MessageOk
  <2> QED
    BY <2>1, <2>2 DEF WireOk, MessageOk
<1>4. AcceptedWasSigned'
  BY DEF ExchangeInv, AcceptedWasSigned
<1> QED
  BY <1>1, <1>3, <1>4 DEF ExchangeInv

(* A built message is transmitted.                                         *)
LEMMA TransmitBuiltInv ==
  ASSUME ExchangeInv, NEW r \in built, Transmit(r.message)
  PROVE  ExchangeInv'
<1>1. PICK S : PartsOk(S)
  BY DEF ExchangeInv, BuilderInv
<1>2. UNCHANGED <<builder, draft, job, built, signed, accepted>>
  BY DEF Transmit, vars, builderVars
<1>3. \A info \in S : "signature" \in DOMAIN info /\ info.signature \in signed'
  BY <1>1, <1>2 DEF PartsOk, Made
<1> QED
  BY <1>1, <1>2, <1>3, TransmitInv DEF PartsOk, Transmit

(* Another implementation signs.                                           *)
LEMMA ForeignSignInv ==
  ASSUME ExchangeInv, NEW c \in Cert, NEW content, ForeignSign(c, content)
  PROVE  ExchangeInv'
<1>1. PICK message : message = ForeignMessage(c, content)
  OBVIOUS
<1>2. PICK info : message.signerInfos = <<info>> /\ "signature" \in DOMAIN info
  BY <1>1 DEF ForeignMessage
<1>3. /\ wire' = wire \cup {message}
      /\ signed' = signed \cup {info.signature}
      /\ UNCHANGED <<builder, draft, job, built, accepted>>
  BY <1>1, <1>2 DEF ForeignSign
<1>4. MessageOk(message, {info})
  <2>1. message.certificates \in Seq(Choice)
    <3>1. message.certificates = <<[form |-> "Certificate", cert |-> c]>>
      BY <1>1 DEF ForeignMessage
    <3>2. [form |-> "Certificate", cert |-> c] \in Choice
      BY DEF Choice
    <3> QED
      BY <3>1, <3>2
  <2>2. message.signerInfos \in Seq({info})
    BY <1>2
  <2>3. DOMAIN message = {"version", "digestAlgorithms", "contentType", "content",
                          "certificates", "signerInfos"}
    BY <1>1 DEF ForeignMessage
  <2> QED
    BY <2>1, <2>2, <2>3 DEF MessageOk
<1> QED
  BY <1>2, <1>3, <1>4, TransmitInv

(* Altering a signer info leaves its signature.                            *)
LEMMA AlteredInfoMade ==
  ASSUME NEW info, Made(info), NEW others, NEW altered \in AlteredInfos(info, others)
  PROVE  Made(altered)
<1>1. altered.signature = info.signature /\ "signature" \in DOMAIN altered
  BY DEF AlteredInfos, Made
<1> QED
  BY <1>1 DEF Made

(* Altering a message leaves it a message, of the signer infos it had, of  *)
(* other ones and of altered ones.                                         *)
LEMMA AlteredMessageOk ==
  ASSUME NEW S, NEW m, MessageOk(m, S),
         NEW others \in SUBSET S, NEW altered \in AlteredMessages(m, others)
  PROVE  \E T : /\ MessageOk(altered, T)
                /\ \A info \in T : \/ info \in S
                                    \/ \E o \in S : info \in AlteredInfos(o, others)
<1>1. CASE \E d : altered = [m EXCEPT !.content = d]
  BY <1>1 DEF MessageOk
<1>2. CASE \E typ : altered = [m EXCEPT !.contentType = typ]
  BY <1>2 DEF MessageOk
<1>3. CASE altered = [m EXCEPT !.certificates = None]
  BY <1>3 DEF MessageOk
<1>4. CASE \E c \in Cert :
             altered = [m EXCEPT !.certificates = <<[form |-> "Certificate", cert |-> c]>>]
  <2>1. PICK c \in Cert :
          altered = [m EXCEPT !.certificates = <<[form |-> "Certificate", cert |-> c]>>]
    BY <1>4
  <2>2. <<[form |-> "Certificate", cert |-> c]>> \in Seq(Choice)
    <3>1. [form |-> "Certificate", cert |-> c] \in Choice
      BY DEF Choice
    <3> QED
      BY <3>1
  <2> QED
    BY <2>1, <2>2 DEF MessageOk
<1>5. CASE \E v : altered = [m EXCEPT !.version = v]
  BY <1>5 DEF MessageOk
<1>6. CASE \E ids : altered = [m EXCEPT !.digestAlgorithms = ids]
  BY <1>6 DEF MessageOk
<1>7. CASE \E info \in others : altered = [m EXCEPT !.signerInfos = <<info>>]
  <2>1. PICK info \in S : altered = [m EXCEPT !.signerInfos = <<info>>]
    BY <1>7
  <2>2. <<info>> \in Seq(S)
    OBVIOUS
  <2> QED
    BY <2>1, <2>2 DEF MessageOk
<1>8. CASE \E n \in DOMAIN m.signerInfos :
             \E info \in AlteredInfos(m.signerInfos[n], others) :
               altered = [m EXCEPT !.signerInfos[n] = info]
  <2>1. PICK n \in DOMAIN m.signerInfos :
          \E info \in AlteredInfos(m.signerInfos[n], others) :
            altered = [m EXCEPT !.signerInfos[n] = info]
    BY <1>8
  <2>0. PICK info \in AlteredInfos(m.signerInfos[n], others) :
          altered = [m EXCEPT !.signerInfos[n] = info]
    BY <2>1
  <2>2. m.signerInfos \in Seq(S) /\ m.signerInfos[n] \in S
    BY DEF MessageOk
  <2>3. \A x \in S \cup {info} :
          x \in S \/ \E o \in S : x \in AlteredInfos(o, others)
    BY <2>2
  <2>4. [m.signerInfos EXCEPT ![n] = info] \in Seq(S \cup {info})
    BY <2>2
  <2>5. MessageOk(altered, S \cup {info})
    BY <2>0, <2>4 DEF MessageOk
  <2> QED
    BY <2>3, <2>5
<1>9. \/ \E d : altered = [m EXCEPT !.content = d]
      \/ \E typ : altered = [m EXCEPT !.contentType = typ]
      \/ altered = [m EXCEPT !.certificates = None]
      \/ \E c \in Cert :
           altered = [m EXCEPT !.certificates = <<[form |-> "Certificate", cert |-> c]>>]
      \/ \E v : altered = [m EXCEPT !.version = v]
      \/ \E ids : altered = [m EXCEPT !.digestAlgorithms = ids]
      \/ \E info \in others : altered = [m EXCEPT !.signerInfos = <<info>>]
      \/ \E n \in DOMAIN m.signerInfos :
           \E info \in AlteredInfos(m.signerInfos[n], others) :
             altered = [m EXCEPT !.signerInfos[n] = info]
  BY SMTT(30) DEF AlteredMessages
<1> QED
  BY <1>1, <1>2, <1>3, <1>4, <1>5, <1>6, <1>7, <1>8, <1>9

(* The network alters a message.                                           *)
LEMMA AlterInv ==
  ASSUME ExchangeInv, NEW m \in wire, Alter(m)
  PROVE  ExchangeInv'
<1>1. PICK S : WireOk(S)
  BY DEF ExchangeInv
<1>2. PICK altered \in AlteredMessages(m, InfosOf(wire)) : wire' = wire \cup {altered}
  BY DEF Alter
<1>3. InfosOf(wire) \in SUBSET S
  <2>1. ASSUME NEW w \in wire, NEW i \in DOMAIN w.signerInfos PROVE w.signerInfos[i] \in S
    BY <1>1 DEF WireOk, MessageOk
  <2> QED
    BY <2>1 DEF InfosOf
<1>4. PICK T : MessageOk(altered, T) /\ \A info \in T : Made(info)
  <2>1. PICK T : /\ MessageOk(altered, T)
                 /\ \A info \in T : \/ info \in S
                                     \/ \E o \in S : info \in AlteredInfos(o, InfosOf(wire))
    BY <1>1, <1>2, <1>3, AlteredMessageOk DEF WireOk
  <2>2. \A info \in T : Made(info)
    BY <1>1, <2>1, AlteredInfoMade DEF WireOk
  <2> QED
    BY <2>1, <2>2
<1>5. UNCHANGED <<builder, draft, job, built, signed, accepted>>
  BY DEF Alter, vars, builderVars
<1> QED
  BY <1>2, <1>4, <1>5, TransmitInv DEF Made

(* A reader that accepts what was signed keeps the invariant.              *)
LEMMA AcceptInv ==
  ASSUME ExchangeInv, NEW a, \E signature \in signed : Statement(a) \in Statements(signature),
         accepted' = accepted \cup {a}, UNCHANGED <<vars, wire>>
  PROVE  ExchangeInv'
<1>1. UNCHANGED <<builder, draft, job, built, signed>>
  BY DEF vars, builderVars
<1>2. BuilderInv'
  BY <1>1, BuilderInvMonotone DEF ExchangeInv
<1>3. PICK S : WireOk(S)
  BY DEF ExchangeInv
<1>4. WireOk(S)'
  BY <1>1, <1>3 DEF WireOk, Made, MessageOk
<1>5. AcceptedWasSigned'
  BY <1>1 DEF ExchangeInv, AcceptedWasSigned
<1> QED
  BY <1>2, <1>4, <1>5 DEF ExchangeInv

(* What either reader accepts was signed.                                  *)
LEMMA ReceivedWasSigned ==
  ASSUME ExchangeInv, NEW m \in wire, NEW n \in DOMAIN m.signerInfos, Parses(m),
         NEW c \in SigningCertificate(m.signerInfos[n], m), NEW content, content # None,
         \/ content = m.content /\ VerifyWithSignedData(m.signerInfos[n], m)
         \/ VerifyWithContent(m.signerInfos[n], m, content)
  PROVE  \E signature \in signed :
           Statement(Accepted(c, m, m.signerInfos[n], content)) \in Statements(signature)
<1> DEFINE info == m.signerInfos[n]
<1>1. PICK S : WireOk(S)
  BY DEF ExchangeInv
<1>2. MessageOk(m, S) /\ info.signature \in signed
  BY <1>1 DEF WireOk, MessageOk, Made
<1>3. CASE info.signedAttributes # None
  <2>1. VerifySignature(info, m) /\ ContentTypeMatches(info, m)
        /\ VerifyMessageDigestWithContent(info, content)
    BY <1>3 DEF VerifyWithSignedData, VerifyMessageDigest, VerifyWithContent
  <2> QED
    BY <1>2, <1>3, <2>1, AttributesStatement
<1>4. CASE info.signedAttributes = None
  <2>1. VerifySignatureWithContent(info, m, SignedMessage(info, content))
    BY <1>4 DEF VerifyWithSignedData, VerifyWithContent, VerifySignature
  <2> QED
    BY <1>2, <1>4, <2>1, ContentStatement
<1> QED
  BY <1>3, <1>4

(* Signatures are made and never unmade.                                   *)
LEMMA SignedGrows == BuilderNext => signed \subseteq signed'
<1>1. CASE Configure
  BY <1>1 DEF Configure, SetBuilder, SetDraft, ContentInline, ContentExternal,
     BuilderContentType, SigningTime, Certificate, StartSigner, StartSignerWithIdentifier,
     SignerDigest, MessageIdContent, DetachedMessageDigest, SignerContentType,
     SignedAttribute, TimeStampUrl, AddSigner
<1>2. CASE Sign
  BY <1>2 DEF Sign
<1>3. CASE BeginBuild \/ RefuseSigner \/ SigningFails \/ RequestStamp \/ AttachStamp
           \/ StampingFails \/ FinishBuild \/ Network
  BY <1>3 DEF BeginBuild, RefuseSigner, SigningFails, RequestStamp, AttachStamp,
     StampingFails, FinishBuild, Network, builderVars
<1> QED
  BY <1>1, <1>2, <1>3 DEF BuilderNext, BuildStep

(* A step that leaves the wire and the readers alone keeps the invariant.  *)
LEMMA BuilderStepInv ==
  ASSUME ExchangeInv, BuilderInv', signed \subseteq signed', UNCHANGED <<wire, accepted>>
  PROVE  ExchangeInv'
<1>1. PICK S : WireOk(S)
  BY DEF ExchangeInv
<1>2. WireOk(S)'
  BY <1>1 DEF WireOk, Made, MessageOk
<1>3. AcceptedWasSigned'
  BY DEF ExchangeInv, AcceptedWasSigned
<1> QED
  BY <1>2, <1>3 DEF ExchangeInv

(* Every step of the exchange keeps the invariant.                         *)
LEMMA ExchangeNextInv == ExchangeInv /\ [ExchangeNext]_exchangeVars => ExchangeInv'
<1> SUFFICES ASSUME ExchangeInv, [ExchangeNext]_exchangeVars PROVE ExchangeInv'
  OBVIOUS
<1>1. CASE BuilderNext /\ UNCHANGED <<wire, accepted>>
  BY <1>1, BuilderNextInv, SignedGrows, BuilderStepInv DEF ExchangeInv
<1>2. ASSUME NEW r \in built, Transmit(r.message) PROVE ExchangeInv'
  BY <1>2, TransmitBuiltInv
<1>3. ASSUME NEW c \in Cert, NEW content, ForeignSign(c, content) PROVE ExchangeInv'
  BY <1>3, ForeignSignInv
<1>4. ASSUME NEW m \in wire, Alter(m) PROVE ExchangeInv'
  BY <1>4, AlterInv
<1>5. ASSUME NEW m \in wire, NEW n \in DOMAIN m.signerInfos, Receive(m, n) PROVE ExchangeInv'
  <2>1. PICK c \in SigningCertificate(m.signerInfos[n], m) :
          accepted' = accepted \cup {Accepted(c, m, m.signerInfos[n], m.content)}
    BY <1>5 DEF Receive
  <2>2. Parses(m) /\ VerifyWithSignedData(m.signerInfos[n], m) /\ m.content # None
        /\ UNCHANGED <<vars, wire>>
    BY <1>5 DEF Receive, VerifyWithSignedData
  <2> QED
    BY <2>1, <2>2, ReceivedWasSigned, AcceptInv
<1>6. ASSUME NEW m \in wire, NEW content \in Data, NEW n \in DOMAIN m.signerInfos,
             ReceiveDetached(m, n, content)
      PROVE  ExchangeInv'
  <2>1. PICK c \in SigningCertificate(m.signerInfos[n], m) :
          accepted' = accepted \cup {Accepted(c, m, m.signerInfos[n], content)}
    BY <1>6 DEF ReceiveDetached
  <2>2. Parses(m) /\ VerifyWithContent(m.signerInfos[n], m, content) /\ UNCHANGED <<vars, wire>>
    BY <1>6 DEF ReceiveDetached
  <2>3. content # None
    BY ContentsAssumption, BuilderAssumption
  <2> QED
    BY <2>1, <2>2, <2>3, ReceivedWasSigned, AcceptInv
<1>7. CASE UNCHANGED exchangeVars
  BY <1>7, BuilderNextInv, BuilderStepInv DEF ExchangeInv, exchangeVars, vars, builderVars
<1> QED
  BY <1>1, <1>2, <1>3, <1>4, <1>5, <1>6, <1>7 DEF ExchangeNext

(* The invariant holds of every behaviour of the exchange.                 *)
LEMMA ExchangeInvariant == ExchangeSpec => []ExchangeInv
<1>1. ExchangeInit => ExchangeInv
  <2>1. SUFFICES ASSUME ExchangeInit PROVE ExchangeInv
    OBVIOUS
  <2>2. WireOk({})
    BY <2>1 DEF ExchangeInit, WireOk
  <2>3. AcceptedWasSigned
    BY <2>1 DEF ExchangeInit, AcceptedWasSigned
  <2> QED
    BY <2>1, <2>2, <2>3, BuilderInitInv DEF ExchangeInit, ExchangeInv
<1>2. ExchangeInv /\ [ExchangeNext]_exchangeVars => ExchangeInv'
  BY ExchangeNextInv
<1> QED
  BY <1>1, <1>2, PTL DEF ExchangeSpec

(* Whatever happens to messages on the wire, a reader accepts a content    *)
(* under a type and a key only after that key has signed them.             *)
THEOREM AcceptedOnlyIfSigned == ExchangeSpec => []AcceptedWasSigned
<1>1. ExchangeInv => AcceptedWasSigned
  BY DEF ExchangeInv
<1> QED
  BY <1>1, ExchangeInvariant, PTL

----------------------------------------------------------------------------
(* The exchange implements Authenticity.                                   *)

(* A step that only makes signatures endorses.                             *)
LEMMA EndorseStep ==
  ASSUME signed \subseteq signed', UNCHANGED accepted
  PROVE  Promise!Next
<1>1. Promise!Endorse
  BY DEF Promise!Endorse
<1> QED
  BY <1>1 DEF Promise!Next

(* A step in which a reader accepts what was signed is an acceptance.      *)
LEMMA AcceptStep ==
  ASSUME NEW a, \E signature \in signed : Statement(a) \in Statements(signature),
         accepted' = accepted \cup {a}, UNCHANGED signed
  PROVE  Promise!Next
<1>1. Statement(a) \in UNION {Statements(signature) : signature \in signed}
  OBVIOUS
<1>2. {Statement(b) : b \in accepted'} = {Statement(b) : b \in accepted} \cup {Statement(a)}
  OBVIOUS
<1>3. Promise!Accept(Statement(a))
  BY <1>1, <1>2 DEF Promise!Accept
<1> QED
  BY <1>1, <1>3 DEF Promise!Next

(* Every step of the exchange is a step of Authenticity, or none.          *)
LEMMA PromiseStep ==
  ExchangeInv /\ [ExchangeNext]_exchangeVars => [Promise!Next]_(Promise!vars)
<1> SUFFICES ASSUME ExchangeInv, [ExchangeNext]_exchangeVars
             PROVE  [Promise!Next]_(Promise!vars)
  OBVIOUS
<1>1. CASE BuilderNext /\ UNCHANGED <<wire, accepted>>
  BY <1>1, SignedGrows, EndorseStep
<1>2. ASSUME NEW message, Transmit(message) PROVE Promise!Next
  BY <1>2, EndorseStep DEF Transmit, vars, builderVars
<1>3. ASSUME NEW c \in Cert, NEW content, ForeignSign(c, content) PROVE Promise!Next
  BY <1>3, EndorseStep DEF ForeignSign
<1>4. ASSUME NEW m \in wire, Alter(m) PROVE Promise!Next
  BY <1>4, EndorseStep DEF Alter, vars, builderVars
<1>5. ASSUME NEW m \in wire, NEW n \in DOMAIN m.signerInfos, Receive(m, n) PROVE Promise!Next
  <2>1. PICK c \in SigningCertificate(m.signerInfos[n], m) :
          accepted' = accepted \cup {Accepted(c, m, m.signerInfos[n], m.content)}
    BY <1>5 DEF Receive
  <2>2. /\ Parses(m) /\ VerifyWithSignedData(m.signerInfos[n], m) /\ m.content # None
        /\ UNCHANGED signed
    BY <1>5 DEF Receive, VerifyWithSignedData, vars, builderVars
  <2> QED
    BY <2>1, <2>2, ReceivedWasSigned, AcceptStep
<1>6. ASSUME NEW m \in wire, NEW content \in Data, NEW n \in DOMAIN m.signerInfos,
             ReceiveDetached(m, n, content)
      PROVE  Promise!Next
  <2>1. PICK c \in SigningCertificate(m.signerInfos[n], m) :
          accepted' = accepted \cup {Accepted(c, m, m.signerInfos[n], content)}
    BY <1>6 DEF ReceiveDetached
  <2>2. /\ Parses(m) /\ VerifyWithContent(m.signerInfos[n], m, content)
        /\ UNCHANGED signed
    BY <1>6 DEF ReceiveDetached, vars, builderVars
  <2>3. content # None
    BY ContentsAssumption, BuilderAssumption
  <2> QED
    BY <2>1, <2>2, <2>3, ReceivedWasSigned, AcceptStep
<1>7. CASE UNCHANGED exchangeVars
  BY <1>7 DEF exchangeVars, vars, builderVars, Promise!vars
<1> QED
  BY <1>1, <1>2, <1>3, <1>4, <1>5, <1>6, <1>7 DEF ExchangeNext

(* The exchange, with its builder, time-stamping authorities, foreign      *)
(* signer, network and readers, implements the abstract specification.     *)
THEOREM ExchangeIsAuthentic == ExchangeSpec => Authentic
<1>1. ExchangeInit => Promise!Init
  BY DEF ExchangeInit, BuilderInit, Promise!Init
<1>2. ExchangeInv /\ [ExchangeNext]_exchangeVars => [Promise!Next]_(Promise!vars)
  BY PromiseStep
<1> QED
  BY <1>1, <1>2, ExchangeInvariant, PTL DEF ExchangeSpec, Authentic, Promise!Spec
----------------------------------------------------------------------------
(* Time-stamp tokens. *)

(* An authority sent this token, in a reply.                               *)
Sent(token) ==
  \E s \in stamps, fault \in Fault :
    /\ token = Token(s.request, s.cert, fault, s.tst.genTime)
    /\ s.tst = Stamp(s.request, fault, s.tst.genTime)

(* A signer info whose tokens, if it has any, were sent.                   *)
CarriesSent(info) ==
  /\ "unsignedAttributes" \in DOMAIN info
  /\ \A token \in TimeStampToken(info) : Sent(token)

(* One whose tokens verify for it, too.                                    *)
CarriesVerified(info) ==
  /\ CarriesSent(info)
  /\ \A token \in TimeStampToken(info) : VerifyTimeStampToken(info, token)

(* The stamps only grow in number.                                         *)
LEMMA SentStays ==
  ASSUME NEW info, stamps \subseteq stamps'
  PROVE  /\ CarriesSent(info) => CarriesSent(info)'
         /\ CarriesVerified(info) => CarriesVerified(info)'
BY DEF CarriesVerified, CarriesSent, Sent

(* A token that was sent, and verifies for a signer, stamps its signature: *)
(* what an authority sends altered does not verify.                        *)
LEMMA SentTokenStamps ==
  ASSUME TspInv, NEW token, Sent(token), NEW info, VerifyTimeStampToken(info, token)
  PROVE  \E s \in stamps : s.tst = token.content /\ s.tst.imprint.of = info.signature
<1>1. PICK s \in stamps, fault \in Fault :
        /\ token = Token(s.request, s.cert, fault, s.tst.genTime)
        /\ s.tst = Stamp(s.request, fault, s.tst.genTime)
  BY DEF Sent
<1>2. /\ token.contentType = IdTstInfo
      /\ token.content # None
      /\ token.content.imprint = Digest(token.content.hashAlgorithm.digest, info.signature)
      /\ VerifyWithSignedData(token.signerInfos[1], token)
      /\ VerifyTimeStampCertificate(token.signerInfos[1], token)
  BY DEF VerifyTimeStampToken
<1>3. token.certificates # None
  <2>1. SigningCertificate(token.signerInfos[1], token) # {}
    BY <1>2 DEF VerifyTimeStampCertificate
  <2> QED
    BY <2>1 DEF SigningCertificate
<1>4. PICK time \in Nat : time = s.tst.genTime
  BY DEF TspInv, StampsMade
<1>5. fault # "altered"
  BY <1>1, <1>2, <1>3, <1>4, AlteredTokenFails
<1>6. token.content = s.tst
  <2> DEFINE r == s.request
             c == s.cert
             tst == s.tst
  <2>1. token = Token(r, c, fault, time) /\ tst = Stamp(r, fault, time)
    BY <1>1, <1>4
  <2> HIDE DEF r, c, tst
  <2>2. token.content = tst
    BY <1>2, <1>5, <2>1 DEF Token
  <2> QED
    BY <2>2 DEF tst
<1>7. s.tst.imprint.of = info.signature
  BY <1>2, <1>6 DEF Digest
<1> QED
  BY <1>6, <1>7

(* A reply the client accepted has a token that was sent.                  *)
LEMMA AcceptedTokenSent ==
  ASSUME TspInv, Stamped
  PROVE  Sent(client.reply.token)
<1> DEFINE reply == client.reply
<1>1. /\ reply \in replies /\ IsSuccess(reply)
      /\ ResponseError(client.request, reply) = "Ok"
  BY DEF Stamped, TspInv, ReplyChecked
<1>2. reply.token # None
  <2> HIDE DEF reply
  <2> QED
    BY <1>1, TransportPassed
<1>3. PICK s \in stamps, fault \in Fault :
        /\ reply = Reply(s.request, s.cert, fault, s.tst.genTime)
        /\ s.tst = Stamp(s.request, fault, s.tst.genTime)
  BY <1>1 DEF TspInv, RepliesMade
<1>4. reply.token = Token(s.request, s.cert, fault, s.tst.genTime)
  <2> DEFINE made == Reply(s.request, s.cert, fault, s.tst.genTime)
  <2>1. made.token = None \/ made.token = Token(s.request, s.cert, fault, s.tst.genTime)
    BY DEF Reply
  <2> HIDE DEF made, reply
  <2>2. reply = made
    BY <1>3 DEF made
  <2> QED
    BY <1>2, <2>1, <2>2
<1> QED
  BY <1>3, <1>4 DEF Sent

----------------------------------------------------------------------------
(* The builder: the client works for the signer that waits.                *)

PendingShape ==
  job.pc \in {"requesting", "stamping"} =>
    {"signature", "unsignedAttributes"} \subseteq DOMAIN job.pending

StampsPending ==
  job.pc = "stamping" /\ Waiting =>
    /\ client.request.imprint.of = job.pending.signature
    /\ client.request.certReq = TRUE

JobStamped == \A i \in DOMAIN job.infos : CarriesVerified(job.infos[i])

BuiltStamped ==
  \A r \in built : \A i \in DOMAIN r.message.signerInfos :
    CarriesVerified(r.message.signerInfos[i])

StampsInv ==
  /\ BuilderInv
  /\ TspInv
  /\ PendingShape
  /\ StampsPending
  /\ JobStamped
  /\ BuiltStamped

(* The fields of a job, and its signer infos.                              *)
LEMMA JobShape ==
  ASSUME BuilderInv
  PROVE  /\ job = [pc |-> job.pc, infos |-> job.infos, pending |-> job.pending,
                   digests |-> job.digests, certificates |-> job.certificates,
                   version |-> job.version, error |-> job.error, builds |-> job.builds]
         /\ Len(job.infos) \in Nat
         /\ DOMAIN job.infos = 1..Len(job.infos)
         /\ job.pc \in {"requesting", "stamping"} => "signature" \in DOMAIN job.pending
<1>1. PICK S : PartsOk(S)
  BY DEF BuilderInv
<1>2. job \in JobType(S, job.error) /\ job.infos \in Seq(S)
  BY <1>1 DEF PartsOk, JobOk, JobType
<1>3. job.pc \in {"requesting", "stamping"} => "signature" \in DOMAIN job.pending
  BY <1>1 DEF PartsOk, JobOk, Made
<1>4. Len(job.infos) \in Nat /\ DOMAIN job.infos = 1..Len(job.infos)
  BY <1>2
<1> QED
  BY <1>2, <1>3, <1>4 DEF JobType

(* A sequence of signer infos with one more.                               *)
LEMMA AppendVerified ==
  ASSUME NEW infos, Len(infos) \in Nat, DOMAIN infos = 1..Len(infos), NEW info,
         \A i \in DOMAIN infos : CarriesVerified(infos[i]), CarriesVerified(info)
  PROVE  \A i \in DOMAIN Append(infos, info) : CarriesVerified(Append(infos, info)[i])
<1> DEFINE more == Append(infos, info)
<1>1. DOMAIN more = 1..(Len(infos) + 1)
  OBVIOUS
<1>2. \A i \in 1..(Len(infos) + 1) :
        more[i] = IF i \in 1..Len(infos) THEN infos[i] ELSE info
  OBVIOUS
<1> HIDE DEF more
<1>3. \A i \in DOMAIN more : more[i] = info \/ \E j \in DOMAIN infos : more[i] = infos[j]
  BY <1>1, <1>2
<1>4. \A i \in DOMAIN more : CarriesVerified(more[i])
  <2> HIDE DEF CarriesVerified
  <2> QED
    BY <1>3
<1> QED
  BY <1>4 DEF more

(* The client's own invariant holds when the builder calls it.             *)
LEMMA BuilderTsp == TspInv /\ [BuilderNext]_vars => TspInv'
<1> SUFFICES ASSUME TspInv, [BuilderNext]_vars PROVE TspInv'
  OBVIOUS
<1>1. CASE UNCHANGED tspVars
  BY <1>1, TspInvNext
<1>2. CASE Network
  BY <1>2, TspInvNext DEF Network, TspNext
<1>3. CASE RequestStamp
  <2>1. CASE RandomFails
    BY <2>1, FailurePreserves
  <2>2. CASE SendMessage(job.pending.signature, job.pending.digestAlgorithm.digest)
    <3> DEFINE request == MessageRequest(job.pending.signature,
                                         job.pending.digestAlgorithm.digest, FreshNonce)
    <3>1. /\ request.imprint = Digest(request.imprint.alg, request.imprint.of)
          /\ request.certReq \in BOOLEAN
          /\ request.nonce \in {None, FreshNonce}
      BY DEF MessageRequest, Digest
    <3>2. Send(request)
      BY <2>2 DEF SendMessage
    <3> HIDE DEF request
    <3> QED
      BY <3>1, <3>2, SendPreserves
  <2> QED
    BY <1>3, <2>1, <2>2 DEF RequestStamp
<1>4. Configure => UNCHANGED tspVars
  BY DEF Configure, SetBuilder, SetDraft, ContentInline, ContentExternal,
     BuilderContentType, SigningTime, Certificate, StartSigner, StartSignerWithIdentifier,
     SignerDigest, MessageIdContent, DetachedMessageDigest, SignerContentType,
     SignedAttribute, TimeStampUrl, AddSigner
<1>5. \/ BeginBuild \/ RefuseSigner \/ SigningFails \/ Sign \/ AttachStamp
      \/ StampingFails \/ FinishBuild
      => UNCHANGED tspVars
  BY DEF BeginBuild, RefuseSigner, SigningFails, Sign, AttachStamp, StampingFails, FinishBuild
<1> QED
  BY <1>1, <1>2, <1>3, <1>4, <1>5 DEF BuilderNext, BuildStep, vars

(* A step in which no signer waits afterwards.                             *)
LEMMA NoneWaitsInv ==
  ASSUME StampsInv, BuilderInv', TspInv', stamps \subseteq stamps',
         job'.pc \in {"idle", "signing"},
         \A i \in DOMAIN job'.infos : CarriesVerified(job'.infos[i]),
         \A r \in built' : \/ r \in built
                            \/ \A i \in DOMAIN r.message.signerInfos :
                                 CarriesVerified(r.message.signerInfos[i])
  PROVE  StampsInv'
<1>1. PendingShape' /\ StampsPending'
  BY DEF PendingShape, StampsPending
<1>2. JobStamped'
  <2> SUFFICES ASSUME NEW i \in DOMAIN job'.infos PROVE CarriesVerified(job.infos[i])'
    BY DEF JobStamped
  <2> DEFINE info == job'.infos[i]
  <2>1. CarriesVerified(info)
    OBVIOUS
  <2> QED
    BY <2>1 DEF CarriesVerified, CarriesSent, Sent
<1>3. BuiltStamped'
  <2> SUFFICES ASSUME NEW r \in built', NEW i \in DOMAIN r.message.signerInfos
               PROVE  CarriesVerified(r.message.signerInfos[i])'
    BY DEF BuiltStamped
  <2>1. CarriesVerified(r.message.signerInfos[i])
    BY DEF StampsInv, BuiltStamped
  <2> QED
    BY <2>1, SentStays
<1> QED
  BY <1>1, <1>2, <1>3 DEF StampsInv

(* A step of the network, or of a caller who configures.                   *)
LEMMA AroundBuildInv ==
  ASSUME StampsInv, BuilderInv', TspInv', stamps \subseteq stamps',
         UNCHANGED <<job, built>>,
         Waiting' => Waiting /\ client'.request = client.request
  PROVE  StampsInv'
<1>1. PendingShape' /\ StampsPending'
  BY DEF StampsInv, PendingShape, StampsPending
<1>2. JobStamped' /\ BuiltStamped'
  BY SentStays DEF StampsInv, JobStamped, BuiltStamped
<1> QED
  BY <1>1, <1>2 DEF StampsInv

(* Signing: the new signer info has no token yet.                          *)
LEMMA SignStamps ==
  ASSUME StampsInv, BuilderInv', TspInv', Sign
  PROVE  StampsInv'
<1>1. PICK s, attributes :
        /\ s = CurrentSigner
        /\ job' = [job EXCEPT
             !.pc = IF s.url THEN "requesting" ELSE "signing",
             !.infos = IF s.url THEN @ ELSE Append(@, SignerInfo(s, attributes)),
             !.pending = IF s.url THEN SignerInfo(s, attributes) ELSE None,
             !.digests = @ \cup {s.digest},
             !.certificates = IF s.certificate = None THEN @
                              ELSE WithCertificate(@, s.certificate),
             !.version = IF s.sid.form = "SubjectKeyIdentifier" THEN 3 ELSE @]
        /\ UNCHANGED <<built, tspVars>>
  BY DEF Sign
<1>2. PICK info : info = SignerInfo(s, attributes)
  OBVIOUS
<1>3. /\ {"signature", "unsignedAttributes"} \subseteq DOMAIN info
      /\ info.unsignedAttributes = None
  BY <1>2 DEF SignerInfo
<1>4. CarriesVerified(info)
  BY <1>3 DEF CarriesVerified, CarriesSent, TimeStampToken
<1>5. PICK more : more = Append(job.infos, info)
  OBVIOUS
<1>6. /\ job'.pc = IF s.url THEN "requesting" ELSE "signing"
      /\ job'.infos = IF s.url THEN job.infos ELSE more
      /\ job'.pending = IF s.url THEN info ELSE None
  <2>1. job' = [job EXCEPT
          !.pc = IF s.url THEN "requesting" ELSE "signing",
          !.infos = IF s.url THEN @ ELSE more,
          !.pending = IF s.url THEN info ELSE None,
          !.digests = @ \cup {s.digest},
          !.certificates = IF s.certificate = None THEN @
                           ELSE WithCertificate(@, s.certificate),
          !.version = IF s.sid.form = "SubjectKeyIdentifier" THEN 3 ELSE @]
    BY <1>1, <1>2, <1>5
  <2> QED
    BY <2>1, JobShape DEF StampsInv
<1>7. \A i \in DOMAIN job'.infos : CarriesVerified(job'.infos[i])
  <2>1. \A i \in DOMAIN more : CarriesVerified(more[i])
    BY <1>4, <1>5, JobShape, AppendVerified DEF StampsInv, JobStamped
  <2> QED
    BY <1>6, <2>1 DEF StampsInv, JobStamped
<1>8. stamps' = stamps /\ built' = built
  BY <1>1 DEF tspVars
<1>9. CASE s.url
  <2>1. PendingShape' /\ StampsPending'
    BY <1>3, <1>6, <1>9 DEF PendingShape, StampsPending
  <2>2. JobStamped' /\ BuiltStamped'
    BY <1>6, <1>8, <1>9, SentStays DEF StampsInv, JobStamped, BuiltStamped
  <2> QED
    BY <2>1, <2>2 DEF StampsInv
<1>10. CASE ~s.url
  BY <1>6, <1>7, <1>8, <1>10, NoneWaitsInv
<1> QED
  BY <1>9, <1>10

(* The request is over the signature that waits.                           *)
LEMMA RequestStamps ==
  ASSUME StampsInv, BuilderInv', TspInv', RequestStamp
  PROVE  StampsInv'
<1>1. /\ job.pc = "requesting" /\ job' = [job EXCEPT !.pc = "stamping"]
      /\ UNCHANGED <<builder, draft, built, signed>>
  BY DEF RequestStamp
<1>2. job'.pc = "stamping" /\ job'.pending = job.pending /\ job'.infos = job.infos
  BY <1>1, JobShape DEF StampsInv
<1>3. PendingShape'
  BY <1>1, <1>2 DEF StampsInv, PendingShape
<1>4. stamps' = stamps /\ StampsPending'
  <2>1. CASE RandomFails
    BY <2>1 DEF RandomFails, NoRequest, StampsPending, Waiting
  <2>2. CASE SendMessage(job.pending.signature, job.pending.digestAlgorithm.digest)
    <3> DEFINE request == MessageRequest(job.pending.signature,
                                         job.pending.digestAlgorithm.digest, FreshNonce)
    <3>1. request.imprint.of = job.pending.signature /\ request.certReq = TRUE
      BY DEF MessageRequest, Digest
    <3>2. Send(request)
      BY <2>2 DEF SendMessage
    <3> HIDE DEF request
    <3>3. stamps' = stamps /\ client'.request = request
      BY <3>2 DEF Send, NoRequest
    <3> QED
      BY <1>2, <3>1, <3>3 DEF StampsPending
  <2> QED
    BY <2>1, <2>2 DEF RequestStamp
<1>5. JobStamped' /\ BuiltStamped'
  BY <1>1, <1>2, <1>4, SentStays DEF StampsInv, JobStamped, BuiltStamped
<1> QED
  BY <1>3, <1>4, <1>5 DEF StampsInv

(* The token that is attached was accepted for the signature.              *)
LEMMA AttachStamps ==
  ASSUME StampsInv, BuilderInv', TspInv', AttachStamp
  PROVE  StampsInv'
<1>1. PICK token, info :
        /\ token = client.reply.token
        /\ info = [job.pending EXCEPT
                     !.unsignedAttributes = <<Attribute("timeStampToken", {token})>>]
        /\ job' = [job EXCEPT !.pc = "signing", !.infos = Append(@, info), !.pending = None]
        /\ job.pc = "stamping" /\ client.pc = "ok" /\ StampingError = "Ok"
        /\ UNCHANGED <<built, tspVars>>
  BY DEF AttachStamp
<1>2. Stamped /\ Waiting
  BY <1>1 DEF StampingError, Stamped, Waiting
<1>3. client.request.imprint.of = job.pending.signature /\ client.request.certReq = TRUE
  BY <1>1, <1>2 DEF StampsInv, StampsPending
<1>4. /\ "unsignedAttributes" \in DOMAIN info
      /\ info.signature = job.pending.signature
      /\ info.unsignedAttributes = <<Attribute("timeStampToken", {token})>>
  BY <1>1 DEF StampsInv, PendingShape
<1>5. \A t \in TimeStampToken(info) : t = token
  <2>1. TimeStampToken(info) \subseteq
          Values(<<Attribute("timeStampToken", {token})>>, "timeStampToken")
    BY <1>4 DEF TimeStampToken
  <2>2. Values(<<Attribute("timeStampToken", {token})>>, "timeStampToken") \subseteq {token}
    BY DEF Values, Attribute
  <2> QED
    BY <2>1, <2>2
<1>6. VerifyTimeStampToken(info, token)
  <2> DEFINE other == [signature |-> client.request.imprint.of, unsignedAttributes |-> None]
  <2>1. VerifyTimeStampToken(other, token)
    BY <1>1, <1>2, <1>3, AcceptedVerifiesInv DEF StampsInv, AcceptedStampVerifies
  <2>2. other.signature = info.signature
    BY <1>3, <1>4
  <2> HIDE DEF other
  <2> QED
    BY <2>1, <2>2 DEF VerifyTimeStampToken
<1>7. CarriesVerified(info)
  <2>1. Sent(token)
    BY <1>1, <1>2, AcceptedTokenSent DEF StampsInv
  <2> QED
    BY <1>4, <1>5, <1>6, <2>1 DEF CarriesVerified, CarriesSent
<1>8. PICK more : more = Append(job.infos, info)
  OBVIOUS
<1>9. job'.pc = "signing" /\ job'.infos = more
  <2>1. job' = [job EXCEPT !.pc = "signing", !.infos = more, !.pending = None]
    BY <1>1, <1>8
  <2> QED
    BY <2>1, JobShape DEF StampsInv
<1>10. \A i \in DOMAIN more : CarriesVerified(more[i])
  BY <1>7, <1>8, JobShape, AppendVerified DEF StampsInv, JobStamped
<1>11. stamps' = stamps /\ built' = built
  BY <1>1 DEF tspVars
<1> QED
  BY <1>9, <1>10, <1>11, NoneWaitsInv

(* A message is put together from the job's signer infos.                  *)
LEMMA MessageStamped ==
  ASSUME BuilderInv, JobStamped, NEW message \in Messages
  PROVE  \A i \in DOMAIN message.signerInfos : CarriesVerified(message.signerInfos[i])
<1>1. message.signerInfos \in SortedInfos
  BY DEF Messages
<1>2. message.signerInfos \in Rearrangements(job.infos)
  BY <1>1 DEF SortedInfos, DerSorted
<1>3. PICK p \in Bijection(DOMAIN job.infos, DOMAIN job.infos) :
        message.signerInfos = [i \in DOMAIN job.infos |-> job.infos[p[i]]]
  BY <1>2 DEF Rearrangements
<1>4. p \in [DOMAIN job.infos -> DOMAIN job.infos]
  BY DEF Bijection, Injection, Surjection
<1>5. ASSUME NEW i \in DOMAIN message.signerInfos
      PROVE  CarriesVerified(message.signerInfos[i])
  <2>1. message.signerInfos[i] = job.infos[p[i]] /\ p[i] \in DOMAIN job.infos
    BY <1>3, <1>4
  <2>2. CarriesVerified(job.infos[p[i]])
    BY <2>1 DEF JobStamped
  <2> QED
    BY <2>1, <2>2
<1> QED
  BY <1>5

(* What the network, and a caller who configures, do to the client.        *)
LEMMA AroundClient ==
  ASSUME TspInv, Network \/ Configure \/ UNCHANGED vars
  PROVE  /\ stamps \subseteq stamps'
         /\ UNCHANGED <<job, built>>
         /\ Waiting' => Waiting /\ client'.request = client.request
<1>1. CASE Configure \/ UNCHANGED vars
  <2>1. UNCHANGED <<job, built, tspVars>>
    BY <1>1 DEF Configure, SetBuilder, SetDraft, ContentInline, ContentExternal,
       BuilderContentType, SigningTime, Certificate, StartSigner, StartSignerWithIdentifier,
       SignerDigest, MessageIdContent, DetachedMessageDigest, SignerContentType,
       SignedAttribute, TimeStampUrl, AddSigner, vars, builderVars
  <2> QED
    BY <2>1 DEF tspVars, Waiting
<1>2. CASE Network
  <2>1. UNCHANGED <<job, built>> /\ NetworkNext
    BY <1>2 DEF Network, builderVars
  <2>2. ASSUME NEW reply, Deliver(reply)
        PROVE  stamps' = stamps /\ Waiting /\ client'.request = client.request
    BY <2>2 DEF Deliver, TspInv, ClientShape, Waiting
  <2>3. CASE TransportFails
    <3>1. stamps' = stamps /\ client'.pc = "failed"
      BY <2>3 DEF TransportFails, TspInv, ClientShape
    <3> QED
      BY <2>1, <3>1 DEF Waiting
  <2>4. ASSUME NEW request, NEW c, NEW fault, Answer(request, c, fault)
        PROVE  stamps \subseteq stamps' /\ client' = client
    BY <2>4 DEF Answer
  <2>5. CASE Tick
    BY <2>1, <2>5 DEF Tick, Waiting
  <2> QED
    BY <2>1, <2>2, <2>3, <2>4, <2>5 DEF NetworkNext, Waiting
<1> QED
  BY <1>1, <1>2

(* Every step of the builder keeps the invariant.                          *)
LEMMA StampsNextInv == StampsInv /\ [BuilderNext]_vars => StampsInv'
<1> SUFFICES ASSUME StampsInv, [BuilderNext]_vars PROVE StampsInv'
  OBVIOUS
<1>1. BuilderInv' /\ TspInv'
  BY BuilderNextInv, BuilderTsp DEF StampsInv
<1>2. CASE Configure \/ Network \/ UNCHANGED vars
  <2>1. /\ stamps \subseteq stamps'
        /\ UNCHANGED <<job, built>>
        /\ Waiting' => Waiting /\ client'.request = client.request
    BY <1>2, AroundClient DEF StampsInv
  <2> QED
    BY <1>1, <2>1, AroundBuildInv
<1>3. CASE BeginBuild \/ RefuseSigner \/ SigningFails \/ StampingFails
  <2>1. /\ job'.pc \in {"idle", "signing"} /\ job'.infos = <<>>
        /\ built' = built /\ stamps' = stamps
    <3>1. CASE BeginBuild
      BY <3>1 DEF BeginBuild, NoJob, tspVars
    <3>2. ASSUME NEW e, job' = NoJob(e, job.builds)
          PROVE  job'.pc = "idle" /\ job'.infos = <<>>
      BY <3>2 DEF NoJob
    <3>3. CASE RefuseSigner \/ SigningFails \/ StampingFails
      BY <3>2, <3>3 DEF RefuseSigner, SigningFails, StampingFails, FailBuild, tspVars
    <3> QED
      BY <1>3, <3>1, <3>3
  <2>2. \A i \in DOMAIN job'.infos : CarriesVerified(job'.infos[i])
    BY <2>1
  <2> QED
    BY <1>1, <2>1, <2>2, NoneWaitsInv
<1>4. CASE FinishBuild
  <2>1. PICK message \in Messages : built' = built \cup {[from |-> builder, message |-> message]}
    BY <1>4 DEF FinishBuild
  <2>2. job'.pc = "idle" /\ job'.infos = <<>> /\ stamps' = stamps
    BY <1>4 DEF FinishBuild, NoJob, tspVars
  <2>3. \A i \in DOMAIN message.signerInfos : CarriesVerified(message.signerInfos[i])
    BY MessageStamped DEF StampsInv
  <2>4. \A i \in DOMAIN job'.infos : CarriesVerified(job'.infos[i])
    BY <2>2
  <2>5. ASSUME NEW r \in built'
        PROVE  \/ r \in built
               \/ \A i \in DOMAIN r.message.signerInfos :
                    CarriesVerified(r.message.signerInfos[i])
    BY <2>1, <2>3
  <2> QED
    BY <1>1, <2>2, <2>4, <2>5, NoneWaitsInv
<1> QED
  BY <1>1, <1>2, <1>3, <1>4, SignStamps, RequestStamps, AttachStamps
  DEF BuilderNext, BuildStep

(* What was stamped stays stamped.                                         *)
LEMMA StampsGrow == TspInv /\ BuilderNext => stamps \subseteq stamps'
<1> SUFFICES ASSUME TspInv, BuilderNext PROVE stamps \subseteq stamps'
  OBVIOUS
<1>1. CASE Configure \/ Network
  BY <1>1, AroundClient
<1>2. CASE RequestStamp
  BY <1>2 DEF RequestStamp, SendMessage, Send, RandomFails
<1>3. CASE BeginBuild \/ RefuseSigner \/ SigningFails \/ Sign \/ AttachStamp
           \/ StampingFails \/ FinishBuild
  BY <1>3 DEF BeginBuild, RefuseSigner, SigningFails, Sign, AttachStamp, StampingFails,
     FinishBuild, tspVars
<1> QED
  BY <1>1, <1>2, <1>3 DEF BuilderNext, BuildStep

(* The initial states satisfy the invariant.                               *)
LEMMA StampsInitInv == BuilderInit => StampsInv
<1> SUFFICES ASSUME BuilderInit PROVE StampsInv
  OBVIOUS
<1>1. BuilderInv /\ TspInv
  BY BuilderInitInv, TspInvInit DEF BuilderInit
<1>2. job.pc = "idle" /\ DOMAIN job.infos = {} /\ built = {}
  BY DEF BuilderInit, NoJob
<1> QED
  BY <1>1, <1>2 DEF StampsInv, PendingShape, StampsPending, JobStamped, BuiltStamped

(* A token in a message that build_signed_data returns verifies for the    *)
(* signer that carries it, and an authority did stamp that signature,      *)
(* whatever late, repeated, altered or misdirected replies the client got  *)
(* in this build and in the ones before it.                                *)
THEOREM TokensStampTheirSigners == BuilderSpec => []TokenStampsItsSigner
<1>1. StampsInv => TokenStampsItsSigner
  <2> SUFFICES ASSUME StampsInv, NEW r \in built, NEW i \in DOMAIN r.message.signerInfos,
                      NEW token \in TimeStampToken(r.message.signerInfos[i])
               PROVE  /\ VerifyTimeStampToken(r.message.signerInfos[i], token)
                      /\ \E s \in stamps :
                           /\ s.tst = token.content
                           /\ s.tst.imprint.of = r.message.signerInfos[i].signature
    BY DEF TokenStampsItsSigner
  <2>1. VerifyTimeStampToken(r.message.signerInfos[i], token) /\ Sent(token)
    BY DEF StampsInv, BuiltStamped, CarriesVerified, CarriesSent
  <2> QED
    BY <2>1, SentTokenStamps DEF StampsInv
<1> QED
  BY <1>1, StampsInitInv, StampsNextInv, PTL DEF BuilderSpec

----------------------------------------------------------------------------
(* The exchange: tokens travel on the wire, to signers they were not made  *)
(* for too.                                                                *)

WireSent(T) ==
  /\ \A info \in T : CarriesSent(info)
  /\ \A m \in wire : MessageOk(m, T)

StampedExchangeInv ==
  /\ StampsInv
  /\ \E T : WireSent(T)
  /\ StampCoversSignature

(* A step that adds no message and accepts nothing.                        *)
LEMMA QuietExchangeInv ==
  ASSUME StampedExchangeInv, StampsInv', stamps \subseteq stamps', UNCHANGED <<wire, accepted>>
  PROVE  StampedExchangeInv'
<1>1. PICK T : WireSent(T)
  BY DEF StampedExchangeInv
<1>2. \A info \in T : CarriesSent(info)'
  BY <1>1, SentStays DEF WireSent
<1>3. WireSent(T)'
  BY <1>1, <1>2 DEF WireSent, MessageOk
<1>4. StampCoversSignature'
  BY DEF StampedExchangeInv, StampCoversSignature
<1> QED
  BY <1>3, <1>4 DEF StampedExchangeInv

(* A message joins the wire.                                               *)
LEMMA WireGrowsInv ==
  ASSUME StampedExchangeInv, StampsInv', NEW message, NEW U, MessageOk(message, U),
         \A info \in U : CarriesSent(info),
         wire' = wire \cup {message}, UNCHANGED <<stamps, accepted>>
  PROVE  StampedExchangeInv'
<1>1. PICK T : WireSent(T)
  BY DEF StampedExchangeInv
<1>2. \A info \in T \cup U : CarriesSent(info)'
  <2>1. \A info \in T \cup U : CarriesSent(info)
    BY <1>1 DEF WireSent
  <2> QED
    BY <2>1, SentStays
<1>3. \A m \in wire' : MessageOk(m, T \cup U)
  BY <1>1 DEF WireSent, MessageOk
<1>4. WireSent(T \cup U)'
  BY <1>2, <1>3 DEF WireSent, MessageOk
<1>5. StampCoversSignature'
  BY DEF StampedExchangeInv, StampCoversSignature
<1> QED
  BY <1>4, <1>5 DEF StampedExchangeInv

(* An alteration takes the tokens of a signer info away, or puts those of  *)
(* another one on the wire in their place.                                 *)
LEMMA AlteredInfoSent ==
  ASSUME NEW info, CarriesSent(info), NEW others, \A o \in others : CarriesSent(o),
         NEW altered \in AlteredInfos(info, others)
  PROVE  CarriesSent(altered)
<1>1. /\ "unsignedAttributes" \in DOMAIN altered
      /\ \/ altered.unsignedAttributes = info.unsignedAttributes
         \/ altered.unsignedAttributes = None
         \/ \E o \in others : altered.unsignedAttributes = o.unsignedAttributes
  BY DEF AlteredInfos, CarriesSent
<1>2. \/ TimeStampToken(altered) = TimeStampToken(info)
      \/ TimeStampToken(altered) = {}
      \/ \E o \in others : TimeStampToken(altered) = TimeStampToken(o)
  BY <1>1 DEF TimeStampToken
<1> QED
  BY <1>1, <1>2 DEF CarriesSent

(* The signer infos of a built message.                                    *)
LEMMA BuiltSent ==
  ASSUME StampsInv, NEW r \in built
  PROVE  \E U : MessageOk(r.message, U) /\ \A info \in U : CarriesSent(info)
<1>1. PICK S : MessageOk(r.message, S)
  BY DEF StampsInv, BuilderInv, PartsOk
<1> DEFINE infos == r.message.signerInfos
           U == {infos[i] : i \in DOMAIN infos}
<1>2. infos \in Seq(S)
  BY <1>1 DEF MessageOk
<1>3. infos \in Seq(U)
  <2>1. Len(infos) \in Nat /\ DOMAIN infos = 1..Len(infos) /\ infos = [i \in 1..Len(infos) |-> infos[i]]
    BY <1>2
  <2>2. infos \in [1..Len(infos) -> U]
    BY <2>1
  <2> HIDE DEF infos, U
  <2> QED
    BY <2>1, <2>2
<1>4. \A info \in U : CarriesSent(info)
  BY DEF StampsInv, BuiltStamped, CarriesVerified
<1>5. MessageOk(r.message, U)
  BY <1>1, <1>3 DEF MessageOk
<1> QED
  BY <1>4, <1>5

(* Another implementation signs, without a time stamp.                     *)
LEMMA ForeignSent ==
  ASSUME StampedExchangeInv, NEW c \in Cert, NEW content, ForeignSign(c, content)
  PROVE  StampedExchangeInv'
<1>1. PICK message, info :
        /\ message = ForeignMessage(c, content)
        /\ message.signerInfos = <<info>>
        /\ "unsignedAttributes" \in DOMAIN info
        /\ info.unsignedAttributes = None
  <2>1. PICK message : message = ForeignMessage(c, content)
    OBVIOUS
  <2>2. PICK info : /\ message.signerInfos = <<info>>
                    /\ "unsignedAttributes" \in DOMAIN info
                    /\ info.unsignedAttributes = None
    BY <2>1 DEF ForeignMessage
  <2> QED
    BY <2>1, <2>2
<1>2. /\ wire' = wire \cup {message} /\ signed \subseteq signed'
      /\ UNCHANGED <<builder, draft, job, built, tspVars, accepted>>
  BY <1>1 DEF ForeignSign
<1>3. StampsInv'
  <2>1. BuilderInv'
    BY <1>2, BuilderInvMonotone DEF StampedExchangeInv, StampsInv
  <2>2. TspInv'
    BY <1>2, TspInvNext DEF StampedExchangeInv, StampsInv
  <2> QED
    BY <1>2, <2>1, <2>2, AroundBuildInv DEF StampedExchangeInv, tspVars, Waiting
<1>4. MessageOk(message, {info})
  <2>1. message.certificates \in Seq(Choice)
    <3>1. message.certificates = <<[form |-> "Certificate", cert |-> c]>>
      BY <1>1 DEF ForeignMessage
    <3>2. [form |-> "Certificate", cert |-> c] \in Choice
      BY DEF Choice
    <3> QED
      BY <3>1, <3>2
  <2>2. message.signerInfos \in Seq({info})
    BY <1>1
  <2>3. DOMAIN message = {"version", "digestAlgorithms", "contentType", "content",
                          "certificates", "signerInfos"}
    BY <1>1 DEF ForeignMessage
  <2> QED
    BY <2>1, <2>2, <2>3 DEF MessageOk
<1>5. CarriesSent(info)
  BY <1>1 DEF CarriesSent, TimeStampToken
<1> QED
  BY <1>2, <1>3, <1>4, <1>5, WireGrowsInv DEF tspVars

(* The network alters a message.                                           *)
LEMMA AlterSent ==
  ASSUME StampedExchangeInv, StampsInv', NEW m \in wire, Alter(m)
  PROVE  StampedExchangeInv'
<1>1. PICK T : WireSent(T)
  BY DEF StampedExchangeInv
<1>2. PICK altered \in AlteredMessages(m, InfosOf(wire)) : wire' = wire \cup {altered}
  BY DEF Alter
<1>3. InfosOf(wire) \in SUBSET T
  <2>1. ASSUME NEW w \in wire, NEW i \in DOMAIN w.signerInfos PROVE w.signerInfos[i] \in T
    BY <1>1 DEF WireSent, MessageOk
  <2> QED
    BY <2>1 DEF InfosOf
<1>4. PICK U : /\ MessageOk(altered, U)
               /\ \A info \in U : \/ info \in T
                                   \/ \E o \in T : info \in AlteredInfos(o, InfosOf(wire))
  BY <1>1, <1>2, <1>3, AlteredMessageOk DEF WireSent
<1>5. \A info \in U : CarriesSent(info)
  BY <1>1, <1>3, <1>4, AlteredInfoSent DEF WireSent
<1>6. UNCHANGED <<stamps, accepted>>
  BY DEF Alter, vars, tspVars
<1> QED
  BY <1>2, <1>4, <1>5, <1>6, WireGrowsInv

(* A reader accepts a signer and those of its tokens that verify.          *)
LEMMA AcceptSent ==
  ASSUME StampedExchangeInv, StampsInv', NEW m \in wire, NEW n \in DOMAIN m.signerInfos,
         NEW c, NEW content,
         accepted' = accepted \cup {Accepted(c, m, m.signerInfos[n], content)},
         UNCHANGED <<vars, wire>>
  PROVE  StampedExchangeInv'
<1> DEFINE info == m.signerInfos[n]
           a == Accepted(c, m, info, content)
<1>1. PICK T : WireSent(T)
  BY DEF StampedExchangeInv
<1>2. CarriesSent(info)
  BY <1>1 DEF WireSent, MessageOk
<1>3. UNCHANGED <<stamps, wire>>
  BY DEF vars, tspVars
<1>4. ASSUME NEW token \in a.tokens
      PROVE  \E s \in stamps : s.tst = token.content /\ s.tst.imprint.of = a.signature
  <2>1. token \in TimeStampToken(info) /\ VerifyTimeStampToken(info, token)
    BY DEF Accepted
  <2>2. a.signature = info.signature
    BY DEF Accepted
  <2> HIDE DEF info, a
  <2> QED
    BY <1>2, <2>1, <2>2, SentTokenStamps DEF CarriesSent, StampedExchangeInv, StampsInv
<1>5. StampCoversSignature'
  <2> HIDE DEF a
  <2>1. accepted' = accepted \cup {a}
    BY DEF a
  <2> QED
    BY <1>3, <1>4, <2>1 DEF StampedExchangeInv, StampCoversSignature
<1>6. WireSent(T)'
  <2>1. \A i \in T : CarriesSent(i)'
    BY <1>1, <1>3, SentStays DEF WireSent
  <2> QED
    BY <1>1, <1>3, <2>1 DEF WireSent, MessageOk
<1> QED
  BY <1>5, <1>6 DEF StampedExchangeInv

(* Every step of the exchange keeps the invariant.                         *)
LEMMA StampedExchangeNext ==
  StampedExchangeInv /\ [ExchangeNext]_exchangeVars => StampedExchangeInv'
<1> SUFFICES ASSUME StampedExchangeInv, [ExchangeNext]_exchangeVars
             PROVE  StampedExchangeInv'
  OBVIOUS
<1>1. UNCHANGED vars => StampsInv' /\ UNCHANGED stamps
  BY StampsNextInv DEF StampedExchangeInv, vars, tspVars
<1>2. CASE BuilderNext /\ UNCHANGED <<wire, accepted>>
  <2>1. StampsInv'
    BY <1>2, StampsNextInv DEF StampedExchangeInv
  <2>2. stamps \subseteq stamps'
    BY <1>2, StampsGrow DEF StampedExchangeInv, StampsInv
  <2> QED
    BY <1>2, <2>1, <2>2, QuietExchangeInv
<1>3. ASSUME NEW r \in built, Transmit(r.message) PROVE StampedExchangeInv'
  <2>1. PICK U : MessageOk(r.message, U) /\ \A info \in U : CarriesSent(info)
    BY BuiltSent DEF StampedExchangeInv
  <2>2. wire' = wire \cup {r.message} /\ UNCHANGED <<vars, accepted>>
    BY <1>3 DEF Transmit
  <2> QED
    BY <1>1, <2>1, <2>2, WireGrowsInv
<1>4. ASSUME NEW c \in Cert, NEW content, ForeignSign(c, content) PROVE StampedExchangeInv'
  BY <1>4, ForeignSent
<1>5. ASSUME NEW m \in wire, Alter(m) PROVE StampedExchangeInv'
  BY <1>1, <1>5, AlterSent DEF Alter
<1>6. ASSUME NEW m \in wire, NEW n \in DOMAIN m.signerInfos, Receive(m, n)
      PROVE  StampedExchangeInv'
  BY <1>1, <1>6, AcceptSent DEF Receive
<1>7. ASSUME NEW m \in wire, NEW content, NEW n \in DOMAIN m.signerInfos,
             ReceiveDetached(m, n, content)
      PROVE  StampedExchangeInv'
  BY <1>1, <1>7, AcceptSent DEF ReceiveDetached
<1>8. CASE UNCHANGED exchangeVars
  BY <1>1, <1>8, QuietExchangeInv DEF exchangeVars
<1> QED
  BY <1>2, <1>3, <1>4, <1>5, <1>6, <1>7, <1>8 DEF ExchangeNext

(* A token that verifies for a signer a reader accepted was made over that *)
(* signer's signature: a token taken from another signer, or altered on    *)
(* its way from the authority, does not verify.                            *)
THEOREM TokensCoverSignatures == ExchangeSpec => []StampCoversSignature
<1>1. ExchangeInit => StampedExchangeInv
  <2> SUFFICES ASSUME ExchangeInit PROVE StampedExchangeInv
    OBVIOUS
  <2>1. StampsInv
    BY StampsInitInv DEF ExchangeInit
  <2>2. WireSent({}) /\ StampCoversSignature
    BY DEF ExchangeInit, WireSent, StampCoversSignature
  <2> QED
    BY <2>1, <2>2 DEF StampedExchangeInv
<1>2. StampedExchangeInv => StampCoversSignature
  BY DEF StampedExchangeInv
<1> QED
  BY <1>1, <1>2, StampedExchangeNext, PTL DEF ExchangeSpec
=============================================================================

------------------------- MODULE SignedDataExchange -------------------------
(***************************************************************************)
(* Messages between a builder and readers.  Built messages, and messages   *)
(* of another implementation that signs without signed attributes, go on   *)
(* the wire; anything on the wire may be cut up, recombined and altered;   *)
(* readers parse what they get and call verify_with_signed_data or, for a  *)
(* detached content, verify_with_content on one of its signers.            *)
(***************************************************************************)
EXTENDS SignedDataBuilder

CONSTANTS
  ForeignKey,  (* keys of the other implementation                         *)
  MaxWire,     (* bound: messages on the wire                              *)
  MaxAccepted  (* bound: acceptances                                       *)

ASSUME ExchangeAssumption == ForeignKey \subseteq Key /\ MaxWire \in Nat /\ MaxAccepted \in Nat

VARIABLES
  wire,     (* every message on the wire                                   *)
  accepted  (* what readers have accepted                                  *)

exchangeVars == <<vars, wire, accepted>>

----------------------------------------------------------------------------
(* The wire (external). *)

MayTransmit == Cardinality(wire) < MaxWire

Transmit(message) ==
  /\ MayTransmit
  /\ wire' = wire \cup {message}
  /\ UNCHANGED <<vars, accepted>>

(* RFC 5652 allows a signer of id-data to sign the content itself.         *)
ForeignMessage(c, content) ==
  LET key == CertInfo[c].key
      alg == SigningAlgorithm(KeyAlg[key])
      digest == DigestIdentifier(RequiredDigest(alg))
      info == [version            |-> 1,
               sid                |-> IssuerAndSerial(c),
               digestAlgorithm    |-> digest,
               signedAttributes   |-> None,
               signatureAlgorithm |-> AlgorithmIdentifier(alg),
               signature          |-> Signature(key, alg, [covers |-> "content", value |-> content]),
               unsignedAttributes |-> None]
  IN  [version          |-> 1,
       digestAlgorithms |-> <<digest>>,
       contentType      |-> IdData,
       content          |-> content,
       certificates     |-> <<[form |-> "Certificate", cert |-> c]>>,
       signerInfos      |-> <<info>>]

ForeignSign(c, content) ==
  LET message == ForeignMessage(c, content)
  IN  /\ MayTransmit
      /\ CertInfo[c].key \in ForeignKey
      /\ wire' = wire \cup {message}
      /\ signed' = signed \cup {message.signerInfos[1].signature}
      /\ UNCHANGED <<builder, draft, job, built, tspVars, accepted>>

InfosOf(messages) == UNION {{m.signerInfos[i] : i \in DOMAIN m.signerInfos} : m \in messages}

Without(s, n) == SubSeq(s, 1, n - 1) \o SubSeq(s, n + 1, Len(s))
Backwards(s) == [i \in DOMAIN s |-> s[Len(s) + 1 - i]]

(* A signer information with one field taken from another one, or damaged. *)
AlteredInfos(info, others) ==
  {[info EXCEPT !.signedAttributes = o.signedAttributes] : o \in others}
    \cup {[info EXCEPT !.unsignedAttributes = o.unsignedAttributes] : o \in others}
    \cup {[info EXCEPT !.sid = o.sid, !.version = o.version] : o \in others}
    \cup {[info EXCEPT !.signedAttributes = None], [info EXCEPT !.unsignedAttributes = None]}
    \cup (IF info.signedAttributes = None THEN {} ELSE
           {[info EXCEPT !.signedAttributes = Backwards(@)]}
             \cup {[info EXCEPT !.signedAttributes = Without(@, n)] :
                    n \in DOMAIN info.signedAttributes})
    \cup {[info EXCEPT !.signatureAlgorithm = [oid |-> KeyOid("Ecdsa"), parameters |-> "curve"]],
          [info EXCEPT !.signatureAlgorithm = [oid |-> NoSignatureOid, parameters |-> "absent"]]}

(* A message with one field altered. *)
AlteredMessages(m, others) ==
  {[m EXCEPT !.content = d] : d \in Data \cup {None}}
    \cup {[m EXCEPT !.contentType = typ] : typ \in ContentType}
    \cup {[m EXCEPT !.certificates = None]}
    \cup {[m EXCEPT !.certificates = <<[form |-> "Certificate", cert |-> c]>>] : c \in Cert}
    \cup {[m EXCEPT !.version = v] : v \in {1, 3}}
    \cup {[m EXCEPT !.digestAlgorithms = ids] :
           ids \in {<<>>} \cup {<<[digest |-> d, parameters |-> p]>> :
                                 d \in DigestChoice, p \in {"absent", "null"}}}
    \cup {[m EXCEPT !.signerInfos = <<info>>] : info \in others}
    \cup UNION {{[m EXCEPT !.signerInfos[n] = info] :
                   info \in AlteredInfos(m.signerInfos[n], others)} :
                 n \in DOMAIN m.signerInfos}

Alter(m) ==
  /\ MayTransmit
  /\ \E altered \in AlteredMessages(m, InfosOf(wire)) : wire' = wire \cup {altered}
  /\ UNCHANGED <<vars, accepted>>

----------------------------------------------------------------------------
(* Readers. *)

(* A reader accepts a signer of a message over some content: what it       *)
(* learns is the key, the content and its type, and the time-stamp tokens  *)
(* that verify.                                                            *)
Accepted(c, m, info, content) ==
  [key         |-> CertInfo[c].key,
   contentType |-> m.contentType,
   content     |-> content,
   signature   |-> info.signature,
   tokens      |-> {t \in TimeStampToken(info) : VerifyTimeStampToken(info, t)}]

MayAccept == Cardinality(accepted) < MaxAccepted

(* verify_with_signed_data on the n-th signer. *)
Receive(m, n) ==
  /\ MayAccept
  /\ Parses(m)
  /\ VerifyWithSignedData(m.signerInfos[n], m)
  /\ \E c \in SigningCertificate(m.signerInfos[n], m) :
       accepted' = accepted \cup {Accepted(c, m, m.signerInfos[n], m.content)}
  /\ UNCHANGED <<vars, wire>>

(* verify_with_content on the n-th signer, with the content at hand. *)
ReceiveDetached(m, n, content) ==
  /\ MayAccept
  /\ Parses(m)
  /\ VerifyWithContent(m.signerInfos[n], m, content)
  /\ \E c \in SigningCertificate(m.signerInfos[n], m) :
       accepted' = accepted \cup {Accepted(c, m, m.signerInfos[n], content)}
  /\ UNCHANGED <<vars, wire>>

----------------------------------------------------------------------------

ExchangeInit == BuilderInit /\ wire = {} /\ accepted = {}

ExchangeNext ==
  \/ BuilderNext /\ UNCHANGED <<wire, accepted>>
  \/ \E r \in built : Transmit(r.message)
  \/ \E c \in Cert, content \in Data : ForeignSign(c, content)
  \/ \E m \in wire : Alter(m)
  \/ \E m \in wire : \E n \in DOMAIN m.signerInfos : Receive(m, n)
  \/ \E m \in wire, content \in Data : \E n \in DOMAIN m.signerInfos :
       ReceiveDetached(m, n, content)

ExchangeSpec == ExchangeInit /\ [][ExchangeNext]_exchangeVars

----------------------------------------------------------------------------
(* Properties. *)

(* What a signature says.  One over attributes vouches for the content     *)
(* type and the digest they hold, one over a content for that content, as  *)
(* id-data.                                                                *)
Statements(signature) ==
  LET message == signature.message
  IN  IF message.covers = "content"
        THEN {[key |-> signature.key, contentType |-> IdData, content |-> message.value]}
        ELSE {[key |-> signature.key, contentType |-> typ, content |-> d.of] :
                typ \in Values(message.value, "contentType"),
                d \in Values(message.value, "messageDigest")}

Statement(a) == [key |-> a.key, contentType |-> a.contentType, content |-> a.content]

(* Whatever happens to messages on the wire, a reader accepts a content    *)
(* under a type and a key only after that key has signed them: fields of   *)
(* several messages cannot be recombined, a content cannot change its      *)
(* type, and a signer without signed attributes vouches for id-data only.  *)
AcceptedWasSigned ==
  \A a \in accepted : \E signature \in signed : Statement(a) \in Statements(signature)

(* A time-stamp token that verifies for an accepted signer was made over   *)
(* that signer's signature: a token cannot be moved to another one.        *)
StampCoversSignature ==
  \A a \in accepted : \A token \in a.tokens :
    \E s \in stamps : s.tst = token.content /\ s.tst.imprint.of = a.signature

(* The exchange implements Authenticity. *)
Promise == INSTANCE Authenticity WITH
  endorsed <- UNION {Statements(signature) : signature \in signed},
  accepted <- {Statement(a) : a \in accepted}

Authentic == Promise!Spec
=============================================================================

------------------------------ MODULE Documents ------------------------------
(***************************************************************************)
(* What happens to one document: it is written by this library or by       *)
(* another, signed, altered on its way, read as one of the types that hold *)
(* it, changed, copied and written again.  A certificate is held plain     *)
(* (X509Certificate), captured (CapturedX509Certificate: with its bytes)   *)
(* or mutable (MutableX509Certificate); a private key as a key pair; any   *)
(* other structure plain.                                                  *)
(***************************************************************************)
EXTENDS StructureTypes

CONSTANTS
  Written,       (* [kinds of structure -> values written and read again]      *)
  Refused,       (* [kinds -> values that can be written and not be read]      *)
  Foreign,       (* [kinds -> elements, in DER, that other libraries write]    *)
  SpelledOut,    (* [kinds -> elements that say what their absence means]      *)
  NewText,       (* the strings that names are given                           *)
  NewAttributes, (* the attributes that are added to signed attributes         *)
  MaxChanges,    (* bounds the alterations of documents and the changes of     *)
                 (* values that are held, together                             *)
  MaxRewrites    (* bounds how often a value that was read is written          *)

(* The structures that are read; a revocation list has no encoder.         *)
Kinds == {"certificate", "request", "contentInfo", "signerInfo", "signedData", "timeStampReq", "timeStampResp",
          "tstInfo", "privateKey", "ecPrivateKey", "rsaPrivateKey", "digestInfo", "certList"}

(* What is written has the fields of its type.  What decoders are to read  *)
(* keeps the rules between the fields, what they are to refuse does not.   *)
ASSUME DocumentsAssumption ==
  /\ MaxChanges \in Nat /\ MaxRewrites \in Nat
  /\ None # Malformed /\ Malformed \notin NewAttributes /\ NewText \subseteq Text
  /\ None \notin BerOnly
  /\ DOMAIN Written \subseteq Kinds
  /\ \A k \in DOMAIN Written :
       /\ \A v \in Written[k] : HasType(k, v) /\ Obeys(k, v)
       /\ \A v \in Refused[k] : HasType(k, v) /\ ~Obeys(k, v)

VARIABLES
  kind,      (* the kind of structure, which never changes                 *)
  wire,      (* the document, [form, elements], or None                    *)
  sent,      (* as it was written or signed (a history variable)           *)
  meant,     (* the value it was written from, [value, readable], or None  *)
             (* if another library wrote it (history)                      *)
  damage,    (* the alterations since (history)                            *)
  issued,    (* the bytes a certificate's issuer signed, or None (history) *)
  held,      (* what a reader holds, [type, value, original, changed]: the *)
             (* bytes it was read from, and if it was changed since, or    *)
             (* None                                                       *)
  edits,     (* the changes that were made (history)                       *)
  copied,    (* the certificate it is a copy of, or the key pair that was  *)
             (* stored, or None (history)                                  *)
  alterations, (* how often the document was altered                       *)
  rewrites   (* how often a value that was read has been written           *)

vars == <<kind, wire, sent, meant, damage, issued, held, edits, copied, alterations, rewrites>>

----------------------------------------------------------------------------
(* The structures by kind. *)

Encode(k, v) ==
  CASE k = "certificate"   -> EncodeCertificate(v)
    [] k = "request"       -> EncodeRequest(v)
    [] k = "contentInfo"   -> EncodeContentInfo(v)
    [] k = "signerInfo"    -> EncodeSignerInfo(v)
    [] k = "signedData"    -> EncodeSignedData(v)
    [] k = "timeStampReq"  -> EncodeTimeStampReq(v)
    [] k = "timeStampResp" -> EncodeTimeStampResp(v)
    [] k = "tstInfo"       -> EncodeTstInfo(v)
    [] k = "privateKey"    -> EncodeOneAsymmetricKey(v)
    [] k = "ecPrivateKey"  -> EncodeEcPrivateKey(v)
    [] k = "rsaPrivateKey" -> EncodeRsaPrivateKey(v)
    [] k = "digestInfo"    -> EncodeDigestInfo(v)

Decode(k, d) ==
  CASE k = "certificate"   -> DecodeCertificate(d.form, d.elements)
    [] k = "request"       -> DecodeRequest(d.elements)
    [] k = "certList"      -> DecodeCertList(d.elements)
    [] k = "contentInfo"   -> DecodeContentInfo(d.elements)
    [] k = "signerInfo"    -> DecodeSignerInfo(d.elements)
    [] k = "signedData"    -> DecodeSignedData(d.elements)
    [] k = "timeStampReq"  -> DecodeTimeStampReq(d.elements)
    [] k = "timeStampResp" -> DecodeTimeStampResp(d.elements)
    [] k = "tstInfo"       -> DecodeTstInfo(d.elements)
    [] k = "privateKey"    -> DecodeOneAsymmetricKey(d.elements)
    [] k = "ecPrivateKey"  -> DecodeEcPrivateKey(d.elements)
    [] k = "rsaPrivateKey" -> DecodeRsaPrivateKey(d.elements)
    [] k = "digestInfo"    -> DecodeDigestInfo(d.elements)

(* A DER decoder refuses what is only BER. *)
Read(k, mode, d) == IF mode = "der" /\ d.form = "ber" THEN Malformed ELSE Decode(k, d)

Among(values) == IF values = None THEN {} ELSE {values[i] : i \in DOMAIN values}

(* The captured parts of a value, which are written as they were read. *)
CapturedIn(k, v) ==
  CASE k = "certificate" ->
         {v.tbs.signature, v.tbs.subjectPublicKeyInfo.algorithm, v.signatureAlgorithm}
    [] k = "request" -> {v.signatureAlgorithm, v.info.subjectPublicKeyInfo.algorithm}
                        \cup Among(v.info.attributes)
    [] k = "contentInfo" -> {v.content}
    [] k = "signerInfo" -> {v.digestAlgorithm, v.signatureAlgorithm}
                           \cup Among(v.signedAttributes) \cup Among(v.unsignedAttributes)
    [] k = "signedData" -> Among(v.digestAlgorithms) \cup Among(v.signerInfos)
                           \cup {c.certificate : c \in Among(v.certificates)}
    [] k \in {"timeStampReq", "tstInfo"} -> {v.messageImprint.algorithm}
    [] k = "timeStampResp" -> {v.timeStampToken}
    [] k = "privateKey" -> {v.privateKeyAlgorithm} \cup Among(v.attributes)
    [] k = "digestInfo" -> {v.algorithm}
    [] OTHER -> {}

(* Whether a value can be written: captured BER is not written as DER,     *)
(* signed attributes are DER always, and some forms have no encoder.       *)
Encodable(k, mode, v) ==
  /\ k # "certList"
  /\ mode = "der" => CapturedIn(k, v) \cap BerOnly = {}
  /\ k = "signerInfo" => Among(v.signedAttributes) \cap BerOnly = {}
  /\ k = "signedData" => SignedDataEncodable(v)
  /\ k = "ecPrivateKey" => v.parameters # SpecifiedCurve

(* Lengths are definite in both modes: only captured parts may be BER. *)
Bytes(k, v) ==
  [form |-> IF CapturedIn(k, v) \cap BerOnly = {} THEN "der" ELSE "ber",
   elements |-> Encode(k, v)]

(* Where a document is altered: in its innermost sequence of fields. *)
Body(k, elements) ==
  CASE k \in {"certificate", "request"} -> elements[1][2]
    [] k = "signedData" -> elements[2][2][1][2]
    [] OTHER -> elements

WithBody(k, elements, body) ==
  CASE k \in {"certificate", "request"} -> [elements EXCEPT ![1] = <<"SEQUENCE", body>>]
    [] k = "signedData" -> [elements EXCEPT ![2] = <<"0", << <<"SEQUENCE", body>> >> >>]
    [] OTHER -> body

(* A document consists of elements, and so does what is altered of it.     *)
IsDocument(k, elements) ==
  /\ IsVec(elements) /\ IsVec(Body(k, elements))
  /\ k \in {"certificate", "request"} => 1 \in DOMAIN elements
  /\ k = "signedData" => 2 \in DOMAIN elements

(* The captured value that a body of this type holds, those that its       *)
(* elements hold, and that of its first element.                           *)
Captured(type, body) == IF Len(body) = 1 /\ body[1][1] = type THEN {body[1][2]} ELSE {}

CapturedAmong(type, body, places) ==
  UNION {Captured(type, body[i][2]) : i \in places \cap DOMAIN body}

CapturedEach(type, body) == CapturedAmong(type, body, {i \in DOMAIN body : body[i][1] = "SEQUENCE"})

CapturedFirst(type, body) ==
  IF Len(body) > 0 /\ body[1][1] = "SEQUENCE" THEN Captured(type, body[1][2]) ELSE {}

(* The captured values of an element, by the kind of document it is in.    *)
CapturedOf(k, e) ==
  CASE e[1] = "SEQUENCE" /\ k \in {"certificate", "request", "signerInfo", "timeStampReq", "tstInfo",
                                   "privateKey", "digestInfo"} ->
         Captured("Algorithm", e[2]) \cup CapturedFirst("Algorithm", e[2])
    [] e[1] = "SEQUENCE" /\ k = "timeStampResp" -> Captured("ContentInfo", e[2])
    [] e[1] = "0" /\ k = "contentInfo" -> Captured("Any", e[2])
    [] e[1] = "0" /\ k \in {"request", "signerInfo", "privateKey"} -> CapturedEach("Attribute", e[2])
    [] e[1] = "1" /\ k = "signerInfo" -> CapturedEach("Attribute", e[2])
    [] e[1] = "SET" /\ k = "signedData" -> CapturedEach("Algorithm", e[2]) \cup CapturedEach("SignerInfo", e[2])
    [] e[1] = "0" /\ k = "signedData" ->
         CapturedAmong("Certificate", e[2], {i \in DOMAIN e[2] : e[2][i][1] \notin {"0", "1", "2", "3"}})
    [] OTHER -> {}

(* Elements that may be written as DER: none holds a value that is BER.    *)
IsDer(k, elements) ==
  /\ \A i \in DOMAIN Body(k, elements) : CapturedOf(k, Body(k, elements)[i]) \cap BerOnly = {}
  /\ k \in {"certificate", "request"} /\ 2 \in DOMAIN elements =>
       Captured("Algorithm", elements[2][2]) \cap BerOnly = {}

(* What other libraries write are elements of their own making, in DER;    *)
(* only three structures have a field whose absence means a value.         *)
ASSUME ForeignAssumption ==
  \A k \in DOMAIN Written :
    /\ \A e \in Foreign[k] : IsDocument(k, e) /\ IsDer(k, e)
    /\ \A e \in SpelledOut[k] : CapturedOf(k, e) \cap BerOnly = {}
    /\ k \notin {"certificate", "timeStampReq", "tstInfo"} => SpelledOut[k] = {}

----------------------------------------------------------------------------
(* Documents. *)

Init ==
  /\ kind \in DOMAIN Written
  /\ wire = None /\ sent = None /\ meant = None /\ damage = <<>> /\ issued = None
  /\ held = None /\ edits = <<>> /\ copied = None
  /\ alterations = 0 /\ rewrites = 0

(* A value is built from its public fields and written. *)
Write ==
  /\ wire = None
  /\ \E v \in Written[kind] \cup Refused[kind] :
       /\ Encodable(kind, "ber", v)
       /\ wire' = Bytes(kind, v)
       /\ meant' = [value |-> v, readable |-> v \in Written[kind]]
  /\ sent' = wire'
  /\ UNCHANGED <<kind, damage, issued, held, edits, copied, alterations, rewrites>>

(* Another library writes a document, in either form. *)
Receive ==
  /\ wire = None
  /\ \/ \E e \in Foreign[kind], form \in {"der", "ber"} : wire' = [form |-> form, elements |-> e]
     \/ \E v \in Written[kind] :
          Encodable(kind, "ber", v) /\ wire' = [form |-> "ber", elements |-> Encode(kind, v)]
  /\ sent' = wire'
  /\ UNCHANGED <<kind, meant, damage, issued, held, edits, copied, alterations, rewrites>>

Altered(what, body) ==
  /\ wire' = [wire EXCEPT !.elements = WithBody(kind, @, body)]
  /\ damage' = Append(damage, what)
  /\ alterations' = alterations + 1
  /\ UNCHANGED <<kind, sent, meant, issued, held, edits, copied, rewrites>>

(* An element is lost, repeated or moved, or one is added that says what   *)
(* its absence means: one alteration between two times that it is written  *)
(* or signed.                                                              *)
Alter ==
  /\ wire # None /\ held = None /\ damage = <<>> /\ alterations + Len(edits) < MaxChanges
  /\ LET body == Body(kind, wire.elements)
     IN  \E i \in DOMAIN body :
           \/ Altered("drop", RemoveAt(body, i))
           \/ Altered("repeat", InsertAt(body, i, body[i]))
           \/ \E e \in SpelledOut[kind] : Altered("spell", InsertAt(body, i, e))
           \/ /\ i < Len(body)
              /\ body[i][1] # body[i + 1][1]
              /\ Altered("swap", [body EXCEPT ![i] = body[i + 1], ![i + 1] = body[i]])

(* The issuer of a certificate signs the bytes of its TBSCertificate. *)
Issue ==
  /\ kind = "certificate" /\ wire # None /\ held = None /\ issued = None
  /\ Decode(kind, wire) # Malformed
  /\ issued' = [tbs |-> [form |-> wire.form, elements |-> wire.elements[1][2]],
                byLibrary |-> meant # None /\ damage = <<>>]
  /\ meant' = IF damage = <<>> THEN meant ELSE None
  /\ sent' = wire /\ damage' = <<>>
  /\ UNCHANGED <<kind, wire, held, edits, copied, alterations, rewrites>>

----------------------------------------------------------------------------
(* What a reader does. *)

Types == IF kind = "certificate" THEN {"plain", "captured"} ELSE {"plain"}

(* from_der, from_ber and take_from; a document that is refused leaves     *)
(* nothing behind.                                                         *)
Parse ==
  /\ wire # None /\ held = None
  /\ \E mode \in {"der", "ber"}, type \in Types :
       LET v == Read(kind, mode, wire)
       IN  /\ v # Malformed
           /\ held' = [type |-> type, value |-> v, original |-> wire, changed |-> FALSE]
  /\ copied' = None
  /\ UNCHANGED <<kind, wire, sent, meant, damage, issued, edits, alterations, rewrites>>

Holds(types) == held # None /\ held.type \in types

Edited(what, v) ==
  /\ held' = [held EXCEPT !.value = v, !.changed = TRUE]
  /\ edits' = Append(edits, what)
  /\ copied' = None
  /\ UNCHANGED <<kind, wire, sent, meant, damage, issued, alterations, rewrites>>

CanEdit(k) == kind = k /\ Holds({"plain", "mutable"}) /\ alterations + Len(edits) < MaxChanges

(* The names that the append_ and set_ methods make of one. *)
Renamings(name, s) ==
  { [typ |-> "CN", name |-> AppendUtf8String(name, "CN", s)],
    [typ |-> "O",  name |-> AppendPrintableString(name, "O", s)],
    [typ |-> "C",  name |-> AppendCountryPrintable(name, s)],
    [typ |-> "CN", name |-> SetFirst(name, "CN", s)] }

(* The subject is changed through as_mut or DerefMut. *)
EditSubject ==
  /\ CanEdit("certificate")
  /\ \E s \in NewText : \E r \in Renamings(held.value.tbs.subject, s) :
       /\ r.name # held.value.tbs.subject
       /\ Edited(<<r.typ, s>>, [held.value EXCEPT !.tbs.subject = r.name])

(* An extension is made critical, or not. *)
EditCritical ==
  /\ CanEdit("certificate")
  /\ held.value.tbs.extensions # None
  /\ \E i \in DOMAIN held.value.tbs.extensions, critical \in {TRUE, FALSE, None} :
       /\ critical # held.value.tbs.extensions[i].critical
       /\ Edited(<<"critical">>, [held.value EXCEPT !.tbs.extensions[i].critical = critical])

(* An attribute is pushed to the signed attributes. *)
EditSigned ==
  /\ CanEdit("signerInfo")
  /\ held.value.signedAttributes # None
  /\ \E a \in NewAttributes :
       Edited(<<"signedAttributes">>, [held.value EXCEPT !.signedAttributes = Append(@, a)])

(* What a change of public fields can break: the order of signed           *)
(* attributes, and the one name of a certificate without a subject.        *)
KeepsRules(k, v) ==
  /\ k = "signerInfo" /\ v.signedAttributes # None => Canonical(v.signedAttributes)
  /\ k = "certificate" /\ Attributes(v.tbs.subject) = <<>> => NamedByExtension(v.tbs.extensions)

(* encode_der, encode_ber and write_encoded. *)
Rewrite ==
  /\ Holds({"plain", "captured", "mutable"}) /\ rewrites < MaxRewrites
  /\ Encodable(kind, "ber", held.value)
  /\ wire' = Bytes(kind, held.value)
  /\ meant' = [value |-> held.value, readable |-> KeepsRules(kind, held.value)]
  /\ sent' = wire' /\ damage' = <<>>
  /\ held' = None /\ copied' = None /\ rewrites' = rewrites + 1
  /\ UNCHANGED <<kind, issued, edits, alterations>>

----------------------------------------------------------------------------
(* Certificates from certificates. *)

(* MutableX509Certificate::from. *)
ToMutable ==
  /\ Holds({"captured"})
  /\ held' = [held EXCEPT !.type = "mutable"]
  /\ UNCHANGED <<kind, wire, sent, meant, damage, issued, edits, copied, alterations, rewrites>>

(* From<CapturedX509Certificate>, or a clone of what it derefs to. *)
IntoCertificate ==
  /\ Holds({"captured", "mutable"})
  /\ held' = [held EXCEPT !.type = "plain"]
  /\ UNCHANGED <<kind, wire, sent, meant, damage, issued, edits, copied, alterations, rewrites>>

(* A certificate is encoded, and what a captured certificate reads in the  *)
(* new bytes takes its place.                                              *)
M_CopyThrough_KeepsBytes(mode) ==
  /\ kind = "certificate" /\ Holds({"plain", "captured", "mutable"})
  /\ Encodable(kind, mode, held.value)
  /\ held' = [held EXCEPT !.type = "captured"]
  /\ copied' = held.value
  /\ UNCHANGED <<kind, wire, sent, meant, damage, issued, edits, alterations, rewrites>>
M_CopyThrough_FromBytes(mode) ==
  /\ kind = "certificate" /\ Holds({"plain", "captured", "mutable"})
  /\ Encodable(kind, mode, held.value)
  /\ LET v == Read(kind, mode, held.original)
     IN  /\ v # Malformed
         /\ held' = [type |-> "captured", value |-> v, original |-> held.original, changed |-> held.changed]
  /\ copied' = held.value
  /\ UNCHANGED <<kind, wire, sent, meant, damage, issued, edits, alterations, rewrites>>
CopyThrough(mode) ==
  /\ kind = "certificate" /\ Holds({"plain", "captured", "mutable"})
  /\ Encodable(kind, mode, held.value)
  /\ LET d == Bytes(kind, held.value)
         v == Read(kind, mode, d)
     IN  /\ v # Malformed
         /\ held' = [type |-> "captured", value |-> v, original |-> d, changed |-> held.changed]
  /\ copied' = held.value
  /\ UNCHANGED <<kind, wire, sent, meant, damage, issued, edits, alterations, rewrites>>

(* CapturedX509Certificate::try_from encodes DER. *)
Copy == CopyThrough("der")

(* SignedData::try_from takes each certificate of a message through BER. *)
ThroughMessage == CopyThrough("ber")

----------------------------------------------------------------------------
(* Key pairs. *)

(* from_pkcs8_der. *)
LoadPair ==
  /\ kind = "privateKey" /\ wire # None /\ held = None
  /\ LET k == Read(kind, "der", wire)
     IN  /\ k # Malformed
         /\ LoadKeyPair(k, wire) # Malformed
         /\ held' = [type |-> "keyPair", value |-> LoadKeyPair(k, wire), original |-> wire, changed |-> FALSE]
  /\ UNCHANGED <<kind, wire, sent, meant, damage, issued, edits, copied, alterations, rewrites>>

(* to_pkcs8_one_asymmetric_key_der. *)
StorePair ==
  /\ Holds({"keyPair"}) /\ rewrites < MaxRewrites
  /\ wire' = held.value.pkcs8 /\ sent' = wire'
  /\ meant' = None /\ damage' = <<>>
  /\ held' = None /\ copied' = held.value /\ rewrites' = rewrites + 1
  /\ UNCHANGED <<kind, issued, edits, alterations>>

Next ==
  \/ Write \/ Receive \/ Alter \/ Issue
  \/ Parse \/ EditSubject \/ EditCritical \/ EditSigned \/ Rewrite
  \/ ToMutable \/ IntoCertificate \/ Copy \/ ThroughMessage
  \/ LoadPair \/ StorePair

Spec == Init /\ [][Next]_vars

----------------------------------------------------------------------------
(* Properties. *)

(* A value without what another way to write it may change: a default is   *)
(* absent, and the bytes that were kept are left out.                      *)
Normal(k, v) ==
  CASE k = "certificate" ->
         [v EXCEPT !.rawData = None,
                   !.tbs.version = IF @ = V1 THEN None ELSE @,
                   !.tbs.extensions = NormalExtensions(@)]
    [] k = "signerInfo" -> [v EXCEPT !.signedAttributesData = None]
    [] k = "timeStampReq" -> [v EXCEPT !.certReq = Flag(@), !.extensions = NormalExtensions(@)]
    [] k = "tstInfo" -> [v EXCEPT !.ordering = Flag(@), !.extensions = NormalExtensions(@)]
    [] k = "certList" -> [v EXCEPT !.revoked = IF @ = <<>> THEN None ELSE @]
    [] OTHER -> v

Same(k, v, w) == Normal(k, v) = Normal(k, w)

(* What the library writes it reads back as the same value, whatever       *)
(* fields are there; and what breaks a rule between fields that the        *)
(* encoders do not look at, it refuses to read.                            *)
ReadsAsWritten ==
  meant # None /\ damage = <<>> =>
    LET v == Decode(kind, wire)
    IN  IF meant.readable THEN v # Malformed /\ Same(kind, v, meant.value) ELSE v = Malformed

(* Whatever a decoder accepts, from this library or another, an encoder    *)
(* can write; as DER, if it was read as DER.  (The decoders and the        *)
(* encoders each leave out forms of the same structures.)                  *)
ReadCanBeWritten ==
  Holds({"plain"}) /\ ~held.changed /\ copied = None /\ kind # "certList" =>
    /\ Encodable(kind, "ber", held.value)
    /\ held.original.form = "der" => Encodable(kind, "der", held.value)

(* Writing what was read, or changed, and reading it again ends there: the *)
(* second value is the first, so that no field moves, is lost or is        *)
(* mistaken for another on the way from one structure to the next.         *)
RewriteIsStable ==
  Holds({"plain", "mutable"}) /\ kind # "certList" /\ KeepsRules(kind, held.value) =>
    LET v == Decode(kind, Bytes(kind, held.value))
    IN  v # Malformed /\ Same(kind, v, held.value)

(* The record of the fields that an alteration is among. *)
AlteredPart(k, v) ==
  IF k = "certificate" THEN v.tbs ELSE IF k = "request" THEN v.info ELSE v

AtMostOneAppears(v, w) ==
  \E f \in DOMAIN v :
    /\ \A g \in DOMAIN v \ {f} : v[g] = w[g]
    /\ v[f] = None \/ w[f] = None \/ v[f] = w[f]

(* A document in which one element was lost, repeated, moved or spelled    *)
(* out is refused, or read as it was but for one optional field that is    *)
(* there in one of them and not in the other: no element is ever taken for *)
(* another one.  The exception is a revocation list without its first      *)
(* time, for which the second one is taken.                                *)
AlterationIsNoticed ==
  wire # None /\ Len(damage) = 1 =>
    LET v == Decode(kind, wire)
        w == Decode(kind, sent)
    IN  \/ v = Malformed \/ w = Malformed
        \/ kind = "certList" /\ v.thisUpdate = w.nextUpdate
        \/ /\ damage[1] # "swap"
           /\ AtMostOneAppears(AlteredPart(kind, Normal(kind, v)), AlteredPart(kind, Normal(kind, w)))

(* A captured certificate is what its bytes say, which equality, hashing   *)
(* and fingerprints are over; one whose signature verifies holds what its  *)
(* issuer signed, however it came to be.                                   *)
CapturedMatchesItsBytes ==
  kind = "certificate" /\ Holds({"captured"}) =>
    /\ held.value = Decode(kind, held.original)
    /\ issued # None =>
         (held.value.rawData = issued.tbs => held.value.tbs = DecodeTbs(issued.tbs.elements))

(* A copy of a certificate that this library wrote verifies like the       *)
(* original, though the bytes it is verified over are written anew.        *)
CopyKeepsSignature ==
  kind = "certificate" /\ Holds({"captured"}) /\ copied # None /\ ~held.changed /\ issued # None =>
    (issued.byLibrary /\ copied.rawData = issued.tbs => held.value.rawData = issued.tbs)

(* A copy shows every change that was made before it was taken. *)
CopyShowsChanges ==
  kind = "certificate" /\ Holds({"captured"}) /\ copied # None => Same(kind, held.value, copied)

(* What a name was given last of a type can be read back as the text it    *)
(* was given, a common name is never lost, and a country always has two    *)
(* printable characters.                                                   *)
NamesShowTheirText ==
  kind = "certificate" /\ held # None =>
    LET subject == held.value.tbs.subject
    IN  \A i \in {n \in DOMAIN edits : edits[n][1] \in Among(FriendlyOrder)} :
          /\ /\ UserFriendly(subject) # Malformed
             /\ \A j \in DOMAIN edits : j > i => edits[j][1] # edits[i][1]
             => edits[i] \in Among(UserFriendly(subject))
          /\ edits[i][1] = "CN" => FirstString(subject, "CN") # None
          /\ edits[i][1] = "C" => edits[i][2] \in TwoOctets \cap PrintableText

(* The bytes that a signature over attributes is checked against are their *)
(* DER encoding, in order, although they are kept as they were read.       *)
DigestCoversAttributes ==
  kind = "signerInfo" /\ Holds({"plain"}) /\ ~held.changed /\ held.value.signedAttributes # None =>
    /\ DigestedContent(held.value) = Sorted(held.value.signedAttributes)
    /\ Among(held.value.signedAttributes) \cap BerOnly = {}

(* Attributes that were changed after they were read are not covered by    *)
(* the signature that was read with them: the kept bytes, which are        *)
(* digested, are still those of the document, and a reader of what is      *)
(* written digests all of the changed attributes, and never those bytes.   *)
ChangeNeedsNewSignature ==
  kind = "signerInfo" /\ Holds({"plain"}) /\ held.changed =>
    LET before == Decode(kind, held.original)
        after == Decode(kind, Bytes(kind, held.value))
    IN  /\ DigestedContent(held.value) = Sorted(before.signedAttributes)
        /\ after # Malformed =>
             /\ DigestedContent(after) = Sorted(held.value.signedAttributes)
             /\ DigestedContent(after) # DigestedContent(held.value)

(* A key pair says of itself what is true of the key it signs with,        *)
(* whatever its document claims; stored and loaded again it is the same.   *)
KeyPairSignsAsItSays ==
  Holds({"keyPair"}) =>
    /\ held.value.algorithm = PrivateKeyInfo[held.value.key].algorithm
    /\ held.value.publicKeyData = PrivateKeyInfo[held.value.key].publicKey
    /\ copied # None /\ damage = <<>> => held.value = copied
==============================================================================

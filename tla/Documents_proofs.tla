-------------------------- MODULE Documents_proofs --------------------------
(***************************************************************************)
(* For any values, documents and bounds: what was written is read as the   *)
(* same value and what was changed can be written again; an alteration is  *)
(* noticed, and takes no field for another; a captured certificate is what *)
(* its bytes say, and a copy shows what was changed and keeps the          *)
(* signature of its original; a name shows the texts it was given; a       *)
(* signature over attributes is checked over all of them; and a key pair   *)
(* says of itself what is true of its key.                                 *)
(***************************************************************************)
EXTENDS Documents, Structures_proofs, TLAPS

(* What from_pkcs8_der makes of a document. *)
PairOf(d) == LoadKeyPair(Read("privateKey", "der", d), d)

(* The inductive invariant.  What is held, and was not changed since, is   *)
(* what its bytes decode to; for a captured certificate that goes on being *)
(* so, since changes are made on the other types only.                     *)
HeldShape ==
  held # None => /\ DOMAIN held = {"type", "value", "original", "changed"}
                 /\ held.type \in {"plain", "captured", "mutable", "keyPair"}

HeldWasRead ==
  Holds({"plain", "captured", "mutable"}) /\ (held.type = "captured" \/ ~held.changed) =>
    held.value # Malformed /\ held.value = Decode(kind, held.original)

(* A key pair was made of the document that is there.                      *)
PairWasLoaded ==
  Holds({"keyPair"}) =>
    /\ kind = "privateKey" /\ wire # None /\ held.original = wire
    /\ held.value = PairOf(wire) /\ held.value # Malformed

(* The document that a key pair was stored as is the one it came from.     *)
StoredPairLoads ==
  kind = "privateKey" /\ copied # None /\ damage = <<>> => wire # None /\ copied = PairOf(wire)

Damage == {"drop", "repeat", "spell", "swap"}

DocumentsInv ==
  /\ damage \in Seq(Damage)
  /\ HeldShape
  /\ HeldWasRead
  /\ PairWasLoaded
  /\ StoredPairLoads

----------------------------------------------------------------------------
(* Facts about the operators. *)

(* What a reader gets is what the document decodes to.                     *)
LEMMA ReadDecodes ==
  ASSUME NEW k, NEW mode, NEW d, Read(k, mode, d) # Malformed
  PROVE  Read(k, mode, d) = Decode(k, d)
BY DEF Read

(* A pair keeps its document, and what it says is what its key is.         *)
LEMMA PairSays ==
  ASSUME NEW k, NEW d, LoadKeyPair(k, d) # Malformed
  PROVE  /\ LoadKeyPair(k, d).pkcs8 = d
         /\ LoadKeyPair(k, d).algorithm = PrivateKeyInfo[LoadKeyPair(k, d).key].algorithm
         /\ LoadKeyPair(k, d).publicKeyData = PrivateKeyInfo[LoadKeyPair(k, d).key].publicKey
<1>1. ~KeyError(k) /\ LoadKeyPair(k, d) = KeyPair(k, d)
  BY DEF LoadKeyPair
<1>2. PrivateKeyInfo[k.privateKey].algorithm = KeyAlgorithmOf[k.privateKeyAlgorithm]
  BY <1>1 DEF KeyError
<1>3. /\ KeyPair(k, d).pkcs8 = d
      /\ KeyPair(k, d).key = k.privateKey
      /\ KeyPair(k, d).algorithm = KeyAlgorithmOf[k.privateKeyAlgorithm]
      /\ KeyPair(k, d).publicKeyData = PrivateKeyInfo[k.privateKey].publicKey
  BY DEF KeyPair, PublicKeyData
<1> QED
  BY <1>1, <1>2, <1>3

(* The attributes of a signer that was read are the bytes that were kept,  *)
(* and in canonical form.                                                  *)
LEMMA SignerIsCanonical ==
  ASSUME NEW e, NEW v, v = DecodeSignerInfo(e), v # Malformed
  PROVE  /\ v.signedAttributesData = v.signedAttributes
         /\ v.signedAttributes # None => Canonical(v.signedAttributes)
BY DEF DecodeSignerInfo, SignerInfoRead, Obeying, Decoded, Made, Sound, SignedAttributesRules

(* A decoded certificate keeps the bytes its TBSCertificate was read from. *)
LEMMA CertificateKeepsItsBytes ==
  ASSUME NEW form, NEW e, NEW v, v = DecodeCertificate(form, e), v # Malformed
  PROVE  v.tbs = DecodeTbs(v.rawData.elements)
BY DEF DecodeCertificate, Decoded, Made, Sound

----------------------------------------------------------------------------
(* The invariant. *)

(* Nothing is there at first.                                              *)
LEMMA InitEstablishes == Init => DocumentsInv
BY DEF Init, DocumentsInv, HeldShape, HeldWasRead, PairWasLoaded, StoredPairLoads, Holds

(* While nothing is held, a document may be written, signed and altered.   *)
LEMMA WireStep ==
  ASSUME DocumentsInv, Write \/ Receive \/ Alter \/ Issue
  PROVE  DocumentsInv'
<1> USE DEF DocumentsInv
<1>1. CASE Write \/ Receive
  <2>1. wire = None /\ UNCHANGED <<kind, damage, held, copied>>
    BY <1>1 DEF Write, Receive
  <2>2. ~Holds({"keyPair"}) /\ ~(kind = "privateKey" /\ copied # None /\ damage = <<>>)
    BY <2>1 DEF PairWasLoaded, StoredPairLoads
  <2> QED
    BY <2>1, <2>2 DEF HeldShape, HeldWasRead, PairWasLoaded, StoredPairLoads, Holds
<1>2. CASE Alter
  <2>1. held = None /\ held' = None
    BY <1>2 DEF Alter, Altered
  <2>2. PICK what \in Damage : damage' = Append(damage, what)
    <3>1. \E what \in Damage : \E new : Altered(what, new)
      BY <1>2, Zenon DEF Alter, Damage
    <3> QED
      BY <3>1 DEF Altered
  <2>3. damage' \in Seq(Damage) /\ damage' # <<>>
    BY <2>2
  <2> QED
    BY <2>1, <2>3 DEF HeldShape, HeldWasRead, PairWasLoaded, StoredPairLoads, Holds
<1>3. CASE Issue
  <2>1. kind = "certificate" /\ kind' = kind /\ held = None /\ held' = None /\ damage' = <<>>
    BY <1>3 DEF Issue
  <2> QED
    BY <2>1 DEF HeldShape, HeldWasRead, PairWasLoaded, StoredPairLoads, Holds
<1> QED
  BY <1>1, <1>2, <1>3

(* Reading, changing and writing a value. *)
LEMMA ValueStep ==
  ASSUME DocumentsInv, Parse \/ EditSubject \/ EditCritical \/ EditSigned \/ Rewrite
  PROVE  DocumentsInv'
<1> USE DEF DocumentsInv
<1>1. CASE Parse
  <2>1. PICK mode \in {"der", "ber"}, type \in Types :
          /\ Read(kind, mode, wire) # Malformed
          /\ held' = [type |-> type, value |-> Read(kind, mode, wire), original |-> wire, changed |-> FALSE]
    BY <1>1 DEF Parse
  <2>2. held'.type \in {"plain", "captured"}
    BY <2>1 DEF Types
  <2>3. held'.value = Decode(kind, held'.original) /\ held'.value # Malformed
    BY <2>1, ReadDecodes
  <2>4. UNCHANGED <<kind, damage>> /\ copied' = None
    BY <1>1 DEF Parse
  <2> QED
    BY <2>1, <2>2, <2>3, <2>4 DEF HeldShape, HeldWasRead, PairWasLoaded, StoredPairLoads, Holds
<1>2. ASSUME NEW what, NEW v, Holds({"plain", "mutable"}), Edited(what, v)
      PROVE  DocumentsInv'
  <2>1. /\ held' = [held EXCEPT !.value = v, !.changed = TRUE]
        /\ copied' = None
        /\ UNCHANGED <<kind, wire, damage>>
    BY <1>2 DEF Edited
  <2>2. held'.changed = TRUE /\ held'.type = held.type /\ DOMAIN held' = DOMAIN held
    BY <1>2, <2>1 DEF HeldShape, Holds
  <2> QED
    BY <1>2, <2>1, <2>2 DEF HeldShape, HeldWasRead, PairWasLoaded, StoredPairLoads, Holds
<1>3. CASE EditSubject
  BY <1>2, <1>3 DEF EditSubject, CanEdit
<1>4. CASE EditCritical
  BY <1>2, <1>4 DEF EditCritical, CanEdit
<1>5. CASE EditSigned
  BY <1>2, <1>5 DEF EditSigned, CanEdit
<1>6. CASE Rewrite
  <2>1. held' = None /\ copied' = None /\ damage' = <<>>
    BY <1>6 DEF Rewrite
  <2> QED
    BY <2>1 DEF HeldShape, HeldWasRead, PairWasLoaded, StoredPairLoads, Holds
<1> QED
  BY <1>1, <1>3, <1>4, <1>5, <1>6

(* Certificates from certificates. *)
LEMMA CertificateStep ==
  ASSUME DocumentsInv, ToMutable \/ IntoCertificate \/ Copy \/ ThroughMessage
  PROVE  DocumentsInv'
<1> USE DEF DocumentsInv
<1>1. ASSUME NEW type \in {"plain", "mutable"}, Holds({"captured", "mutable"}),
             held.type = "captured" \/ type = "plain",
             held' = [held EXCEPT !.type = type], UNCHANGED <<kind, wire, damage, copied>>
      PROVE  DocumentsInv'
  <2>1. /\ DOMAIN held' = DOMAIN held /\ held'.type = type
        /\ held'.value = held.value /\ held'.original = held.original /\ held'.changed = held.changed
    BY <1>1 DEF HeldShape, Holds
  <2> QED
    BY <1>1, <2>1 DEF HeldShape, HeldWasRead, PairWasLoaded, StoredPairLoads, Holds
<1>2. CASE ToMutable
  BY <1>1, <1>2 DEF ToMutable, Holds
<1>3. CASE IntoCertificate
  BY <1>1, <1>3 DEF IntoCertificate, Holds
<1>4. ASSUME NEW mode, CopyThrough(mode)
      PROVE  DocumentsInv'
  <2>1. kind = "certificate" /\ UNCHANGED <<kind, damage>>
    BY <1>4 DEF CopyThrough
  <2>2. PICK d : /\ Read(kind, mode, d) # Malformed
                 /\ held' = [type |-> "captured", value |-> Read(kind, mode, d), original |-> d,
                             changed |-> held.changed]
    BY <1>4 DEF CopyThrough
  <2>3. held'.value = Decode(kind, held'.original) /\ held'.value # Malformed
    BY <2>2, ReadDecodes
  <2> QED
    BY <2>1, <2>2, <2>3 DEF HeldShape, HeldWasRead, PairWasLoaded, StoredPairLoads, Holds
<1> QED
  BY <1>2, <1>3, <1>4 DEF Copy, ThroughMessage

(* Key pairs. *)
LEMMA PairStep ==
  ASSUME DocumentsInv, LoadPair \/ StorePair
  PROVE  DocumentsInv'
<1> USE DEF DocumentsInv
<1>1. CASE LoadPair
  <2>1. /\ kind = "privateKey" /\ wire # None /\ PairOf(wire) # Malformed
        /\ held' = [type |-> "keyPair", value |-> PairOf(wire), original |-> wire, changed |-> FALSE]
        /\ UNCHANGED <<kind, wire, damage, copied>>
    BY <1>1 DEF LoadPair, PairOf
  <2> QED
    BY <2>1 DEF HeldShape, HeldWasRead, PairWasLoaded, StoredPairLoads, Holds, PairOf
<1>2. CASE StorePair
  <2>1. /\ wire' = held.value.pkcs8 /\ damage' = <<>> /\ held' = None
        /\ copied' = held.value /\ kind' = kind
    BY <1>2 DEF StorePair
  <2>2. Holds({"keyPair"}) /\ wire # None /\ held.value = PairOf(wire) /\ held.value # Malformed
    BY <1>2 DEF StorePair, PairWasLoaded
  <2>3. held.value.pkcs8 = wire
    BY <2>2, PairSays DEF PairOf
  <2> QED
    BY <2>1, <2>2, <2>3 DEF HeldShape, HeldWasRead, PairWasLoaded, StoredPairLoads, Holds
<1> QED
  BY <1>1, <1>2

(* Every step keeps the invariant.                                         *)
LEMMA NextPreserves == DocumentsInv /\ [Next]_vars => DocumentsInv'
<1> SUFFICES ASSUME DocumentsInv, [Next]_vars
             PROVE  DocumentsInv'
  OBVIOUS
<1>1. CASE UNCHANGED vars
  BY <1>1 DEF vars, DocumentsInv, HeldShape, HeldWasRead, PairWasLoaded, StoredPairLoads, Holds
<1> QED
  BY <1>1, WireStep, ValueStep, CertificateStep, PairStep DEF Next

(* Whatever is held and was not changed is what its bytes decode to, and a *)
(* key pair is the one its document holds, in every reachable state.       *)
THEOREM DocumentsInvariant == Spec => []DocumentsInv
<1> QED
  BY InitEstablishes, NextPreserves, PTL DEF Spec

----------------------------------------------------------------------------
(* What follows from it. *)

(* A captured certificate is what its bytes say, however it was changed,   *)
(* copied or carried by a message before; when its signature verifies, it  *)
(* holds what its issuer signed.                                           *)
THEOREM CapturedIsItsBytes == Spec => []CapturedMatchesItsBytes
<1>1. DocumentsInv => CapturedMatchesItsBytes
  <2> SUFFICES ASSUME DocumentsInv, kind = "certificate", Holds({"captured"})
               PROVE  /\ held.value = Decode(kind, held.original)
                      /\ issued # None =>
                           (held.value.rawData = issued.tbs => held.value.tbs = DecodeTbs(issued.tbs.elements))
    BY DEF CapturedMatchesItsBytes
  <2>1. held.value # Malformed /\ held.value = Decode(kind, held.original)
    BY DEF DocumentsInv, HeldWasRead, Holds
  <2>2. held.value = DecodeCertificate(held.original.form, held.original.elements)
    BY <2>1 DEF Decode
  <2>3. held.value.tbs = DecodeTbs(held.value.rawData.elements)
    BY <2>1, <2>2, CertificateKeepsItsBytes
  <2> QED
    BY <2>1, <2>3
<1> QED
  BY <1>1, DocumentsInvariant, PTL

(* The bytes a signature is checked against, which were kept when the      *)
(* message was read, are those of the attributes in DER order.             *)
THEOREM SignaturesCoverAttributes == Spec => []DigestCoversAttributes
<1>1. DocumentsInv => DigestCoversAttributes
  <2> SUFFICES ASSUME DocumentsInv, kind = "signerInfo", Holds({"plain"}), ~held.changed,
                      held.value.signedAttributes # None
               PROVE  /\ DigestedContent(held.value) = Sorted(held.value.signedAttributes)
                      /\ Among(held.value.signedAttributes) \cap BerOnly = {}
    BY DEF DigestCoversAttributes
  <2>1. held.value # Malformed /\ held.value = DecodeSignerInfo(held.original.elements)
    BY DEF DocumentsInv, HeldWasRead, Holds, Decode
  <2>2. held.value.signedAttributesData = held.value.signedAttributes /\ Canonical(held.value.signedAttributes)
    BY <2>1, SignerIsCanonical
  <2>3. DigestedContent(held.value) = Sorted(held.value.signedAttributes)
    BY <2>2 DEF DigestedContent, Canonical
  <2>4. Among(held.value.signedAttributes) \cap BerOnly = {}
    BY <2>2 DEF Among, Canonical
  <2> QED
    BY <2>3, <2>4
<1> QED
  BY <1>1, DocumentsInvariant, PTL

(* A key pair's algorithm and public key are those of its private key,     *)
(* whatever the document claims, and storing and loading it keeps it.      *)
THEOREM KeyPairsAreHonest == Spec => []KeyPairSignsAsItSays
<1>1. DocumentsInv => KeyPairSignsAsItSays
  <2> SUFFICES ASSUME DocumentsInv, Holds({"keyPair"})
               PROVE  /\ held.value.algorithm = PrivateKeyInfo[held.value.key].algorithm
                      /\ held.value.publicKeyData = PrivateKeyInfo[held.value.key].publicKey
                      /\ copied # None /\ damage = <<>> => held.value = copied
    BY DEF KeyPairSignsAsItSays
  <2>1. kind = "privateKey" /\ held.value = PairOf(wire) /\ held.value # Malformed
    BY DEF DocumentsInv, PairWasLoaded
  <2>2. copied # None /\ damage = <<>> => held.value = copied
    BY <2>1 DEF DocumentsInv, StoredPairLoads
  <2> QED
    BY <2>1, <2>2, PairSays DEF PairOf
<1> QED
  BY <1>1, DocumentsInvariant, PTL

-----------------------------------------------------------------------------
(* What is written is read.                                                *)

(* A flag that was written and read has no default left to lose.           *)
LEMMA FlagTwice ==
  ASSUME NEW v
  PROVE  Flag(Flag(v)) = Flag(v)
BY DEF Flag

(* Extensions that were written and read have no default left to lose.     *)
LEMMA NormalTwice ==
  ASSUME Atoms, NEW xs, IsExtensions(xs)
  PROVE  NormalExtensions(NormalExtensions(xs)) = NormalExtensions(xs)
<1>1. CASE xs = None
  BY <1>1 DEF NormalExtensions
<1>2. CASE xs # None
  <2> DEFINE ys == NormalExtensions(xs)
             zs == NormalExtensions(ys)
  <2>1. IsFunction(xs) /\ \A i \in DOMAIN xs : IsExtension(xs[i])
    BY <1>2 DEF IsExtensions, IsVec
  <2>2. ys = [i \in DOMAIN xs |-> [xs[i] EXCEPT !.critical = Flag(@)]]
    BY <1>2 DEF NormalExtensions
  <2>3. \A i \in DOMAIN xs : ys[i] = [id |-> xs[i].id, critical |-> Flag(xs[i].critical), value |-> xs[i].value]
    BY <2>1, <2>2 DEF IsExtension
  <2>4. IsFunction(ys) /\ DOMAIN ys = DOMAIN xs
    BY <2>2 DEF IsFunction
  <2>5. ys # None
    BY <2>4 DEF Atoms, Required
  <2>6. zs = [i \in DOMAIN ys |-> [ys[i] EXCEPT !.critical = Flag(@)]]
    BY <2>5 DEF NormalExtensions
  <2> HIDE DEF ys, zs
  <2>7. \A i \in DOMAIN ys : zs[i] = ys[i]
    BY <2>3, <2>4, <2>6, FlagTwice
  <2>8. zs = ys
    BY <2>4, <2>6, <2>7 DEF IsFunction
  <2> QED
    BY <2>8 DEF ys, zs
<1> QED
  BY <1>1, <1>2

(* A certificate that obeys the rules is read as it was written, up to     *)
(* defaults; any other is refused.                                         *)
LEMMA CertificateReadsAsWritten ==
  ASSUME Atoms, NEW c, IsCertificate(c), NEW form
  PROVE  LET v == DecodeCertificate(form, EncodeCertificate(c))
         IN  IF TbsObeys(c.tbs) THEN v # Malformed /\ Same("certificate", v, c) ELSE v = Malformed
<1> DEFINE v == DecodeCertificate(form, EncodeCertificate(c))
           x == NormalExtensions(c.tbs.extensions)
<1> SUFFICES ASSUME TbsObeys(c.tbs) PROVE v # Malformed /\ Same("certificate", v, c)
  BY CertificateRoundTrip
<1>1. /\ v = [tbs                |-> NormalTbs(c.tbs),
              signatureAlgorithm |-> c.signatureAlgorithm,
              signature          |-> c.signature,
              rawData            |-> [form |-> form, elements |-> EncodeTbs(c.tbs)]]
      /\ v # Malformed
  BY CertificateRoundTrip DEF Required
<1> DEFINE t == c.tbs
           version == NormalVersion(c.tbs.version)
<1>2. NormalExtensions(x) = x
  BY NormalTwice DEF IsCertificate, IsTbs
<1>3. NormalVersion(version) = version
  BY DEF NormalVersion
<1> HIDE DEF x, version, v
<1>7. t = [version |-> t.version, serialNumber |-> t.serialNumber, signature |-> t.signature,
          issuer |-> t.issuer, validity |-> t.validity, subject |-> t.subject,
          subjectPublicKeyInfo |-> t.subjectPublicKeyInfo, issuerUniqueId |-> t.issuerUniqueId,
          subjectUniqueId |-> t.subjectUniqueId, extensions |-> t.extensions]
  BY DEF IsCertificate, IsTbs
<1>8. NormalTbs(t) = [t EXCEPT !.version = version, !.extensions = x]
  BY DEF NormalTbs, version, x
<1>4. NormalTbs(t) = [version |-> version, serialNumber |-> t.serialNumber, signature |-> t.signature,
          issuer |-> t.issuer, validity |-> t.validity, subject |-> t.subject,
          subjectPublicKeyInfo |-> t.subjectPublicKeyInfo, issuerUniqueId |-> t.issuerUniqueId,
          subjectUniqueId |-> t.subjectUniqueId, extensions |-> x]
  BY <1>7, <1>8
<1>5. Normal("certificate", v) = [tbs |-> NormalTbs(t), signatureAlgorithm |-> c.signatureAlgorithm,
                                  signature |-> c.signature, rawData |-> None]
  <2> DEFINE u == NormalTbs(t)
  <2>1. u.version = version /\ u.extensions = x
    BY <1>4
  <2>2. u = [u EXCEPT !.version = version, !.extensions = x]
    <3>1. IsFunction(u) /\ u.version = version /\ u.extensions = x
      BY <1>4, <2>1 DEF IsFunction
    <3> HIDE DEF u
    <3> QED
      BY <3>1 DEF IsFunction
  <2> HIDE DEF u
  <2>3. v = [tbs |-> u, signatureAlgorithm |-> c.signatureAlgorithm, signature |-> c.signature,
             rawData |-> [form |-> form, elements |-> EncodeTbs(c.tbs)]]
    BY <1>1 DEF u
  <2>4. Normal("certificate", v) = [v EXCEPT !.rawData = None, !.tbs.version = NormalVersion(@),
                                             !.tbs.extensions = NormalExtensions(@)]
    BY DEF Normal, NormalVersion
  <2>5. Normal("certificate", v) = [v EXCEPT !.rawData = None,
                                             !.tbs = [u EXCEPT !.version = version, !.extensions = x]]
    BY <2>1, <2>3, <2>4, <1>2, <1>3
  <2>6. Normal("certificate", v) = [v EXCEPT !.rawData = None, !.tbs = u]
    BY <2>2, <2>5
  <2> QED
    BY <2>3, <2>6 DEF u
<1>6. Normal("certificate", c) = [tbs |-> NormalTbs(t), signatureAlgorithm |-> c.signatureAlgorithm,
                                  signature |-> c.signature, rawData |-> None]
  <2>1. c = [tbs |-> t, signatureAlgorithm |-> c.signatureAlgorithm, signature |-> c.signature,
             rawData |-> c.rawData]
    BY DEF IsCertificate
  <2>2. Normal("certificate", c) = [c EXCEPT !.rawData = None, !.tbs = [t EXCEPT !.version = version, !.extensions = x]]
    BY <2>1 DEF Normal, NormalVersion, version, x, IsCertificate, IsTbs
  <2> QED
    BY <2>1, <2>2, <1>4 DEF NormalTbs, version, x
<1> QED
  BY <1>1, <1>5, <1>6 DEF Same

(* So is a request for a time stamp.                                       *)
LEMMA TimeStampReqReadsAsWritten ==
  ASSUME Atoms, NEW r, IsTimeStampReq(r)
  PROVE  LET v == DecodeTimeStampReq(EncodeTimeStampReq(r))
         IN  IF TimeStampReqObeys(r) THEN v # Malformed /\ Same("timeStampReq", v, r) ELSE v = Malformed
<1> DEFINE x == NormalExtensions(r.extensions)
           v == NormalReq(r)
<1>1. NormalExtensions(x) = x /\ Flag(Flag(r.certReq)) = Flag(r.certReq)
  BY NormalTwice, FlagTwice DEF IsTimeStampReq
<1> DEFINE flag == Flag(r.certReq)
<1>5. r = [version |-> r.version, messageImprint |-> r.messageImprint, reqPolicy |-> r.reqPolicy,
           nonce |-> r.nonce, certReq |-> r.certReq, extensions |-> r.extensions]
  BY DEF IsTimeStampReq
<1>6. v = [r EXCEPT !.certReq = flag, !.extensions = x]
  BY DEF NormalReq
<1> HIDE DEF x, v, flag
<1>2. v = [version |-> r.version, messageImprint |-> r.messageImprint, reqPolicy |-> r.reqPolicy,
           nonce |-> r.nonce, certReq |-> flag, extensions |-> x]
  BY <1>5, <1>6
<1>3. Normal("timeStampReq", r) = v
  BY DEF Normal, NormalReq, v
<1>4. Normal("timeStampReq", v) = v
  <2>1. Normal("timeStampReq", v) = [v EXCEPT !.certReq = Flag(v.certReq),
                                              !.extensions = NormalExtensions(v.extensions)]
    BY DEF Normal
  <2>2. Flag(v.certReq) = flag /\ NormalExtensions(v.extensions) = x
    BY <1>1, <1>2 DEF flag
  <2> QED
    BY <1>2, <2>1, <2>2
<1> QED
  BY <1>3, <1>4, TimeStampReqRoundTrip DEF Same, v, Required

(* So is what a time-stamp token says.                                     *)
LEMMA TstInfoReadsAsWritten ==
  ASSUME Atoms, NEW t, IsTstInfo(t)
  PROVE  LET v == DecodeTstInfo(EncodeTstInfo(t))
         IN  IF TstInfoObeys(t) THEN v # Malformed /\ Same("tstInfo", v, t) ELSE v = Malformed
<1> DEFINE x == NormalExtensions(t.extensions)
           v == NormalTst(t)
<1>1. NormalExtensions(x) = x /\ Flag(Flag(t.ordering)) = Flag(t.ordering)
  BY NormalTwice, FlagTwice DEF IsTstInfo
<1> DEFINE flag == Flag(t.ordering)
<1>5. t = [version |-> t.version, policy |-> t.policy, messageImprint |-> t.messageImprint,
          serialNumber |-> t.serialNumber, genTime |-> t.genTime, accuracy |-> t.accuracy,
          ordering |-> t.ordering, nonce |-> t.nonce, tsa |-> t.tsa, extensions |-> t.extensions]
  BY DEF IsTstInfo
<1>6. v = [t EXCEPT !.ordering = flag, !.extensions = x]
  BY DEF NormalTst
<1> HIDE DEF x, v, flag
<1>2. v = [version |-> t.version, policy |-> t.policy, messageImprint |-> t.messageImprint,
          serialNumber |-> t.serialNumber, genTime |-> t.genTime, accuracy |-> t.accuracy,
          ordering |-> flag, nonce |-> t.nonce, tsa |-> t.tsa, extensions |-> x]
  BY <1>5, <1>6
<1>3. Normal("tstInfo", t) = v
  BY DEF Normal, NormalTst, v
<1>4. Normal("tstInfo", v) = v
  <2>1. Normal("tstInfo", v) = [v EXCEPT !.ordering = Flag(v.ordering), !.extensions = NormalExtensions(v.extensions)]
    BY DEF Normal
  <2>2. Flag(v.ordering) = flag /\ NormalExtensions(v.extensions) = x
    BY <1>1, <1>2 DEF flag
  <2> QED
    BY <1>2, <2>1, <2>2
<1> QED
  BY <1>3, <1>4, TstInfoRoundTrip DEF Same, v, Required

(* So is a signer, but for the bytes kept of its signed attributes.        *)
LEMMA SignerInfoReadsAsWritten ==
  ASSUME Atoms, NEW s, IsSignerInfo(s)
  PROVE  LET v == DecodeSignerInfo(EncodeSignerInfo(s))
         IN  IF SignerInfoObeys(s) THEN v # Malformed /\ Same("signerInfo", v, s) ELSE v = Malformed
<1> DEFINE v == [s EXCEPT !.signedAttributesData = s.signedAttributes]
<1>1. Normal("signerInfo", v) = Normal("signerInfo", s)
  BY DEF Normal, IsSignerInfo
<1> QED
  BY <1>1, SignerInfoRoundTrip DEF Same, Required

(* Every structure that is written is read as it was, if it obeys the      *)
(* rules of its decoder, and refused if it does not.                       *)
LEMMA WrittenIsRead ==
  ASSUME Atoms, NEW k \in Kinds, NEW v, HasType(k, v), k = "signedData" => SignedDataEncodable(v),
         NEW d, d.elements = Encode(k, v)
  PROVE  IF Obeys(k, v) THEN Decode(k, d) # Malformed /\ Same(k, Decode(k, d), v) ELSE Decode(k, d) = Malformed
<1>1. CASE k = "certificate"
  BY <1>1, CertificateReadsAsWritten DEF HasType, Obeys, Encode, Decode
<1>2. CASE k = "request"
  BY <1>2, RequestRoundTrip DEF HasType, Obeys, Encode, Decode, Same, Required
<1>3. CASE k = "contentInfo"
  BY <1>3, ContentInfoRoundTrip DEF HasType, Obeys, Encode, Decode, Same, Required
<1>4. CASE k = "signerInfo"
  BY <1>4, SignerInfoReadsAsWritten DEF HasType, Obeys, Encode, Decode
<1>5. CASE k = "signedData"
  BY <1>5, SignedDataRoundTrip DEF HasType, Obeys, Encode, Decode, Same, Required
<1>6. CASE k = "timeStampReq"
  BY <1>6, TimeStampReqReadsAsWritten DEF HasType, Obeys, Encode, Decode
<1>7. CASE k = "timeStampResp"
  BY <1>7, TimeStampRespRoundTrip DEF HasType, Obeys, Encode, Decode, Same, Required
<1>8. CASE k = "tstInfo"
  BY <1>8, TstInfoReadsAsWritten DEF HasType, Obeys, Encode, Decode
<1>9. CASE k = "privateKey"
  BY <1>9, OneAsymmetricKeyRoundTrip DEF HasType, Obeys, Encode, Decode, Same, Required
<1>10. CASE k = "ecPrivateKey"
  BY <1>10, EcPrivateKeyRoundTrip DEF HasType, Obeys, Encode, Decode, Same, Required
<1>11. CASE k = "rsaPrivateKey"
  BY <1>11, RsaPrivateKeyRoundTrip DEF HasType, Obeys, Encode, Decode, Same, Required
<1>12. CASE k = "digestInfo"
  BY <1>12, DigestInfoRoundTrip DEF HasType, Obeys, Encode, Decode, Same, Required
<1>13. CASE k = "certList"
  BY <1>13 DEF HasType
<1> QED
  BY <1>1, <1>2, <1>3, <1>4, <1>5, <1>6, <1>7, <1>8, <1>9, <1>10, <1>11, <1>12, <1>13 DEF Kinds

(* Every value that a decoder returns has its type and obeys its rules.    *)
LEMMA ReadIsTyped ==
  ASSUME Atoms, NEW k \in Kinds, k # "certList", NEW d, Decode(k, d) # Malformed
  PROVE  LET v == Decode(k, d)
         IN  HasType(k, v) /\ Obeys(k, v) /\ (k = "signedData" => SignedDataEncodable(v))
<1>1. CASE k = "certificate"
  BY <1>1, CertificateShape DEF HasType, Obeys, Decode
<1>2. CASE k = "request"
  BY <1>2, RequestShape DEF HasType, Obeys, Decode
<1>3. CASE k = "contentInfo"
  BY <1>3, ContentInfoShape DEF HasType, Obeys, Decode
<1>4. CASE k = "signerInfo"
  BY <1>4, SignerInfoShape DEF HasType, Obeys, Decode
<1>5. CASE k = "signedData"
  BY <1>5, SignedDataShape DEF HasType, Obeys, Decode
<1>6. CASE k = "timeStampReq"
  BY <1>6, TimeStampReqShape DEF HasType, Obeys, Decode
<1>7. CASE k = "timeStampResp"
  BY <1>7, TimeStampRespShape DEF HasType, Obeys, Decode
<1>8. CASE k = "tstInfo"
  BY <1>8, TstInfoShape DEF HasType, Obeys, Decode
<1>9. CASE k = "privateKey"
  BY <1>9, OneAsymmetricKeyShape DEF HasType, Obeys, Decode
<1>10. CASE k = "ecPrivateKey"
  BY <1>10, EcPrivateKeyShape DEF HasType, Obeys, Decode
<1>11. CASE k = "rsaPrivateKey"
  BY <1>11, RsaPrivateKeyShape DEF HasType, Obeys, Decode
<1>12. CASE k = "digestInfo"
  BY <1>12, DigestInfoShape DEF HasType, Obeys, Decode
<1> QED
  BY <1>1, <1>2, <1>3, <1>4, <1>5, <1>6, <1>7, <1>8, <1>9, <1>10, <1>11, <1>12 DEF Kinds

(* The rules that no change of a held value breaks.                        *)
ObeysOtherRules(k, v) ==
  CASE k = "certificate" ->
         LET version == EffectiveVersion(v.tbs.version)
         IN  /\ v.tbs.version \in {None} \cup 0..2
             /\ ExtensionsObey(v.tbs.extensions)
             /\ Attributes(v.tbs.issuer) # <<>>
             /\ v.tbs.validity.notBefore <= v.tbs.validity.notAfter
             /\ version = V1 => v.tbs.issuerUniqueId = None /\ v.tbs.subjectUniqueId = None
             /\ v.tbs.extensions # None => version = V3
    [] k = "signerInfo" -> v.version \in 0..5
    [] OTHER -> Obeys(k, v)

(* What is always true of a value that is held, and can be written.        *)
Typed(k, v) ==
  /\ HasType(k, v)
  /\ ObeysOtherRules(k, v)
  /\ k = "signedData" => SignedDataEncodable(v)

(* The rules of a decoder are those that copies and changes might break    *)
(* and those that they cannot.                                             *)
LEMMA RulesSplit ==
  ASSUME NEW k \in Kinds, NEW v
  PROVE  Obeys(k, v) <=> ObeysOtherRules(k, v) /\ KeepsRules(k, v)
<1>1. CASE k = "certificate"
  <2>1. Obeys(k, v) <=> TbsObeys(v.tbs)
    BY <1>1 DEF Obeys
  <2>2. KeepsRules(k, v) <=> (Attributes(v.tbs.subject) = <<>> => NamedByExtension(v.tbs.extensions))
    BY <1>1 DEF KeepsRules
  <2> DEFINE version == EffectiveVersion(v.tbs.version)
  <2>3. ObeysOtherRules(k, v) <=>
             /\ v.tbs.version \in {None} \cup 0..2
             /\ ExtensionsObey(v.tbs.extensions)
             /\ Attributes(v.tbs.issuer) # <<>>
             /\ v.tbs.validity.notBefore <= v.tbs.validity.notAfter
             /\ version = V1 => v.tbs.issuerUniqueId = None /\ v.tbs.subjectUniqueId = None
             /\ v.tbs.extensions # None => version = V3
    BY <1>1 DEF ObeysOtherRules
  <2> QED
    BY <2>1, <2>2, <2>3 DEF TbsObeys, TbsRules
<1>2. CASE k = "signerInfo"
  BY <1>2 DEF Obeys, ObeysOtherRules, KeepsRules, SignerInfoObeys, SignedAttributesRules
<1>3. CASE k \notin {"certificate", "signerInfo"}
  BY <1>3 DEF ObeysOtherRules, KeepsRules
<1> QED
  BY <1>1, <1>2, <1>3

(* A value of its type that obeys the other rules is read as it was        *)
(* written when it keeps those too, and refused otherwise.                 *)
LEMMA TypedIsRead ==
  ASSUME Atoms, NEW k \in Kinds, NEW v, Typed(k, v), NEW d, d.elements = Encode(k, v)
  PROVE  IF KeepsRules(k, v) THEN Decode(k, d) # Malformed /\ Same(k, Decode(k, d), v)
                             ELSE Decode(k, d) = Malformed
<1>1. Obeys(k, v) <=> KeepsRules(k, v)
  BY RulesSplit DEF Typed
<1> QED
  BY <1>1, WrittenIsRead DEF Typed

(* What a decoder returns is of its type and obeys its rules.              *)
LEMMA ReadsTyped ==
  ASSUME Atoms, NEW k \in Kinds, k # "certList", NEW d, Decode(k, d) # Malformed
  PROVE  Typed(k, Decode(k, d)) /\ KeepsRules(k, Decode(k, d))
BY ReadIsTyped, RulesSplit DEF Typed

----------------------------------------------------------------------------
(* Lists that are changed.                                                 *)

(* A list is a sequence of its elements.                                   *)
LEMMA VecIsSeq ==
  ASSUME NEW s, IsVec(s)
  PROVE  LET n == Len(s) IN n \in Nat /\ DOMAIN s = 1..n /\ s \in Seq({s[i] : i \in DOMAIN s})
<1> DEFINE m == Cardinality(DOMAIN s)
           S == {s[i] : i \in DOMAIN s}
<1>1. m \in Nat /\ DOMAIN s = 1..m
  BY FS_CardinalityType DEF IsVec, IsSequence
<1> HIDE DEF m
<1>2. s \in [1..m -> S]
  BY <1>1 DEF IsVec, IsFunction
<1>3. s \in Seq(S)
  <2> HIDE DEF S
  <2> QED BY <1>1, <1>2
<1>4. Len(s) = m
  <2> HIDE DEF S
  <2> QED BY <1>1, <1>3
<1> QED
  BY <1>1, <1>3, <1>4

(* A function on the first numbers is a list.                              *)
LEMMA SeqIsVec ==
  ASSUME NEW s, NEW n \in Nat, IsFunction(s), DOMAIN s = 1..n
  PROVE  IsVec(s)
<1>1. IsFiniteSet(1..n) /\ Cardinality(1..n) = n
  BY FS_Interval
<1> QED
  BY <1>1 DEF IsVec, IsSequence

(* Appending makes a list of a list.                                       *)
LEMMA AppendIsVec ==
  ASSUME NEW s, IsVec(s), NEW e
  PROVE  LET t == Append(s, e)
         IN  IsVec(t) /\ \A i \in DOMAIN t : t[i] = e \/ (i \in DOMAIN s /\ t[i] = s[i])
<1> DEFINE n == Len(s)
           S == {s[i] : i \in DOMAIN s} \cup {e}
           t == Append(s, e)
<1>1. n \in Nat /\ DOMAIN s = 1..n /\ s \in Seq({s[i] : i \in DOMAIN s})
  BY VecIsSeq
<1>2. s \in Seq(S)
  BY <1>1
<1> HIDE DEF S
<1>3. e \in S
  BY DEF S
<1>4. t \in Seq(S) /\ Len(t) = n + 1 /\ \A i \in 1..n : t[i] = s[i]
  BY <1>1, <1>2, <1>3
<1>5. t[n + 1] = e
  BY <1>1, <1>2, <1>3
<1>6. DOMAIN t = 1..(n + 1) /\ IsFunction(t)
  <2> HIDE DEF t
  <2>1. t \in [1..(n + 1) -> S]
    BY <1>1, <1>4
  <2> QED
    BY <2>1 DEF IsFunction
<1>7. IsVec(t)
  BY <1>1, <1>6, SeqIsVec
<1>8. \A i \in DOMAIN t : t[i] = e \/ (i \in DOMAIN s /\ t[i] = s[i])
  BY <1>1, <1>4, <1>5, <1>6
<1> QED
  BY <1>7, <1>8

(* One element makes a list.                                               *)
LEMMA OneIsVec ==
  ASSUME NEW e
  PROVE  IsVec(<<e>>) /\ \A i \in DOMAIN <<e>> : <<e>>[i] = e
<1> DEFINE s == <<e>>
<1>1. IsFunction(s) /\ DOMAIN s = 1..1 /\ \A i \in DOMAIN s : s[i] = e
  BY DEF IsFunction
<1> HIDE DEF s
<1>2. IsVec(s)
  BY <1>1, SeqIsVec
<1> QED
  BY <1>1, <1>2 DEF s

(* append_utf8_string and the like make a name of a name.                  *)
LEMMA AppendValueIsName ==
  ASSUME NEW name, IsName(name), NEW oid, NEW value
  PROVE  IsName(AppendValue(name, oid, value))
<1> DEFINE rdn == << Attribute(oid, value) >>
<1>1. IsAttribute(Attribute(oid, value))
  BY DEF IsAttribute, Attribute
<1>2. IsRdn(rdn)
  BY <1>1, OneIsVec DEF IsRdn
<1>3. IsVec(name) /\ \A i \in DOMAIN name : IsRdn(name[i])
  BY DEF IsName
<1> HIDE DEF rdn
<1> DEFINE t == Append(name, rdn)
<1>4. IsVec(t) /\ \A i \in DOMAIN t : t[i] = rdn \/ (i \in DOMAIN name /\ t[i] = name[i])
  BY <1>3, AppendIsVec
<1> HIDE DEF t
<1>5. IsName(t)
  BY <1>2, <1>3, <1>4 DEF IsName
<1> QED
  BY <1>5 DEF AppendValue, t, rdn

(* Setting the value of an attribute makes a name of a name.               *)
LEMMA SetFirstIsName ==
  ASSUME NEW name, IsName(name), NEW oid, NEW s
  PROVE  IsName(SetFirst(name, oid, s))
<1> DEFINE has(rdn) == {j \in DOMAIN rdn : rdn[j].typ = oid}
           rdns == {i \in DOMAIN name : has(name[i]) # {}}
           i == FirstOf(rdns)
           j == FirstOf(has(name[i]))
           v == NewUtf8(s)
<1>1. CASE rdns = {}
  BY <1>1 DEF SetFirst
<1>2. CASE rdns # {}
  <2>1. SetFirst(name, oid, s) = [name EXCEPT ![i][j].value = v]
    BY <1>2 DEF SetFirst
  <2> HIDE DEF i, j, v
  <2> DEFINE a == [name[i][j] EXCEPT !.value = v]
             rdn == [name[i] EXCEPT ![j] = a]
             t == [name EXCEPT ![i] = rdn]
  <2>2. SetFirst(name, oid, s) = t
    BY <2>1
  <2>3. IsFunction(name) /\ IsSequence(name) /\ \A n \in DOMAIN name : IsRdn(name[n])
    BY DEF IsName, IsVec
  <2>4. IsFunction(t) /\ DOMAIN t = DOMAIN name /\ \A n \in DOMAIN name : t[n] = IF n = i THEN rdn ELSE name[n]
    <3> HIDE DEF rdn
    <3> QED BY DEF IsFunction
  <2>5. ASSUME i \in DOMAIN name PROVE IsRdn(rdn)
    <3>1. IsFunction(name[i]) /\ IsSequence(name[i]) /\ \A n \in DOMAIN name[i] : IsAttribute(name[i][n])
      BY <2>3, <2>5 DEF IsRdn, IsVec
    <3>2. /\ IsFunction(rdn) /\ DOMAIN rdn = DOMAIN name[i]
          /\ \A n \in DOMAIN name[i] : rdn[n] = IF n = j THEN a ELSE name[i][n]
      <4> HIDE DEF a
      <4> QED BY DEF IsFunction
    <3>3. ASSUME j \in DOMAIN name[i] PROVE IsAttribute(a)
      <4>1. name[i][j] = [typ |-> name[i][j].typ, value |-> name[i][j].value]
        BY <3>1, <3>3 DEF IsAttribute, Attribute
      <4>2. a = [typ |-> name[i][j].typ, value |-> v]
        BY <4>1
      <4> QED
        BY <4>2 DEF IsAttribute, Attribute
    <3> HIDE DEF rdn, a
    <3>4. IsSequence(rdn)
      BY <3>1, <3>2 DEF IsSequence
    <3> QED
      BY <3>1, <3>2, <3>3, <3>4 DEF IsRdn, IsVec
  <2> HIDE DEF rdn, t
  <2>6. IsSequence(t)
    BY <2>3, <2>4 DEF IsSequence
  <2> QED
    BY <2>2, <2>3, <2>4, <2>5, <2>6 DEF IsName, IsVec
<1> QED
  BY <1>1, <1>2

(* So does every way of changing a subject.                                *)
LEMMA RenamedIsName ==
  ASSUME NEW name, IsName(name), NEW s, NEW r \in Renamings(name, s)
  PROVE  IsName(r.name)
BY AppendValueIsName, SetFirstIsName
   DEF Renamings, AppendUtf8String, AppendPrintableString, AppendCountryPrintable

(* A certificate with another subject is a certificate.                    *)
LEMMA RenamedIsTyped ==
  ASSUME NEW c, Typed("certificate", c), NEW name, IsName(name)
  PROVE  Typed("certificate", [c EXCEPT !.tbs.subject = name])
<1> DEFINE t == c.tbs
           u == [t EXCEPT !.subject = name]
           d == [c EXCEPT !.tbs = u]
<1>1. IsCertificate(c) /\ IsTbs(t)
  BY DEF Typed, HasType, IsCertificate
<1>2. t = [version |-> t.version, serialNumber |-> t.serialNumber, signature |-> t.signature,
           issuer |-> t.issuer, validity |-> t.validity, subject |-> t.subject,
           subjectPublicKeyInfo |-> t.subjectPublicKeyInfo, issuerUniqueId |-> t.issuerUniqueId,
           subjectUniqueId |-> t.subjectUniqueId, extensions |-> t.extensions]
  BY <1>1 DEF IsTbs
<1>3. c = [tbs |-> c.tbs, signatureAlgorithm |-> c.signatureAlgorithm, signature |-> c.signature,
           rawData |-> c.rawData]
  BY <1>1 DEF IsCertificate
<1>4. u = [version |-> t.version, serialNumber |-> t.serialNumber, signature |-> t.signature,
           issuer |-> t.issuer, validity |-> t.validity, subject |-> name,
           subjectPublicKeyInfo |-> t.subjectPublicKeyInfo, issuerUniqueId |-> t.issuerUniqueId,
           subjectUniqueId |-> t.subjectUniqueId, extensions |-> t.extensions]
  BY <1>2
<1> HIDE DEF u
<1>5. d = [tbs |-> u, signatureAlgorithm |-> c.signatureAlgorithm, signature |-> c.signature,
           rawData |-> c.rawData]
  BY <1>3
<1>6. IsTbs(u)
  BY <1>1, <1>4 DEF IsTbs
<1> HIDE DEF d
<1>7. IsCertificate(d)
  BY <1>1, <1>5, <1>6 DEF IsCertificate
<1>8. ObeysOtherRules("certificate", d)
  BY <1>4, <1>5 DEF Typed, ObeysOtherRules
<1>9. d = [c EXCEPT !.tbs.subject = name]
  BY DEF d, u
<1> QED
  BY <1>7, <1>8, <1>9 DEF Typed, HasType

(* A certificate with an extension marked otherwise is a certificate.      *)
LEMMA CriticalIsTyped ==
  ASSUME Atoms, NEW c, Typed("certificate", c), c.tbs.extensions # None, NEW i \in DOMAIN c.tbs.extensions, NEW critical
  PROVE  Typed("certificate", [c EXCEPT !.tbs.extensions[i].critical = critical])
<1> DEFINE t == c.tbs
           xs == t.extensions
           x == [xs[i] EXCEPT !.critical = critical]
           ys == [xs EXCEPT ![i] = x]
           u == [t EXCEPT !.extensions = ys]
           d == [c EXCEPT !.tbs = u]
<1>1. IsCertificate(c) /\ IsTbs(t)
  BY DEF Typed, HasType, IsCertificate
<1>2. t = [version |-> t.version, serialNumber |-> t.serialNumber, signature |-> t.signature,
           issuer |-> t.issuer, validity |-> t.validity, subject |-> t.subject,
           subjectPublicKeyInfo |-> t.subjectPublicKeyInfo, issuerUniqueId |-> t.issuerUniqueId,
           subjectUniqueId |-> t.subjectUniqueId, extensions |-> t.extensions]
  BY <1>1 DEF IsTbs
<1>3. c = [tbs |-> c.tbs, signatureAlgorithm |-> c.signatureAlgorithm, signature |-> c.signature,
           rawData |-> c.rawData]
  BY <1>1 DEF IsCertificate
<1>10. IsFunction(xs) /\ IsSequence(xs) /\ \A n \in DOMAIN xs : IsExtension(xs[n])
  BY <1>1 DEF IsTbs, IsExtensions, IsVec
<1>11. x = [id |-> xs[i].id, critical |-> critical, value |-> xs[i].value] /\ IsExtension(x) /\ x.id = xs[i].id
  <2>1. xs[i] = [id |-> xs[i].id, critical |-> xs[i].critical, value |-> xs[i].value] /\ IsExtension(xs[i])
    BY <1>10 DEF IsExtension
  <2>2. x = [id |-> xs[i].id, critical |-> critical, value |-> xs[i].value]
    BY <2>1
  <2> QED
    BY <2>1, <2>2 DEF IsExtension
<1>9. d = [c EXCEPT !.tbs.extensions[i].critical = critical]
  OBVIOUS
<1> HIDE DEF x
<1>12. /\ IsFunction(ys) /\ DOMAIN ys = DOMAIN xs
       /\ \A n \in DOMAIN xs : ys[n] = IF n = i THEN x ELSE xs[n]
  BY <1>10 DEF IsFunction
<1>4. u = [version |-> t.version, serialNumber |-> t.serialNumber, signature |-> t.signature,
           issuer |-> t.issuer, validity |-> t.validity, subject |-> t.subject,
           subjectPublicKeyInfo |-> t.subjectPublicKeyInfo, issuerUniqueId |-> t.issuerUniqueId,
           subjectUniqueId |-> t.subjectUniqueId, extensions |-> ys]
  <2> HIDE DEF ys
  <2> QED BY <1>2
<1> HIDE DEF ys, u
<1>13. IsExtensions(ys) /\ ys # None
  BY <1>10, <1>11, <1>12 DEF IsExtensions, IsVec, IsSequence, Atoms, Required
<1>14. ExtensionsObey(ys)
  <2>1. xs # <<>> /\ \A m, n \in DOMAIN xs : xs[m].id = xs[n].id => m = n
    BY DEF Typed, ObeysOtherRules, ExtensionsObey, ExtensionsRules
  <2>2. ys # <<>>
    BY <1>12
  <2>3. \A n \in DOMAIN xs : ys[n].id = xs[n].id
    BY <1>11, <1>12
  <2> QED
    BY <1>12, <2>1, <2>2, <2>3 DEF ExtensionsObey, ExtensionsRules
<1>5. d = [tbs |-> u, signatureAlgorithm |-> c.signatureAlgorithm, signature |-> c.signature,
           rawData |-> c.rawData]
  BY <1>3
<1>6. IsTbs(u)
  BY <1>1, <1>4, <1>13 DEF IsTbs
<1> HIDE DEF d
<1>7. IsCertificate(d)
  BY <1>1, <1>5, <1>6 DEF IsCertificate
<1>8. ObeysOtherRules("certificate", d)
  BY <1>4, <1>5, <1>13, <1>14 DEF Typed, ObeysOtherRules
<1> QED
  BY <1>7, <1>8, <1>9 DEF Typed, HasType

(* A signer with one more signed attribute is a signer.                    *)
LEMMA AppendedIsTyped ==
  ASSUME Atoms, NEW s, Typed("signerInfo", s), s.signedAttributes # None, NEW a, a # Malformed
  PROVE  Typed("signerInfo", [s EXCEPT !.signedAttributes = Append(@, a)])
<1> DEFINE as == Append(s.signedAttributes, a)
           v == [s EXCEPT !.signedAttributes = as]
<1>1. IsSignerInfo(s) /\ s.version \in 0..5
  BY DEF Typed, HasType, ObeysOtherRules
<1>2. IsVec(s.signedAttributes) /\ \A i \in DOMAIN s.signedAttributes : s.signedAttributes[i] # Malformed
  BY <1>1 DEF IsSignerInfo, IsOpaqueList
<1>3. IsVec(as) /\ \A i \in DOMAIN as : as[i] # Malformed
  BY <1>2, AppendIsVec
<1>4. s = [version |-> s.version, sid |-> s.sid, digestAlgorithm |-> s.digestAlgorithm,
          signedAttributes |-> s.signedAttributes, signatureAlgorithm |-> s.signatureAlgorithm,
          signature |-> s.signature, unsignedAttributes |-> s.unsignedAttributes,
          signedAttributesData |-> s.signedAttributesData]
  BY <1>1 DEF IsSignerInfo
<1>5. v = [s EXCEPT !.signedAttributes = Append(@, a)]
  OBVIOUS
<1> HIDE DEF as
<1>6. v = [version |-> s.version, sid |-> s.sid, digestAlgorithm |-> s.digestAlgorithm,
          signedAttributes |-> as, signatureAlgorithm |-> s.signatureAlgorithm,
          signature |-> s.signature, unsignedAttributes |-> s.unsignedAttributes,
          signedAttributesData |-> s.signedAttributesData]
  <2> DEFINE w == [version |-> s.version, sid |-> s.sid, digestAlgorithm |-> s.digestAlgorithm,
                   signedAttributes |-> as, signatureAlgorithm |-> s.signatureAlgorithm,
                   signature |-> s.signature, unsignedAttributes |-> s.unsignedAttributes,
                   signedAttributesData |-> s.signedAttributesData]
  <2>1. IsFunction(s) /\ DOMAIN s = DOMAIN w
    BY <1>4 DEF IsFunction
  <2>2. IsFunction(v) /\ DOMAIN v = DOMAIN w
    BY <2>1 DEF IsFunction
  <2>3. /\ v.version = s.version /\ v.sid = s.sid /\ v.digestAlgorithm = s.digestAlgorithm
        /\ v.signedAttributes = as /\ v.signatureAlgorithm = s.signatureAlgorithm
        /\ v.signature = s.signature /\ v.unsignedAttributes = s.unsignedAttributes
        /\ v.signedAttributesData = s.signedAttributesData
    BY <2>1
  <2> HIDE DEF v
  <2> QED
    BY <2>2, <2>3 DEF IsFunction
<1> HIDE DEF v
<1>7. IsSignerInfo(v)
  BY <1>1, <1>3, <1>6 DEF IsSignerInfo, IsOpaqueList
<1>8. ObeysOtherRules("signerInfo", v)
  BY <1>1, <1>6 DEF ObeysOtherRules
<1> QED
  BY <1>5, <1>7, <1>8 DEF Typed, HasType

-----------------------------------------------------------------------------
(* The values that are written, held and copied.                           *)

(* A value that the encoders write: it has its type, and a message carries *)
(* no revocation lists and nothing but certificates.                       *)
Writable(k, v) == HasType(k, v) /\ (k = "signedData" => SignedDataEncodable(v))

(* A document that was written here, and was not altered since, is the     *)
(* encoding of a value that obeys the rules of its decoder or does not.    *)
MeantIsWritten ==
  /\ wire = None => meant = None
  /\ meant # None /\ damage = <<>> =>
       /\ wire = Bytes(kind, meant.value)
       /\ Writable(kind, meant.value)
       /\ meant.readable <=> Obeys(kind, meant.value)

(* Whatever is held can be written, and breaks no rules but those that a   *)
(* change can break.                                                       *)
HeldIsTyped ==
  Holds({"plain", "captured", "mutable"}) /\ kind # "certList" => Typed(kind, held.value)

(* A copy is its original, read from the bytes its original is written as. *)
CopyIsRead ==
  kind = "certificate" /\ held # None /\ copied # None =>
    /\ Same(kind, held.value, copied)
    /\ held.value.rawData = [form |-> Bytes(kind, copied).form, elements |-> EncodeTbs(copied.tbs)]
    /\ ~held.changed => copied.tbs = DecodeTbs(copied.rawData.elements)

(* A certificate around the bytes of a TBSCertificate.                     *)
Around(form, body, c, signature) ==
  [form     |-> form,
   elements |-> << <<"SEQUENCE", body>>, <<"SEQUENCE", Opaque("Algorithm", c.signatureAlgorithm)>>,
                   <<"BITS", signature>> >>]

(* What an issuer signed of a certificate that was written here is the     *)
(* encoding of its value, and its signature algorithm never changes.       *)
IssuedFor(c) ==
  /\ IsCertificate(c) /\ TbsObeys(c.tbs)
  /\ issued.tbs = [form |-> Bytes("certificate", c).form, elements |-> EncodeTbs(c.tbs)]
  /\ \E form, body, signature :
       wire = Around(form, body, c, signature) /\ IsVec(body) /\ Required(signature)
  /\ held # None => held.value.signatureAlgorithm = c.signatureAlgorithm
  /\ held # None /\ copied # None => copied.signatureAlgorithm = c.signatureAlgorithm

(* A certificate that the library issued is one it wrote.                  *)
IssuedIsWritten ==
  kind = "certificate" /\ issued # None /\ issued.byLibrary => \E c : IssuedFor(c)

(* The inductive invariant of the values: what was meant is what was       *)
(* written, what is held is of its type and obeys what its decoder         *)
(* checks, a copy was read from what it was made of, and what the          *)
(* library issued it wrote. DocumentsInv says what was not changed is      *)
(* what its bytes decode to; the properties below also need that what      *)
(* was changed can be written and read.                                    *)
ValuesInv ==
  /\ kind \in DOMAIN Written
  /\ MeantIsWritten
  /\ HeldIsTyped
  /\ CopyIsRead
  /\ IssuedIsWritten

(* Nothing is held at first.                                               *)
LEMMA InitValues == Init => ValuesInv
BY DEF Init, ValuesInv, MeantIsWritten, HeldIsTyped, CopyIsRead, IssuedIsWritten, Holds

(* The kind of document is one of those that are modelled.                 *)
LEMMA KindIsKnown ==
  ASSUME ValuesInv
  PROVE  kind \in Kinds
BY DocumentsAssumption DEF ValuesInv

(* A document with its elements is a value.                                *)
LEMMA RecordIsThere ==
  ASSUME Atoms, NEW f
  PROVE  /\ \A a, b : Required([form |-> a, elements |-> b])
         /\ \A a : Required([f EXCEPT !.elements = a])
<1>1. ASSUME NEW a, NEW b PROVE Required([form |-> a, elements |-> b])
  <2>1. IsFunction([form |-> a, elements |-> b])
    BY DEF IsFunction
  <2> QED
    BY <2>1 DEF Atoms
<1>2. ASSUME NEW a PROVE Required([f EXCEPT !.elements = a])
  <2>1. IsFunction([f EXCEPT !.elements = a])
    BY DEF IsFunction
  <2> QED
    BY <2>1 DEF Atoms
<1> QED
  BY <1>1, <1>2

(* While nothing is held, the changes are to the document only.            *)
LEMMA NothingHeld ==
  ASSUME ValuesInv, held = None, UNCHANGED <<kind, held>>
  PROVE  kind' \in DOMAIN Written /\ HeldIsTyped' /\ CopyIsRead'
BY DEF ValuesInv, HeldIsTyped, CopyIsRead, Holds

(* Writing a value, or receiving what others wrote.                        *)
LEMMA WriteKeepsValues ==
  ASSUME Atoms, ValuesInv, Write \/ Receive
  PROVE  ValuesInv'
<1>1. wire = None /\ UNCHANGED <<kind, damage, issued, held, copied>>
  BY DEF Write, Receive
<1>2. ~(kind = "certificate" /\ issued # None /\ issued.byLibrary)
  <2> SUFFICES ASSUME kind = "certificate", issued # None, issued.byLibrary PROVE FALSE
    OBVIOUS
  <2>1. PICK form, body, c, signature : wire = Around(form, body, c, signature)
    BY DEF ValuesInv, IssuedIsWritten, IssuedFor
  <2> QED
    BY <1>1, <2>1, RecordIsThere DEF Around, Required
<1>3. HeldIsTyped' /\ CopyIsRead' /\ kind' \in DOMAIN Written
  BY <1>1 DEF ValuesInv, HeldIsTyped, CopyIsRead, Holds
<1>4. MeantIsWritten'
  <2>1. CASE Write
    <3>1. PICK v \in Written[kind] \cup Refused[kind] :
            /\ Encodable(kind, "ber", v)
            /\ wire' = Bytes(kind, v)
            /\ meant' = [value |-> v, readable |-> v \in Written[kind]]
      BY <2>1 DEF Write
    <3>2. HasType(kind, v) /\ (v \in Written[kind] <=> Obeys(kind, v))
      BY DocumentsAssumption DEF ValuesInv
    <3>3. wire' # None
      BY <3>1, RecordIsThere DEF Bytes, Required
    <3> QED
      BY <1>1, <3>1, <3>2, <3>3 DEF MeantIsWritten, Writable, Encodable
  <2>2. CASE Receive
    BY <1>1, <2>2 DEF ValuesInv, MeantIsWritten, Receive
  <2> QED
    BY <2>1, <2>2
<1> QED
  BY <1>1, <1>2, <1>3, <1>4 DEF ValuesInv, IssuedIsWritten

----------------------------------------------------------------------------
(* Alterations. *)

(* So is every sequence.                                                   *)
LEMMA SequenceIsVec ==
  ASSUME NEW S, NEW s \in Seq(S)
  PROVE  IsVec(s)
<1>1. Len(s) \in Nat /\ DOMAIN s = 1..Len(s) /\ s \in [1..Len(s) -> S]
  OBVIOUS
<1>2. IsFunction(s)
  BY <1>1 DEF IsFunction
<1> QED
  BY <1>1, <1>2, SeqIsVec

(* Elements that are lost, repeated or moved are still a list of           *)
(* elements.                                                               *)
LEMMA AlteredIsVec ==
  ASSUME NEW s, IsVec(s), NEW i \in DOMAIN s, NEW e
  PROVE  /\ IsVec(RemoveAt(s, i))
         /\ IsVec(InsertAt(s, i, e))
         /\ IsVec([s EXCEPT ![i] = s[i + 1], ![i + 1] = s[i]])
<1> DEFINE n == Len(s)
           S == {s[j] : j \in DOMAIN s} \cup {e}
<1>1. n \in Nat /\ DOMAIN s = 1..n /\ s \in Seq({s[j] : j \in DOMAIN s})
  BY VecIsSeq
<1>2. s \in Seq(S)
  BY <1>1
<1> HIDE DEF S
<1>3. e \in S
  BY DEF S
<1>4. i \in 1..n
  BY <1>1
<1>5. SubSeq(s, 1, i - 1) \in Seq(S) /\ SubSeq(s, i + 1, n) \in Seq(S) /\ SubSeq(s, i, n) \in Seq(S)
  BY <1>1, <1>2, <1>4
<1>6. IsVec(RemoveAt(s, i))
  <2>1. RemoveAt(s, i) \in Seq(S)
    BY <1>5 DEF RemoveAt
  <2> QED
    BY <2>1, SequenceIsVec
<1>7. IsVec(InsertAt(s, i, e))
  <2>1. InsertAt(s, i, e) \in Seq(S)
    BY <1>3, <1>5 DEF InsertAt
  <2> QED
    BY <2>1, SequenceIsVec
<1>8. IsVec([s EXCEPT ![i] = s[i + 1], ![i + 1] = s[i]])
  <2> DEFINE t == [s EXCEPT ![i] = s[i + 1], ![i + 1] = s[i]]
  <2>1. IsFunction(t) /\ DOMAIN t = 1..n
    BY <1>1 DEF IsFunction
  <2> HIDE DEF t
  <2>2. IsVec(t)
    BY <1>1, <2>1, SeqIsVec
  <2> QED
    BY <2>2 DEF t
<1> QED
  BY <1>6, <1>7, <1>8

(* An element is altered on the way.                                       *)
LEMMA AlterKeepsValues ==
  ASSUME Atoms, DocumentsInv, ValuesInv, Alter
  PROVE  ValuesInv'
<1>1. wire # None /\ held = None /\ damage = <<>>
  BY DEF Alter
<1> DEFINE old == Body(kind, wire.elements)
<1>8. PICK new : \E what \in Damage, i \in DOMAIN old :
        /\ Altered(what, new)
        /\ \/ new = RemoveAt(old, i) \/ \E e : new = InsertAt(old, i, e)
           \/ new = [old EXCEPT ![i] = old[i + 1], ![i + 1] = old[i]]
  <2> HIDE DEF old
  <2>1. \E i \in DOMAIN old :
           \/ Altered("drop", RemoveAt(old, i))
           \/ Altered("repeat", InsertAt(old, i, old[i]))
           \/ \E e \in SpelledOut[kind] : Altered("spell", InsertAt(old, i, e))
           \/ Altered("swap", [old EXCEPT ![i] = old[i + 1], ![i + 1] = old[i]])
    BY DEF Alter, old
  <2> QED
    BY <2>1, Zenon DEF Damage
<1>2. PICK what \in Damage, i \in DOMAIN old :
        /\ Altered(what, new)
        /\ \/ new = RemoveAt(old, i) \/ \E e : new = InsertAt(old, i, e)
           \/ new = [old EXCEPT ![i] = old[i + 1], ![i + 1] = old[i]]
  <2> HIDE DEF old
  <2> QED
    BY <1>8
<1>3. /\ wire' = [wire EXCEPT !.elements = WithBody(kind, wire.elements, new)]
      /\ damage' = Append(damage, what)
      /\ UNCHANGED <<kind, meant, issued, held, copied>>
  BY <1>2 DEF Altered
<1>4. damage' # <<>>
  <2>1. damage' \in Seq(Damage) /\ Len(damage') = 1
    BY <1>1, <1>3
  <2> QED
    BY <2>1
<1>5. wire' # None
  BY <1>3, RecordIsThere DEF Required
<1>6. IssuedIsWritten'
  <2> SUFFICES ASSUME kind = "certificate", issued # None, issued.byLibrary
               PROVE  \E c : IssuedFor(c)'
    BY <1>3 DEF IssuedIsWritten
  <2>1. PICK c : IssuedFor(c)
    BY DEF ValuesInv, IssuedIsWritten
  <2>2. PICK form, body, signature : wire = Around(form, body, c, signature) /\ IsVec(body) /\ Required(signature)
    BY <2>1 DEF IssuedFor
  <2>3. old = body
    BY <2>2 DEF Body, Around
  <2>4. IsVec(new)
    <3> HIDE DEF old
    <3>1. IsVec(old) /\ i \in DOMAIN old
      BY <1>2, <2>2, <2>3
    <3>2. /\ IsVec(RemoveAt(old, i)) /\ IsVec([old EXCEPT ![i] = old[i + 1], ![i + 1] = old[i]])
          /\ \A e : IsVec(InsertAt(old, i, e))
      BY <3>1, AlteredIsVec
    <3> QED
      BY <1>2, <3>2, Zenon
  <2>5. wire' = Around(form, new, c, signature)
    <3> DEFINE es == wire.elements
               algorithm == <<"SEQUENCE", Opaque("Algorithm", c.signatureAlgorithm)>>
    <3>1. es = << <<"SEQUENCE", body>>, algorithm, <<"BITS", signature>> >>
      BY <2>2 DEF Around
    <3>2. WithBody(kind, es, new) = [es EXCEPT ![1] = <<"SEQUENCE", new>>]
      BY DEF WithBody
    <3>3. wire' = [wire EXCEPT !.elements = WithBody(kind, es, new)]
      BY <1>3
    <3>4. wire = [form |-> form, elements |-> es]
      BY <2>2, <3>1 DEF Around
    <3> HIDE DEF es, algorithm
    <3>5. [es EXCEPT ![1] = <<"SEQUENCE", new>>] = << <<"SEQUENCE", new>>, algorithm, <<"BITS", signature>> >>
      BY <3>1
    <3>6. wire' = [form |-> form, elements |-> << <<"SEQUENCE", new>>, algorithm, <<"BITS", signature>> >>]
      BY <3>2, <3>3, <3>4, <3>5
    <3> QED
      BY <3>6 DEF Around, algorithm
  <2>6. IssuedFor(c)'
    BY <1>1, <1>3, <2>1, <2>2, <2>4, <2>5 DEF IssuedFor
  <2> QED
    BY <2>6
<1> QED
  BY <1>1, <1>3, <1>4, <1>5, <1>6, NothingHeld DEF ValuesInv, MeantIsWritten

(* What an encoder writes is a list of elements.                           *)
LEMMA EncodedIsVec ==
  ASSUME NEW rows, Len(rows) \in Nat
  PROVE  IsVec(Present(rows))
<1> DEFINE n == Len(rows)
<1>1. PICK w : WrittenBy(w, n, rows, Present(rows))
  BY PresentSteps
<1>2. Present(rows) \in Seq({rows[j] : j \in 1..n})
  BY <1>1 DEF WrittenBy
<1> QED
  BY <1>2, SequenceIsVec

(* A default that is left out makes no difference to what is written.      *)
LEMMA NormalIsWrittenAlike ==
  ASSUME Atoms, NEW t, IsTbs(t)
  PROVE  EncodeTbs(NormalTbs(t)) = EncodeTbs(t)
<1> DEFINE u == NormalTbs(t)
           xs == t.extensions
           ys == u.extensions
<1>1. /\ u.serialNumber = t.serialNumber /\ u.signature = t.signature
      /\ u.issuer = t.issuer /\ u.validity = t.validity /\ u.subject = t.subject
      /\ u.subjectPublicKeyInfo = t.subjectPublicKeyInfo
      /\ u.issuerUniqueId = t.issuerUniqueId /\ u.subjectUniqueId = t.subjectUniqueId
      /\ u.version = NormalVersion(t.version) /\ ys = NormalExtensions(xs)
  BY DEF IsTbs, NormalTbs
<1>2. (IF u.version \in {None, V1} THEN None ELSE << <<"INTEGER", u.version>> >>) =
      (IF t.version \in {None, V1} THEN None ELSE << <<"INTEGER", t.version>> >>)
  BY <1>1 DEF NormalVersion
<1>3. EncodeExtensions(ys) = EncodeExtensions(xs)
  <2> HIDE DEF u
  <2>1. CASE xs = None
    BY <1>1, <2>1 DEF NormalExtensions
  <2>2. CASE xs # None
    <3>1. IsFunction(xs) /\ \A i \in DOMAIN xs : IsExtension(xs[i])
      BY <2>2 DEF IsTbs, IsExtensions, IsVec
    <3>2. ys = [i \in DOMAIN xs |-> [xs[i] EXCEPT !.critical = Flag(@)]]
      BY <1>1, <2>2 DEF NormalExtensions
    <3> HIDE DEF xs, ys
    <3>3. \A i \in DOMAIN xs : ys[i].id = xs[i].id /\ ys[i].critical = Flag(xs[i].critical) /\ ys[i].value = xs[i].value
      BY <3>1, <3>2 DEF IsExtension
    <3>4. \A i \in DOMAIN xs : EncodeExtension(ys[i]) = EncodeExtension(xs[i])
      <4> SUFFICES ASSUME NEW i \in DOMAIN xs PROVE EncodeExtension(ys[i]) = EncodeExtension(xs[i])
        OBVIOUS
      <4>1. (IF ys[i].critical = TRUE THEN TRUE ELSE None) = (IF xs[i].critical = TRUE THEN TRUE ELSE None)
        BY <3>3 DEF Flag
      <4> QED
        BY <3>3, <4>1 DEF EncodeExtension
    <3>5. IsFunction(ys) /\ DOMAIN ys = DOMAIN xs
      BY <3>2 DEF IsFunction
    <3>6. ys # None /\ xs # None
      BY <3>1, <3>5 DEF Atoms, Required
    <3> QED
      BY <3>4, <3>5, <3>6 DEF EncodeExtensions
  <2> QED
    BY <2>1, <2>2
<1> HIDE DEF u
<1> QED
  BY <1>1, <1>2, <1>3 DEF EncodeTbs, u

(* The signature algorithm of a certificate is read whatever the bytes     *)
(* before it are.                                                          *)
LEMMA AlgorithmIsRead ==
  ASSUME Atoms, NEW form, NEW body, IsVec(body), NEW c, NEW signature, Required(signature),
         NEW d, d = Around(form, body, c, signature),
         NEW v, v = DecodeCertificate(d.form, d.elements), v # Malformed
  PROVE  v.signatureAlgorithm = c.signatureAlgorithm
<1> DEFINE b == Opaque("Algorithm", c.signatureAlgorithm)
           e == << <<"SEQUENCE", body>>, <<"SEQUENCE", b>>, <<"BITS", signature>> >>
           fields == <<body, b, signature>>
<1>1. Required(b) /\ Within("Algorithm", b) = c.signatureAlgorithm
  BY OpaqueReads
<1>2. Required(body)
  BY DEF Atoms, IsVec
<1>3. Required(fields)
  <2>1. IsFunction(fields)
    BY DEF IsFunction
  <2> HIDE DEF fields
  <2> QED
    BY <2>1 DEF Atoms
<1> HIDE DEF b
<1>4. Fields(<<One("SEQUENCE"), One("SEQUENCE"), One("BITS")>>, e) = fields
  BY <1>1, <1>2, SignedRows
<1>5. e = d.elements
  BY DEF Around, b
<1> HIDE DEF e
<1>6. fields[2] = b
  OBVIOUS
<1> HIDE DEF fields
<1>7. v = [tbs |-> DecodeTbs(fields[1]), signatureAlgorithm |-> Within("Algorithm", fields[2]),
           signature |-> fields[3], rawData |-> [form |-> d.form, elements |-> fields[1]]]
  BY <1>3, <1>4, <1>5 DEF DecodeCertificate, Decoded, Made, Sound, Required
<1>8. v.signatureAlgorithm = c.signatureAlgorithm
  BY <1>1, <1>6, <1>7
<1> QED
  BY <1>5, <1>8

(* Signing a certificate.                                                  *)
LEMMA IssueKeepsValues ==
  ASSUME Atoms, ValuesInv, Issue
  PROVE  ValuesInv'
<1>1. /\ kind = "certificate" /\ wire # None /\ held = None /\ Decode(kind, wire) # Malformed
      /\ issued' = [tbs |-> [form |-> wire.form, elements |-> wire.elements[1][2]],
                    byLibrary |-> meant # None /\ damage = <<>>]
      /\ meant' = (IF damage = <<>> THEN meant ELSE None)
      /\ UNCHANGED <<kind, wire, held, copied>>
  BY DEF Issue
<1>2. MeantIsWritten'
  BY <1>1 DEF ValuesInv, MeantIsWritten
<1>3. IssuedIsWritten'
  <2> SUFFICES ASSUME meant # None, damage = <<>>
               PROVE  \E c : IssuedFor(c)'
    BY <1>1 DEF IssuedIsWritten
  <2>1. PICK c : wire = Bytes(kind, c) /\ HasType(kind, c)
    BY DEF ValuesInv, MeantIsWritten, Writable
  <2>2. wire.elements = Encode(kind, c)
    BY <2>1 DEF Bytes
  <2>3. Obeys(kind, c)
    BY <1>1, <2>1, <2>2, WrittenIsRead DEF Kinds
  <2>4. IsCertificate(c) /\ TbsObeys(c.tbs)
    BY <1>1, <2>1, <2>3 DEF HasType, Obeys
  <2>5. wire = Around(wire.form, EncodeTbs(c.tbs), c, c.signature)
    BY <1>1, <2>1 DEF Around, Bytes, Encode, EncodeCertificate
  <2>6. wire.form = Bytes("certificate", c).form /\ wire.elements[1][2] = EncodeTbs(c.tbs)
    BY <1>1, <2>1, <2>5 DEF Around
  <2>7. issued'.tbs = [form |-> Bytes("certificate", c).form, elements |-> EncodeTbs(c.tbs)]
    BY <1>1, <2>6
  <2>8. IsVec(EncodeTbs(c.tbs)) /\ Required(c.signature)
    BY <2>4, EncodedIsVec DEF EncodeTbs, IsCertificate
  <2>9. IssuedFor(c)'
    <3>1. \E form, body, signature : wire = Around(form, body, c, signature) /\ IsVec(body) /\ Required(signature)
      BY <2>5, <2>8
    <3> QED
      BY <1>1, <2>4, <2>7, <3>1 DEF IssuedFor
  <2> QED
    BY <2>9
<1> QED
  BY <1>1, <1>2, <1>3, NothingHeld DEF ValuesInv

(* Reading a document.                                                     *)
LEMMA ParseKeepsValues ==
  ASSUME Atoms, ValuesInv, Parse
  PROVE  ValuesInv'
<1>1. PICK mode \in {"der", "ber"}, type \in Types :
        /\ Read(kind, mode, wire) # Malformed
        /\ held' = [type |-> type, value |-> Read(kind, mode, wire), original |-> wire, changed |-> FALSE]
  BY DEF Parse
<1>2. /\ copied' = None
      /\ UNCHANGED <<kind, wire, meant, damage, issued>>
  BY DEF Parse
<1> DEFINE v == Decode(kind, wire)
<1>3. held'.value = v /\ v # Malformed /\ held'.changed = FALSE
  BY <1>1, ReadDecodes
<1>4. HeldIsTyped'
  BY <1>2, <1>3, KindIsKnown, ReadsTyped DEF HeldIsTyped
<1>5. IssuedIsWritten'
  <2> SUFFICES ASSUME kind = "certificate", issued # None, issued.byLibrary
               PROVE  \E c : IssuedFor(c)'
    BY <1>2 DEF IssuedIsWritten
  <2>1. PICK c : IssuedFor(c)
    BY DEF ValuesInv, IssuedIsWritten
  <2>2. PICK form, body, signature : wire = Around(form, body, c, signature) /\ IsVec(body) /\ Required(signature)
    BY <2>1 DEF IssuedFor
  <2>3. v = DecodeCertificate(wire.form, wire.elements)
    BY DEF Decode
  <2> HIDE DEF v
  <2>4. v.signatureAlgorithm = c.signatureAlgorithm
    BY <1>3, <2>2, <2>3, AlgorithmIsRead
  <2>5. IssuedFor(c)'
    BY <1>2, <1>3, <2>1, <2>2, <2>4 DEF IssuedFor
  <2> QED
    BY <2>5
<1> QED
  BY <1>2, <1>4, <1>5 DEF ValuesInv, MeantIsWritten, CopyIsRead

(* A change of a value that is held, and none of its signature algorithm.  *)
LEMMA EditedKeepsValues ==
  ASSUME DocumentsInv, ValuesInv, NEW what, NEW v, Holds({"plain", "mutable"}), Edited(what, v),
         kind # "certList" => Typed(kind, v),
         kind = "certificate" => v.signatureAlgorithm = held.value.signatureAlgorithm
  PROVE  ValuesInv'
<1>1. /\ held' = [held EXCEPT !.value = v, !.changed = TRUE]
      /\ copied' = None
      /\ UNCHANGED <<kind, wire, meant, damage, issued>>
  BY DEF Edited
<1>2. held # None /\ held'.value = v /\ held'.type = held.type
  BY <1>1 DEF DocumentsInv, HeldShape, Holds
<1>3. IssuedIsWritten'
  <2> SUFFICES ASSUME kind = "certificate", issued # None, issued.byLibrary
               PROVE  \E c : IssuedFor(c)'
    BY <1>1 DEF IssuedIsWritten
  <2>1. PICK c : IssuedFor(c)
    BY DEF ValuesInv, IssuedIsWritten
  <2>2. IssuedFor(c)'
    BY <1>1, <1>2, <2>1 DEF IssuedFor
  <2> QED
    BY <2>2
<1> QED
  BY <1>1, <1>2, <1>3 DEF ValuesInv, MeantIsWritten, HeldIsTyped, CopyIsRead

(* Changing what is held.                                                  *)
LEMMA EditKeepsValues ==
  ASSUME Atoms, DocumentsInv, ValuesInv, EditSubject \/ EditCritical \/ EditSigned
  PROVE  ValuesInv'
<1>1. CASE EditSubject
  <2>1. kind = "certificate" /\ Holds({"plain", "mutable"})
    BY <1>1 DEF EditSubject, CanEdit
  <2>2. Typed("certificate", held.value)
    BY <2>1 DEF ValuesInv, HeldIsTyped, Holds
  <2>3. PICK s \in NewText : \E r \in Renamings(held.value.tbs.subject, s) :
          Edited(<<r.typ, s>>, [held.value EXCEPT !.tbs.subject = r.name])
    BY <1>1 DEF EditSubject
  <2>4. PICK r \in Renamings(held.value.tbs.subject, s) :
          Edited(<<r.typ, s>>, [held.value EXCEPT !.tbs.subject = r.name])
    BY <2>3
  <2>5. IsName(held.value.tbs.subject) /\ IsCertificate(held.value)
    BY <2>2 DEF Typed, HasType, IsCertificate, IsTbs
  <2>6. IsName(r.name)
    BY <2>5, RenamedIsName
  <2> DEFINE v == [held.value EXCEPT !.tbs.subject = r.name]
  <2>7. Typed("certificate", v)
    BY <2>2, <2>6, RenamedIsTyped
  <2>8. v.signatureAlgorithm = held.value.signatureAlgorithm
    BY <2>5 DEF IsCertificate
  <2>9. Edited(<<r.typ, s>>, v)
    BY <2>4
  <2> HIDE DEF v
  <2> QED
    BY <2>1, <2>7, <2>8, <2>9, EditedKeepsValues
<1>2. CASE EditCritical
  <2>1. kind = "certificate" /\ Holds({"plain", "mutable"}) /\ held.value.tbs.extensions # None
    BY <1>2 DEF EditCritical, CanEdit
  <2>2. Typed("certificate", held.value)
    BY <2>1 DEF ValuesInv, HeldIsTyped, Holds
  <2>3. PICK i \in DOMAIN held.value.tbs.extensions, critical \in {TRUE, FALSE, None} :
          Edited(<<"critical">>, [held.value EXCEPT !.tbs.extensions[i].critical = critical])
    BY <1>2 DEF EditCritical
  <2> DEFINE v == [held.value EXCEPT !.tbs.extensions[i].critical = critical]
  <2>4. Typed("certificate", v)
    BY <2>1, <2>2, CriticalIsTyped
  <2>5. v.signatureAlgorithm = held.value.signatureAlgorithm
    BY <2>2 DEF Typed, HasType, IsCertificate
  <2>6. Edited(<<"critical">>, v)
    BY <2>3
  <2> HIDE DEF v
  <2> QED
    BY <2>1, <2>4, <2>5, <2>6, EditedKeepsValues
<1>3. CASE EditSigned
  <2>1. kind = "signerInfo" /\ Holds({"plain", "mutable"}) /\ held.value.signedAttributes # None
    BY <1>3 DEF EditSigned, CanEdit
  <2>2. Typed("signerInfo", held.value)
    BY <2>1 DEF ValuesInv, HeldIsTyped, Holds
  <2>3. PICK a \in NewAttributes :
          Edited(<<"signedAttributes">>, [held.value EXCEPT !.signedAttributes = Append(@, a)])
    BY <1>3 DEF EditSigned
  <2> DEFINE v == [held.value EXCEPT !.signedAttributes = Append(@, a)]
  <2>4. a # Malformed
    BY DocumentsAssumption
  <2>5. Typed("signerInfo", v)
    BY <2>1, <2>2, <2>4, AppendedIsTyped
  <2>6. Edited(<<"signedAttributes">>, v)
    BY <2>3
  <2> HIDE DEF v
  <2> QED
    BY <2>1, <2>5, <2>6, EditedKeepsValues
<1> QED
  BY <1>1, <1>2, <1>3

(* Writing what is held and reading it again.                              *)
LEMMA RewriteKeepsValues ==
  ASSUME Atoms, ValuesInv, Rewrite
  PROVE  ValuesInv'
<1>1. /\ Holds({"plain", "captured", "mutable"}) /\ Encodable(kind, "ber", held.value)
      /\ wire' = Bytes(kind, held.value)
      /\ meant' = [value |-> held.value, readable |-> KeepsRules(kind, held.value)]
      /\ damage' = <<>> /\ held' = None /\ copied' = None
      /\ UNCHANGED <<kind, issued>>
  BY DEF Rewrite
<1> DEFINE v == held.value
<1>2. kind # "certList" /\ Typed(kind, v)
  BY <1>1 DEF ValuesInv, HeldIsTyped, Encodable
<1>3. MeantIsWritten'
  <2>1. wire' # None
    BY <1>1, RecordIsThere DEF Bytes, Required
  <2>2. meant'.value = v /\ (meant'.readable <=> Obeys(kind, v))
    BY <1>1, <1>2, RulesSplit, KindIsKnown DEF Typed
  <2> QED
    BY <1>1, <1>2, <2>1, <2>2 DEF MeantIsWritten, Writable, Typed
<1>4. IssuedIsWritten'
  <2> SUFFICES ASSUME kind = "certificate", issued # None, issued.byLibrary
               PROVE  \E c : IssuedFor(c)'
    BY <1>1 DEF IssuedIsWritten
  <2>1. PICK c : IssuedFor(c)
    BY DEF ValuesInv, IssuedIsWritten
  <2>2. v.signatureAlgorithm = c.signatureAlgorithm
    BY <1>1, <2>1 DEF IssuedFor, Holds
  <2>3. IsVec(EncodeTbs(v.tbs)) /\ Required(v.signature)
    BY <1>2, EncodedIsVec DEF EncodeTbs, Typed, HasType, IsCertificate
  <2> HIDE DEF v
  <2>4. wire' = Around(Bytes(kind, v).form, EncodeTbs(v.tbs), c, v.signature)
    BY <1>1, <2>2 DEF Around, Bytes, Encode, EncodeCertificate, v
  <2>5. \E form, body, signature : wire' = Around(form, body, c, signature) /\ IsVec(body) /\ Required(signature)
    BY <2>3, <2>4
  <2>6. IssuedFor(c)'
    BY <1>1, <2>1, <2>5 DEF IssuedFor
  <2> QED
    BY <2>6
<1> QED
  BY <1>1, <1>3, <1>4 DEF ValuesInv, HeldIsTyped, CopyIsRead, Holds

(* Making a captured certificate of one that is held.                      *)
LEMMA CopyKeepsValues ==
  ASSUME Atoms, DocumentsInv, ValuesInv, NEW mode, CopyThrough(mode)
  PROVE  ValuesInv'
<1> DEFINE c == held.value
           d == Bytes(kind, c)
           v == Read(kind, mode, d)
<1>1. /\ kind = "certificate" /\ Holds({"plain", "captured", "mutable"}) /\ v # Malformed
      /\ held' = [type |-> "captured", value |-> v, original |-> d, changed |-> held.changed]
      /\ copied' = c
      /\ UNCHANGED <<kind, wire, meant, damage, issued>>
  BY DEF CopyThrough
<1>2. v = Decode(kind, d)
  BY <1>1, ReadDecodes
<1>3. Typed(kind, c)
  BY <1>1 DEF ValuesInv, HeldIsTyped
<1>4. d.elements = Encode(kind, c)
  BY DEF Bytes
<1>5. Same(kind, v, c) /\ KeepsRules(kind, c)
  BY <1>1, <1>2, <1>3, <1>4, TypedIsRead, KindIsKnown
<1>6. IsCertificate(c) /\ TbsObeys(c.tbs)
  BY <1>1, <1>3, <1>5, RulesSplit DEF Typed, HasType, Obeys, Kinds
<1>7. /\ v.signatureAlgorithm = c.signatureAlgorithm
      /\ v.rawData = [form |-> d.form, elements |-> EncodeTbs(c.tbs)]
  <2>1. v = DecodeCertificate(d.form, EncodeCertificate(c))
    BY <1>1, <1>2, <1>4 DEF Decode, Encode
  <2> HIDE DEF d, c, v
  <2> QED
    BY <1>6, <2>1, CertificateRoundTrip
<1>8. ~held.changed => c.tbs = DecodeTbs(c.rawData.elements)
  <2> SUFFICES ASSUME ~held.changed PROVE c.tbs = DecodeTbs(c.rawData.elements)
    OBVIOUS
  <2>1. c = DecodeCertificate(held.original.form, held.original.elements) /\ c # Malformed
    BY <1>1 DEF DocumentsInv, HeldWasRead, Decode
  <2> QED
    BY <2>1, CertificateKeepsItsBytes
<1>9. Typed(kind, v)
  BY <1>1, <1>2, KindIsKnown, ReadsTyped
<1> HIDE DEF c, d, v
<1>10. held'.value = v /\ held'.changed = held.changed
  BY <1>1
<1>11. CopyIsRead'
  BY <1>1, <1>5, <1>7, <1>8, <1>10 DEF CopyIsRead, d
<1>12. IssuedIsWritten'
  <2> SUFFICES ASSUME issued # None, issued.byLibrary
               PROVE  \E e : IssuedFor(e)'
    BY <1>1 DEF IssuedIsWritten
  <2>1. PICK e : IssuedFor(e)
    BY <1>1 DEF ValuesInv, IssuedIsWritten
  <2>2. c.signatureAlgorithm = e.signatureAlgorithm
    BY <1>1, <2>1 DEF IssuedFor, Holds, c
  <2>3. IssuedFor(e)'
    BY <1>1, <1>7, <1>10, <2>1, <2>2 DEF IssuedFor
  <2> QED
    BY <2>3
<1>13. HeldIsTyped'
  BY <1>1, <1>9, <1>10 DEF HeldIsTyped
<1> QED
  BY <1>1, <1>11, <1>12, <1>13 DEF ValuesInv, MeantIsWritten

(* Turning one type of certificate into another.                           *)
LEMMA TypeKeepsValues ==
  ASSUME DocumentsInv, ValuesInv, ToMutable \/ IntoCertificate
  PROVE  ValuesInv'
<1>1. /\ Holds({"captured", "mutable"})
      /\ \E type \in {"plain", "mutable"} : held' = [held EXCEPT !.type = type]
      /\ UNCHANGED <<kind, wire, meant, damage, issued, copied>>
  BY DEF ToMutable, IntoCertificate, Holds
<1>2. held # None /\ held'.value = held.value /\ held'.changed = held.changed
  BY <1>1 DEF DocumentsInv, HeldShape, Holds
<1>3. HeldIsTyped'
  BY <1>1, <1>2 DEF ValuesInv, HeldIsTyped, Holds
<1>4. CopyIsRead'
  BY <1>1, <1>2 DEF ValuesInv, CopyIsRead
<1>5. IssuedIsWritten'
  <2> SUFFICES ASSUME kind = "certificate", issued # None, issued.byLibrary
               PROVE  \E c : IssuedFor(c)'
    BY <1>1 DEF IssuedIsWritten
  <2>1. PICK c : IssuedFor(c)
    BY DEF ValuesInv, IssuedIsWritten
  <2>2. IssuedFor(c)'
    BY <1>1, <1>2, <2>1 DEF IssuedFor
  <2> QED
    BY <2>2
<1> QED
  BY <1>1, <1>3, <1>4, <1>5 DEF ValuesInv, MeantIsWritten

(* Loading and storing a key pair.                                         *)
LEMMA PairKeepsValues ==
  ASSUME DocumentsInv, ValuesInv, LoadPair \/ StorePair
  PROVE  ValuesInv'
<1>1. kind = "privateKey" /\ kind' = kind /\ (held' = None \/ held'.type = "keyPair")
  BY DEF LoadPair, StorePair, DocumentsInv, PairWasLoaded
<1>2. meant' = None \/ UNCHANGED <<wire, meant, damage>>
  BY DEF LoadPair, StorePair
<1> QED
  BY <1>1, <1>2 DEF ValuesInv, MeantIsWritten, HeldIsTyped, CopyIsRead, IssuedIsWritten, Holds

(* Every step keeps the invariant of the values.                           *)
LEMMA NextKeepsValues == Atoms /\ DocumentsInv /\ ValuesInv /\ [Next]_vars => ValuesInv'
<1> SUFFICES ASSUME Atoms, DocumentsInv, ValuesInv, [Next]_vars
             PROVE  ValuesInv'
  OBVIOUS
<1>1. CASE UNCHANGED vars
  BY <1>1 DEF vars, ValuesInv, MeantIsWritten, HeldIsTyped, CopyIsRead, IssuedIsWritten, IssuedFor, Holds
<1> QED
  BY <1>1, WriteKeepsValues, AlterKeepsValues, IssueKeepsValues, ParseKeepsValues, EditKeepsValues,
     RewriteKeepsValues, CopyKeepsValues, TypeKeepsValues, PairKeepsValues DEF Next, Copy, ThroughMessage

(* In every reachable state, a document that was written here and not      *)
(* altered is the encoding of the value it was written from, what is held  *)
(* can be written and read, and a copy is its original as it is written.   *)
THEOREM ValuesInvariant ==
  ASSUME Atoms
  PROVE  Spec => []ValuesInv
<1>1. ValuesInv /\ DocumentsInv /\ [Next]_vars => ValuesInv'
  BY NextKeepsValues
<1> QED
  BY <1>1, InitValues, DocumentsInvariant, PTL DEF Spec

(* Whatever fields a structure has, what is written is read as the same    *)
(* value; and what breaks a rule between fields is refused.                *)
THEOREM WrittenIsReadBack ==
  ASSUME Atoms
  PROVE  Spec => []ReadsAsWritten
<1>1. ValuesInv => ReadsAsWritten
  <2> SUFFICES ASSUME ValuesInv, meant # None, damage = <<>>
               PROVE  LET v == Decode(kind, wire)
                      IN  IF meant.readable THEN v # Malformed /\ Same(kind, v, meant.value) ELSE v = Malformed
    BY DEF ReadsAsWritten
  <2>1. Writable(kind, meant.value) /\ wire = Bytes(kind, meant.value) /\ (meant.readable <=> Obeys(kind, meant.value))
    BY DEF ValuesInv, MeantIsWritten
  <2>2. wire.elements = Encode(kind, meant.value)
    BY <2>1 DEF Bytes
  <2> QED
    BY <2>1, <2>2, KindIsKnown, WrittenIsRead DEF Writable
<1> QED
  BY <1>1, ValuesInvariant, PTL

(* What was read, or changed, and keeps the rules is written and read      *)
(* again as the same value.                                                *)
THEOREM RewritingEnds ==
  ASSUME Atoms
  PROVE  Spec => []RewriteIsStable
<1>1. ValuesInv => RewriteIsStable
  <2> SUFFICES ASSUME ValuesInv, Holds({"plain", "mutable"}), kind # "certList", KeepsRules(kind, held.value)
               PROVE  LET v == Decode(kind, Bytes(kind, held.value))
                      IN  v # Malformed /\ Same(kind, v, held.value)
    BY DEF RewriteIsStable
  <2>1. Typed(kind, held.value)
    BY DEF ValuesInv, HeldIsTyped, Holds
  <2> DEFINE d == Bytes(kind, held.value)
  <2>2. d.elements = Encode(kind, held.value)
    BY DEF Bytes
  <2> HIDE DEF d
  <2>3. Decode(kind, d) # Malformed /\ Same(kind, Decode(kind, d), held.value)
    BY <2>1, <2>2, KindIsKnown, TypedIsRead
  <2> QED
    BY <2>3 DEF d
<1> QED
  BY <1>1, ValuesInvariant, PTL

(* The kept bytes of a signer that was changed are those of the document   *)
(* it was read from, which has fewer attributes.                           *)
KeptFrom(s, before) ==
  /\ before # Malformed /\ before.signedAttributes # None
  /\ s.signedAttributes # None
  /\ s.signedAttributesData = before.signedAttributes
  /\ Len(s.signedAttributes) > Len(before.signedAttributes)

(* The inductive invariant of signers that are changed; only certificates  *)
(* are captured or mutable.                                                *)
KeptInv ==
  /\ Holds({"captured", "mutable"}) => kind = "certificate"
  /\ kind = "signerInfo" /\ Holds({"plain"}) /\ held.changed =>
       KeptFrom(held.value, Decode(kind, held.original))

(* One more attribute makes a longer list.                                 *)
LEMMA AppendIsLonger ==
  ASSUME NEW s, IsVec(s), NEW e
  PROVE  Len(s) \in Nat /\ Len(Append(s, e)) = Len(s) + 1
<1> DEFINE S == {s[i] : i \in DOMAIN s} \cup {e}
<1>1. Len(s) \in Nat /\ s \in Seq({s[i] : i \in DOMAIN s})
  BY VecIsSeq
<1>2. s \in Seq(S) /\ e \in S
  BY <1>1
<1> HIDE DEF S
<1> QED
  BY <1>1, <1>2

(* A change leaves the kept bytes as they were.                            *)
LEMMA EditKeepsBytes ==
  ASSUME Atoms, DocumentsInv, ValuesInv, KeptInv, EditSigned
  PROVE  KeptInv'
<1> DEFINE s == held.value
           before == Decode(kind, held.original)
<1>1. kind = "signerInfo" /\ Holds({"plain"}) /\ s.signedAttributes # None
  BY DEF EditSigned, CanEdit, KeptInv, Holds
<1>2. IsSignerInfo(s) /\ IsVec(s.signedAttributes)
  BY <1>1 DEF ValuesInv, HeldIsTyped, Typed, HasType, IsSignerInfo, IsOpaqueList, Holds
<1>3. PICK a \in NewAttributes : Edited(<<"signedAttributes">>, [s EXCEPT !.signedAttributes = Append(@, a)])
  BY DEF EditSigned
<1> DEFINE v == [s EXCEPT !.signedAttributes = Append(@, a)]
<1>4. v.signedAttributes = Append(s.signedAttributes, a) /\ v.signedAttributesData = s.signedAttributesData
  BY <1>2 DEF IsSignerInfo
<1>5. /\ held' = [held EXCEPT !.value = v, !.changed = TRUE]
      /\ kind' = kind
  BY <1>3 DEF Edited
<1> HIDE DEF v
<1>6. held'.value = v /\ held'.original = held.original /\ held'.type = held.type /\ held' # None
  <2>1. DOMAIN held = {"type", "value", "original", "changed"} /\ held.type = "plain"
    BY <1>1 DEF DocumentsInv, HeldShape, Holds
  <2>2. held'.value = v /\ held'.original = held.original /\ held'.type = "plain"
    BY <1>5, <2>1
  <2>3. IsFunction(held')
    BY <1>5 DEF IsFunction
  <2> QED
    BY <2>1, <2>2, <2>3 DEF Atoms, Required
<1>7. /\ before # Malformed /\ before.signedAttributes # None
      /\ s.signedAttributesData = before.signedAttributes
      /\ Len(s.signedAttributes) >= Len(before.signedAttributes)
      /\ Len(before.signedAttributes) \in Nat
  <2>1. CASE held.changed
    <3>1. KeptFrom(s, before)
      BY <1>1, <2>1 DEF KeptInv
    <3>2. kind \in Kinds /\ kind # "certList"
      BY <1>1, KindIsKnown
    <3>3. Typed(kind, before)
      <4> HIDE DEF before
      <4> QED
        BY <3>1, <3>2, ReadsTyped DEF KeptFrom, before
    <3>4. IsVec(before.signedAttributes)
      BY <1>1, <3>1, <3>3 DEF Typed, HasType, IsSignerInfo, IsOpaqueList, KeptFrom
    <3>5. Len(before.signedAttributes) \in Nat /\ Len(s.signedAttributes) \in Nat
      BY <1>2, <3>4, VecIsSeq
    <3> QED
      BY <3>1, <3>5 DEF KeptFrom
  <2>2. CASE ~held.changed
    <3>1. s # Malformed /\ s = before
      BY <1>1, <2>2 DEF DocumentsInv, HeldWasRead, Holds
    <3>2. s = DecodeSignerInfo(held.original.elements)
      BY <1>1, <3>1 DEF Decode
    <3>3. s.signedAttributesData = s.signedAttributes
      BY <3>1, <3>2, SignerIsCanonical
    <3>4. Len(s.signedAttributes) \in Nat
      BY <1>2, VecIsSeq
    <3> QED
      BY <1>1, <3>1, <3>3, <3>4
  <2> QED
    BY <2>1, <2>2
<1>8. Len(v.signedAttributes) = Len(s.signedAttributes) + 1 /\ Len(s.signedAttributes) \in Nat
  BY <1>2, <1>4, AppendIsLonger
<1>9. v.signedAttributes # None
  <2>1. IsFunction(v.signedAttributes)
    BY <1>2, <1>4, AppendIsVec DEF IsVec
  <2> QED
    BY <2>1 DEF Atoms, Required
<1>10. KeptFrom(v, before)
  BY <1>4, <1>7, <1>8, <1>9 DEF KeptFrom
<1> HIDE DEF s
<1> QED
  BY <1>1, <1>5, <1>6, <1>10 DEF KeptInv, Holds

(* Every step keeps the invariant of signers that are changed.             *)
LEMMA NextKeepsBytes == Atoms /\ DocumentsInv /\ ValuesInv /\ KeptInv /\ [Next]_vars => KeptInv'
<1> SUFFICES ASSUME Atoms, DocumentsInv, ValuesInv, KeptInv, [Next]_vars
             PROVE  KeptInv'
  OBVIOUS
<1>1. CASE UNCHANGED <<kind, held>>
  BY <1>1 DEF KeptInv, Holds
<1>2. CASE Parse
  <2>1. PICK mode \in {"der", "ber"}, type \in Types :
          held' = [type |-> type, value |-> Read(kind, mode, wire), original |-> wire, changed |-> FALSE]
    BY <1>2 DEF Parse
  <2>2. kind' = kind
    BY <1>2 DEF Parse
  <2> QED
    BY <2>1, <2>2 DEF KeptInv, Holds, Types
<1>3. CASE EditSubject \/ EditCritical
  <2>1. CanEdit("certificate") /\ \E what, v : Edited(what, v)
    BY <1>3, Zenon DEF EditSubject, EditCritical
  <2>2. kind' = kind /\ kind = "certificate"
    BY <2>1 DEF CanEdit, Edited
  <2> QED
    BY <2>2 DEF KeptInv
<1>4. CASE Rewrite \/ StorePair
  BY <1>4 DEF Rewrite, StorePair, KeptInv, Holds
<1>5. CASE ToMutable \/ IntoCertificate
  <2>1. kind' = kind /\ Holds({"captured", "mutable"})
    BY <1>5 DEF ToMutable, IntoCertificate, Holds
  <2> QED
    BY <2>1 DEF KeptInv
<1>6. CASE Copy \/ ThroughMessage
  BY <1>6 DEF Copy, ThroughMessage, CopyThrough, KeptInv
<1>7. CASE LoadPair
  <2>1. held'.type = "keyPair" /\ kind' = kind
    BY <1>7 DEF LoadPair
  <2> QED
    BY <2>1 DEF KeptInv, Holds
<1>8. CASE Write \/ Receive \/ Alter \/ Issue \/ UNCHANGED vars
  BY <1>1, <1>8 DEF Write, Receive, Alter, Altered, Issue, vars
<1> QED
  BY <1>2, <1>3, <1>4, <1>5, <1>6, <1>7, <1>8, EditKeepsBytes DEF Next

(* A signer that was changed has the kept bytes of the document it was     *)
(* read from, and more attributes, in every reachable state.               *)
THEOREM KeptInvariant ==
  ASSUME Atoms
  PROVE  Spec => []KeptInv
<1>1. Init => KeptInv
  BY DEF Init, KeptInv, Holds
<1>2. KeptInv /\ ValuesInv /\ DocumentsInv /\ [Next]_vars => KeptInv'
  BY NextKeepsBytes
<1> QED
  BY <1>1, <1>2, ValuesInvariant, DocumentsInvariant, PTL DEF Spec

(* A signature that was read never covers what was changed afterwards: the *)
(* digested bytes stay those of the document, and those of the changed     *)
(* attributes are others once they are written and read.                   *)
THEOREM ChangesNeedNewSignatures ==
  ASSUME Atoms
  PROVE  Spec => []ChangeNeedsNewSignature
<1>1. ValuesInv /\ KeptInv => ChangeNeedsNewSignature
  <2> SUFFICES ASSUME ValuesInv, KeptInv, kind = "signerInfo", Holds({"plain"}), held.changed
               PROVE  LET before == Decode(kind, held.original)
                          after == Decode(kind, Bytes(kind, held.value))
                      IN  /\ DigestedContent(held.value) = Sorted(before.signedAttributes)
                          /\ after # Malformed =>
                               /\ DigestedContent(after) = Sorted(held.value.signedAttributes)
                               /\ DigestedContent(after) # DigestedContent(held.value)
    BY DEF ChangeNeedsNewSignature
  <2> DEFINE s == held.value
             d == Bytes(kind, held.value)
             before == Decode(kind, held.original)
             after == Decode(kind, d)
  <2>1. KeptFrom(s, before) /\ before = DecodeSignerInfo(held.original.elements)
    BY DEF KeptInv, Decode
  <2>2. Typed(kind, s) /\ d.elements = Encode(kind, s)
    BY DEF ValuesInv, HeldIsTyped, Holds, Bytes
  <2>3. after = DecodeSignerInfo(d.elements)
    BY DEF Decode
  <2> HIDE DEF s, d, before
  <2>4. before.signedAttributes = Sorted(before.signedAttributes)
    BY <2>1, SignerIsCanonical DEF KeptFrom, Canonical
  <2>5. DigestedContent(s) = before.signedAttributes
    BY <2>1 DEF DigestedContent, KeptFrom
  <2>6. ASSUME after # Malformed
        PROVE  DigestedContent(after) = Sorted(s.signedAttributes) /\ DigestedContent(after) # DigestedContent(s)
    <3>1. Same(kind, after, s)
      BY <2>2, <2>6, KindIsKnown, TypedIsRead
    <3> HIDE DEF after
    <3>2. IsSignerInfo(after) /\ IsSignerInfo(s)
      BY <2>2, <2>3, <2>6, SignerInfoShape DEF Typed, HasType
    <3>3. after.signedAttributes = s.signedAttributes
      <4>1. [after EXCEPT !.signedAttributesData = None] = [s EXCEPT !.signedAttributesData = None]
        BY <3>1 DEF Same, Normal
      <4>2. /\ [after EXCEPT !.signedAttributesData = None].signedAttributes = after.signedAttributes
            /\ [s EXCEPT !.signedAttributesData = None].signedAttributes = s.signedAttributes
        BY <3>2 DEF IsSignerInfo
      <4> QED
        BY <4>1, <4>2
    <3>4. /\ after.signedAttributesData = after.signedAttributes
          /\ after.signedAttributes # None
          /\ after.signedAttributes = Sorted(after.signedAttributes)
      BY <2>1, <2>3, <2>6, <3>3, SignerIsCanonical DEF KeptFrom, Canonical
    <3>5. DigestedContent(after) = s.signedAttributes /\ s.signedAttributes = Sorted(s.signedAttributes)
      BY <3>3, <3>4 DEF DigestedContent
    <3>6. s.signedAttributes # before.signedAttributes
      <4>1. Len(s.signedAttributes) \in Nat
        BY <2>1, <3>2, VecIsSeq DEF IsSignerInfo, IsOpaqueList, KeptFrom
      <4> QED
        BY <2>1, <4>1 DEF KeptFrom
    <3> QED
      BY <2>5, <3>5, <3>6
  <2> QED
    BY <2>4, <2>5, <2>6 DEF s, d, before
<1> QED
  BY <1>1, ValuesInvariant, KeptInvariant, PTL

(* A copy shows every change that was made before it was taken.            *)
THEOREM CopiesAreUpToDate ==
  ASSUME Atoms
  PROVE  Spec => []CopyShowsChanges
<1>1. ValuesInv => CopyShowsChanges
  BY DEF ValuesInv, CopyIsRead, CopyShowsChanges, Holds
<1> QED
  BY <1>1, ValuesInvariant, PTL

(* The bytes of a copy are those that the issuer of its original signed,   *)
(* though they were written anew: the defaults that its original does not  *)
(* show were not written in the first place.                               *)
THEOREM CopiesVerifyAlike ==
  ASSUME Atoms
  PROVE  Spec => []CopyKeepsSignature
<1>1. ValuesInv => CopyKeepsSignature
  <2> SUFFICES ASSUME ValuesInv, kind = "certificate", Holds({"captured"}), copied # None, ~held.changed,
                      issued # None, issued.byLibrary, copied.rawData = issued.tbs
               PROVE  held.value.rawData = issued.tbs
    BY DEF CopyKeepsSignature
  <2>1. PICK c : IssuedFor(c)
    BY DEF ValuesInv, IssuedIsWritten
  <2>2. /\ held.value.rawData = [form |-> Bytes(kind, copied).form, elements |-> EncodeTbs(copied.tbs)]
        /\ copied.tbs = DecodeTbs(copied.rawData.elements)
    BY DEF ValuesInv, CopyIsRead, Holds
  <2>3. /\ IsCertificate(c) /\ TbsObeys(c.tbs) /\ IsTbs(c.tbs)
        /\ issued.tbs = [form |-> Bytes("certificate", c).form, elements |-> EncodeTbs(c.tbs)]
        /\ copied.signatureAlgorithm = c.signatureAlgorithm
    BY <2>1 DEF IssuedFor, Holds, IsCertificate
  <2>4. copied.tbs = NormalTbs(c.tbs)
    <3>1. copied.tbs = DecodeTbs(EncodeTbs(c.tbs))
      BY <2>2, <2>3
    <3> QED
      BY <2>3, <3>1, TbsRoundTrip
  <2>5. EncodeTbs(copied.tbs) = EncodeTbs(c.tbs)
    BY <2>3, <2>4, NormalIsWrittenAlike
  <2>6. CapturedIn("certificate", copied) = CapturedIn("certificate", c)
    <3>1. copied.tbs.signature = c.tbs.signature /\ copied.tbs.subjectPublicKeyInfo = c.tbs.subjectPublicKeyInfo
      BY <2>3, <2>4 DEF NormalTbs, IsTbs
    <3> QED
      BY <2>3, <3>1 DEF CapturedIn
  <2>7. Bytes("certificate", copied).form = Bytes("certificate", c).form
    BY <2>6 DEF Bytes
  <2> QED
    BY <2>2, <2>3, <2>5, <2>7
<1> QED
  BY <1>1, ValuesInvariant, PTL

(* What is made of the fields differs as the fields do: names[i] is what   *)
(* the i-th one is called.                                                 *)
LEMMA OneFieldAppears ==
  ASSUME NEW n \in Nat, NEW rows, NEW f, NEW g, OneApart(n, rows, f, g),
         NEW v, NEW w, DOMAIN w = DOMAIN v,
         NEW names, \A i \in 1..n : names[i] \in DOMAIN v,
         \A x \in DOMAIN v : (\E i \in 1..n : names[i] = x) \/ v[x] = w[x],
         \A i \in 1..n : f[i] = g[i] => v[names[i]] = w[names[i]],
         \A i \in 1..n : rows[i].optional /\ f[i] = None => v[names[i]] = None,
         \A i \in 1..n : rows[i].optional /\ g[i] = None => w[names[i]] = None
  PROVE  AtMostOneAppears(v, w)
<1>1. PICK i \in 1..n : /\ rows[i].optional
                        /\ f[i] = None \/ g[i] = None
                        /\ \A j \in 1..n : j # i => f[j] = g[j]
  BY DEF OneApart
<1>2. \A x \in DOMAIN v \ {names[i]} : v[x] = w[x]
  BY <1>1
<1>3. v[names[i]] = None \/ w[names[i]] = None
  BY <1>1
<1> QED
  BY <1>2, <1>3 DEF AtMostOneAppears

(* A request for a time stamp that was altered.                            *)
LEMMA TimeStampReqAltered ==
  ASSUME NEW what, NEW old, NEW new, AlteredTo(what, old, new),
         DecodeTimeStampReq(old) # Malformed, DecodeTimeStampReq(new) # Malformed
  PROVE  what # "swap" /\ AtMostOneAppears(Normal("timeStampReq", DecodeTimeStampReq(new)),
                                           Normal("timeStampReq", DecodeTimeStampReq(old)))
<1> DEFINE n == 6
           rows == <<One("INTEGER"), One("SEQUENCE"), Opt("OID"), Opt("INTEGER"), Opt("BOOLEAN"),
                    Opt("0")>>
           names == <<"version", "messageImprint", "reqPolicy", "nonce", "certReq", "extensions">>
           Value(f) == [version        |-> OneOf({1}, f[1]),
                        messageImprint |-> DecodeImprint(f[2]),
                        reqPolicy      |-> f[3],
                        nonce          |-> f[4],
                        certReq        |-> Flag(f[5]),
                        extensions     |-> NormalExtensions(DecodeExtensions(f[6]))]
<1>1. n \in Nat /\ Len(rows) = n /\ DOMAIN rows = 1..n
  OBVIOUS
<1>2. ToldApart(n, rows)
  BY RowIs DEF ToldApart, Unambiguous, UnambiguousBack
<1>3. ASSUME NEW e, DecodeTimeStampReq(e) # Malformed
      PROVE  Fields(rows, e) # Malformed /\ Normal("timeStampReq", DecodeTimeStampReq(e)) = Value(Fields(rows, e))
  <2> DEFINE f == Fields(rows, e)
             t == [version        |-> OneOf({1}, f[1]),
                   messageImprint |-> DecodeImprint(f[2]),
                   reqPolicy      |-> f[3],
                   nonce          |-> f[4],
                   certReq        |-> f[5],
                   extensions     |-> DecodeExtensions(f[6])]
  <2>1. f # Malformed /\ DecodeTimeStampReq(e) = t
    BY <1>3 DEF DecodeTimeStampReq, Decoded, Made, Sound
  <2>2. Normal("timeStampReq", t) = Value(f)
    <3> HIDE DEF f
    <3> QED
      BY DEF Normal
  <2> QED
    BY <2>1, <2>2
<1> DEFINE f == Fields(rows, new)
           g == Fields(rows, old)
<1>4. what # "swap" /\ OneApart(n, rows, f, g)
  <2> HIDE DEF n, rows
  <2> QED
    BY <1>1, <1>2, <1>3, AlterationIsOneField
<1>5. \A i \in 1..n : rows[i].optional <=> i \in {3, 4, 5, 6}
  BY RowIs
<1> HIDE DEF f, g
<1> DEFINE v == Value(f)
           w == Value(g)
<1>6. Flag(None) = None /\ NormalExtensions(DecodeExtensions(None)) = None
  BY DEF Flag, NormalExtensions, DecodeExtensions, Optional
<1>7. /\ DOMAIN w = DOMAIN v /\ \A i \in 1..n : names[i] \in DOMAIN v
      /\ \A x \in DOMAIN v : (\E i \in 1..n : names[i] = x) \/ v[x] = w[x]
  OBVIOUS
<1>8. \A i \in 1..n : f[i] = g[i] => v[names[i]] = w[names[i]]
  OBVIOUS
<1>9. /\ \A i \in 1..n : rows[i].optional /\ f[i] = None => v[names[i]] = None
      /\ \A i \in 1..n : rows[i].optional /\ g[i] = None => w[names[i]] = None
  BY <1>5, <1>6
<1>10. AtMostOneAppears(v, w)
  <2> HIDE DEF rows, names, n, v, w
  <2> QED
    BY <1>1, <1>4, <1>7, <1>8, <1>9, OneFieldAppears
<1> QED
  BY <1>3, <1>4, <1>10 DEF f, g

(* The content of a time stamp that was altered.                           *)
LEMMA TstInfoAltered ==
  ASSUME NEW what, NEW old, NEW new, AlteredTo(what, old, new),
         DecodeTstInfo(old) # Malformed, DecodeTstInfo(new) # Malformed
  PROVE  what # "swap" /\ AtMostOneAppears(Normal("tstInfo", DecodeTstInfo(new)),
                                           Normal("tstInfo", DecodeTstInfo(old)))
<1> DEFINE n == 10
           rows == <<One("INTEGER"), One("OID"), One("SEQUENCE"), One("INTEGER"), One("TIME"),
                    Opt("SEQUENCE"), Opt("BOOLEAN"), Opt("INTEGER"), Opt("0"), Opt("1")>>
           names == <<"version", "policy", "messageImprint", "serialNumber", "genTime", "accuracy",
                     "ordering", "nonce", "tsa", "extensions">>
           Value(f) == [version        |-> OneOf({1}, f[1]),
                        policy         |-> f[2],
                        messageImprint |-> DecodeImprint(f[3]),
                        serialNumber   |-> f[4],
                        genTime        |-> f[5],
                        accuracy       |-> DecodeAccuracy(f[6]),
                        ordering       |-> Flag(f[7]),
                        nonce          |-> f[8],
                        tsa            |-> DecodeTsa(f[9]),
                        extensions     |-> NormalExtensions(DecodeExtensions(f[10]))]
<1>1. n \in Nat /\ Len(rows) = n /\ DOMAIN rows = 1..n
  OBVIOUS
<1>2. ToldApart(n, rows)
  BY RowIs DEF ToldApart, Unambiguous, UnambiguousBack
<1>3. ASSUME NEW e, DecodeTstInfo(e) # Malformed
      PROVE  Fields(rows, e) # Malformed /\ Normal("tstInfo", DecodeTstInfo(e)) = Value(Fields(rows, e))
  <2> DEFINE f == Fields(rows, e)
             t == [version        |-> OneOf({1}, f[1]),
                   policy         |-> f[2],
                   messageImprint |-> DecodeImprint(f[3]),
                   serialNumber   |-> f[4],
                   genTime        |-> f[5],
                   accuracy       |-> DecodeAccuracy(f[6]),
                   ordering       |-> f[7],
                   nonce          |-> f[8],
                   tsa            |-> DecodeTsa(f[9]),
                   extensions     |-> DecodeExtensions(f[10])]
  <2>1. f # Malformed /\ DecodeTstInfo(e) = t
    BY <1>3 DEF DecodeTstInfo, Decoded, Made, Sound
  <2>2. Normal("tstInfo", t) = Value(f)
    <3> HIDE DEF f
    <3> QED
      BY DEF Normal
  <2> QED
    BY <2>1, <2>2
<1> DEFINE f == Fields(rows, new)
           g == Fields(rows, old)
<1>4. what # "swap" /\ OneApart(n, rows, f, g)
  <2> HIDE DEF n, rows
  <2> QED
    BY <1>1, <1>2, <1>3, AlterationIsOneField
<1>5. \A i \in 1..n : rows[i].optional <=> i \in {6, 7, 8, 9, 10}
  BY RowIs
<1> HIDE DEF f, g
<1> DEFINE v == Value(f)
           w == Value(g)
<1>6. /\ DecodeAccuracy(None) = None /\ Flag(None) = None /\ DecodeTsa(None) = None
      /\ NormalExtensions(DecodeExtensions(None)) = None
  BY DEF DecodeAccuracy, DecodeTsa, Flag, NormalExtensions, DecodeExtensions, Optional
<1>7. /\ DOMAIN w = DOMAIN v /\ \A i \in 1..n : names[i] \in DOMAIN v
      /\ \A x \in DOMAIN v : (\E i \in 1..n : names[i] = x) \/ v[x] = w[x]
  OBVIOUS
<1>8. \A i \in 1..n : f[i] = g[i] => v[names[i]] = w[names[i]]
  OBVIOUS
<1>9. /\ \A i \in 1..n : rows[i].optional /\ f[i] = None => v[names[i]] = None
      /\ \A i \in 1..n : rows[i].optional /\ g[i] = None => w[names[i]] = None
  BY <1>5, <1>6
<1>10. AtMostOneAppears(v, w)
  <2> HIDE DEF rows, names, n, v, w
  <2> QED
    BY <1>1, <1>4, <1>7, <1>8, <1>9, OneFieldAppears
<1> QED
  BY <1>3, <1>4, <1>10 DEF f, g

(* A TBSCertificate that was altered.                                      *)
LEMMA TbsAltered ==
  ASSUME NEW what, NEW old, NEW new, AlteredTo(what, old, new),
         DecodeTbs(old) # Malformed, DecodeTbs(new) # Malformed
  PROVE  what # "swap" /\ AtMostOneAppears(NormalTbs(DecodeTbs(new)),
                                           NormalTbs(DecodeTbs(old)))
<1> DEFINE n == 10
           rows == <<Opt("0"), One("INTEGER"), One("SEQUENCE"), One("SEQUENCE"), One("SEQUENCE"),
                    One("SEQUENCE"), One("SEQUENCE"), Opt("1"), Opt("2"), Opt("3")>>
           names == <<"version", "serialNumber", "signature", "issuer", "validity", "subject",
                     "subjectPublicKeyInfo", "issuerUniqueId", "subjectUniqueId", "extensions">>
           Value(f) == [version              |-> NormalVersion(DecodeVersion(f[1])),
                        serialNumber         |-> f[2],
                        signature            |-> Within("Algorithm", f[3]),
                        issuer               |-> DecodeName(f[4]),
                        validity             |-> DecodeValidity(f[5]),
                        subject              |-> DecodeName(f[6]),
                        subjectPublicKeyInfo |-> DecodeSpki(f[7]),
                        issuerUniqueId       |-> f[8],
                        subjectUniqueId      |-> f[9],
                        extensions           |-> NormalExtensions(DecodeExtensions(Inner("SEQUENCE", f[10])))]
<1>1. n \in Nat /\ Len(rows) = n /\ DOMAIN rows = 1..n
  OBVIOUS
<1>2. ToldApart(n, rows)
  BY RowIs DEF ToldApart, Unambiguous, UnambiguousBack
<1>3. ASSUME NEW e, DecodeTbs(e) # Malformed
      PROVE  Fields(rows, e) # Malformed /\ NormalTbs(DecodeTbs(e)) = Value(Fields(rows, e))
  <2> DEFINE f == Fields(rows, e)
             t == [version              |-> DecodeVersion(f[1]),
                   serialNumber         |-> f[2],
                   signature            |-> Within("Algorithm", f[3]),
                   issuer               |-> DecodeName(f[4]),
                   validity             |-> DecodeValidity(f[5]),
                   subject              |-> DecodeName(f[6]),
                   subjectPublicKeyInfo |-> DecodeSpki(f[7]),
                   issuerUniqueId       |-> f[8],
                   subjectUniqueId      |-> f[9],
                   extensions           |-> DecodeExtensions(Inner("SEQUENCE", f[10]))]
  <2>1. f # Malformed /\ DecodeTbs(e) = t
    BY <1>3 DEF DecodeTbs, TbsFields, Obeying, Decoded, Made, Sound
  <2>2. NormalTbs(t) = Value(f)
    <3> HIDE DEF f
    <3>1. NormalTbs(t) = [t EXCEPT !.version = NormalVersion(t.version), !.extensions = NormalExtensions(t.extensions)]
      BY DEF NormalTbs
    <3> QED
      BY <3>1
  <2> QED
    BY <2>1, <2>2
<1> DEFINE f == Fields(rows, new)
           g == Fields(rows, old)
<1>4. what # "swap" /\ OneApart(n, rows, f, g)
  <2> HIDE DEF n, rows
  <2> QED
    BY <1>1, <1>2, <1>3, AlterationIsOneField
<1>5. \A i \in 1..n : rows[i].optional <=> i \in {1, 8, 9, 10}
  BY RowIs
<1> HIDE DEF f, g
<1> DEFINE v == Value(f)
           w == Value(g)
<1>6. /\ NormalVersion(DecodeVersion(None)) = None
      /\ NormalExtensions(DecodeExtensions(Inner("SEQUENCE", None))) = None
  BY DEF NormalVersion, DecodeVersion, Inner, NormalExtensions, DecodeExtensions, Optional
<1>7. /\ DOMAIN w = DOMAIN v /\ \A i \in 1..n : names[i] \in DOMAIN v
      /\ \A x \in DOMAIN v : (\E i \in 1..n : names[i] = x) \/ v[x] = w[x]
  OBVIOUS
<1>8. \A i \in 1..n : f[i] = g[i] => v[names[i]] = w[names[i]]
  OBVIOUS
<1>9. /\ \A i \in 1..n : rows[i].optional /\ f[i] = None => v[names[i]] = None
      /\ \A i \in 1..n : rows[i].optional /\ g[i] = None => w[names[i]] = None
  BY <1>5, <1>6
<1>10. AtMostOneAppears(v, w)
  <2> HIDE DEF rows, names, n, v, w
  <2> QED
    BY <1>1, <1>4, <1>7, <1>8, <1>9, OneFieldAppears
<1> QED
  BY <1>3, <1>4, <1>10 DEF f, g

(* A private key that was altered.                                         *)
LEMMA OneAsymmetricKeyAltered ==
  ASSUME NEW what, NEW old, NEW new, AlteredTo(what, old, new),
         DecodeOneAsymmetricKey(old) # Malformed, DecodeOneAsymmetricKey(new) # Malformed
  PROVE  what # "swap" /\ AtMostOneAppears(DecodeOneAsymmetricKey(new),
                                           DecodeOneAsymmetricKey(old))
<1> DEFINE n == 5
           rows == <<One("INTEGER"), One("SEQUENCE"), One("OCTETS"), Opt("0"), Opt("1")>>
           names == <<"version", "privateKeyAlgorithm", "privateKey", "attributes", "publicKey">>
           Value(f) == [version             |-> OneOf({0, 1}, f[1]),
                        privateKeyAlgorithm |-> Within("Algorithm", f[2]),
                        privateKey          |-> f[3],
                        attributes          |-> DecodeOpaqueList("Attribute", f[4]),
                        publicKey           |-> f[5]]
<1>1. n \in Nat /\ Len(rows) = n /\ DOMAIN rows = 1..n
  OBVIOUS
<1>2. ToldApart(n, rows)
  BY RowIs DEF ToldApart, Unambiguous, UnambiguousBack
<1>3. ASSUME NEW e, DecodeOneAsymmetricKey(e) # Malformed
      PROVE  Fields(rows, e) # Malformed /\ DecodeOneAsymmetricKey(e) = Value(Fields(rows, e))
  <2> DEFINE f == Fields(rows, e)
             t == [version             |-> OneOf({0, 1}, f[1]),
                   privateKeyAlgorithm |-> Within("Algorithm", f[2]),
                   privateKey          |-> f[3],
                   attributes          |-> DecodeOpaqueList("Attribute", f[4]),
                   publicKey           |-> f[5]]
  <2>1. f # Malformed /\ DecodeOneAsymmetricKey(e) = t
    BY <1>3 DEF DecodeOneAsymmetricKey, Decoded, Made, Sound
  <2>2. t = Value(f)
    <3> HIDE DEF f
    <3> QED
      OBVIOUS
  <2> QED
    BY <2>1, <2>2
<1> DEFINE f == Fields(rows, new)
           g == Fields(rows, old)
<1>4. what # "swap" /\ OneApart(n, rows, f, g)
  <2> HIDE DEF n, rows
  <2> QED
    BY <1>1, <1>2, <1>3, AlterationIsOneField
<1>5. \A i \in 1..n : rows[i].optional <=> i \in {4, 5}
  BY RowIs
<1> HIDE DEF f, g
<1> DEFINE v == Value(f)
           w == Value(g)
<1>6. DecodeOpaqueList("Attribute", None) = None
  BY DEF DecodeOpaqueList, Optional
<1>7. /\ DOMAIN w = DOMAIN v /\ \A i \in 1..n : names[i] \in DOMAIN v
      /\ \A x \in DOMAIN v : (\E i \in 1..n : names[i] = x) \/ v[x] = w[x]
  OBVIOUS
<1>8. \A i \in 1..n : f[i] = g[i] => v[names[i]] = w[names[i]]
  OBVIOUS
<1>9. /\ \A i \in 1..n : rows[i].optional /\ f[i] = None => v[names[i]] = None
      /\ \A i \in 1..n : rows[i].optional /\ g[i] = None => w[names[i]] = None
  BY <1>5, <1>6
<1>10. AtMostOneAppears(v, w)
  <2> HIDE DEF rows, names, n, v, w
  <2> QED
    BY <1>1, <1>4, <1>7, <1>8, <1>9, OneFieldAppears
<1> QED
  BY <1>3, <1>4, <1>10 DEF f, g

(* A private key on an elliptic curve that was altered.                    *)
LEMMA EcPrivateKeyAltered ==
  ASSUME NEW what, NEW old, NEW new, AlteredTo(what, old, new),
         DecodeEcPrivateKey(old) # Malformed, DecodeEcPrivateKey(new) # Malformed
  PROVE  what # "swap" /\ AtMostOneAppears(DecodeEcPrivateKey(new),
                                           DecodeEcPrivateKey(old))
<1> DEFINE n == 4
           rows == <<One("INTEGER"), One("OCTETS"), Opt("0"), Opt("1")>>
           names == <<"version", "privateKey", "parameters", "publicKey">>
           Value(f) == [version    |-> f[1],
                        privateKey |-> f[2],
                        parameters |-> DecodeEcParameters(f[3]),
                        publicKey  |-> Inner("BITS", f[4])]
<1>1. n \in Nat /\ Len(rows) = n /\ DOMAIN rows = 1..n
  OBVIOUS
<1>2. ToldApart(n, rows)
  BY RowIs DEF ToldApart, Unambiguous, UnambiguousBack
<1>3. ASSUME NEW e, DecodeEcPrivateKey(e) # Malformed
      PROVE  Fields(rows, e) # Malformed /\ DecodeEcPrivateKey(e) = Value(Fields(rows, e))
  <2> DEFINE f == Fields(rows, e)
             t == [version    |-> f[1],
                   privateKey |-> f[2],
                   parameters |-> DecodeEcParameters(f[3]),
                   publicKey  |-> Inner("BITS", f[4])]
  <2>1. f # Malformed /\ DecodeEcPrivateKey(e) = t
    BY <1>3 DEF DecodeEcPrivateKey, Decoded, Made, Sound
  <2>2. t = Value(f)
    <3> HIDE DEF f
    <3> QED
      OBVIOUS
  <2> QED
    BY <2>1, <2>2
<1> DEFINE f == Fields(rows, new)
           g == Fields(rows, old)
<1>4. what # "swap" /\ OneApart(n, rows, f, g)
  <2> HIDE DEF n, rows
  <2> QED
    BY <1>1, <1>2, <1>3, AlterationIsOneField
<1>5. \A i \in 1..n : rows[i].optional <=> i \in {3, 4}
  BY RowIs
<1> HIDE DEF f, g
<1> DEFINE v == Value(f)
           w == Value(g)
<1>6. DecodeEcParameters(None) = None /\ Inner("BITS", None) = None
  BY DEF DecodeEcParameters, Inner, Optional
<1>7. /\ DOMAIN w = DOMAIN v /\ \A i \in 1..n : names[i] \in DOMAIN v
      /\ \A x \in DOMAIN v : (\E i \in 1..n : names[i] = x) \/ v[x] = w[x]
  OBVIOUS
<1>8. \A i \in 1..n : f[i] = g[i] => v[names[i]] = w[names[i]]
  OBVIOUS
<1>9. /\ \A i \in 1..n : rows[i].optional /\ f[i] = None => v[names[i]] = None
      /\ \A i \in 1..n : rows[i].optional /\ g[i] = None => w[names[i]] = None
  BY <1>5, <1>6
<1>10. AtMostOneAppears(v, w)
  <2> HIDE DEF rows, names, n, v, w
  <2> QED
    BY <1>1, <1>4, <1>7, <1>8, <1>9, OneFieldAppears
<1> QED
  BY <1>3, <1>4, <1>10 DEF f, g

(* A SignedData that was altered.                                          *)
LEMMA SignedDataBodyAltered ==
  ASSUME NEW what, NEW old, NEW new, AlteredTo(what, old, new),
         DecodeSignedDataBody(old) # Malformed, DecodeSignedDataBody(new) # Malformed
  PROVE  what # "swap" /\ AtMostOneAppears(DecodeSignedDataBody(new),
                                           DecodeSignedDataBody(old))
<1> DEFINE n == 6
           rows == <<One("INTEGER"), One("SET"), One("SEQUENCE"), Opt("0"), Opt("1"), One("SET")>>
           names == <<"version", "digestAlgorithms", "contentInfo", "certificates", "crls", "signerInfos">>
           Value(f) == [version          |-> OneOf(0..5, f[1]),
                        digestAlgorithms |-> DecodeOpaqueList("Algorithm", f[2]),
                        contentInfo      |-> DecodeEncapsulated(f[3]),
                        certificates     |-> DecodeCertificateSet(f[4]),
                        crls             |-> OneOf({None}, f[5]),
                        signerInfos      |-> DecodeOpaqueList("SignerInfo", f[6])]
<1>1. n \in Nat /\ Len(rows) = n /\ DOMAIN rows = 1..n
  OBVIOUS
<1>2. ToldApart(n, rows)
  BY RowIs DEF ToldApart, Unambiguous, UnambiguousBack
<1>3. ASSUME NEW e, DecodeSignedDataBody(e) # Malformed
      PROVE  Fields(rows, e) # Malformed /\ DecodeSignedDataBody(e) = Value(Fields(rows, e))
  <2> DEFINE f == Fields(rows, e)
             t == [version          |-> OneOf(0..5, f[1]),
                   digestAlgorithms |-> DecodeOpaqueList("Algorithm", f[2]),
                   contentInfo      |-> DecodeEncapsulated(f[3]),
                   certificates     |-> DecodeCertificateSet(f[4]),
                   crls             |-> OneOf({None}, f[5]),
                   signerInfos      |-> DecodeOpaqueList("SignerInfo", f[6])]
  <2>1. f # Malformed /\ DecodeSignedDataBody(e) = t
    BY <1>3 DEF DecodeSignedDataBody, Decoded, Made, Sound
  <2>2. t = Value(f)
    <3> HIDE DEF f
    <3> QED
      OBVIOUS
  <2> QED
    BY <2>1, <2>2
<1> DEFINE f == Fields(rows, new)
           g == Fields(rows, old)
<1>4. what # "swap" /\ OneApart(n, rows, f, g)
  <2> HIDE DEF n, rows
  <2> QED
    BY <1>1, <1>2, <1>3, AlterationIsOneField
<1>5. \A i \in 1..n : rows[i].optional <=> i \in {4, 5}
  BY RowIs
<1> HIDE DEF f, g
<1> DEFINE v == Value(f)
           w == Value(g)
<1>6. DecodeCertificateSet(None) = None /\ OneOf({None}, None) = None
  BY DEF DecodeCertificateSet, OneOf
<1>7. /\ DOMAIN w = DOMAIN v /\ \A i \in 1..n : names[i] \in DOMAIN v
      /\ \A x \in DOMAIN v : (\E i \in 1..n : names[i] = x) \/ v[x] = w[x]
  OBVIOUS
<1>8. \A i \in 1..n : f[i] = g[i] => v[names[i]] = w[names[i]]
  OBVIOUS
<1>9. /\ \A i \in 1..n : rows[i].optional /\ f[i] = None => v[names[i]] = None
      /\ \A i \in 1..n : rows[i].optional /\ g[i] = None => w[names[i]] = None
  BY <1>5, <1>6
<1>10. AtMostOneAppears(v, w)
  <2> HIDE DEF rows, names, n, v, w
  <2> QED
    BY <1>1, <1>4, <1>7, <1>8, <1>9, OneFieldAppears
<1> QED
  BY <1>3, <1>4, <1>10 DEF f, g

(* A structure without optional fields bears no alteration at all.         *)
LEMMA NoFieldToSpare ==
  ASSUME NEW n \in Nat, NEW rows, Len(rows) = n, DOMAIN rows = 1..n, ToldApart(n, rows),
         \A i \in 1..n : ~rows[i].optional,
         NEW what, NEW old, NEW new, AlteredTo(what, old, new)
  PROVE  Fields(rows, old) = Malformed \/ Fields(rows, new) = Malformed
<1> SUFFICES ASSUME Fields(rows, old) # Malformed, Fields(rows, new) # Malformed PROVE FALSE
  OBVIOUS
<1>1. OneApart(n, rows, Fields(rows, new), Fields(rows, old))
  BY AlterationIsOneField
<1> QED
  BY <1>1 DEF OneApart

(* A ContentInfo, a DigestInfo and a CertificationRequestInfo have no      *)
(* optional fields.                                                        *)
LEMMA NothingOptionalAltered ==
  ASSUME NEW what, NEW old, NEW new, AlteredTo(what, old, new)
  PROVE  /\ DecodeContentInfo(old) = Malformed \/ DecodeContentInfo(new) = Malformed
         /\ DecodeDigestInfo(old) = Malformed \/ DecodeDigestInfo(new) = Malformed
         /\ DecodeRequestInfo(old) = Malformed \/ DecodeRequestInfo(new) = Malformed
<1>1. DecodeContentInfo(old) = Malformed \/ DecodeContentInfo(new) = Malformed
  <2> DEFINE n == 2
             rows == <<One("OID"), One("0")>>
  <2>1. n \in Nat /\ Len(rows) = n /\ DOMAIN rows = 1..n /\ ToldApart(n, rows) /\ \A i \in 1..n : ~rows[i].optional
    BY RowIs DEF ToldApart, Unambiguous, UnambiguousBack
  <2>2. \A e : Fields(rows, e) = Malformed => DecodeContentInfo(e) = Malformed
    BY DEF DecodeContentInfo, Decoded, Made
  <2> HIDE DEF n, rows
  <2> QED
    BY <2>1, <2>2, NoFieldToSpare
<1>2. DecodeDigestInfo(old) = Malformed \/ DecodeDigestInfo(new) = Malformed
  <2> DEFINE n == 2
             rows == <<One("SEQUENCE"), One("OCTETS")>>
  <2>1. n \in Nat /\ Len(rows) = n /\ DOMAIN rows = 1..n /\ ToldApart(n, rows) /\ \A i \in 1..n : ~rows[i].optional
    BY RowIs DEF ToldApart, Unambiguous, UnambiguousBack
  <2>2. \A e : Fields(rows, e) = Malformed => DecodeDigestInfo(e) = Malformed
    BY DEF DecodeDigestInfo, Decoded, Made
  <2> HIDE DEF n, rows
  <2> QED
    BY <2>1, <2>2, NoFieldToSpare
<1>3. DecodeRequestInfo(old) = Malformed \/ DecodeRequestInfo(new) = Malformed
  <2> DEFINE n == 4
             rows == <<One("INTEGER"), One("SEQUENCE"), One("SEQUENCE"), One("0")>>
  <2>1. n \in Nat /\ Len(rows) = n /\ DOMAIN rows = 1..n /\ ToldApart(n, rows) /\ \A i \in 1..n : ~rows[i].optional
    BY RowIs DEF ToldApart, Unambiguous, UnambiguousBack
  <2>2. \A e : Fields(rows, e) = Malformed => DecodeRequestInfo(e) = Malformed
    BY DEF DecodeRequestInfo, Decoded, Made
  <2> HIDE DEF n, rows
  <2> QED
    BY <2>1, <2>2, NoFieldToSpare
<1> QED
  BY <1>1, <1>2, <1>3

(* An RSA private key that was altered.                                    *)
LEMMA RsaPrivateKeyAltered ==
  ASSUME NEW what, NEW old, NEW new, AlteredTo(what, old, new),
         DecodeRsaPrivateKey(old) # Malformed, DecodeRsaPrivateKey(new) # Malformed
  PROVE  what # "swap" /\ AtMostOneAppears(DecodeRsaPrivateKey(new), DecodeRsaPrivateKey(old))
<1> DEFINE n == 10
           ones == [i \in 1..9 |-> One("INTEGER")]
           last == Opt("SEQUENCE")
           rows == ones \o <<last>>
           f == Fields(rows, new)
           g == Fields(rows, old)
<1>1. /\ f # Malformed
      /\ DecodeRsaPrivateKey(new) = [integers |-> SubSeq(f, 1, 9), otherPrimeInfos |-> DecodePrimes(f[10])]
  BY DEF DecodeRsaPrivateKey, Decoded, Made, Sound
<1>2. /\ g # Malformed
      /\ DecodeRsaPrivateKey(old) = [integers |-> SubSeq(g, 1, 9), otherPrimeInfos |-> DecodePrimes(g[10])]
  BY DEF DecodeRsaPrivateKey, Decoded, Made, Sound
<1>3. n \in Nat /\ Len(rows) = n /\ DOMAIN rows = 1..n /\ rows[10] = last /\ \A i \in 1..9 : rows[i] = One("INTEGER")
  <2>1. ones = [i \in 1..9 |-> ones[i]] /\ \A i \in 1..9 : ones[i] = One("INTEGER")
    OBVIOUS
  <2> HIDE DEF ones, last
  <2> QED
    BY <2>1, NineAndOne
<1> HIDE DEF rows
<1>4. ToldApart(n, rows) /\ \A i \in 1..n : rows[i].optional => i = 10
  <2>1. \A i \in 1..10 : i = 10 \/ i \in 1..9
    OBVIOUS
  <2>2. /\ \A i \in 1..9 : rows[i].tag = "INTEGER" /\ ~rows[i].optional
        /\ rows[10].tag = "SEQUENCE"
    BY <1>3, RowIs
  <2>3. Unambiguous(n, rows)
    <3> SUFFICES ASSUME NEW i \in 1..n, NEW j \in 1..n, i < j, \A k \in i..(j - 1) : rows[k].optional
                 PROVE  FALSE
      BY DEF Unambiguous
    <3>1. i \in 1..9 /\ i \in i..(j - 1)
      OBVIOUS
    <3> QED
      BY <2>2, <3>1
  <2>4. UnambiguousBack(n, rows)
    <3> SUFFICES ASSUME NEW i \in 1..n, NEW j \in 1..n, i < j, \A k \in (i + 1)..j : rows[k].optional
                 PROVE  rows[i].tag # rows[j].tag
      BY DEF UnambiguousBack
    <3>1. i \in 1..9 /\ j \in (i + 1)..j
      OBVIOUS
    <3>2. j = 10
      BY <2>1, <2>2, <3>1
    <3> QED
      BY <2>2, <3>1, <3>2
  <2> QED
    BY <2>1, <2>2, <2>3, <2>4 DEF ToldApart
<1>5. what # "swap" /\ OneApart(n, rows, f, g)
  <2> HIDE DEF n
  <2> QED
    BY <1>1, <1>2, <1>3, <1>4, AlterationIsOneField
<1>6. IsFunction(f) /\ DOMAIN f = 1..10 /\ IsFunction(g) /\ DOMAIN g = 1..10
  <2>1. \A m \in Nat : m = n => IsFunction(f) /\ DOMAIN f = 1..m /\ IsFunction(g) /\ DOMAIN g = 1..m
    <3> HIDE DEF n
    <3> QED
      BY <1>1, <1>2, <1>3, RowsShape
  <2> QED
    BY <2>1
<1> HIDE DEF f, g
<1>7. (f[10] = None \/ g[10] = None) /\ \A i \in 1..9 : f[i] = g[i]
  BY <1>4, <1>5 DEF OneApart
<1>8. SubSeq(f, 1, 9) = SubSeq(g, 1, 9)
  BY <1>6, <1>7, FirstNine
<1>9. DecodePrimes(None) = None
  BY DEF DecodePrimes, Optional
<1>10. AtMostOneAppears(DecodeRsaPrivateKey(new), DecodeRsaPrivateKey(old))
  <2> DEFINE v == [integers |-> SubSeq(f, 1, 9), otherPrimeInfos |-> DecodePrimes(f[10])]
             w == [integers |-> SubSeq(g, 1, 9), otherPrimeInfos |-> DecodePrimes(g[10])]
  <2>1. "otherPrimeInfos" \in DOMAIN v /\ \A x \in DOMAIN v \ {"otherPrimeInfos"} : v[x] = w[x]
    BY <1>8
  <2>2. v["otherPrimeInfos"] = None \/ w["otherPrimeInfos"] = None
    BY <1>7, <1>9
  <2> HIDE DEF v, w
  <2>3. AtMostOneAppears(v, w)
    BY <2>1, <2>2 DEF AtMostOneAppears
  <2> QED
    BY <1>1, <1>2, <2>3 DEF v, w
<1> QED
  BY <1>5, <1>10

(* The rows that come first and are not optional read the first elements.  *)
LEMMA FirstOnesRead ==
  ASSUME NEW n \in Nat, NEW rows, NEW e, Len(e) \in Nat, NEW f, NEW p, Aligned(p, n, rows, e, f),
         NEW m \in 0..n, \A i \in 1..m : ~rows[i].optional
  PROVE  \A i \in 1..m : i \in 1..Len(e) /\ p[i] = i
<1> DEFINE S == {i \in 0..m : i = 0 \/ (i \in 1..Len(e) /\ p[i] = i)}
<1>1. ASSUME NEW i \in 1..m, i - 1 \in S PROVE i \in S
  <2>1. i \in 1..n /\ i \in 0..m
    OBVIOUS
  <2>2. PICK j \in 1..Len(e) : p[j] = i
    BY <2>1 DEF Aligned
  <2>3. i = 1 \/ (i - 1 \in 1..Len(e) /\ p[i - 1] = i - 1)
    BY <1>1
  <2>4. ~(j < i)
    <3> SUFFICES ASSUME j < i PROVE FALSE
      OBVIOUS
    <3>1. i - 1 \in 1..Len(e) /\ p[i - 1] = i - 1 /\ (j = i - 1 \/ j < i - 1)
      BY <2>3
    <3>2. j < i - 1 => p[j] < p[i - 1]
      BY <3>1 DEF Aligned
    <3> QED
      BY <2>2, <3>1, <3>2
  <2>5. ~(i < j)
    <3> SUFFICES ASSUME i < j PROVE FALSE
      OBVIOUS
    <3>1. i \in 1..Len(e)
      OBVIOUS
    <3>2. p[i] < i /\ p[i] \in 1..n
      BY <2>2, <3>1 DEF Aligned
    <3>3. i > 1 => p[i - 1] < p[i]
      BY <2>3, <3>1 DEF Aligned
    <3> QED
      BY <2>3, <3>2, <3>3
  <2>6. j = i
    BY <2>4, <2>5
  <2> QED
    BY <2>1, <2>2, <2>6
<1>2. \A i \in 0..m : i \in S
  <2>1. 0 \in S /\ m \in Nat
    OBVIOUS
  <2> HIDE DEF S
  <2> QED
    BY <1>1, <2>1, UpTo
<1> QED
  BY <1>2

(* A response to a request for a time stamp that was altered: its token is *)
(* not read as a status.                                                   *)
LEMMA TimeStampRespAltered ==
  ASSUME NEW what, NEW old, NEW new, AlteredTo(what, old, new),
         DecodeTimeStampResp(old) # Malformed, DecodeTimeStampResp(new) # Malformed
  PROVE  what # "swap" /\ AtMostOneAppears(DecodeTimeStampResp(new), DecodeTimeStampResp(old))
<1> DEFINE n == 2
           rows == <<One("SEQUENCE"), Opt("SEQUENCE")>>
           Token(e) == IF Len(e) = 2 THEN e[2][2] ELSE None
           Value(e) == [status         |-> DecodeStatusInfo(e[1][2]),
                        timeStampToken |-> Within("ContentInfo", Token(e))]
<1>1. ASSUME NEW e, DecodeTimeStampResp(e) # Malformed
      PROVE  /\ Len(e) \in {1, 2} /\ \A i \in 1..Len(e) : e[i][1] = "SEQUENCE"
             /\ e[1][2] # None
             /\ DecodeTimeStampResp(e) = Value(e)
             /\ DecodeStatusInfo(e[1][2]) # Malformed /\ Within("ContentInfo", Token(e)) # Malformed
  <2> DEFINE f == Fields(rows, e)
  <2>1. /\ f # Malformed
        /\ DecodeTimeStampResp(e) = [status         |-> DecodeStatusInfo(f[1]),
                                     timeStampToken |-> Within("ContentInfo", f[2])]
        /\ DecodeStatusInfo(f[1]) # Malformed /\ Within("ContentInfo", f[2]) # Malformed
    BY <1>1 DEF DecodeTimeStampResp, Obeying, Decoded, Made, Sound
  <2>2. n \in Nat /\ Len(rows) = n /\ DOMAIN rows = 1..n
    OBVIOUS
  <2>3. Len(e) \in Nat /\ \E p : Aligned(p, n, rows, e, f)
    <3> HIDE DEF n, rows
    <3> QED
      BY <2>1, <2>2, ReadInOrder
  <2>4. PICK p : Aligned(p, n, rows, e, f)
    BY <2>3
  <2>5. f[1] # None
    BY <2>1, Shape2, RowIs
  <2> HIDE DEF f
  <2>6. /\ n = 2 /\ rows[1].tag = "SEQUENCE" /\ ~rows[1].optional /\ rows[2].tag = "SEQUENCE"
    BY RowIs
  <2> HIDE DEF n, rows
  <2>7. 1 \in 1..Len(e) /\ p[1] = 1
    <3> DEFINE m == 1
    <3>1. m \in 0..n /\ \A i \in 1..m : ~rows[i].optional
      BY <2>2, <2>6
    <3>2. \A i \in 1..m : i \in 1..Len(e) /\ p[i] = i
      <4> HIDE DEF m
      <4> QED
        BY <2>2, <2>3, <2>4, <3>1, FirstOnesRead
    <3> QED
      BY <3>2
  <2>8. ASSUME NEW i \in 1..Len(e), i # 1 PROVE i = 2 /\ p[i] = 2
    <3>1. p[i] = 2
      BY <2>3, <2>4, <2>6, <2>7, <2>8 DEF Aligned
    <3>2. ~(2 < i)
      <4> SUFFICES ASSUME 2 < i PROVE FALSE
        OBVIOUS
      <4>1. 2 \in 1..Len(e) /\ p[2] < p[i] /\ p[1] < p[2] /\ p[2] \in 1..n
        BY <2>3, <2>4, <2>7 DEF Aligned
      <4> QED
        BY <2>6, <2>7, <3>1, <4>1
    <3> QED
      BY <2>3, <2>8, <3>1, <3>2
  <2>9. Len(e) \in {1, 2}
    <3>1. CASE Len(e) = 1
      BY <3>1
    <3>2. CASE Len(e) # 1
      <4>1. Len(e) \in 1..Len(e)
        BY <2>3, <2>7
      <4> QED
        BY <2>8, <3>2, <4>1
    <3> QED
      BY <3>1, <3>2
  <2>10. f[1] = e[1][2] /\ \A i \in 1..Len(e) : e[i][1] = "SEQUENCE"
    BY <2>4, <2>6, <2>7, <2>8 DEF Aligned
  <2>11. f[2] = Token(e)
    <3>1. CASE Len(e) = 2
      <4>1. 2 \in 1..Len(e) /\ p[2] = 2
        BY <2>8, <3>1
      <4> QED
        BY <2>4, <3>1, <4>1 DEF Aligned
    <3>2. CASE Len(e) = 1
      <4>1. \A i \in 1..Len(e) : p[i] # 2
        BY <2>7, <3>2
      <4>2. 2 \in 1..n
        BY <2>6
      <4> QED
        BY <2>4, <3>2, <4>1, <4>2 DEF Aligned
    <3> QED
      BY <2>9, <3>1, <3>2
  <2> QED
    BY <2>1, <2>5, <2>9, <2>10, <2>11
(* What is captured as a token is not a status.                            *)
<1>2. ASSUME NEW b, b # None, Within("ContentInfo", b) # Malformed PROVE DecodeStatusInfo(b) = Malformed
  <2> DEFINE k == 3
             fields == <<One("INTEGER"), Opt("SEQUENCE"), Opt("BITS")>>
  <2>1. Len(b) = 1 /\ b[1][1] = "ContentInfo"
    BY <1>2 DEF Within
  <2>2. k \in Nat /\ Len(fields) = k /\ DOMAIN fields = 1..k
    OBVIOUS
  <2>3. \A i \in 1..k : fields[i].tag # "ContentInfo"
    BY RowIs
  <2>4. Fields(fields, b) = Malformed
    <3> SUFFICES ASSUME Fields(fields, b) # Malformed PROVE FALSE
      OBVIOUS
    <3>1. PICK p : Aligned(p, k, fields, b, Fields(fields, b))
      <4> HIDE DEF k, fields
      <4> QED
        BY <2>2, ReadInOrder
    <3>2. p[1] \in 1..k /\ fields[p[1]].tag = b[1][1]
      BY <2>1, <3>1 DEF Aligned
    <3> QED
      BY <2>1, <2>3, <3>2
  <2> QED
    BY <2>4 DEF DecodeStatusInfo, Decoded, Made
<1> HIDE DEF Value
<1>3. ASSUME NEW e, NEW d, NEW i, Without(e, d, i),
             DecodeTimeStampResp(e) # Malformed, DecodeTimeStampResp(d) # Malformed
      PROVE  Len(e) = 2 /\ e[1] = d[1] /\ Token(d) = None
  <2>1. Len(e) = 2 /\ Len(d) = 1 /\ i \in {1, 2}
    BY <1>1, <1>3 DEF Without
  <2>2. i # 1
    <3> SUFFICES ASSUME i = 1 PROVE FALSE
      OBVIOUS
    <3>1. d[1] = e[2]
      BY <1>3, <2>1 DEF Without
    <3>2. e[2][2] # None /\ Within("ContentInfo", e[2][2]) # Malformed /\ DecodeStatusInfo(e[2][2]) # Malformed
      BY <1>1, <1>3, <2>1, <3>1
    <3> QED
      BY <1>2, <3>2
  <2> QED
    BY <1>3, <2>1, <2>2 DEF Without
<1>4. ASSUME NEW e, NEW d, NEW t, DecodeTimeStampResp(e) # Malformed, DecodeTimeStampResp(d) # Malformed,
             e[1] = d[1], Token(e) = None \/ Token(d) = None
      PROVE  AtMostOneAppears(DecodeTimeStampResp(e), DecodeTimeStampResp(d))
  <2>1. DecodeTimeStampResp(e) = Value(e) /\ DecodeTimeStampResp(d) = Value(d)
    BY <1>1, <1>4
  <2>2. Within("ContentInfo", None) = None
    BY DEF Within
  <2> DEFINE s == DecodeStatusInfo(e[1][2])
             a == Within("ContentInfo", Token(e))
             b == Within("ContentInfo", Token(d))
  <2>3. Value(e) = [status |-> s, timeStampToken |-> a] /\ Value(d) = [status |-> s, timeStampToken |-> b]
    BY <1>4 DEF Value
  <2>4. a = None \/ b = None
    BY <1>4, <2>2
  <2> HIDE DEF a, b, s
  <2>5. AtMostOneAppears([status |-> s, timeStampToken |-> a], [status |-> s, timeStampToken |-> b])
    <3> DEFINE v == [status |-> s, timeStampToken |-> a]
               w == [status |-> s, timeStampToken |-> b]
    <3>1. /\ "timeStampToken" \in DOMAIN v /\ \A x \in DOMAIN v \ {"timeStampToken"} : v[x] = w[x]
          /\ v["timeStampToken"] = None \/ w["timeStampToken"] = None
      BY <2>4
    <3> HIDE DEF v, w
    <3>2. AtMostOneAppears(v, w)
      BY <3>1 DEF AtMostOneAppears
    <3> QED
      BY <3>2 DEF v, w
  <2> QED
    BY <2>1, <2>3, <2>5
<1>5. PICK i \in Nat : \/ what = "drop" /\ Without(old, new, i)
                       \/ what \in {"repeat", "spell"} /\ Without(new, old, i)
                       \/ what = "swap" /\ Swapped(old, new, i)
  BY DEF AlteredTo
<1>6. what # "swap"
  <2> SUFFICES ASSUME Swapped(old, new, i) PROVE FALSE
    BY <1>5 DEF Without
  <2>1. \A j \in 1..Len(old) : old[j][1] = "SEQUENCE"
    BY <1>1
  <2> QED
    BY <2>1 DEF Swapped
<1>7. new[1] = old[1] /\ (Token(new) = None \/ Token(old) = None)
  BY <1>3, <1>5, <1>6
<1> QED
  BY <1>4, <1>6, <1>7

(* A SignerInfo begins with its version, its signer and a digest algorithm; *)
(* what comes next is told apart from those.                               *)
SignerInfoBegins(e) ==
  /\ Len(e) \in Nat /\ Len(e) > 4
  /\ e[1][1] = "INTEGER" /\ e[2][1] \in {"0", "SEQUENCE"} /\ e[3][1] = "SEQUENCE"
  /\ \/ e[4][1] = "SEQUENCE" /\ e[5][1] = "OCTETS"
     \/ e[4][1] = "0" /\ e[5][1] = "SEQUENCE"

(* The rows of a SignerInfo of whom the tag is known.                      *)
SignerInfoRowsOf(tag) ==
  <<One("INTEGER"), One(tag), One("SEQUENCE"), Opt("0"), One("SEQUENCE"), One("OCTETS"), Opt("1")>>

ByKeyIdentifier(e) == Len(e) > 1 /\ e[2][1] = "0"
SidTag(e) == IF ByKeyIdentifier(e) THEN "0" ELSE "SEQUENCE"

(* Every SignerInfo that is read begins so.                                *)
LEMMA SignerInfoBeginning ==
  ASSUME NEW e, Fields(SignerInfoRowsOf(SidTag(e)), e) # Malformed
  PROVE  SignerInfoBegins(e)
<1> DEFINE n == 7
           rows == SignerInfoRowsOf(SidTag(e))
           f == Fields(rows, e)
           m == 3
<1>1. n \in Nat /\ Len(rows) = n /\ DOMAIN rows = 1..n /\ m \in 0..n
  BY DEF SignerInfoRowsOf
<1>2. Len(e) \in Nat /\ \E p : Aligned(p, n, rows, e, f)
  <2>1. f # Malformed
    OBVIOUS
  <2> HIDE DEF n, rows
  <2> QED
    BY <1>1, <2>1, ReadInOrder
<1>3. PICK p : Aligned(p, n, rows, e, f)
  BY <1>2
<1>4. /\ rows[1].tag = "INTEGER" /\ rows[2].tag = SidTag(e) /\ rows[3].tag = "SEQUENCE"
      /\ rows[4].tag = "0" /\ rows[5].tag = "SEQUENCE" /\ rows[6].tag = "OCTETS"
      /\ ~rows[1].optional /\ ~rows[2].optional /\ ~rows[3].optional /\ ~rows[5].optional /\ ~rows[6].optional
  BY RowIs DEF SignerInfoRowsOf
<1>5. \A i \in 1..m : ~rows[i].optional
  BY <1>4
<1>6. n = 7
  OBVIOUS
<1> HIDE DEF n, rows, f
<1>7. \A i \in 1..m : i \in 1..Len(e) /\ p[i] = i
  <2> HIDE DEF m
  <2> QED
    BY <1>1, <1>2, <1>3, <1>5, FirstOnesRead
<1>8. /\ 1 \in 1..Len(e) /\ 2 \in 1..Len(e) /\ 3 \in 1..Len(e)
      /\ p[1] = 1 /\ p[2] = 2 /\ p[3] = 3
  BY <1>7
<1>9. e[1][1] = "INTEGER" /\ e[2][1] = SidTag(e) /\ e[3][1] = "SEQUENCE"
  BY <1>3, <1>4, <1>8 DEF Aligned
(* The signature and its algorithm have to be there.                       *)
<1>10. PICK j \in 1..Len(e) : p[j] = 5
  BY <1>3, <1>4, <1>6 DEF Aligned
<1>11. PICK k \in 1..Len(e) : p[k] = 6
  BY <1>3, <1>4, <1>6 DEF Aligned
<1>12. j > 3 /\ k > j
  <2>1. j # 1 /\ j # 2 /\ j # 3 /\ j # k
    BY <1>8, <1>10, <1>11
  <2>2. ~(k < j)
    BY <1>3, <1>10, <1>11 DEF Aligned
  <2> QED
    BY <1>2, <2>1, <2>2
<1>13. Len(e) > 4 /\ 4 \in 1..Len(e) /\ 5 \in 1..Len(e)
  BY <1>2, <1>12
<1>14. /\ p[4] \in 1..7 /\ p[5] \in 1..7 /\ p[3] < p[4] /\ p[4] < p[5]
       /\ e[4][1] = rows[p[4]].tag /\ e[5][1] = rows[p[5]].tag
  BY <1>3, <1>6, <1>8, <1>13 DEF Aligned
<1>15. p[4] <= 5 /\ (p[4] = 4 => p[5] <= 5) /\ (p[4] = 5 => p[5] <= 6)
  <2>1. j = 4 \/ (4 < j /\ p[4] < p[j])
    BY <1>3, <1>12, <1>13 DEF Aligned
  <2>2. CASE j = 4
    <3>1. k = 5 \/ (5 < k /\ p[5] < p[k])
      BY <1>2, <1>3, <1>12, <1>13, <2>2 DEF Aligned
    <3> QED
      BY <1>10, <1>11, <1>14, <2>2, <3>1
  <2>3. CASE 4 < j
    <3>1. j = 5 \/ (5 < j /\ p[5] < p[j])
      BY <1>2, <1>3, <1>13, <2>3 DEF Aligned
    <3> QED
      BY <1>10, <1>14, <2>1, <2>3, <3>1
  <2> QED
    BY <2>1, <2>2, <2>3
<1>16. \/ p[4] = 5 /\ p[5] = 6
       \/ p[4] = 4 /\ p[5] = 5
  BY <1>8, <1>14, <1>15
<1> QED
  BY <1>2, <1>4, <1>9, <1>13, <1>14, <1>16 DEF SignerInfoBegins, SidTag

(* An alteration does not make another kind of signer of one.              *)
LEMMA SignerIsTheSameKind ==
  ASSUME NEW what, NEW old, NEW new, AlteredTo(what, old, new),
         SignerInfoBegins(old), SignerInfoBegins(new)
  PROVE  old[2][1] = new[2][1]
<1>1. ASSUME NEW e, NEW d, SignerInfoBegins(e), SignerInfoBegins(d), NEW i \in Nat, Without(e, d, i)
      PROVE  e[2][1] = d[2][1]
  <2>1. CASE i = 1
    <3>1. d[1] = e[2]
      BY <1>1, <2>1 DEF Without, SignerInfoBegins
    <3> QED
      BY <1>1, <3>1 DEF SignerInfoBegins
  <2>2. CASE i = 2
    <3>1. 3 \in i..Len(d) /\ 4 \in i..Len(d) /\ 3 + 1 = 4 /\ 4 + 1 = 5
      BY <1>1, <2>2 DEF SignerInfoBegins
    <3>2. d[3] = e[4] /\ d[4] = e[5]
      BY <1>1, <3>1 DEF Without
    <3> QED
      BY <1>1, <3>2 DEF SignerInfoBegins
  <2>3. CASE i > 2
    BY <1>1, <2>3 DEF Without
  <2> QED
    BY <1>1, <2>1, <2>2, <2>3 DEF Without
<1>2. ASSUME NEW i \in Nat, Swapped(old, new, i) PROVE old[2][1] = new[2][1]
  <2>1. CASE i = 1
    <3>1. new[1] = old[2]
      BY <1>2, <2>1 DEF Swapped
    <3> QED
      BY <3>1 DEF SignerInfoBegins
  <2>2. CASE i = 2
    <3>1. new[2] = old[3] /\ new[3] = old[2] /\ old[2][1] # old[3][1]
      BY <1>2, <2>2 DEF Swapped
    <3> QED
      BY <3>1 DEF SignerInfoBegins
  <2>3. CASE i > 2
    BY <1>2, <2>3 DEF Swapped, SignerInfoBegins
  <2> QED
    BY <1>2, <2>1, <2>2, <2>3 DEF Swapped
<1> QED
  BY <1>1, <1>2 DEF AlteredTo

(* A SignerInfo that was altered.                                          *)
LEMMA SignerInfoAltered ==
  ASSUME NEW what, NEW old, NEW new, AlteredTo(what, old, new),
         DecodeSignerInfo(old) # Malformed, DecodeSignerInfo(new) # Malformed
  PROVE  what # "swap" /\ AtMostOneAppears(Normal("signerInfo", DecodeSignerInfo(new)),
                                           Normal("signerInfo", DecodeSignerInfo(old)))
<1> DEFINE n == 7
           tag == SidTag(old)
           rows == SignerInfoRowsOf(tag)
           names == <<"version", "sid", "digestAlgorithm", "signedAttributes", "signatureAlgorithm",
                     "signature", "unsignedAttributes">>
           Sid(b) == IF tag = "0" THEN DecodeKeyIdentifier(b) ELSE DecodeIssuerAndSerial(b)
           Value(f) == [version              |-> OneOf(0..5, f[1]),
                        sid                  |-> Sid(f[2]),
                        digestAlgorithm      |-> Within("Algorithm", f[3]),
                        signedAttributes     |-> DecodeOpaqueList("Attribute", f[4]),
                        signatureAlgorithm   |-> Within("Algorithm", f[5]),
                        signature            |-> f[6],
                        unsignedAttributes   |-> DecodeOpaqueList("Attribute", f[7]),
                        signedAttributesData |-> None]
<1>1. tag \in {"0", "SEQUENCE"}
  BY DEF SidTag
<1>2. n \in Nat /\ Len(rows) = n /\ DOMAIN rows = 1..n
  BY DEF SignerInfoRowsOf
<1>3. ASSUME NEW e, DecodeSignerInfo(e) # Malformed
      PROVE  Fields(SignerInfoRowsOf(SidTag(e)), e) # Malformed
  BY <1>3 DEF DecodeSignerInfo, SignerInfoRead, Obeying, Decoded, Made, SidTag, ByKeyIdentifier, SignerInfoRowsOf
<1>4. SidTag(new) = tag
  <2>1. SignerInfoBegins(old) /\ SignerInfoBegins(new)
    BY <1>3, SignerInfoBeginning
  <2>2. old[2][1] = new[2][1]
    BY <2>1, SignerIsTheSameKind
  <2> QED
    BY <2>1, <2>2 DEF SidTag, ByKeyIdentifier, SignerInfoBegins
<1>5. ToldApart(n, rows)
  <2>1. CASE tag = "0"
    BY <2>1, RowIs DEF ToldApart, Unambiguous, UnambiguousBack, SignerInfoRowsOf
  <2>2. CASE tag = "SEQUENCE"
    BY <2>2, RowIs DEF ToldApart, Unambiguous, UnambiguousBack, SignerInfoRowsOf
  <2> QED
    BY <1>1, <2>1, <2>2
<1>6. \A i \in 1..n : rows[i].optional <=> i \in {4, 7}
  BY RowIs DEF SignerInfoRowsOf
<1>7. ASSUME NEW e, DecodeSignerInfo(e) # Malformed, SidTag(e) = tag
      PROVE  Fields(rows, e) # Malformed /\ Normal("signerInfo", DecodeSignerInfo(e)) = Value(Fields(rows, e))
  <2> DEFINE f == Fields(rows, e)
             Reads(g) == [version              |-> OneOf(0..5, g[1]),
                         sid                  |-> IF ByKeyIdentifier(e) THEN DecodeKeyIdentifier(g[2])
                                                    ELSE DecodeIssuerAndSerial(g[2]),
                         digestAlgorithm      |-> Within("Algorithm", g[3]),
                         signedAttributes     |-> DecodeOpaqueList("Attribute", g[4]),
                         signatureAlgorithm   |-> Within("Algorithm", g[5]),
                         signature            |-> g[6],
                         unsignedAttributes   |-> DecodeOpaqueList("Attribute", g[7]),
                         signedAttributesData |-> DecodeOpaqueList("Attribute", g[4])]
  <2>1. f # Malformed /\ (ByKeyIdentifier(e) <=> tag = "0")
    BY <1>3, <1>7 DEF SidTag
  <2>2. DecodeSignerInfo(e) = Reads(Fields(SignerInfoRowsOf(SidTag(e)), e))
    BY <1>7 DEF DecodeSignerInfo, SignerInfoRead, Obeying, Decoded, Made, Sound, SidTag, ByKeyIdentifier,
                SignerInfoRowsOf
  <2>3. DecodeSignerInfo(e) = Reads(f)
    BY <1>7, <2>2
  <2> HIDE DEF f, tag
  <2>4. Normal("signerInfo", Reads(f)) = Value(f)
    <3> DEFINE sid == Sid(f[2])
               Of(s) == [version              |-> OneOf(0..5, f[1]),
                         sid                  |-> s,
                         digestAlgorithm      |-> Within("Algorithm", f[3]),
                         signedAttributes     |-> DecodeOpaqueList("Attribute", f[4]),
                         signatureAlgorithm   |-> Within("Algorithm", f[5]),
                         signature            |-> f[6],
                         unsignedAttributes   |-> DecodeOpaqueList("Attribute", f[7]),
                         signedAttributesData |-> DecodeOpaqueList("Attribute", f[4])]
    <3>1. Reads(f) = Of(sid)
      BY <2>1
    <3>2. Value(f) = [version              |-> OneOf(0..5, f[1]),
                      sid                  |-> sid,
                      digestAlgorithm      |-> Within("Algorithm", f[3]),
                      signedAttributes     |-> DecodeOpaqueList("Attribute", f[4]),
                      signatureAlgorithm   |-> Within("Algorithm", f[5]),
                      signature            |-> f[6],
                      unsignedAttributes   |-> DecodeOpaqueList("Attribute", f[7]),
                      signedAttributesData |-> None]
      OBVIOUS
    <3> HIDE DEF sid, Read, Value
    <3> QED
      BY <3>1, <3>2 DEF Normal
  <2> QED
    BY <1>3, <1>7, <2>3, <2>4 DEF f
<1> DEFINE f == Fields(rows, new)
           g == Fields(rows, old)
<1>8. what # "swap" /\ OneApart(n, rows, f, g)
  <2> HIDE DEF n, rows
  <2> QED
    BY <1>2, <1>4, <1>5, <1>7, AlterationIsOneField
<1> HIDE DEF f, g
<1> DEFINE v == Value(f)
           w == Value(g)
<1>9. DecodeOpaqueList("Attribute", None) = None
  BY DEF DecodeOpaqueList, Optional
<1>10. /\ DOMAIN w = DOMAIN v /\ \A i \in 1..n : names[i] \in DOMAIN v
       /\ \A x \in DOMAIN v : (\E i \in 1..n : names[i] = x) \/ v[x] = w[x]
  <2> HIDE DEF tag
  <2> QED OBVIOUS
<1>11. \A i \in 1..n : f[i] = g[i] => v[names[i]] = w[names[i]]
  <2> HIDE DEF tag
  <2> QED OBVIOUS
<1>12. /\ \A i \in 1..n : rows[i].optional /\ f[i] = None => v[names[i]] = None
       /\ \A i \in 1..n : rows[i].optional /\ g[i] = None => w[names[i]] = None
  <2> HIDE DEF rows
  <2> QED BY <1>6, <1>9
<1>13. AtMostOneAppears(v, w)
  <2> HIDE DEF rows, names, n, v, w, Value, tag
  <2>1. n \in Nat /\ OneApart(n, rows, f, g)
    BY <1>2, <1>8
  <2>2. DOMAIN w = DOMAIN v /\ (\A i \in 1..n : names[i] \in DOMAIN v)
    BY <1>10
  <2>3. \A x \in DOMAIN v : (\E i \in 1..n : names[i] = x) \/ v[x] = w[x]
    BY <1>10
  <2>4. \A i \in 1..n : f[i] = g[i] => v[names[i]] = w[names[i]]
    BY <1>11
  <2>5. \A i \in 1..n : rows[i].optional /\ f[i] = None => v[names[i]] = None
    BY <1>12
  <2>6. \A i \in 1..n : rows[i].optional /\ g[i] = None => w[names[i]] = None
    BY <1>12
  <2> QED
    BY <2>1, <2>2, <2>3, <2>4, <2>5, <2>6, OneFieldAppears
<1> QED
  BY <1>4, <1>7, <1>8, <1>13 DEF f, g

(* The rows of a revocation list, whose two times have one tag, and the    *)
(* same rows with a tag for each of them.                                  *)
CertListRows == <<Opt("INTEGER"), One("SEQUENCE"), One("SEQUENCE"), One("TIME"), Opt("TIME"),
                  Opt("SEQUENCE"), Opt("0")>>
CertListApart == <<Opt("INTEGER"), One("SEQUENCE"), One("SEQUENCE"), One("TIME"), Opt("nextUpdate"),
                   Opt("SEQUENCE"), Opt("0")>>

(* A revocation list with the second tag where its second time is.         *)
TimesApart(e, p) == [j \in 1..Len(e) |-> <<CertListApart[p[j]].tag, e[j][2]>>]

(* The next update is the time that comes right after another one.         *)
LEMMA TwoTimes ==
  ASSUME NEW e, Len(e) \in Nat, NEW f, NEW p, Aligned(p, 7, CertListRows, e, f)
  PROVE  /\ \A j \in 1..Len(e) :
              p[j] = 5 <=> j - 1 \in 1..Len(e) /\ e[j - 1][1] = "TIME" /\ e[j][1] = "TIME"
         /\ \A j, k \in 1..Len(e) : j < k /\ e[j][1] = "TIME" /\ e[k][1] = "TIME" => k = j + 1
         /\ \A j \in 1..Len(e) : p[j] = 5 => p[j - 1] = 4
<1> DEFINE n == 7
           rows == CertListRows
<1>1. \A i \in 1..n : rows[i].tag = "TIME" <=> i \in {4, 5}
  BY RowIs DEF CertListRows
<1>2. ~rows[4].optional /\ n = 7
  BY RowIs DEF CertListRows
<1>3. Aligned(p, n, rows, e, f)
  OBVIOUS
<1> HIDE DEF n, rows
<1>4. \A j \in 1..Len(e) : p[j] \in 1..n /\ (e[j][1] = "TIME" <=> p[j] \in {4, 5})
  BY <1>1, <1>3 DEF Aligned
<1>5. ASSUME NEW j \in 1..Len(e), NEW k \in 1..Len(e), j < k, e[j][1] = "TIME", e[k][1] = "TIME"
      PROVE  p[j] = 4 /\ p[k] = 5 /\ k = j + 1
  <2>1. p[j] < p[k]
    BY <1>3, <1>5 DEF Aligned
  <2>2. p[j] = 4 /\ p[k] = 5
    BY <1>4, <1>5, <2>1
  <2>3. ~(j + 1 < k)
    <3> SUFFICES ASSUME j + 1 < k PROVE FALSE
      OBVIOUS
    <3>1. j + 1 \in 1..Len(e) /\ j < j + 1
      OBVIOUS
    <3>2. p[j] < p[j + 1] /\ p[j + 1] < p[k] /\ p[j + 1] \in 1..n
      BY <1>3, <3>1 DEF Aligned
    <3> QED
      BY <2>2, <3>2
  <2> QED
    BY <1>5, <2>2, <2>3
<1>6. ASSUME NEW j \in 1..Len(e), p[j] = 5
      PROVE  j - 1 \in 1..Len(e) /\ e[j - 1][1] = "TIME" /\ e[j][1] = "TIME" /\ p[j - 1] = 4
  <2>1. PICK h \in 1..Len(e) : p[h] = 4
    <3>1. 4 \in 1..n
      BY <1>2
    <3>2. (\A h \in 1..Len(e) : p[h] # 4) => rows[4].optional
      BY <1>3, <3>1 DEF Aligned
    <3> QED
      BY <1>2, <3>2
  <2>2. e[h][1] = "TIME" /\ e[j][1] = "TIME" /\ h # j
    BY <1>4, <1>6, <2>1
  <2>3. ~(j < h)
    BY <1>5, <1>6, <2>1, <2>2
  <2>4. j = h + 1
    BY <1>5, <2>2, <2>3
  <2> QED
    BY <2>1, <2>2, <2>4
<1>7. ASSUME NEW j \in 1..Len(e), j - 1 \in 1..Len(e), e[j - 1][1] = "TIME", e[j][1] = "TIME"
      PROVE  p[j] = 5
  BY <1>5, <1>7
<1> QED
  BY <1>5, <1>6, <1>7

(* With a tag for each time it is still read by the same rows, and those   *)
(* are told apart.                                                         *)
LEMMA ApartIsAligned ==
  ASSUME NEW e, Len(e) \in Nat, NEW f, NEW p, Aligned(p, 7, CertListRows, e, f)
  PROVE  /\ Len(TimesApart(e, p)) = Len(e) /\ Aligned(p, 7, CertListApart, TimesApart(e, p), f)
         /\ ToldApart(7, CertListApart)
         /\ \A j \in 1..Len(e) :
              TimesApart(e, p)[j] = IF p[j] = 5 THEN <<"nextUpdate", e[j][2]>> ELSE <<e[j][1], e[j][2]>>
<1> DEFINE n == 7
           t == TimesApart(e, p)
<1>1. Len(t) = Len(e)
  BY VecIsSeq DEF TimesApart
<1>2. /\ \A i \in 1..n : CertListApart[i].optional <=> CertListRows[i].optional
      /\ \A i \in 1..n : CertListApart[i].tag = IF i = 5 THEN "nextUpdate" ELSE CertListRows[i].tag
  BY RowIs DEF CertListApart, CertListRows
<1>3. ToldApart(n, CertListApart)
  BY RowIs DEF ToldApart, Unambiguous, UnambiguousBack, CertListApart
<1>4. \A j \in 1..Len(e) : t[j] = <<CertListApart[p[j]].tag, e[j][2]>>
  BY DEF TimesApart
<1>5. Aligned(p, n, CertListRows, e, f)
  OBVIOUS
<1> HIDE DEF n, t
<1>6. Aligned(p, n, CertListApart, t, f)
  <2>1. \A j \in 1..Len(t) : p[j] \in 1..n /\ t[j][1] = CertListApart[p[j]].tag /\ f[p[j]] = t[j][2]
    <3> SUFFICES ASSUME NEW j \in 1..Len(e)
                 PROVE  p[j] \in 1..n /\ t[j][1] = CertListApart[p[j]].tag /\ f[p[j]] = t[j][2]
      BY <1>1
    <3>1. p[j] \in 1..n /\ f[p[j]] = e[j][2]
      BY <1>5 DEF Aligned
    <3> QED
      BY <1>4, <3>1
  <2>2. \A j, k \in 1..Len(t) : j < k => p[j] < p[k]
    BY <1>1, <1>5 DEF Aligned
  <2>3. \A i \in 1..n : (\A j \in 1..Len(t) : p[j] # i) => f[i] = None /\ CertListApart[i].optional
    <3> SUFFICES ASSUME NEW i \in 1..n, \A j \in 1..Len(t) : p[j] # i
                 PROVE  f[i] = None /\ CertListApart[i].optional
      OBVIOUS
    <3>1. f[i] = None /\ CertListRows[i].optional
      BY <1>1, <1>5 DEF Aligned
    <3> QED
      BY <1>2, <3>1
  <2> QED
    BY <2>1, <2>2, <2>3 DEF Aligned
<1>7. ASSUME NEW j \in 1..Len(e)
      PROVE  t[j] = IF p[j] = 5 THEN <<"nextUpdate", e[j][2]>> ELSE <<e[j][1], e[j][2]>>
  <2>1. p[j] \in 1..n /\ CertListRows[p[j]].tag = e[j][1]
    BY <1>5 DEF Aligned
  <2> QED
    BY <1>2, <1>4, <2>1
<1> QED
  BY <1>1, <1>3, <1>6, <1>7 DEF n, t

(* An element less is an optional field less, or the first of two times.   *)
LEMMA LosingATime ==
  ASSUME NEW e, Fields(CertListRows, e) # Malformed, NEW d, Fields(CertListRows, d) # Malformed,
         NEW i, Without(e, d, i)
  PROVE  \/ OneApart(7, CertListApart, Fields(CertListRows, e), Fields(CertListRows, d))
         \/ /\ i + 1 \in 1..Len(e) /\ e[i][1] = "TIME" /\ e[i + 1][1] = "TIME"
            /\ Fields(CertListRows, d)[4] = Fields(CertListRows, e)[5]
<1> DEFINE n == 7
           f == Fields(CertListRows, e)
           g == Fields(CertListRows, d)
<1>1. n \in Nat /\ Len(CertListRows) = n /\ DOMAIN CertListRows = 1..n
  BY DEF CertListRows
<1>2. /\ Len(e) \in Nat /\ Len(d) \in Nat
      /\ \E p : Aligned(p, n, CertListRows, e, f)
      /\ \E q : Aligned(q, n, CertListRows, d, g)
  <2> HIDE DEF n
  <2> QED
    BY <1>1, ReadInOrder
<1>3. PICK p : Aligned(p, n, CertListRows, e, f)
  BY <1>2
<1>4. PICK q : Aligned(q, n, CertListRows, d, g)
  BY <1>2
<1> HIDE DEF f, g
<1> DEFINE e2 == TimesApart(e, p)
           d2 == TimesApart(d, q)
<1>5. /\ Len(e2) = Len(e) /\ Aligned(p, n, CertListApart, e2, f)
      /\ \A j \in 1..Len(e) : e2[j] = IF p[j] = 5 THEN <<"nextUpdate", e[j][2]>> ELSE <<e[j][1], e[j][2]>>
  BY <1>2, <1>3, ApartIsAligned
<1>6. /\ Len(d2) = Len(d) /\ Aligned(q, n, CertListApart, d2, g)
      /\ \A j \in 1..Len(d) : d2[j] = IF q[j] = 5 THEN <<"nextUpdate", d[j][2]>> ELSE <<d[j][1], d[j][2]>>
  BY <1>2, <1>4, ApartIsAligned
<1>7. Unambiguous(n, CertListApart) /\ UnambiguousBack(n, CertListApart)
  BY <1>2, <1>3, ApartIsAligned DEF ToldApart
<1> DEFINE Second(b, j) == j - 1 \in 1..Len(b) /\ b[j - 1][1] = "TIME" /\ b[j][1] = "TIME"
<1>8. /\ \A j \in 1..Len(e) : p[j] = 5 <=> Second(e, j)
      /\ \A j, k \in 1..Len(e) : j < k /\ e[j][1] = "TIME" /\ e[k][1] = "TIME" => k = j + 1
      /\ \A j \in 1..Len(e) : p[j] = 5 => p[j - 1] = 4
  BY <1>2, <1>3, TwoTimes
<1>9. \A j \in 1..Len(d) : q[j] = 5 <=> Second(d, j)
  BY <1>2, <1>4, TwoTimes
<1>10. i \in 1..Len(e) /\ Len(d) = Len(e) - 1
  BY DEF Without
<1> HIDE DEF e2, d2, n
<1>11. CASE i + 1 \in 1..Len(e) /\ e[i][1] = "TIME" /\ e[i + 1][1] = "TIME"
  <2>1. p[i + 1] = 5 /\ p[i] = 4 /\ f[5] = e[i + 1][2]
    <3>1. p[i + 1] = 5 /\ (i + 1) - 1 = i
      BY <1>8, <1>10, <1>11
    <3>2. f[p[i + 1]] = e[i + 1][2]
      BY <1>3, <1>11 DEF Aligned
    <3> QED
      BY <1>8, <1>11, <3>1, <3>2
  <2>2. i \in 1..Len(d) /\ d[i] = e[i + 1]
    <3>1. i \in i..Len(d) /\ i \in 1..Len(d)
      BY <1>2, <1>10, <1>11
    <3> QED
      BY <3>1 DEF Without
(* No time comes before the one that is taken for the first.               *)
  <2>3. q[i] # 5
    <3> SUFFICES ASSUME Second(d, i) PROVE FALSE
      BY <1>9, <2>2
    <3>1. i - 1 \in 1..(i - 1) /\ i - 1 \in 1..Len(e) /\ i - 1 < i + 1 /\ i + 1 # (i - 1) + 1
      BY <1>2, <1>10
    <3>2. e[i - 1][1] = "TIME"
      BY <3>1 DEF Without
    <3> QED
      BY <1>8, <1>11, <3>1, <3>2
  <2>4. q[i] = 4
    <3>1. q[i] \in 1..n /\ CertListRows[q[i]].tag = "TIME"
      BY <1>4, <1>11, <2>2 DEF Aligned
    <3>2. \A k \in 1..n : CertListRows[k].tag = "TIME" => k \in {4, 5}
      BY RowIs DEF CertListRows, n
    <3> QED
      BY <2>3, <3>1, <3>2
  <2>5. g[4] = d[i][2]
    <3>1. g[q[i]] = d[i][2]
      BY <1>4, <2>2 DEF Aligned
    <3> QED
      BY <2>4, <3>1
  <2> QED
    BY <1>11, <2>1, <2>2, <2>5 DEF f, g
<1>12. CASE ~(i + 1 \in 1..Len(e) /\ e[i][1] = "TIME" /\ e[i + 1][1] = "TIME")
  <2>1. \A j \in 1..(i - 1) : d2[j] = e2[j]
    <3> SUFFICES ASSUME NEW j \in 1..(i - 1) PROVE d2[j] = e2[j]
      OBVIOUS
    <3>1. j \in 1..Len(d) /\ j \in 1..Len(e) /\ d[j] = e[j]
      BY <1>2, <1>10 DEF Without
    <3>2. j - 1 \in 1..Len(d) <=> j - 1 \in 1..Len(e)
      BY <1>2, <1>10
    <3>3. j - 1 \in 1..Len(e) => d[j - 1] = e[j - 1]
      BY <1>2, <1>10 DEF Without
    <3>4. Second(d, j) <=> Second(e, j)
      BY <3>1, <3>2, <3>3
    <3> HIDE DEF Second
    <3> QED
      BY <1>5, <1>6, <1>8, <1>9, <3>1, <3>4
  <2>2. \A j \in i..Len(d) : d2[j] = e2[j + 1]
    <3> SUFFICES ASSUME NEW j \in i..Len(d) PROVE d2[j] = e2[j + 1]
      OBVIOUS
    <3>1. j \in 1..Len(d) /\ j + 1 \in 1..Len(e) /\ (j + 1) - 1 = j /\ j \in 1..Len(e)
      BY <1>2, <1>10
    <3>2. d[j] = e[j + 1]
      BY DEF Without
    <3>3. Second(d, j) <=> Second(e, j + 1)
      <4>1. CASE j = i
        <5>1. ~Second(e, j + 1)
          BY <1>12, <3>1, <4>1
        <5>2. ~Second(d, j)
          <6> SUFFICES ASSUME Second(d, j) PROVE FALSE
            OBVIOUS
          <6>1. j - 1 \in 1..(i - 1) /\ j - 1 \in 1..Len(e) /\ j - 1 < j + 1 /\ j + 1 # (j - 1) + 1
            BY <1>2, <1>10, <4>1
          <6>2. e[j - 1][1] = "TIME" /\ e[j + 1][1] = "TIME"
            BY <3>2, <6>1 DEF Without
          <6> QED
            BY <1>8, <3>1, <6>1, <6>2
        <5> QED
          BY <5>1, <5>2
      <4>2. CASE j # i
        <5>1. j - 1 \in i..Len(d) /\ j - 1 \in 1..Len(d) /\ (j - 1) + 1 = j
          BY <1>2, <1>10, <4>2
        <5>2. d[j - 1] = e[j]
          BY <5>1 DEF Without
        <5> QED
          BY <3>1, <3>2, <5>1, <5>2
      <4> QED
        BY <4>1, <4>2
    <3> HIDE DEF Second
    <3>4. q[j] = 5 <=> p[j + 1] = 5
      BY <1>8, <1>9, <3>1, <3>3
    <3>5. d2[j] = IF q[j] = 5 THEN <<"nextUpdate", d[j][2]>> ELSE <<d[j][1], d[j][2]>>
      BY <1>6, <3>1
    <3>6. e2[j + 1] = IF p[j + 1] = 5 THEN <<"nextUpdate", e[j + 1][2]>> ELSE <<e[j + 1][1], e[j + 1][2]>>
      BY <1>5, <3>1
    <3> QED
      BY <3>2, <3>4, <3>5, <3>6
  <2>3. Without(e2, d2, i)
    BY <1>5, <1>6, <1>10, <2>1, <2>2 DEF Without
  <2>4. OneApart(n, CertListApart, f, g)
    BY <1>1, <1>2, <1>5, <1>6, <1>7, <2>3, LosingARow
  <2> QED
    BY <2>4 DEF f, g, n
<1> QED
  BY <1>11, <1>12

(* And no revocation list is read with neighbours in either order.         *)
LEMMA SwappingATime ==
  ASSUME NEW e, Fields(CertListRows, e) # Malformed, NEW d, Fields(CertListRows, d) # Malformed,
         NEW i, Swapped(e, d, i)
  PROVE  FALSE
<1> DEFINE n == 7
           f == Fields(CertListRows, e)
           g == Fields(CertListRows, d)
<1>1. n \in Nat /\ Len(CertListRows) = n /\ DOMAIN CertListRows = 1..n
  BY DEF CertListRows
<1>2. /\ Len(e) \in Nat /\ Len(d) \in Nat
      /\ \E p : Aligned(p, n, CertListRows, e, f)
      /\ \E q : Aligned(q, n, CertListRows, d, g)
  <2> HIDE DEF n
  <2> QED
    BY <1>1, ReadInOrder
<1>3. PICK p : Aligned(p, n, CertListRows, e, f)
  BY <1>2
<1>4. PICK q : Aligned(q, n, CertListRows, d, g)
  BY <1>2
<1> HIDE DEF f, g
<1> DEFINE e2 == TimesApart(e, p)
           d2 == TimesApart(d, q)
<1>5. /\ Len(e2) = Len(e) /\ Aligned(p, n, CertListApart, e2, f)
      /\ \A j \in 1..Len(e) : e2[j] = IF p[j] = 5 THEN <<"nextUpdate", e[j][2]>> ELSE <<e[j][1], e[j][2]>>
  BY <1>2, <1>3, ApartIsAligned
<1>6. /\ Len(d2) = Len(d) /\ Aligned(q, n, CertListApart, d2, g)
      /\ \A j \in 1..Len(d) : d2[j] = IF q[j] = 5 THEN <<"nextUpdate", d[j][2]>> ELSE <<d[j][1], d[j][2]>>
  BY <1>2, <1>4, ApartIsAligned
<1>7. ToldApart(n, CertListApart)
  BY <1>2, <1>3, ApartIsAligned
<1> DEFINE Second(b, j) == j - 1 \in 1..Len(b) /\ b[j - 1][1] = "TIME" /\ b[j][1] = "TIME"
           Near(b) == \A j, k \in 1..Len(b) : j < k /\ b[j][1] = "TIME" /\ b[k][1] = "TIME" => k = j + 1
<1>8. /\ \A j \in 1..Len(e) : p[j] = 5 <=> Second(e, j)
      /\ \A j \in 1..Len(d) : q[j] = 5 <=> Second(d, j)
  BY <1>2, <1>3, <1>4, TwoTimes
<1>9. Near(e) /\ Near(d)
  BY <1>2, <1>3, <1>4, TwoTimes
<1>10. /\ i \in 1..Len(e) /\ i + 1 \in 1..Len(e) /\ Len(d) = Len(e)
       /\ d[i] = e[i + 1] /\ d[i + 1] = e[i] /\ e[i][1] # e[i + 1][1]
       /\ \A j \in 1..Len(e) : j \notin {i, i + 1} => d[j] = e[j]
  BY DEF Swapped
<1> HIDE DEF e2, d2, n
(* Neither of the two is a second time, before or after.                   *)
<1>11. ~Second(e, i) /\ ~Second(e, i + 1) /\ ~Second(d, i) /\ ~Second(d, i + 1)
  <2>0. (i + 1) - 1 = i /\ i - 1 < i + 1 /\ i + 1 # (i - 1) + 1
    BY <1>2, <1>10
  <2>1. ~Second(e, i + 1) /\ ~Second(d, i + 1)
    BY <1>10, <2>0
  <2>2. i - 1 \in 1..Len(e) => d[i - 1] = e[i - 1]
    BY <1>2, <1>10
  <2>3. ~Second(e, i)
    BY <1>9, <1>10, <2>0, <2>2
  <2>4. ~Second(d, i)
    BY <1>9, <1>10, <2>0, <2>2
  <2> QED
    BY <2>1, <2>3, <2>4
<1>12. \A j \in 1..Len(e) : j \notin {i, i + 1} => (Second(d, j) <=> Second(e, j))
  <2> SUFFICES ASSUME NEW j \in 1..Len(e), j \notin {i, i + 1} PROVE Second(d, j) <=> Second(e, j)
    OBVIOUS
  <2>1. d[j] = e[j] /\ (j - 1 \in 1..Len(d) <=> j - 1 \in 1..Len(e))
    BY <1>10
  <2>2. CASE j = i + 2
    <3>1. j - 1 = i + 1 /\ i < j /\ j # i + 1
      BY <1>2, <1>10, <2>2
    <3>2. ~Second(d, j)
      BY <1>9, <1>10, <2>1, <3>1
    <3>3. ~Second(e, j)
      BY <1>9, <1>10, <2>1, <3>1
    <3> QED
      BY <3>2, <3>3
  <2>3. CASE j # i + 2
    <3>1. j - 1 \in 1..Len(e) => d[j - 1] = e[j - 1]
      BY <1>2, <1>10, <2>3
    <3> QED
      BY <2>1, <3>1
  <2> QED
    BY <2>2, <2>3
<1> HIDE DEF Second, Near
<1>13. Swapped(e2, d2, i)
  <2>1. /\ e2[i] = <<e[i][1], e[i][2]>> /\ e2[i + 1] = <<e[i + 1][1], e[i + 1][2]>>
        /\ d2[i] = <<d[i][1], d[i][2]>> /\ d2[i + 1] = <<d[i + 1][1], d[i + 1][2]>>
    BY <1>5, <1>6, <1>8, <1>10, <1>11
  <2>2. \A j \in 1..Len(e) : j \notin {i, i + 1} => d2[j] = e2[j]
    <3> SUFFICES ASSUME NEW j \in 1..Len(e), j \notin {i, i + 1} PROVE d2[j] = e2[j]
      OBVIOUS
    <3>1. q[j] = 5 <=> p[j] = 5
      BY <1>8, <1>10, <1>12
    <3>2. d2[j] = IF q[j] = 5 THEN <<"nextUpdate", d[j][2]>> ELSE <<d[j][1], d[j][2]>>
      BY <1>6, <1>10
    <3>3. e2[j] = IF p[j] = 5 THEN <<"nextUpdate", e[j][2]>> ELSE <<e[j][1], e[j][2]>>
      BY <1>5
    <3>4. d[j] = e[j]
      BY <1>10
    <3> QED
      BY <3>1, <3>2, <3>3, <3>4
  <2>3. e2[i][1] # e2[i + 1][1]
    BY <1>10, <2>1
  <2> QED
    BY <1>5, <1>6, <1>10, <2>1, <2>2, <2>3 DEF Swapped
<1> QED
  <2>1. Unambiguous(n, CertListApart) /\ UnambiguousBack(n, CertListApart)
    BY <1>7 DEF ToldApart
  <2>2. \A j, k \in 1..n : CertListApart[j].optional /\ CertListApart[k].optional
                            /\ CertListApart[j].tag = CertListApart[k].tag => j = k
    BY <1>7 DEF ToldApart
  <2>3. Len(e2) \in Nat
    BY <1>2, <1>5
  <2> QED
    BY <1>1, <1>5, <1>6, <1>13, <2>1, <2>2, <2>3, SwappingRows

(* A revocation list that was altered.                                     *)
LEMMA CertListAltered ==
  ASSUME NEW what, what # "spell", NEW old, NEW new, AlteredTo(what, old, new),
         DecodeCertList(old) # Malformed, DecodeCertList(new) # Malformed
  PROVE  \/ DecodeCertList(new).thisUpdate = DecodeCertList(old).nextUpdate
         \/ what # "swap" /\ AtMostOneAppears(Normal("certList", DecodeCertList(new)),
                                             Normal("certList", DecodeCertList(old)))
<1> DEFINE n == 7
           rows == CertListRows
           apart == CertListApart
           names == <<"version", "signature", "issuer", "thisUpdate", "nextUpdate", "revoked", "crlExtensions">>
           Revoked(b) == IF DecodeRevokedList(b) = <<>> THEN None ELSE DecodeRevokedList(b)
           List(f, r) == [version       |-> f[1],
                          signature     |-> Within("Algorithm", f[2]),
                          issuer        |-> DecodeName(f[3]),
                          thisUpdate    |-> f[4],
                          nextUpdate    |-> f[5],
                          revoked       |-> r,
                          crlExtensions |-> DecodeExtensions(Inner("SEQUENCE", f[7]))]
           Value(f) == List(f, Revoked(f[6]))
<1>1. ASSUME NEW e, DecodeCertList(e) # Malformed
      PROVE  LET f == Fields(rows, e)
             IN  /\ f # Malformed
                 /\ DecodeCertList(e) = List(f, DecodeRevokedList(f[6]))
                 /\ Normal("certList", DecodeCertList(e)) = Value(f)
  <2> DEFINE f == Fields(rows, e)
             r == DecodeRevokedList(f[6])
  <2>1. f # Malformed /\ DecodeCertList(e) = List(f, DecodeRevokedList(f[6]))
    BY <1>1 DEF DecodeCertList, Obeying, Decoded, Made, Sound, CertListRows
  <2>2. Normal("certList", List(f, r)) = List(f, IF r = <<>> THEN None ELSE r)
    <3> HIDE DEF f, r
    <3> QED
      BY DEF Normal
  <2> QED
    BY <2>1, <2>2
<1> DEFINE f == Fields(rows, new)
           g == Fields(rows, old)
<1>2. /\ f # Malformed /\ DecodeCertList(new) = List(f, DecodeRevokedList(f[6]))
      /\ Normal("certList", DecodeCertList(new)) = Value(f)
  BY <1>1
<1>3. /\ g # Malformed /\ DecodeCertList(old) = List(g, DecodeRevokedList(g[6]))
      /\ Normal("certList", DecodeCertList(old)) = Value(g)
  BY <1>1
<1>4. n \in Nat /\ Len(rows) = n /\ DOMAIN rows = 1..n
  BY DEF CertListRows
<1>5. Len(new) \in Nat /\ \E p : Aligned(p, n, rows, new, f)
  <2> HIDE DEF n, rows
  <2> QED
    BY <1>2, <1>4, ReadInOrder
<1>6. PICK i \in Nat : \/ what = "drop" /\ Without(old, new, i)
                       \/ what = "repeat" /\ Without(new, old, i) /\ Without(new, old, i + 1)
                       \/ what = "swap" /\ Swapped(old, new, i)
  BY DEF AlteredTo
<1>7. what # "swap"
  BY <1>2, <1>3, <1>6, SwappingATime
<1>8. OneApart(n, apart, f, g) \/ f[4] = g[5]
  <2>1. CASE what = "drop" /\ Without(old, new, i)
    <3>1. OneApart(n, apart, g, f) \/ f[4] = g[5]
      BY <1>2, <1>3, <2>1, LosingATime
    <3> QED
      BY <3>1 DEF OneApart
(* Either of two equal neighbours is the new one.                          *)
  <2>2. CASE what = "repeat" /\ Without(new, old, i) /\ Without(new, old, i + 1)
    <3> DEFINE Twice(k) == k + 1 \in 1..Len(new) /\ new[k][1] = "TIME" /\ new[k + 1][1] = "TIME"
    <3>1. OneApart(n, apart, f, g) \/ Twice(i)
      BY <1>2, <1>3, <2>2, LosingATime
    <3>2. OneApart(n, apart, f, g) \/ Twice(i + 1)
      BY <1>2, <1>3, <2>2, LosingATime
    <3>3. ~(Twice(i) /\ Twice(i + 1))
      <4> SUFFICES ASSUME Twice(i), Twice(i + 1) PROVE FALSE
        OBVIOUS
      <4>1. \A j, k \in 1..Len(new) : j < k /\ new[j][1] = "TIME" /\ new[k][1] = "TIME" => k = j + 1
        BY <1>5, TwoTimes
      <4>2. i \in 1..Len(new) /\ (i + 1) + 1 \in 1..Len(new) /\ i < (i + 1) + 1 /\ (i + 1) + 1 # i + 1
        BY <2>2 DEF Without
      <4> QED
        BY <4>1, <4>2
    <3> QED
      BY <3>1, <3>2, <3>3
  <2> QED
    BY <1>6, <1>7, <2>1, <2>2
<1>9. CASE f[4] = g[5]
  BY <1>2, <1>3, <1>9
<1>10. CASE OneApart(n, apart, f, g)
  <2>1. \A k \in 1..n : apart[k].optional <=> k \in {1, 5, 6, 7}
    BY RowIs DEF CertListApart
  <2> DEFINE v == Value(f)
             w == Value(g)
  <2>2. /\ DOMAIN w = DOMAIN v /\ (\A k \in 1..n : names[k] \in DOMAIN v)
        /\ \A x \in DOMAIN v : (\E k \in 1..n : names[k] = x) \/ v[x] = w[x]
    <3> HIDE DEF f, g
    <3> QED OBVIOUS
  <2>3. \A k \in 1..n : f[k] = g[k] => v[names[k]] = w[names[k]]
    <3> HIDE DEF f, g, Revoked
    <3> QED OBVIOUS
  <2>4. Revoked(None) = None /\ DecodeExtensions(Inner("SEQUENCE", None)) = None
    BY DEF DecodeRevokedList, DecodeExtensions, Inner, Optional
  <2>5. /\ \A k \in 1..n : apart[k].optional /\ f[k] = None => v[names[k]] = None
        /\ \A k \in 1..n : apart[k].optional /\ g[k] = None => w[names[k]] = None
    <3> HIDE DEF f, g, Revoked, apart
    <3> QED
      BY <2>1, <2>4
  <2>6. AtMostOneAppears(v, w)
    <3>1. n \in Nat /\ DOMAIN w = DOMAIN v /\ (\A k \in 1..n : names[k] \in DOMAIN v)
      BY <2>2
    <3>2. \A x \in DOMAIN v : (\E k \in 1..n : names[k] = x) \/ v[x] = w[x]
      BY <2>2
    <3> HIDE DEF apart, names, n, v, w, f, g
    <3> QED
      BY <1>10, <2>3, <2>5, <3>1, <3>2, OneFieldAppears
  <2> QED
    BY <1>2, <1>3, <1>7, <2>6
<1> QED
  BY <1>8, <1>9, <1>10

-----------------------------------------------------------------------------
(* Documents as they were sent.                                            *)

(* What an encoder writes is a document.                                   *)
LEMMA EncodedIsDocument ==
  ASSUME NEW k \in Kinds, k # "certList", NEW v
  PROVE  IsDocument(k, Encode(k, v))
<1>1. CASE k = "certificate"
  <2> DEFINE body == EncodeTbs(v.tbs)
             e == EncodeCertificate(v)
  <2>1. IsVec(body)
    BY EncodedIsVec DEF EncodeTbs
  <2>2. IsFunction(e) /\ DOMAIN e = 1..3 /\ e[1][2] = body
    BY DEF EncodeCertificate, IsFunction
  <2> HIDE DEF body, e
  <2>3. IsVec(e)
    BY <2>2, SeqIsVec
  <2> QED
    BY <1>1, <2>1, <2>2, <2>3 DEF IsDocument, Encode, Body, e
<1>2. CASE k = "request"
  <2> DEFINE body == EncodeRequestInfo(v.info)
             e == EncodeRequest(v)
  <2>1. IsFunction(body) /\ DOMAIN body = 1..4
    BY DEF EncodeRequestInfo, IsFunction
  <2>2. IsFunction(e) /\ DOMAIN e = 1..3 /\ e[1][2] = body
    BY DEF EncodeRequest, IsFunction
  <2> HIDE DEF body, e
  <2>3. IsVec(e) /\ IsVec(body)
    BY <2>1, <2>2, SeqIsVec
  <2> QED
    BY <1>2, <2>2, <2>3 DEF IsDocument, Encode, Body, e
<1>3. CASE k = "signedData"
  <2> DEFINE body == Present(<<
                <<"INTEGER", v.version>>,
                <<"SET", EncodeOpaqueList("Algorithm", v.digestAlgorithms)>>,
                <<"SEQUENCE", EncodeEncapsulated(v.contentInfo)>>,
                <<"0", EncodeCertificateSet(v.certificates)>>,
                <<"SET", EncodeOpaqueList("SignerInfo", v.signerInfos)>> >>)
             e == EncodeSignedData(v)
  <2>1. IsVec(body)
    BY EncodedIsVec
  <2>2. IsFunction(e) /\ DOMAIN e = 1..2 /\ e[2][2][1][2] = body
    BY DEF EncodeSignedData, IsFunction
  <2> HIDE DEF body, e
  <2>3. IsVec(e)
    BY <2>2, SeqIsVec
  <2> QED
    BY <1>3, <2>1, <2>2, <2>3 DEF IsDocument, Encode, Body, e
<1>4. CASE k \in {"contentInfo", "digestInfo"}
  <2> DEFINE e == Encode(k, v)
  <2>1. IsFunction(e) /\ DOMAIN e = 1..2
    BY <1>4 DEF Encode, EncodeContentInfo, EncodeDigestInfo, IsFunction
  <2> HIDE DEF e
  <2>2. IsVec(e)
    BY <2>1, SeqIsVec
  <2> QED
    BY <1>4, <2>2 DEF IsDocument, Body, e
<1>5. CASE k \in {"signerInfo", "timeStampReq", "timeStampResp", "tstInfo", "privateKey", "ecPrivateKey"}
  <2>1. IsVec(Encode(k, v))
    <3>1. k = "signerInfo" => IsVec(Encode(k, v))
      BY EncodedIsVec DEF Encode, EncodeSignerInfo
    <3>2. k = "timeStampReq" => IsVec(Encode(k, v))
      BY EncodedIsVec DEF Encode, EncodeTimeStampReq
    <3>3. k = "timeStampResp" => IsVec(Encode(k, v))
      BY EncodedIsVec DEF Encode, EncodeTimeStampResp
    <3>4. k = "tstInfo" => IsVec(Encode(k, v))
      BY EncodedIsVec DEF Encode, EncodeTstInfo
    <3>5. k = "privateKey" => IsVec(Encode(k, v))
      BY EncodedIsVec DEF Encode, EncodeOneAsymmetricKey
    <3>6. k = "ecPrivateKey" => IsVec(Encode(k, v))
      BY EncodedIsVec DEF Encode, EncodeEcPrivateKey
    <3> QED
      BY <1>5, <3>1, <3>2, <3>3, <3>4, <3>5, <3>6
  <2> QED
    BY <1>5, <2>1 DEF IsDocument, Body
<1>6. CASE k = "rsaPrivateKey"
  <2> DEFINE rows == [i \in 1..9 |-> <<"INTEGER", v.integers[i]>>]
             last == <<"SEQUENCE", EncodePrimes(v.otherPrimeInfos)>>
             S == {rows[i] : i \in 1..9} \cup {last}
  <2>1. rows \in Seq(S) /\ <<last>> \in Seq(S)
    <3> DEFINE n == 9
    <3>1. rows \in [1..n -> S] /\ last \in S /\ n \in Nat
      OBVIOUS
    <3> HIDE DEF rows, last, S, n
    <3>2. rows \in Seq(S)
      BY <3>1
    <3>3. <<last>> \in Seq(S)
      BY <3>1
    <3> QED
      BY <3>2, <3>3
  <2>2. Len(rows \o <<last>>) \in Nat
    <3> HIDE DEF rows, last, S
    <3> QED
      BY <2>1
  <2>3. IsVec(EncodeRsaPrivateKey(v))
    BY <2>2, EncodedIsVec DEF EncodeRsaPrivateKey
  <2> QED
    BY <1>6, <2>3 DEF IsDocument, Body, Encode
<1> QED
  BY <1>1, <1>2, <1>3, <1>4, <1>5, <1>6 DEF Kinds

(* A document with another body is one, and has that body.                 *)
LEMMA WithBodyIsDocument ==
  ASSUME NEW k, NEW e, IsDocument(k, e), NEW body, IsVec(body)
  PROVE  IsDocument(k, WithBody(k, e, body)) /\ Body(k, WithBody(k, e, body)) = body
<1>1. PICK n \in Nat : IsFunction(e) /\ DOMAIN e = 1..n
  BY VecIsSeq DEF IsDocument, IsVec
<1>2. CASE k \in {"certificate", "request"}
  <2> DEFINE d == [e EXCEPT ![1] = <<"SEQUENCE", body>>]
  <2>1. IsFunction(d) /\ DOMAIN d = 1..n
    BY <1>1 DEF IsFunction
  <2>2. 1 \in DOMAIN e /\ d[1][2] = body
    BY <1>2 DEF IsDocument
  <2> HIDE DEF d
  <2>3. IsVec(d)
    BY <2>1, SeqIsVec
  <2> QED
    BY <1>1, <1>2, <2>1, <2>2, <2>3 DEF IsDocument, Body, WithBody, d
<1>3. CASE k = "signedData"
  <2> DEFINE d == [e EXCEPT ![2] = <<"0", << <<"SEQUENCE", body>> >> >>]
  <2>1. IsFunction(d) /\ DOMAIN d = 1..n
    BY <1>1 DEF IsFunction
  <2>2. 2 \in DOMAIN e /\ d[2][2][1][2] = body
    BY <1>3 DEF IsDocument
  <2> HIDE DEF d
  <2>3. IsVec(d)
    BY <2>1, SeqIsVec
  <2> QED
    BY <1>1, <1>3, <2>1, <2>2, <2>3 DEF IsDocument, Body, WithBody, d
<1>4. CASE k \notin {"certificate", "request", "signedData"}
  BY <1>4 DEF IsDocument, Body, WithBody
<1> QED
  BY <1>2, <1>3, <1>4

(* The part of a list before or after a place.                             *)
LEMMA PartOfList ==
  ASSUME NEW T, NEW s \in Seq(T), NEW a \in 1..(Len(s) + 1), NEW b \in 0..Len(s), a <= b + 1
  PROVE  /\ SubSeq(s, a, b) \in Seq(T) /\ Len(SubSeq(s, a, b)) = b - a + 1
         /\ \A j \in 1..(b - a + 1) : SubSeq(s, a, b)[j] = s[j + a - 1]
<1>1. Len(s) \in Nat /\ \A j \in 1..Len(s) : s[j] \in T
  OBVIOUS
<1>2. a \in Int /\ b \in Int /\ \A j \in a..b : s[j] \in T
  BY <1>1
<1>3. /\ SubSeq(s, a, b) \in Seq(T)
      /\ Len(SubSeq(s, a, b)) = IF a <= b THEN b - a + 1 ELSE 0
      /\ \A j \in 1..(b - a + 1) : SubSeq(s, a, b)[j] = s[a + j - 1]
  BY <1>2, SubSeqProperties
<1>4. Len(SubSeq(s, a, b)) = b - a + 1
  BY <1>1, <1>3
<1>5. \A j \in 1..(b - a + 1) : a + j - 1 = j + a - 1
  BY <1>1
<1> QED
  BY <1>3, <1>4, <1>5

(* What is done to a list of elements is an alteration.                    *)
LEMMA DoneIsAltered ==
  ASSUME NEW s, IsVec(s), NEW i \in DOMAIN s
  PROVE  /\ AlteredTo("drop", s, RemoveAt(s, i))
         /\ AlteredTo("repeat", s, InsertAt(s, i, s[i]))
         /\ \A e : AlteredTo("spell", s, InsertAt(s, i, e))
         /\ i < Len(s) /\ s[i][1] # s[i + 1][1] =>
              AlteredTo("swap", s, [s EXCEPT ![i] = s[i + 1], ![i + 1] = s[i]])
<1> DEFINE n == Len(s)
           S(e) == {s[j] : j \in DOMAIN s} \cup {e}
<1>1. n \in Nat /\ DOMAIN s = 1..n /\ s \in Seq({s[j] : j \in DOMAIN s})
  BY VecIsSeq
<1>2. i \in 1..n /\ i \in Nat /\ i + 1 \in Nat
  BY <1>1
<1>3. Without(s, RemoveAt(s, i), i)
  <2> DEFINE T == {s[j] : j \in DOMAIN s}
             a == SubSeq(s, 1, i - 1)
             b == SubSeq(s, i + 1, n)
  <2> HIDE DEF T
  <2>1. s \in Seq(T)
    BY <1>1 DEF T
  <2>2. /\ a \in Seq(T) /\ Len(a) = i - 1 /\ \A j \in 1..(i - 1) : a[j] = s[j]
        /\ b \in Seq(T) /\ Len(b) = n - i /\ \A j \in 1..(n - i) : b[j] = s[j + i]
    <3>1. /\ 1 \in 1..(n + 1) /\ i - 1 \in 0..n /\ 1 <= (i - 1) + 1 /\ (i - 1) - 1 + 1 = i - 1
          /\ i + 1 \in 1..(n + 1) /\ n \in 0..n /\ i + 1 <= n + 1 /\ n - (i + 1) + 1 = n - i
      BY <1>1, <1>2
    <3>2. a \in Seq(T) /\ Len(a) = (i - 1) - 1 + 1 /\ \A j \in 1..((i - 1) - 1 + 1) : a[j] = s[j + 1 - 1]
      BY <2>1, <3>1, PartOfList
    <3>3. b \in Seq(T) /\ Len(b) = n - (i + 1) + 1 /\ \A j \in 1..(n - (i + 1) + 1) : b[j] = s[j + (i + 1) - 1]
      BY <2>1, <3>1, PartOfList
    <3> HIDE DEF a, b, n
    <3>4. \A j \in 1..(i - 1) : a[j] = s[j]
      <4> SUFFICES ASSUME NEW j \in 1..(i - 1) PROVE a[j] = s[j]
        OBVIOUS
      <4>1. j \in 1..((i - 1) - 1 + 1) /\ j + 1 - 1 = j
        BY <1>2
      <4> QED
        BY <3>2, <4>1
    <3>5. \A j \in 1..(n - i) : b[j] = s[j + i]
      <4> SUFFICES ASSUME NEW j \in 1..(n - i) PROVE b[j] = s[j + i]
        OBVIOUS
      <4>1. j \in 1..(n - (i + 1) + 1) /\ j + (i + 1) - 1 = j + i
        BY <1>1, <1>2
      <4> QED
        BY <3>3, <4>1
    <3> QED
      BY <3>1, <3>2, <3>3, <3>4, <3>5
  <2>3. RemoveAt(s, i) = a \o b
    BY DEF RemoveAt
  <2> HIDE DEF a, b
  <2>4. /\ Len(a \o b) = n - 1
        /\ \A j \in 1..(i - 1) : (a \o b)[j] = a[j]
        /\ \A j \in i..(n - 1) : (a \o b)[j] = b[j - (i - 1)]
    <3>1. /\ Len(a \o b) = Len(a) + Len(b)
          /\ \A j \in 1..(Len(a) + Len(b)) : (a \o b)[j] = IF j <= Len(a) THEN a[j] ELSE b[j - Len(a)]
      BY <2>2, ConcatProperties
    <3>2. Len(a) + Len(b) = n - 1
      BY <1>1, <1>2, <2>2
    <3>3. \A j \in 1..(i - 1) : j \in 1..(n - 1) /\ j <= i - 1
      BY <1>1, <1>2
    <3>4. \A j \in i..(n - 1) : j \in 1..(n - 1) /\ ~(j <= i - 1)
      BY <1>1, <1>2
    <3>5. \A j \in 1..(n - 1) : (a \o b)[j] = IF j <= i - 1 THEN a[j] ELSE b[j - (i - 1)]
      BY <2>2, <3>1, <3>2
    <3> QED
      BY <3>1, <3>2, <3>3, <3>4, <3>5
  <2>5. \A j \in i..(n - 1) : b[j - (i - 1)] = s[j + 1]
    <3> SUFFICES ASSUME NEW j \in i..(n - 1) PROVE b[j - (i - 1)] = s[j + 1]
      OBVIOUS
    <3>1. j - (i - 1) \in 1..(n - i) /\ (j - (i - 1)) + i = j + 1
      BY <1>1, <1>2
    <3> QED
      BY <2>2, <3>1
  <2> QED
    BY <1>1, <1>2, <2>2, <2>3, <2>4, <2>5 DEF Without
<1>4. ASSUME NEW e
      PROVE  /\ Without(InsertAt(s, i, e), s, i)
             /\ e = s[i] => Without(InsertAt(s, i, e), s, i + 1)
  <2> DEFINE T == {s[j] : j \in DOMAIN s} \cup {e}
             a == SubSeq(s, 1, i - 1)
             b == SubSeq(s, i, n)
             t == a \o <<e>> \o b
  <2>1. s \in Seq(T) /\ e \in T
    BY <1>1
  <2> HIDE DEF T
  <2>2. /\ a \in Seq(T) /\ Len(a) = i - 1 /\ \A j \in 1..(i - 1) : a[j] = s[j]
        /\ b \in Seq(T) /\ Len(b) = n - i + 1 /\ \A j \in 1..(n - i + 1) : b[j] = s[j + i - 1]
    <3>1. /\ 1 \in 1..(n + 1) /\ i - 1 \in 0..n /\ 1 <= (i - 1) + 1 /\ (i - 1) - 1 + 1 = i - 1
          /\ i \in 1..(n + 1) /\ n \in 0..n /\ i <= n + 1
      BY <1>1, <1>2
    <3>2. a \in Seq(T) /\ Len(a) = (i - 1) - 1 + 1 /\ \A j \in 1..((i - 1) - 1 + 1) : a[j] = s[j + 1 - 1]
      BY <2>1, <3>1, PartOfList
    <3>3. b \in Seq(T) /\ Len(b) = n - i + 1 /\ \A j \in 1..(n - i + 1) : b[j] = s[j + i - 1]
      BY <2>1, <3>1, PartOfList
    <3>4. \A j \in Nat : j + 1 - 1 = j
      OBVIOUS
    <3> HIDE DEF a, b, n
    <3> QED
      BY <3>1, <3>2, <3>3, <3>4
  <2>3. InsertAt(s, i, e) = t
    BY DEF InsertAt
  <2> HIDE DEF a, b
  <2>4. /\ Len(t) = n + 1
        /\ \A j \in 1..(i - 1) : t[j] = a[j]
        /\ t[i] = e
        /\ \A j \in (i + 1)..(n + 1) : t[j] = b[j - i]
    <3> DEFINE c == a \o <<e>>
    <3>1. <<e>> \in Seq(T) /\ Len(<<e>>) = 1 /\ <<e>>[1] = e
      BY <2>1
    <3>2. /\ c \in Seq(T) /\ Len(c) = Len(a) + 1
          /\ \A j \in 1..(Len(a) + 1) : c[j] = IF j <= Len(a) THEN a[j] ELSE <<e>>[j - Len(a)]
      BY <2>2, <3>1, ConcatProperties
    <3>3. t = c \o b
      OBVIOUS
    <3> HIDE DEF c, t
    <3>4. /\ Len(t) = Len(c) + Len(b)
          /\ \A j \in 1..(Len(c) + Len(b)) : t[j] = IF j <= Len(c) THEN c[j] ELSE b[j - Len(c)]
      <4>1. c \in Seq(T) /\ b \in Seq(T)
        BY <2>2, <3>2
      <4>2. /\ Len(c \o b) = Len(c) + Len(b)
            /\ \A j \in 1..(Len(c) + Len(b)) : (c \o b)[j] = IF j <= Len(c) THEN c[j] ELSE b[j - Len(c)]
        BY <4>1, ConcatProperties
      <4> QED
        BY <3>3, <4>2
    <3>5. Len(c) = i /\ Len(c) + Len(b) = n + 1 /\ i - (i - 1) = 1
      BY <1>1, <1>2, <2>2, <3>2
    <3>6. \A j \in 1..i : c[j] = IF j <= i - 1 THEN a[j] ELSE e
      <4> SUFFICES ASSUME NEW j \in 1..i PROVE c[j] = IF j <= i - 1 THEN a[j] ELSE e
        OBVIOUS
      <4>1. j \in 1..(Len(a) + 1) /\ Len(a) = i - 1
        BY <1>1, <1>2, <2>2
      <4>3. c[j] = IF j <= Len(a) THEN a[j] ELSE <<e>>[j - Len(a)]
        BY <3>2, <4>1
      <4>2. ~(j <= i - 1) => j - (i - 1) = 1
        BY <1>2
      <4> QED
        BY <3>1, <4>1, <4>2, <4>3
    <3>7. \A j \in 1..(n + 1) : t[j] = IF j <= i THEN c[j] ELSE b[j - i]
      BY <3>4, <3>5
    <3>8. /\ \A j \in 1..(i - 1) : j \in 1..(n + 1) /\ j <= i /\ j \in 1..i /\ j <= i - 1
          /\ i \in 1..(n + 1) /\ i <= i /\ i \in 1..i /\ ~(i <= i - 1)
          /\ \A j \in (i + 1)..(n + 1) : j \in 1..(n + 1) /\ ~(j <= i)
      BY <1>1, <1>2
    <3>9. \A j \in 1..(i - 1) : t[j] = a[j]
      BY <3>6, <3>7, <3>8
    <3>10. t[i] = e
      BY <3>6, <3>7, <3>8
    <3>11. \A j \in (i + 1)..(n + 1) : t[j] = b[j - i]
      BY <3>7, <3>8
    <3>12. Len(t) = n + 1
      BY <3>4, <3>5
    <3> QED
      BY <3>9, <3>10, <3>11, <3>12
  <2> HIDE DEF t
  <2>5. \A j \in i..n : t[j + 1] = s[j]
    <3> SUFFICES ASSUME NEW j \in i..n PROVE t[j + 1] = s[j]
      OBVIOUS
    <3>1. j + 1 \in (i + 1)..(n + 1) /\ (j + 1) - i \in 1..(n - i + 1) /\ ((j + 1) - i) + i - 1 = j
      BY <1>1, <1>2
    <3> QED
      BY <2>2, <2>4, <3>1
  <2>6. \A j \in 1..(i - 1) : s[j] = t[j]
    BY <2>2, <2>4
  <2>7. Without(t, s, i)
    BY <1>1, <1>2, <2>4, <2>5, <2>6 DEF Without
  <2>8. e = s[i] => Without(t, s, i + 1)
    <3> SUFFICES ASSUME e = s[i] PROVE Without(t, s, i + 1)
      OBVIOUS
    <3>1. i + 1 \in 1..Len(t) /\ Len(s) = Len(t) - 1
      BY <1>1, <1>2, <2>4
    <3>2. \A j \in 1..((i + 1) - 1) : s[j] = t[j]
      BY <1>1, <1>2, <2>4, <2>6
    <3>3. \A j \in (i + 1)..Len(s) : s[j] = t[j + 1]
      BY <1>1, <1>2, <2>5
    <3> QED
      BY <3>1, <3>2, <3>3 DEF Without
  <2> QED
    BY <2>3, <2>7, <2>8
<1>5. ASSUME i < n, s[i][1] # s[i + 1][1]
      PROVE  Swapped(s, [s EXCEPT ![i] = s[i + 1], ![i + 1] = s[i]], i)
  <2> DEFINE t == [s EXCEPT ![i] = s[i + 1], ![i + 1] = s[i]]
  <2>1. IsFunction(t) /\ DOMAIN t = 1..n
    BY <1>1 DEF IsFunction
  <2>2. i + 1 \in 1..n
    BY <1>1, <1>2, <1>5
  <2>3. t[i] = s[i + 1] /\ t[i + 1] = s[i] /\ \A j \in 1..n : j \notin {i, i + 1} => t[j] = s[j]
    BY <1>1, <1>2, <2>2
  <2> HIDE DEF t
  <2>4. IsVec(t)
    BY <1>1, <2>1, SeqIsVec
  <2>5. Len(t) \in Nat /\ DOMAIN t = 1..Len(t)
    BY <2>4, VecIsSeq
  <2>6. Len(t) = n
    BY <1>1, <2>1, <2>5
  <2>7. Swapped(s, t, i)
    BY <1>2, <1>5, <2>2, <2>3, <2>6 DEF Swapped
  <2> QED
    BY <2>7 DEF t
<1> QED
  BY <1>2, <1>3, <1>4, <1>5 DEF AlteredTo

-----------------------------------------------------------------------------
(* What happens to a document on its way.                                  *)

IsWire(d) == d = [form |-> d.form, elements |-> d.elements] /\ IsDocument(kind, d.elements)

(* A document is what was sent, or differs from it by one alteration of    *)
(* the elements of its body.                                               *)
AlteredOnce ==
  damage # <<>> =>
    /\ Len(damage) = 1
    /\ damage[1] = "spell" => kind # "certList"
    /\ AlteredTo(damage[1], Body(kind, sent.elements), Body(kind, wire.elements))
    /\ wire = [form |-> sent.form, elements |-> WithBody(kind, sent.elements, Body(kind, wire.elements))]

HistoryInv ==
  /\ kind \in DOMAIN Written
  /\ wire = None => damage = <<>>
  /\ wire # None => IsWire(wire) /\ IsWire(sent)
  /\ wire # None /\ damage = <<>> => wire = sent
  /\ AlteredOnce

(* At first there is no document.                                          *)
LEMMA InitHistory == Init => HistoryInv
BY DEF Init, HistoryInv, AlteredOnce

(* A document that was just sent is as it was sent.                        *)
LEMMA JustSent ==
  ASSUME HistoryInv, kind' = kind, wire' # None, sent' = wire', damage' = <<>>, IsWire(wire')
  PROVE  HistoryInv'
BY DEF HistoryInv, AlteredOnce, IsWire

(* What a value is written as is a document.                               *)
LEMMA BytesAreWire ==
  ASSUME Atoms, NEW v, kind \in Kinds, kind # "certList"
  PROVE  IsWire(Bytes(kind, v)) /\ Bytes(kind, v) # None
<1> DEFINE d == Bytes(kind, v)
<1>1. d = [form |-> d.form, elements |-> d.elements] /\ d.elements = Encode(kind, v)
  BY DEF Bytes
<1>2. IsDocument(kind, Encode(kind, v))
  BY EncodedIsDocument
<1>3. d # None
  BY RecordIsThere DEF Bytes, Required
<1> QED
  BY <1>1, <1>2, <1>3 DEF IsWire

(* A document is written, received or signed.                              *)
LEMMA SentKeepsHistory ==
  ASSUME Atoms, HistoryInv, Write \/ Receive \/ Issue
  PROVE  HistoryInv'
<1>1. kind \in Kinds /\ kind' = kind /\ (wire = None => damage = <<>>)
  BY DocumentsAssumption DEF HistoryInv, Write, Receive, Issue
<1>2. CASE Write
  <2>1. PICK v : Encodable(kind, "ber", v) /\ wire' = Bytes(kind, v)
    BY <1>2 DEF Write
  <2>2. IsWire(Bytes(kind, v)) /\ Bytes(kind, v) # None
    BY <1>1, <2>1, BytesAreWire DEF Encodable
  <2>3. sent' = wire' /\ damage' = <<>>
    BY <1>1, <1>2 DEF Write
  <2>4. IsWire(wire') /\ wire' # None
    BY <2>1, <2>2
  <2> QED
    BY <1>1, <2>3, <2>4, JustSent
<1>3. CASE Receive
  <2>1. sent' = wire' /\ damage' = <<>>
    BY <1>1, <1>3 DEF Receive
  <2>2. PICK f, e : wire' = [form |-> f, elements |-> e] /\ IsDocument(kind, e)
    <3>1. CASE \E e \in Foreign[kind], form \in {"der", "ber"} : wire' = [form |-> form, elements |-> e]
      BY <3>1, ForeignAssumption DEF HistoryInv
    <3>2. CASE \E v \in Written[kind] :
                 Encodable(kind, "ber", v) /\ wire' = [form |-> "ber", elements |-> Encode(kind, v)]
      <4>1. PICK v : Encodable(kind, "ber", v) /\ wire' = [form |-> "ber", elements |-> Encode(kind, v)]
        BY <3>2
      <4>2. IsDocument(kind, Encode(kind, v))
        BY <1>1, <4>1, EncodedIsDocument DEF Encodable
      <4> QED
        BY <4>1, <4>2
    <3> QED
      BY <1>3, <3>1, <3>2 DEF Receive
  <2>3. wire' # None
    BY <2>2, RecordIsThere DEF Required
  <2>4. IsWire(wire')
    BY <2>2 DEF IsWire
  <2> QED
    BY <1>1, <2>1, <2>3, <2>4, JustSent
<1>4. CASE Issue
  <2>1. wire # None /\ sent' = wire' /\ wire' = wire /\ damage' = <<>>
    BY <1>4 DEF Issue
  <2>2. IsWire(wire')
    BY <2>1 DEF HistoryInv
  <2> QED
    BY <1>1, <2>1, <2>2, JustSent
<1> QED
  BY <1>2, <1>3, <1>4

(* An element is altered on the way.                                       *)
LEMMA AlterKeepsHistory ==
  ASSUME Atoms, HistoryInv, Alter
  PROVE  HistoryInv'
<1> DEFINE old == Body(kind, wire.elements)
<1>1. wire # None /\ damage = <<>> /\ wire = sent /\ IsWire(wire)
  BY DEF Alter, HistoryInv
<1>2. IsVec(old) /\ IsDocument(kind, wire.elements)
  BY <1>1 DEF IsWire, IsDocument
<1>3. PICK new, what : /\ Altered(what, new) /\ AlteredTo(what, old, new) /\ IsVec(new)
                       /\ what = "spell" => kind # "certList"
  <2> HIDE DEF old
  <2>1. PICK i \in DOMAIN old :
           \/ Altered("drop", RemoveAt(old, i))
           \/ Altered("repeat", InsertAt(old, i, old[i]))
           \/ \E e \in SpelledOut[kind] : Altered("spell", InsertAt(old, i, e))
           \/ /\ i < Len(old)
              /\ old[i][1] # old[i + 1][1]
              /\ Altered("swap", [old EXCEPT ![i] = old[i + 1], ![i + 1] = old[i]])
    BY DEF Alter, old
  <2>2. /\ IsVec(RemoveAt(old, i)) /\ IsVec([old EXCEPT ![i] = old[i + 1], ![i + 1] = old[i]])
        /\ \A e : IsVec(InsertAt(old, i, e))
    BY <1>2, AlteredIsVec
  <2>3. /\ AlteredTo("drop", old, RemoveAt(old, i))
        /\ AlteredTo("repeat", old, InsertAt(old, i, old[i]))
        /\ \A e : AlteredTo("spell", old, InsertAt(old, i, e))
        /\ i < Len(old) /\ old[i][1] # old[i + 1][1] =>
             AlteredTo("swap", old, [old EXCEPT ![i] = old[i + 1], ![i + 1] = old[i]])
    BY <1>2, DoneIsAltered
  <2>4. SpelledOut[kind] # {} => kind # "certList"
    BY ForeignAssumption DEF HistoryInv
  <2>5. CASE Altered("drop", RemoveAt(old, i))
    BY <2>2, <2>3, <2>5
  <2>6. CASE Altered("repeat", InsertAt(old, i, old[i]))
    BY <2>2, <2>3, <2>6
  <2>7. ASSUME NEW e \in SpelledOut[kind], Altered("spell", InsertAt(old, i, e))
        PROVE  \E new, what : /\ Altered(what, new) /\ AlteredTo(what, old, new) /\ IsVec(new)
                              /\ what = "spell" => kind # "certList"
    BY <2>2, <2>3, <2>4, <2>7
  <2>8. CASE /\ i < Len(old)
             /\ old[i][1] # old[i + 1][1]
             /\ Altered("swap", [old EXCEPT ![i] = old[i + 1], ![i + 1] = old[i]])
    BY <2>2, <2>3, <2>8
  <2> QED
    BY <2>1, <2>5, <2>6, <2>7, <2>8
<1>4. /\ wire' = [wire EXCEPT !.elements = WithBody(kind, wire.elements, new)]
      /\ damage' = Append(damage, what)
      /\ UNCHANGED <<kind, sent>>
  BY <1>3 DEF Altered
<1>5. damage' # <<>> /\ Len(damage') = 1 /\ damage'[1] = what
  BY <1>1, <1>4
<1>6. /\ IsDocument(kind, WithBody(kind, wire.elements, new))
      /\ Body(kind, WithBody(kind, wire.elements, new)) = new
  BY <1>2, <1>3, WithBodyIsDocument
<1> HIDE DEF old
<1>7. wire' = [form |-> wire.form, elements |-> WithBody(kind, wire.elements, new)]
  BY <1>1, <1>4 DEF IsWire
<1>8. IsWire(wire)' /\ IsWire(sent)'
  BY <1>1, <1>4, <1>6, <1>7 DEF IsWire
<1>9. wire' # None
  BY <1>7, RecordIsThere DEF Required
<1>10. AlteredOnce'
  <2>1. Body(kind, wire'.elements) = new /\ Body(kind, sent.elements) = old
    BY <1>1, <1>6, <1>7 DEF old
  <2>2. AlteredTo(what, Body(kind, sent.elements), Body(kind, wire'.elements))
    BY <1>3, <2>1
  <2>3. wire' = [form |-> sent.form, elements |-> WithBody(kind, sent.elements, Body(kind, wire'.elements))]
    BY <1>1, <1>7, <2>1
  <2> QED
    BY <1>3, <1>4, <1>5, <2>2, <2>3 DEF AlteredOnce
<1> QED
  BY <1>4, <1>5, <1>8, <1>9, <1>10 DEF HistoryInv

(* A value that was read is written, or a key pair stored.                 *)
LEMMA RewriteKeepsHistory ==
  ASSUME Atoms, DocumentsInv, HistoryInv, Rewrite \/ StorePair
  PROVE  HistoryInv'
<1>1. kind \in Kinds /\ kind' = kind
  BY DocumentsAssumption DEF HistoryInv, Rewrite, StorePair
<1>2. CASE Rewrite
  <2>1. wire' = Bytes(kind, held.value) /\ kind # "certList" /\ sent' = wire' /\ damage' = <<>>
    BY <1>2 DEF Rewrite, Encodable
  <2>2. IsWire(wire') /\ wire' # None
    BY <1>1, <2>1, BytesAreWire
  <2> QED
    BY <1>1, <2>1, <2>2, JustSent
<1>3. CASE StorePair
  <2>1. wire' = held.value.pkcs8 /\ sent' = wire' /\ damage' = <<>>
    BY <1>3 DEF StorePair
  <2>2. wire # None /\ held.value = PairOf(wire) /\ held.value # Malformed
    BY <1>3 DEF StorePair, DocumentsInv, PairWasLoaded
  <2>3. held.value.pkcs8 = wire
    BY <2>2, PairSays DEF PairOf
  <2>4. wire' # None /\ IsWire(wire')
    BY <2>1, <2>2, <2>3 DEF HistoryInv
  <2> QED
    BY <1>1, <2>1, <2>4, JustSent
<1> QED
  BY <1>2, <1>3

(* Everything else leaves the documents alone.                             *)
LEMMA NextKeepsHistory == Atoms /\ DocumentsInv /\ HistoryInv /\ [Next]_vars => HistoryInv'
<1> SUFFICES ASSUME Atoms, DocumentsInv, HistoryInv, [Next]_vars
             PROVE  HistoryInv'
  OBVIOUS
<1>1. CASE UNCHANGED <<kind, wire, sent, damage>>
  BY <1>1 DEF HistoryInv, AlteredOnce, IsWire
<1>2. CASE UNCHANGED vars
  BY <1>1, <1>2 DEF vars
<1>3. CASE Parse \/ ToMutable \/ IntoCertificate \/ Copy \/ ThroughMessage \/ LoadPair
  BY <1>1, <1>3 DEF Parse, ToMutable, IntoCertificate, Copy, ThroughMessage, CopyThrough, LoadPair
<1>4. CASE EditSubject \/ EditCritical \/ EditSigned
  BY <1>1, <1>4 DEF EditSubject, EditCritical, EditSigned, Edited
<1> QED
  BY <1>2, <1>3, <1>4, SentKeepsHistory, AlterKeepsHistory, RewriteKeepsHistory DEF Next

(* A document is what was sent or one alteration away from it, always.     *)
THEOREM HistoryInvariant ==
  ASSUME Atoms
  PROVE  Spec => []HistoryInv
<1>1. Init => HistoryInv
  BY InitHistory
<1>2. DocumentsInv /\ HistoryInv /\ [Next]_vars => HistoryInv'
  BY NextKeepsHistory
<1> QED
  BY <1>1, <1>2, DocumentsInvariant, PTL DEF Spec

-----------------------------------------------------------------------------
(* What is altered is noticed.                                             *)

(* Rows that must be there read the first elements.                        *)
LEMMA FirstBodies ==
  ASSUME NEW n \in Nat, NEW rows, Len(rows) = n, DOMAIN rows = 1..n,
         NEW m \in 0..n, \A i \in 1..m : ~rows[i].optional,
         NEW e, Fields(rows, e) # Malformed
  PROVE  \A i \in 1..m : Fields(rows, e)[i] = e[i][2]
<1> DEFINE f == Fields(rows, e)
<1>1. Len(e) \in Nat /\ \E p : Aligned(p, n, rows, e, f)
  BY ReadInOrder
<1> HIDE DEF f
<1>2. PICK p : Aligned(p, n, rows, e, f)
  BY <1>1
<1>3. \A i \in 1..m : i \in 1..Len(e) /\ p[i] = i
  BY <1>1, <1>2, FirstOnesRead
<1>4. \A i \in 1..m : f[i] = e[i][2]
  BY <1>2, <1>3 DEF Aligned
<1> QED
  BY <1>4 DEF f

(* A certificate that was read holds what its body says.                   *)
LEMMA CertificateHoldsItsBody ==
  ASSUME NEW form, NEW e, DecodeCertificate(form, e) # Malformed
  PROVE  /\ DecodeCertificate(form, e).tbs = DecodeTbs(Body("certificate", e))
         /\ DecodeTbs(Body("certificate", e)) # Malformed
         /\ Normal("certificate", DecodeCertificate(form, e)).tbs = NormalTbs(DecodeTbs(Body("certificate", e)))
<1> DEFINE n == 3
           m == 1
           rows == <<One("SEQUENCE"), One("SEQUENCE"), One("BITS")>>
           f == Fields(rows, e)
           v == DecodeCertificate(form, e)
<1>1. n \in Nat /\ Len(rows) = n /\ DOMAIN rows = 1..n /\ m \in 0..n /\ 1 \in 1..m /\ \A i \in 1..m : ~rows[i].optional
  BY RowIs
<1>2. f # Malformed
      /\ v = [tbs                |-> DecodeTbs(f[1]),
              signatureAlgorithm |-> Within("Algorithm", f[2]),
              signature          |-> f[3],
              rawData            |-> [form |-> form, elements |-> f[1]]]
      /\ v.tbs # Malformed
  BY DEF DecodeCertificate, Decoded, Made, Sound
<1> HIDE DEF rows, n, m
<1>3. f[1] = e[1][2]
  BY <1>1, <1>2, FirstBodies
<1> HIDE DEF f
<1>4. v.tbs = DecodeTbs(Body("certificate", e))
  BY <1>2, <1>3 DEF Body
<1>5. "tbs" \in DOMAIN v
  BY <1>2
<1> HIDE DEF v
<1>6. Normal("certificate", v).tbs = NormalTbs(v.tbs)
  <2> DEFINE u == [v EXCEPT !.rawData = None,
                            !.tbs.version = IF @ = V1 THEN None ELSE @,
                            !.tbs.extensions = NormalExtensions(@)]
  <2>1. Normal("certificate", v) = u
    BY DEF Normal
  <2>2. u.tbs = [v.tbs EXCEPT !.version = IF @ = V1 THEN None ELSE @, !.extensions = NormalExtensions(@)]
    BY <1>5
  <2> QED
    BY <2>1, <2>2 DEF NormalTbs, NormalVersion
<1> QED
  BY <1>2, <1>4, <1>6 DEF v

(* The body of a request that is read can be read.                         *)
LEMMA RequestHoldsItsBody ==
  ASSUME NEW e, DecodeRequest(e) # Malformed
  PROVE  DecodeRequestInfo(Body("request", e)) # Malformed
<1> DEFINE n == 3
           m == 1
           rows == <<One("SEQUENCE"), One("SEQUENCE"), One("BITS")>>
           f == Fields(rows, e)
<1>1. n \in Nat /\ Len(rows) = n /\ DOMAIN rows = 1..n /\ m \in 0..n /\ 1 \in 1..m /\ \A i \in 1..m : ~rows[i].optional
  BY RowIs
<1>2. f # Malformed /\ DecodeRequestInfo(f[1]) # Malformed
  BY DEF DecodeRequest, Decoded, Made, Sound
<1> HIDE DEF rows, n, m
<1>3. f[1] = e[1][2]
  BY <1>1, <1>2, FirstBodies
<1> QED
  BY <1>2, <1>3 DEF Body

(* A message is what its body says.                                        *)
LEMMA SignedDataHoldsItsBody ==
  ASSUME NEW e, DecodeSignedData(e) # Malformed
  PROVE  DecodeSignedData(e) = DecodeSignedDataBody(Body("signedData", e))
<1> DEFINE n == 2
           rows == <<One("OID"), One("0")>>
           f == Fields(rows, e)
<1>1. n \in Nat /\ Len(rows) = n /\ DOMAIN rows = 1..n /\ n \in 0..n /\ \A i \in 1..n : ~rows[i].optional
  BY RowIs
<1>2. f # Malformed /\ Inner("SEQUENCE", f[2]) # Malformed
      /\ DecodeSignedData(e) = DecodeSignedDataBody(Inner("SEQUENCE", f[2]))
  BY DEF DecodeSignedData
<1>3. f[2] # None
  BY <1>2, Shape2, RowIs
<1>4. 2 \in 1..n
  OBVIOUS
<1> HIDE DEF rows, n
<1>5. f[2] = e[2][2]
  BY <1>1, <1>2, <1>4, FirstBodies
<1> HIDE DEF f
<1>6. Inner("SEQUENCE", f[2]) = f[2][1][2]
  BY <1>2, <1>3 DEF Inner
<1> QED
  BY <1>2, <1>5, <1>6 DEF Body

(* What the property asks of two documents, if both are read.              *)
Noticed(k, what, v, w) ==
  \/ v = Malformed \/ w = Malformed
  \/ k = "certList" /\ v.thisUpdate = w.nextUpdate
  \/ /\ what # "swap"
     /\ AtMostOneAppears(AlteredPart(k, Normal(k, v)), AlteredPart(k, Normal(k, w)))

(* Structures of every kind notice that an element of their body is lost,  *)
(* repeated, moved or spelled out.                                         *)
LEMMA AlterationsAreNoticed ==
  ASSUME NEW k \in Kinds, NEW what, what = "spell" => k # "certList", NEW d, NEW e,
         AlteredTo(what, Body(k, d.elements), Body(k, e.elements))
  PROVE  Noticed(k, what, Decode(k, e), Decode(k, d))
<1> DEFINE v == Decode(k, e)
           w == Decode(k, d)
<1> SUFFICES ASSUME v # Malformed, w # Malformed PROVE Noticed(k, what, v, w)
  BY DEF Noticed
<1>1. CASE k = "certificate"
  <2> DEFINE old == Body("certificate", d.elements)
             new == Body("certificate", e.elements)
  <2>1. /\ Normal("certificate", v).tbs = NormalTbs(DecodeTbs(new)) /\ DecodeTbs(new) # Malformed
        /\ Normal("certificate", w).tbs = NormalTbs(DecodeTbs(old)) /\ DecodeTbs(old) # Malformed
    BY <1>1, CertificateHoldsItsBody DEF Decode
  <2>2. AlteredTo(what, old, new)
    BY <1>1
  <2> HIDE DEF old, new, v, w
  <2>3. what # "swap" /\ AtMostOneAppears(NormalTbs(DecodeTbs(new)), NormalTbs(DecodeTbs(old)))
    BY <2>1, <2>2, TbsAltered
  <2> QED
    BY <1>1, <2>1, <2>3 DEF Noticed, AlteredPart
<1>2. CASE k = "request"
  BY <1>2, RequestHoldsItsBody, NothingOptionalAltered DEF Decode
<1>3. CASE k = "signedData"
  <2> DEFINE old == Body("signedData", d.elements)
             new == Body("signedData", e.elements)
  <2>1. /\ v = DecodeSignedDataBody(new) /\ w = DecodeSignedDataBody(old)
    BY <1>3, SignedDataHoldsItsBody DEF Decode
  <2>2. AlteredTo(what, old, new)
    BY <1>3
  <2> HIDE DEF old, new
  <2>3. what # "swap" /\ AtMostOneAppears(DecodeSignedDataBody(new), DecodeSignedDataBody(old))
    BY <2>1, <2>2, SignedDataBodyAltered
  <2>4. Normal(k, v) = v /\ Normal(k, w) = w
    BY <1>3 DEF Normal
  <2> QED
    BY <1>3, <2>1, <2>3, <2>4 DEF Noticed, AlteredPart
<1>4. ASSUME k \notin {"certificate", "request", "signedData"}
      PROVE  AlteredTo(what, d.elements, e.elements)
  BY <1>4 DEF Body
<1>5. ASSUME what # "swap", AtMostOneAppears(Normal(k, v), Normal(k, w)), k \notin {"certificate", "request"}
      PROVE  Noticed(k, what, v, w)
  BY <1>5 DEF Noticed, AlteredPart
<1>6. CASE k \in {"contentInfo", "digestInfo"}
  BY <1>4, <1>6, NothingOptionalAltered DEF Decode
<1>7. CASE k = "signerInfo"
  BY <1>4, <1>5, <1>7, SignerInfoAltered DEF Decode
<1>8. CASE k = "timeStampReq"
  BY <1>4, <1>5, <1>8, TimeStampReqAltered DEF Decode
<1>9. CASE k = "timeStampResp"
  BY <1>4, <1>5, <1>9, TimeStampRespAltered DEF Decode, Normal
<1>10. CASE k = "tstInfo"
  BY <1>4, <1>5, <1>10, TstInfoAltered DEF Decode
<1>11. CASE k = "privateKey"
  BY <1>4, <1>5, <1>11, OneAsymmetricKeyAltered DEF Decode, Normal
<1>12. CASE k = "ecPrivateKey"
  BY <1>4, <1>5, <1>12, EcPrivateKeyAltered DEF Decode, Normal
<1>13. CASE k = "rsaPrivateKey"
  BY <1>4, <1>5, <1>13, RsaPrivateKeyAltered DEF Decode, Normal
<1>14. CASE k = "certList"
  <2>1. \/ v.thisUpdate = w.nextUpdate
        \/ what # "swap" /\ AtMostOneAppears(Normal("certList", v), Normal("certList", w))
    BY <1>4, <1>14, CertListAltered DEF Decode
  <2> QED
    BY <1>5, <1>14, <2>1 DEF Noticed
<1> QED
  BY <1>1, <1>2, <1>3, <1>6, <1>7, <1>8, <1>9, <1>10, <1>11, <1>12, <1>13, <1>14 DEF Kinds

(* In every reachable state, a document in which one element was lost,     *)
(* repeated, moved or spelled out is refused or read as it was but for one *)
(* optional field.                                                         *)
THEOREM AlterationsAreSeen ==
  ASSUME Atoms
  PROVE  Spec => []AlterationIsNoticed
<1>1. HistoryInv => AlterationIsNoticed
  <2> SUFFICES ASSUME HistoryInv, wire # None, Len(damage) = 1
               PROVE  Noticed(kind, damage[1], Decode(kind, wire), Decode(kind, sent))
    BY DEF AlterationIsNoticed, Noticed
  <2>1. damage # <<>> /\ kind \in Kinds
    BY DocumentsAssumption DEF HistoryInv
  <2>2. /\ damage[1] = "spell" => kind # "certList"
        /\ AlteredTo(damage[1], Body(kind, sent.elements), Body(kind, wire.elements))
    BY <2>1 DEF HistoryInv, AlteredOnce
  <2> QED
    BY <2>1, <2>2, AlterationsAreNoticed
<1> QED
  BY <1>1, HistoryInvariant, PTL

-----------------------------------------------------------------------------
(* What is in a list of lists.                                             *)

Holding(s) == {s[i] : i \in DOMAIN s}

FlattenedBy(g, T, n, seqs) ==
  /\ FlattenSeq(seqs) = g[n]
  /\ g[1] = seqs[1]
  /\ \A i \in 2..n : g[i] = g[i - 1] \o seqs[i]
  /\ \A i \in 1..n : g[i] \in Seq(T)

(* A list is flattened by appending one of its lists after the other.      *)
LEMMA FlatteningSteps ==
  ASSUME NEW T, NEW n \in Nat, n > 0, NEW seqs, Len(seqs) = n, \A i \in 1..n : seqs[i] \in Seq(T)
  PROVE  \E g : FlattenedBy(g, T, n, seqs)
<1> DEFINE m == n - 1
           V == Seq(T)
           D == 1..n
           step == [i \in 1..m |-> [v \in V |-> v \o seqs[i + 1]]]
           Is(g) == g = [i \in D |-> IF i = 1 THEN seqs[i] ELSE g[i - 1] \o seqs[i]]
<1>1. m \in Nat /\ \A i \in 1..m : i + 1 \in 1..n
  OBVIOUS
<1>2. PICK f : StepsFrom(f, m, seqs[1], step)
  <2> HIDE DEF m, step
  <2> QED
    BY <1>1, Steps
<1>3. \A i \in 1..m : \A v \in V : step[i][v] = v \o seqs[i + 1] /\ step[i][v] \in V
  <2> SUFFICES ASSUME NEW i \in 1..m, NEW v \in V PROVE step[i][v] = v \o seqs[i + 1] /\ step[i][v] \in V
    OBVIOUS
  <2>1. seqs[i + 1] \in Seq(T)
    BY <1>1
  <2>2. v \o seqs[i + 1] \in Seq(T)
    BY <2>1
  <2>3. step[i][v] = v \o seqs[i + 1]
    <3> HIDE DEF V, m
    <3> QED
      OBVIOUS
  <2> QED
    BY <2>2, <2>3
<1>4. \A i \in 0..m : f[i] \in V
  <2>1. seqs[1] \in V
    OBVIOUS
  <2> HIDE DEF step, V, m
  <2> QED
    BY <1>1, <1>2, <1>3, <2>1, StepsStay
<1> DEFINE h == [i \in D |-> f[i - 1]]
<1>5. Is(h)
  <2>1. ASSUME NEW i \in D PROVE h[i] = IF i = 1 THEN seqs[i] ELSE h[i - 1] \o seqs[i]
    <3>1. CASE i = 1
      <4>1. f[0] = seqs[1] /\ i - 1 = 0
        BY <1>2, <3>1 DEF StepsFrom
      <4> QED
        BY <3>1, <4>1
    <3>2. CASE i # 1
      <4>1. i - 1 \in 1..m /\ i - 1 \in D /\ (i - 1) - 1 \in 0..m /\ (i - 1) + 1 = i
        BY <3>2
      <4>2. f[i - 1] = step[i - 1][f[(i - 1) - 1]]
        BY <1>2, <4>1 DEF StepsFrom
      <4>3. f[(i - 1) - 1] \in V
        BY <1>4, <4>1
      <4> HIDE DEF step, V
      <4>4. f[i - 1] = f[(i - 1) - 1] \o seqs[i]
        BY <1>3, <4>1, <4>2, <4>3
      <4>5. h[i] = f[i - 1] /\ h[i - 1] = f[(i - 1) - 1]
        BY <4>1
      <4> QED
        BY <3>2, <4>4, <4>5
    <3> QED
      BY <3>1, <3>2
  <2>2. h = [i \in D |-> h[i]]
    OBVIOUS
  <2> HIDE DEF h, D
  <2> QED
    BY <2>1, <2>2
<1> DEFINE r == CHOOSE g : Is(g)
<1>6. Is(r)
  <2> HIDE DEF Is
  <2> QED
    BY <1>5
<1>7. FlattenSeq(seqs) = r[n]
  BY DEF FlattenSeq
<1>8. \A i \in D : r[i] = IF i = 1 THEN seqs[i] ELSE r[i - 1] \o seqs[i]
  <2> HIDE DEF r
  <2> QED
    BY <1>6
<1> HIDE DEF r
<1>9. \A i \in 1..n : r[i] \in Seq(T)
  <2> DEFINE S == {i \in 0..n : i = 0 \/ r[i] \in Seq(T)}
  <2>1. ASSUME NEW i \in 1..n, i - 1 \in S PROVE i \in S
    <3>1. seqs[i] \in Seq(T) /\ r[i] = IF i = 1 THEN seqs[i] ELSE r[i - 1] \o seqs[i]
      BY <1>8
    <3>2. i # 1 => r[i - 1] \in Seq(T)
      BY <2>1
    <3>3. r[i] \in Seq(T)
      BY <3>1, <3>2
    <3> QED
      BY <3>3
  <2>2. 0 \in S
    OBVIOUS
  <2> HIDE DEF S
  <2>3. \A i \in 0..n : i \in S
    BY <2>1, <2>2, UpTo
  <2> QED
    BY <2>3 DEF S
<1>10. 1 \in D /\ n \in D /\ \A i \in 2..n : i \in D /\ i # 1
  OBVIOUS
<1>11. r[1] = seqs[1] /\ \A i \in 2..n : r[i] = r[i - 1] \o seqs[i]
  BY <1>8, <1>10
<1> QED
  BY <1>7, <1>9, <1>11 DEF FlattenedBy

(* Two lists, one after the other, hold what each of them holds.           *)
LEMMA JoinedHolds ==
  ASSUME NEW T, NEW s \in Seq(T), NEW t \in Seq(T)
  PROVE  s \o t \in Seq(T) /\ Holding(s \o t) = Holding(s) \cup Holding(t)
<1> DEFINE m == Len(s)
           n == Len(t)
<1>1. /\ s \o t \in Seq(T) /\ Len(s \o t) = m + n
      /\ \A i \in 1..(m + n) : (s \o t)[i] = IF i <= m THEN s[i] ELSE t[i - m]
  BY ConcatProperties
<1>2. m \in Nat /\ DOMAIN s = 1..m /\ n \in Nat /\ DOMAIN t = 1..n /\ DOMAIN (s \o t) = 1..(m + n)
  BY <1>1
<1> DEFINE u == s \o t
<1> HIDE DEF m, n, u
<1>3. ASSUME NEW i \in 1..(m + n) PROVE u[i] \in Holding(s) \cup Holding(t)
  <2>1. i <= m => i \in 1..m
    BY <1>2
  <2>2. ~(i <= m) => i - m \in 1..n
    BY <1>2
  <2>3. u[i] = IF i <= m THEN s[i] ELSE t[i - m]
    BY <1>1 DEF u
  <2> QED
    BY <1>2, <2>1, <2>2, <2>3 DEF Holding
<1>4. ASSUME NEW i \in 1..m PROVE s[i] \in Holding(u)
  <2>1. i \in 1..(m + n) /\ i <= m
    BY <1>2
  <2>2. u[i] = s[i]
    BY <1>1, <2>1 DEF u
  <2> QED
    BY <1>2, <2>1, <2>2 DEF Holding, u
<1>5. ASSUME NEW i \in 1..n PROVE t[i] \in Holding(u)
  <2>1. i + m \in 1..(m + n) /\ ~(i + m <= m) /\ (i + m) - m = i
    BY <1>2
  <2>2. u[i + m] = t[i]
    BY <1>1, <2>1 DEF u
  <2> QED
    BY <1>2, <2>1, <2>2 DEF Holding, u
<1>6. Holding(u) = Holding(s) \cup Holding(t)
  BY <1>2, <1>3, <1>4, <1>5 DEF Holding, u
<1> QED
  BY <1>1, <1>6 DEF u

(* A flattened list holds what its lists hold.                             *)
LEMMA FlattenedHolds ==
  ASSUME NEW T, NEW seqs \in Seq(Seq(T))
  PROVE  FlattenSeq(seqs) \in Seq(T) /\ Holding(FlattenSeq(seqs)) = UNION {Holding(seqs[i]) : i \in DOMAIN seqs}
<1> DEFINE n == Len(seqs)
<1>0. n \in Nat /\ DOMAIN seqs = 1..n /\ \A i \in 1..n : seqs[i] \in Seq(T)
  OBVIOUS
<1>3. Len(seqs) = n
  OBVIOUS
<1> HIDE DEF n
<1>1. CASE n = 0
  <2>1. FlattenSeq(seqs) = seqs
    BY <1>1, <1>3 DEF FlattenSeq
  <2>2. DOMAIN seqs = {} /\ 1..n = {}
    BY <1>0, <1>1
  <2>3. seqs = <<>>
    BY <1>1, <1>3
  <2>4. seqs \in Seq(T)
    BY <2>3
  <2> QED
    <3>1. Holding(seqs) = {} /\ UNION {Holding(seqs[i]) : i \in DOMAIN seqs} = {}
      BY <2>2 DEF Holding
    <3> QED
      BY <2>1, <2>4, <3>1
<1>2. CASE n > 0
  <2>0. PICK g : FlattenedBy(g, T, n, seqs)
    BY <1>0, <1>2, <1>3, FlatteningSteps
  <2>1. /\ FlattenSeq(seqs) = g[n]
        /\ g[1] = seqs[1]
        /\ \A i \in 2..n : g[i] = g[i - 1] \o seqs[i]
        /\ \A i \in 1..n : g[i] \in Seq(T)
    BY <2>0 DEF FlattenedBy
  <2> DEFINE U(m) == UNION {Holding(seqs[i]) : i \in 1..m}
             S == {m \in 0..n : m = 0 \/ Holding(g[m]) = U(m)}
  <2>2. ASSUME NEW m \in 1..n, m - 1 \in S PROVE m \in S
    <3>0. n \in Nat /\ m \in Nat
      BY <1>0
    <3>1. CASE m = 1
      <4>1. U(m) = Holding(seqs[1])
        <5>1. 1..m = {1}
          BY <3>1
        <5> QED
          BY <5>1
      <4> QED
        BY <2>1, <3>1, <4>1
    <3>2. CASE m # 1
      <4>1. m \in 2..n /\ m - 1 \in 1..n /\ m - 1 # 0 /\ 1..m = 1..(m - 1) \cup {m}
        BY <1>0, <3>2
      <4>2. g[m] = g[m - 1] \o seqs[m] /\ g[m - 1] \in Seq(T) /\ seqs[m] \in Seq(T)
        BY <1>0, <2>1, <4>1
      <4>3. Holding(g[m]) = Holding(g[m - 1]) \cup Holding(seqs[m])
        BY <4>2, JoinedHolds
      <4>4. Holding(g[m - 1]) = U(m - 1)
        BY <2>2, <4>1
      <4>5. U(m) = U(m - 1) \cup Holding(seqs[m])
        BY <4>1
      <4>6. Holding(g[m]) = U(m)
        BY <4>3, <4>4, <4>5
      <4> QED
        BY <4>6
    <3> QED
      BY <3>0, <3>1, <3>2
  <2>3. 0 \in S
    BY <1>0
  <2> HIDE DEF S
  <2>4. \A m \in 0..n : m \in S
    BY <1>0, <2>2, <2>3, UpTo
  <2>5. n \in S /\ n # 0 /\ n \in 1..n
    BY <1>0, <1>2, <2>4
  <2>6. Holding(g[n]) = U(n)
    BY <2>5 DEF S
  <2>7. U(n) = UNION {Holding(seqs[i]) : i \in DOMAIN seqs}
    BY <1>0
  <2> HIDE DEF U
  <2> QED
    BY <2>1, <2>5, <2>6, <2>7
<1> QED
  BY <1>0, <1>1, <1>2

-----------------------------------------------------------------------------
(* What is in a name.                                                      *)

AttributesIn(name) == UNION {Holding(name[p]) : p \in DOMAIN name}

(* The attributes of a name are those of its parts.                        *)
LEMMA AttributesHeld ==
  ASSUME NEW name, IsName(name)
  PROVE  Attributes(name) \in Seq(AttributesIn(name)) /\ Holding(Attributes(name)) = AttributesIn(name)
<1> DEFINE T == AttributesIn(name)
           n == Len(name)
<1>1. n \in Nat /\ DOMAIN name = 1..n /\ name = [i \in 1..n |-> name[i]]
  BY VecIsSeq DEF IsName, IsVec, IsFunction
<1>2. ASSUME NEW i \in 1..n PROVE name[i] \in Seq(T)
  <2>1. name[i] \in Seq(Holding(name[i]))
    BY <1>1, VecIsSeq DEF IsName, IsRdn, Holding
  <2>2. Holding(name[i]) \subseteq T
    BY <1>1 DEF AttributesIn
  <2> HIDE DEF T
  <2> QED
    BY <2>1, <2>2
<1> HIDE DEF n, T
<1>3. Len(name) = n
  BY DEF n
<1>5. name \in Seq(Seq(T))
  BY <1>1, <1>2
<1>4. FlattenSeq(name) \in Seq(T) /\ Holding(FlattenSeq(name)) = UNION {Holding(name[i]) : i \in DOMAIN name}
  BY <1>5, FlattenedHolds
<1> QED
  BY <1>1, <1>4 DEF Attributes, AttributesIn, T

(* Those of one type are found.                                            *)
LEMMA OfTypeHeld ==
  ASSUME NEW name, IsName(name), NEW oid
  PROVE  /\ ByOid(name, oid) \in Seq(AttributesIn(name))
         /\ Holding(ByOid(name, oid)) = {a \in AttributesIn(name) : a.typ = oid}
<1> DEFINE T == AttributesIn(name)
           all == Attributes(name)
           n == Len(all)
           Single(a) == IF a.typ = oid THEN <<a>> ELSE <<>>
           seqs == [i \in 1..n |-> Single(all[i])]
<1>1. all \in Seq(T) /\ Holding(all) = T
  BY AttributesHeld
<1> HIDE DEF T, all
<1>2. n \in Nat /\ DOMAIN all = 1..n /\ \A i \in 1..n : all[i] \in T
  BY <1>1
<1>3. ASSUME NEW a \in T PROVE Single(a) \in Seq(T) /\ Holding(Single(a)) = IF a.typ = oid THEN {a} ELSE {}
  <2>1. <<a>> \in Seq(T) /\ <<>> \in Seq(T)
    OBVIOUS
  <2>2. Holding(<<a>>) = {a}
    <3>1. DOMAIN <<a>> = {1} /\ <<a>>[1] = a
      OBVIOUS
    <3> QED
      BY <3>1 DEF Holding
  <2>3. Holding(<<>>) = {}
    <3>1. DOMAIN <<>> = {}
      OBVIOUS
    <3> QED
      BY <3>1 DEF Holding
  <2> QED
    BY <2>1, <2>2, <2>3
<1>4. ByOid(name, oid) = FlattenSeq(seqs)
  BY <1>2 DEF ByOid, all
<1> HIDE DEF n, Single
<1>5. seqs = [i \in 1..n |-> seqs[i]] /\ \A i \in 1..n : seqs[i] = Single(all[i])
  OBVIOUS
<1> HIDE DEF seqs
<1>6. \A i \in 1..n : seqs[i] \in Seq(T)
  BY <1>2, <1>3, <1>5
<1>7. seqs \in Seq(Seq(T)) /\ DOMAIN seqs = 1..n
  BY <1>2, <1>5, <1>6
<1>8. FlattenSeq(seqs) \in Seq(T) /\ Holding(FlattenSeq(seqs)) = UNION {Holding(seqs[i]) : i \in 1..n}
  BY <1>7, FlattenedHolds
<1>9. \A i \in 1..n : Holding(seqs[i]) = IF all[i].typ = oid THEN {all[i]} ELSE {}
  BY <1>2, <1>3, <1>5
<1>10. Holding(all) = {all[i] : i \in 1..n}
  BY <1>2 DEF Holding
<1>11. UNION {Holding(seqs[i]) : i \in 1..n} = {a \in T : a.typ = oid}
  <2>1. ASSUME NEW a \in T, a.typ = oid PROVE a \in UNION {Holding(seqs[i]) : i \in 1..n}
    <3>1. PICK i \in 1..n : a = all[i]
      BY <1>1, <1>10, <2>1
    <3>2. a \in Holding(seqs[i])
      BY <1>9, <2>1, <3>1
    <3> QED
      BY <3>2
  <2>2. ASSUME NEW i \in 1..n, NEW a \in Holding(seqs[i]) PROVE a \in T /\ a.typ = oid
    <3>1. a \in IF all[i].typ = oid THEN {all[i]} ELSE {}
      BY <1>9
    <3> QED
      BY <1>2, <3>1
  <2> QED
    BY <2>1, <2>2
<1> QED
  BY <1>4, <1>8, <1>11 DEF T

FriendlyTypes == {"CN", "OU", "O", "L", "S", "C"}

(* A name that is printed shows each of its attributes of these types.     *)
LEMMA FriendlyShows ==
  ASSUME Atoms, NEW name, IsName(name), UserFriendly(name) # Malformed,
         NEW a \in AttributesIn(name), a.typ \in FriendlyTypes
  PROVE  <<a.typ, AttributeText(a.value)>> \in Among(UserFriendly(name))
<1> DEFINE T == AttributesIn(name)
           n == 6
           seqs == [i \in DOMAIN FriendlyOrder |-> ByOid(name, FriendlyOrder[i])]
           printed == FlattenSeq(seqs)
           u == [i \in DOMAIN printed |-> <<printed[i].typ, AttributeText(printed[i].value)>>]
<1>1. UserFriendly(name) = u
  BY DEF UserFriendly
<1>2. u # None
  <2>1. IsFunction(u)
    BY DEF IsFunction
  <2> QED
    BY <2>1 DEF Atoms, Required
<1>3. n \in Nat /\ DOMAIN FriendlyOrder = 1..n /\ \E k \in 1..n : FriendlyOrder[k] = a.typ
  <2>1. DOMAIN FriendlyOrder = 1..6 /\ FriendlyTypes = {FriendlyOrder[k] : k \in 1..6}
    BY DEF FriendlyOrder, FriendlyTypes
  <2> QED
    BY <2>1
<1> HIDE DEF n
<1>4. seqs = [i \in 1..n |-> seqs[i]] /\ \A i \in 1..n : seqs[i] = ByOid(name, FriendlyOrder[i])
  BY <1>3
<1>5. \A i \in 1..n : seqs[i] \in Seq(T) /\ Holding(seqs[i]) = {x \in T : x.typ = FriendlyOrder[i]}
  BY <1>4, OfTypeHeld
<1> HIDE DEF seqs, T
<1>6. seqs \in Seq(Seq(T)) /\ DOMAIN seqs = 1..n
  BY <1>3, <1>4, <1>5
<1>7. printed \in Seq(T) /\ Holding(printed) = UNION {Holding(seqs[i]) : i \in 1..n}
  BY <1>6, FlattenedHolds
<1> HIDE DEF printed
<1>8. a \in Holding(printed)
  BY <1>3, <1>5, <1>7 DEF T
<1>9. PICK i \in DOMAIN printed : printed[i] = a
  BY <1>8 DEF Holding
<1>10. u[i] = <<a.typ, AttributeText(a.value)>> /\ i \in DOMAIN u
  BY <1>9
<1> HIDE DEF u
<1> QED
  BY <1>1, <1>2, <1>10 DEF Among

(* A common name that is there is found.                                   *)
LEMMA CommonNameIsFound ==
  ASSUME NEW name, IsName(name), NEW a \in AttributesIn(name), a.typ = "CN"
  PROVE  FirstString(name, "CN") # None
<1> DEFINE found == ByOid(name, "CN")
<1>1. a \in Holding(found)
  BY OfTypeHeld
<1>2. found # <<>>
  <2>1. Holding(<<>>) = {}
    <3>1. DOMAIN <<>> = {}
      OBVIOUS
    <3> QED
      BY <3>1 DEF Holding
  <2> QED
    BY <1>1, <2>1
<1>3. AttributeText(found[1].value) # None
  BY TextAssumption, DocumentsAssumption DEF AttributeText
<1> QED
  BY <1>2, <1>3 DEF FirstString

-----------------------------------------------------------------------------
(* Names that were given a text.                                           *)

(* A text is shown by the string that it was made.                         *)
LEMMA GivenIsShown ==
  ASSUME NEW s \in Text
  PROVE  /\ AttributeText(NewUtf8(s)) = s
         /\ s \in PrintableText => AttributeText(NewPrintable(s)) = s
<1>1. Contains(StringTags, "Utf8String") /\ Contains(StringTags, "PrintableString")
  BY DEF Contains, StringTags
<1> QED
  BY <1>1 DEF AttributeText, NewUtf8, NewPrintable

(* A name that was appended to holds the attribute and all it held.        *)
LEMMA AppendedIsHeld ==
  ASSUME NEW name, IsName(name), NEW oid, NEW value, AppendValue(name, oid, value) # name
  PROVE  /\ Attribute(oid, value) \in AttributesIn(AppendValue(name, oid, value))
         /\ AttributesIn(name) \subseteq AttributesIn(AppendValue(name, oid, value))
<1> DEFINE a == Attribute(oid, value)
           n == Len(name)
           t == Append(name, <<a>>)
<1>1. AppendValue(name, oid, value) = t
  BY DEF AppendValue
<1>2. n \in Nat /\ DOMAIN name = 1..n /\ name \in Seq({name[i] : i \in DOMAIN name})
  BY VecIsSeq DEF IsName
<1>3. n + 1 \in DOMAIN t /\ t[n + 1] = <<a>> /\ \A i \in 1..n : i \in DOMAIN t /\ t[i] = name[i]
  BY <1>2
<1>4. a \in Holding(<<a>>)
  <2>1. 1 \in DOMAIN <<a>> /\ <<a>>[1] = a
    OBVIOUS
  <2> QED
    BY <2>1 DEF Holding
<1> HIDE DEF t, n, a
<1>5. a \in AttributesIn(t)
  BY <1>3, <1>4 DEF AttributesIn
<1>6. AttributesIn(name) \subseteq AttributesIn(t)
  BY <1>2, <1>3 DEF AttributesIn
<1> QED
  BY <1>1, <1>5, <1>6 DEF a

(* The first attribute of a type that a name holds is given another value, *)
(* those of other types stay.                                              *)
LEMMA SetIsHeld ==
  ASSUME NEW name, IsName(name), NEW oid, NEW s, SetFirst(name, oid, s) # name
  PROVE  /\ \E a \in AttributesIn(SetFirst(name, oid, s)) : a.typ = oid /\ a.value = NewUtf8(s)
         /\ \A a \in AttributesIn(name) : a.typ # oid => a \in AttributesIn(SetFirst(name, oid, s))
<1> DEFINE has(rdn) == {j \in DOMAIN rdn : rdn[j].typ = oid}
           rdns == {i \in DOMAIN name : has(name[i]) # {}}
           p == FirstOf(rdns)
           q == FirstOf(has(name[p]))
           v == NewUtf8(s)
           t == SetFirst(name, oid, s)
<1>1. t = [name EXCEPT ![p][q].value = v] /\ rdns # {}
  BY DEF SetFirst
<1>2. ASSUME NEW S, S \in SUBSET Nat, S # {} PROVE FirstOf(S) \in S
  <2>1. PICK m \in S : \A k \in S : m <= k
    BY <1>2, LeastNatural
  <2> QED
    BY <2>1 DEF FirstOf
<1>3. DOMAIN name \subseteq Nat /\ \A i \in DOMAIN name : DOMAIN name[i] \subseteq Nat
  <2>1. \A n \in Nat : 1..n \subseteq Nat
    OBVIOUS
  <2> QED
    BY <2>1, VecIsSeq DEF IsName, IsRdn
<1>4. p \in rdns
  <2>1. rdns \in SUBSET Nat
    BY <1>3
  <2> HIDE DEF rdns
  <2> QED
    BY <1>1, <1>2, <2>1
<1>5. q \in has(name[p])
  <2>1. has(name[p]) \in SUBSET Nat /\ has(name[p]) # {}
    BY <1>3, <1>4
  <2> HIDE DEF p, has
  <2> QED
    BY <1>2, <2>1
<1>6. p \in DOMAIN name /\ q \in DOMAIN name[p] /\ name[p][q].typ = oid
  BY <1>4, <1>5
<1> HIDE DEF p, q, v, t, rdns, has
<1> DEFINE a == [name[p][q] EXCEPT !.value = v]
           rdn == [name[p] EXCEPT ![q] = a]
<1>7. t = [name EXCEPT ![p] = rdn]
  BY <1>1
<1>8. a.typ = oid /\ a.value = v
  <2>1. name[p][q] = [typ |-> name[p][q].typ, value |-> name[p][q].value]
    BY <1>6 DEF IsName, IsRdn, IsAttribute, Attribute
  <2>2. a = [typ |-> name[p][q].typ, value |-> v]
    BY <2>1
  <2> QED
    BY <1>6, <2>2
<1>9. DOMAIN rdn = DOMAIN name[p] /\ rdn[q] = a /\ \A j \in DOMAIN name[p] : j # q => rdn[j] = name[p][j]
  <2> HIDE DEF a
  <2> QED
    BY <1>6
<1> HIDE DEF rdn, a
<1>10. DOMAIN t = DOMAIN name /\ t[p] = rdn /\ \A i \in DOMAIN name : i # p => t[i] = name[i]
  BY <1>6, <1>7
<1>11. a \in AttributesIn(t)
  <2>1. a \in Holding(t[p])
    BY <1>6, <1>9, <1>10 DEF Holding
  <2> QED
    BY <1>6, <1>10, <2>1 DEF AttributesIn
<1>12. ASSUME NEW b \in AttributesIn(name), b.typ # oid PROVE b \in AttributesIn(t)
  <2>1. PICK i \in DOMAIN name : b \in Holding(name[i])
    BY DEF AttributesIn
  <2>2. PICK j \in DOMAIN name[i] : b = name[i][j]
    BY <2>1 DEF Holding
  <2>3. b \in Holding(t[i])
    <3>1. CASE i = p
      <4>1. j # q
        BY <1>6, <1>12, <2>2, <3>1
      <4>2. j \in DOMAIN rdn /\ rdn[j] = b
        BY <1>9, <2>2, <3>1, <4>1
      <4> QED
        BY <1>10, <3>1, <4>2 DEF Holding
    <3>2. CASE i # p
      BY <1>10, <2>1, <3>2
    <3> QED
      BY <3>1, <3>2
  <2> QED
    BY <1>10, <2>3 DEF AttributesIn
<1> QED
  BY <1>8, <1>11, <1>12 DEF t, v

(* However a name is given a text, it shows it, and keeps what it holds of *)
(* other types.                                                            *)
RenamedTo(name, s, r) ==
  /\ r.typ \in FriendlyTypes
  /\ \E a \in AttributesIn(r.name) : a.typ = r.typ /\ AttributeText(a.value) = s
  /\ \A a \in AttributesIn(name) : a.typ # r.typ => a \in AttributesIn(r.name)
  /\ r.typ = "C" => s \in TwoOctets \cap PrintableText

(* Every way to give a name a text does so.                                *)
LEMMA RenamedIsShown ==
  ASSUME NEW name, IsName(name), NEW s \in Text, NEW r \in Renamings(name, s), r.name # name
  PROVE  RenamedTo(name, s, r)
<1>1. ASSUME NEW oid \in FriendlyTypes, NEW value, AttributeText(value) = s,
             oid = "C" => s \in TwoOctets \cap PrintableText,
             r = [typ |-> oid, name |-> AppendValue(name, oid, value)]
      PROVE  RenamedTo(name, s, r)
  <2> DEFINE a == Attribute(oid, value)
  <2>1. a \in AttributesIn(r.name) /\ AttributesIn(name) \subseteq AttributesIn(r.name)
    BY <1>1, AppendedIsHeld
  <2>2. a.typ = oid /\ a.value = value
    BY DEF Attribute
  <2> HIDE DEF a
  <2> QED
    BY <1>1, <2>1, <2>2 DEF RenamedTo
<1>2. CASE r = [typ |-> "CN", name |-> AppendUtf8String(name, "CN", s)]
  BY <1>1, <1>2, GivenIsShown DEF AppendUtf8String, FriendlyTypes
<1>3. ASSUME NEW oid \in {"O", "C"}, r = [typ |-> oid, name |-> AppendPrintableString(name, oid, s)],
             oid = "C" => s \in TwoOctets
      PROVE  RenamedTo(name, s, r)
  <2>1. s \in PrintableText
    BY <1>3 DEF AppendPrintableString, AppendValue, NewPrintable
  <2> QED
    BY <1>1, <1>3, <2>1, GivenIsShown DEF AppendPrintableString, FriendlyTypes
<1>4. CASE r = [typ |-> "O", name |-> AppendPrintableString(name, "O", s)]
  BY <1>3, <1>4
<1>5. CASE r = [typ |-> "C", name |-> AppendCountryPrintable(name, s)]
  <2>1. s \in TwoOctets /\ AppendCountryPrintable(name, s) = AppendPrintableString(name, "C", s)
    BY <1>5 DEF AppendCountryPrintable
  <2> QED
    BY <1>3, <1>5, <2>1
<1>6. CASE r = [typ |-> "CN", name |-> SetFirst(name, "CN", s)]
  <2>1. r.typ = "CN" /\ r.name = SetFirst(name, "CN", s)
    BY <1>6
  <2>2. PICK a \in AttributesIn(r.name) : a.typ = "CN" /\ a.value = NewUtf8(s)
    BY <2>1, SetIsHeld
  <2>3. \A b \in AttributesIn(name) : b.typ # "CN" => b \in AttributesIn(r.name)
    BY <2>1, SetIsHeld
  <2>4. AttributeText(a.value) = s
    BY <2>2, GivenIsShown
  <2> QED
    BY <2>1, <2>2, <2>3, <2>4 DEF RenamedTo, FriendlyTypes
<1> QED
  BY <1>2, <1>4, <1>5, <1>6 DEF Renamings

-----------------------------------------------------------------------------
(* The subject of a TBSCertificate.                                        *)

TbsRowList ==
  <<Opt("0"), One("INTEGER"), One("SEQUENCE"), One("SEQUENCE"), One("SEQUENCE"),
    One("SEQUENCE"), One("SEQUENCE"), Opt("1"), Opt("2"), Opt("3")>>

(* It is the sixth field, which is never missing.                          *)
LEMMA SubjectIsRead ==
  ASSUME NEW e, DecodeTbs(e) # Malformed
  PROVE  Fields(TbsRowList, e) # Malformed /\ DecodeTbs(e).subject = DecodeName(Fields(TbsRowList, e)[6])
BY DEF DecodeTbs, TbsFields, Obeying, Decoded, Made, Sound, TbsRowList

(* What is written is read as the name that it was.                        *)
LEMMA SubjectIsWritten ==
  ASSUME Atoms, NEW t, IsTbs(t)
  PROVE  Fields(TbsRowList, EncodeTbs(t)) # Malformed /\ DecodeName(Fields(TbsRowList, EncodeTbs(t))[6]) = t.subject
<1> DEFINE a == IF t.version \in {None, V1} THEN None ELSE << <<"INTEGER", t.version>> >>
           c == Opaque("Algorithm", t.signature)
           d == EncodeName(t.issuer)
           e == EncodeValidity(t.validity)
           f == EncodeName(t.subject)
           g == EncodeSpki(t.subjectPublicKeyInfo)
           j == Explicit("SEQUENCE", EncodeExtensions(t.extensions))
           fields == <<a, t.serialNumber, c, d, e, f, g, t.issuerUniqueId, t.subjectUniqueId, j>>
<1>1. Required(c)
  BY OpaqueReads
<1>2. Required(d) /\ Required(e) /\ Required(g) /\ Required(t.serialNumber)
  BY NameRoundTrip, ValidityRoundTrip, SpkiRoundTrip DEF IsTbs
<1>3. Required(f) /\ DecodeName(f) = t.subject
  BY NameRoundTrip DEF IsTbs
<1> HIDE DEF a, c, d, e, f, g, j
<1>4. Fields(TbsRowList, EncodeTbs(t)) = fields
  BY <1>1, <1>2, <1>3, TbsRows DEF TbsRowList, EncodeTbs, a, c, d, e, f, g, j
<1>5. fields # Malformed
  <2>1. IsFunction(fields)
    BY DEF IsFunction
  <2> HIDE DEF fields
  <2> QED
    BY <2>1 DEF Atoms, Required
<1> QED
  BY <1>3, <1>4, <1>5

(* No alteration that leaves the fields readable touches it.               *)
LEMMA SubjectIsKept ==
  ASSUME NEW what, NEW old, NEW new, AlteredTo(what, old, new),
         Fields(TbsRowList, old) # Malformed, Fields(TbsRowList, new) # Malformed
  PROVE  Fields(TbsRowList, new)[6] = Fields(TbsRowList, old)[6]
<1> DEFINE n == 10
<1>1. n \in Nat /\ Len(TbsRowList) = n /\ DOMAIN TbsRowList = 1..n /\ 6 \in 1..n
  BY DEF TbsRowList
<1>2. ToldApart(n, TbsRowList) /\ ~TbsRowList[6].optional
  BY RowIs DEF ToldApart, Unambiguous, UnambiguousBack, TbsRowList
<1> HIDE DEF n
<1>3. OneApart(n, TbsRowList, Fields(TbsRowList, new), Fields(TbsRowList, old))
  BY <1>1, <1>2, AlterationIsOneField
<1> QED
  BY <1>1, <1>2, <1>3 DEF OneApart

-----------------------------------------------------------------------------
(* Subjects that were given their texts.                                   *)

IsFriendly(i) == edits[i][1] \in FriendlyTypes
LastOfType(i) == \A j \in DOMAIN edits : j > i => edits[j][1] # edits[i][1]

(* A name has an attribute of every type that it was given a text of, and  *)
(* one of them has the last of those texts.                                *)
ShowsGiven(a, i) == a.typ = edits[i][1] /\ (LastOfType(i) => AttributeText(a.value) = edits[i][2])
Shows(name) == \A i \in DOMAIN edits : IsFriendly(i) => \E a \in AttributesIn(name) : ShowsGiven(a, i)

TextsGiven ==
  \A i \in DOMAIN edits : IsFriendly(i) =>
    /\ edits[i] = <<edits[i][1], edits[i][2]>>
    /\ edits[i][1] = "C" => edits[i][2] \in TwoOctets \cap PrintableText

(* So does the subject in a document that such a name was written to; if   *)
(* it is altered, its fields cannot be told apart or the subject is as it  *)
(* was.                                                                    *)
DocumentShows ==
  LET f == Fields(TbsRowList, Body("certificate", wire.elements))
  IN  /\ f # Malformed => Shows(DecodeName(f[6]))
      /\ damage = <<>> => f # Malformed

NamesInv ==
  /\ IsVec(edits)
  /\ wire = None => edits = <<>> /\ held = None
  /\ TextsGiven
  /\ kind = "certificate" /\ held # None => Shows(held.value.tbs.subject)
  /\ kind = "certificate" /\ held = None /\ edits # <<>> => DocumentShows

(* No name was given a text at first.                                      *)
LEMMA InitNames == Init => NamesInv
<1> SUFFICES ASSUME Init PROVE NamesInv
  OBVIOUS
<1>1. edits = <<>> /\ held = None
  BY DEF Init
<1>2. <<>> \in Seq({})
  OBVIOUS
<1>3. IsVec(edits)
  BY <1>1, <1>2, SequenceIsVec
<1>4. DOMAIN edits = {}
  BY <1>1
<1> QED
  BY <1>1, <1>3, <1>4 DEF NamesInv, TextsGiven

(* Where no text is given, the names show what they did.                   *)
LEMMA NothingGiven ==
  ASSUME NamesInv, UNCHANGED <<kind, edits>>
  PROVE  /\ IsVec(edits') /\ TextsGiven' /\ \A name : Shows(name)' <=> Shows(name)
         /\ \A name : edits = <<>> => Shows(name)
<1>1. DOMAIN <<>> = {}
  OBVIOUS
<1> QED
  BY <1>1 DEF NamesInv, TextsGiven, Shows, ShowsGiven, IsFriendly, LastOfType

(* A certificate is read from a document, or written to it.                *)
LEMMA ReadShows ==
  ASSUME NEW form, NEW e, DecodeCertificate(form, e) # Malformed
  PROVE  LET f == Fields(TbsRowList, Body("certificate", e))
         IN  f # Malformed /\ DecodeCertificate(form, e).tbs.subject = DecodeName(f[6])
BY CertificateHoldsItsBody, SubjectIsRead

(* As a certificate is written, it is read.                                *)
LEMMA WrittenShows ==
  ASSUME Atoms, NEW c, IsCertificate(c)
  PROVE  LET f == Fields(TbsRowList, Body("certificate", EncodeCertificate(c)))
         IN  f # Malformed /\ DecodeName(f[6]) = c.tbs.subject
<1>1. Body("certificate", EncodeCertificate(c)) = EncodeTbs(c.tbs)
  BY DEF Body, EncodeCertificate
<1>2. IsTbs(c.tbs)
  BY DEF IsCertificate
<1> QED
  BY <1>1, <1>2, SubjectIsWritten

(* Documents that come and are altered.                                    *)
LEMMA WireKeepsNames ==
  ASSUME Atoms, HistoryInv, HistoryInv', NamesInv, Write \/ Receive \/ Alter \/ Issue
  PROVE  NamesInv'
<1>1. held = None /\ held' = None /\ UNCHANGED <<kind, edits>>
  BY DEF NamesInv, Write, Receive, Alter, Altered, Issue
<1>2. IsVec(edits') /\ TextsGiven' /\ \A name : Shows(name)' <=> Shows(name)
  BY <1>1, NothingGiven
<1>3. wire' = None => wire = None
  <2>1. CASE Write \/ Receive
    BY <2>1 DEF Write, Receive
  <2>2. CASE Issue
    BY <2>2 DEF Issue
  <2>3. CASE Alter
    <3>1. wire' = [wire EXCEPT !.elements = wire'.elements]
      <4>1. PICK what, new : Altered(what, new)
        BY <2>3, Zenon DEF Alter
      <4> QED
        BY <4>1 DEF Altered
    <3> QED
      BY <3>1, RecordIsThere DEF Required
  <2> QED
    BY <2>1, <2>2, <2>3
<1>4. ASSUME kind = "certificate", edits # <<>> PROVE DocumentShows'
  <2>1. wire # None /\ DocumentShows
    BY <1>1, <1>4 DEF NamesInv
  <2>2. ~Write /\ ~Receive
    BY <2>1 DEF Write, Receive
  <2>3. CASE Issue
    <3>1. wire' = wire /\ Decode("certificate", wire) # Malformed
      BY <1>4, <2>3 DEF Issue
    <3>2. Fields(TbsRowList, Body("certificate", wire.elements)) # Malformed
      BY <3>1, ReadShows DEF Decode
    <3> QED
      BY <1>2, <2>1, <3>1, <3>2 DEF DocumentShows
  <2>4. CASE Alter
    <3> DEFINE old == Body("certificate", wire.elements)
               new == Body("certificate", wire'.elements)
    <3>1. damage = <<>> /\ wire = sent /\ sent' = sent
      BY <2>1, <2>4 DEF HistoryInv, Alter, Altered
    <3>2. damage' # <<>>
      <4>1. PICK what, new1 : Altered(what, new1)
        BY <2>4, Zenon DEF Alter
      <4>2. damage' = Append(<<>>, what)
        BY <3>1, <4>1 DEF Altered
      <4>3. Len(damage') = 1
        BY <4>2
      <4> QED
        BY <4>3
    <3>3. AlteredTo(damage'[1], old, new)
      BY <1>1, <1>4, <3>1, <3>2 DEF HistoryInv, AlteredOnce
    <3> HIDE DEF old, new
    <3>4. Fields(TbsRowList, old) # Malformed /\ Shows(DecodeName(Fields(TbsRowList, old)[6]))
      BY <2>1, <3>1 DEF DocumentShows, old
    <3>5. Fields(TbsRowList, new) # Malformed => Shows(DecodeName(Fields(TbsRowList, new)[6]))
      BY <3>3, <3>4, SubjectIsKept
    <3> QED
      BY <1>2, <3>2, <3>5 DEF DocumentShows, new
  <2> QED
    BY <2>2, <2>3, <2>4
<1> QED
  BY <1>1, <1>2, <1>3, <1>4 DEF NamesInv

(* Reading and writing a value.                                            *)
LEMMA ValueKeepsNames ==
  ASSUME Atoms, DocumentsInv, ValuesInv, NamesInv, Parse \/ Rewrite \/ LoadPair \/ StorePair
  PROVE  NamesInv'
<1>1. UNCHANGED <<kind, edits>>
  BY DEF Parse, Rewrite, LoadPair, StorePair
<1>2. /\ IsVec(edits') /\ TextsGiven' /\ \A name : Shows(name)' <=> Shows(name)
      /\ \A name : edits = <<>> => Shows(name)
  BY <1>1, NothingGiven
<1>3. CASE Parse
  <2>1. PICK mode \in {"der", "ber"}, type \in Types :
          /\ Read(kind, mode, wire) # Malformed
          /\ held' = [type |-> type, value |-> Read(kind, mode, wire), original |-> wire, changed |-> FALSE]
    BY <1>3 DEF Parse
  <2>2. wire' = wire /\ wire # None /\ held = None /\ held'.value = Decode(kind, wire) /\ Decode(kind, wire) # Malformed
    BY <1>3, <2>1, ReadDecodes DEF Parse
  <2>3. held' # None
    <3>1. IsFunction(held')
      BY <2>1 DEF IsFunction
    <3> QED
      BY <3>1 DEF Atoms, Required
  <2>4. ASSUME kind = "certificate" PROVE Shows(held'.value.tbs.subject)
    <3>1. held'.value = DecodeCertificate(wire.form, wire.elements)
      BY <2>2, <2>4 DEF Decode
    <3>2. LET f == Fields(TbsRowList, Body("certificate", wire.elements))
          IN  f # Malformed /\ held'.value.tbs.subject = DecodeName(f[6])
      BY <2>2, <3>1, ReadShows
    <3>3. edits # <<>> => DocumentShows
      BY <2>2, <2>4 DEF NamesInv
    <3> QED
      BY <1>2, <3>2, <3>3 DEF DocumentShows
  <2> QED
    BY <1>1, <1>2, <2>2, <2>3, <2>4 DEF NamesInv
<1>4. CASE Rewrite
  <2>1. /\ wire' = Bytes(kind, held.value) /\ held' = None /\ damage' = <<>>
        /\ held # None /\ Holds({"plain", "captured", "mutable"})
    BY <1>4 DEF Rewrite, Holds
  <2>2. wire' # None
    BY <2>1, RecordIsThere DEF Bytes, Required
  <2>3. ASSUME kind = "certificate" PROVE DocumentShows'
    <3>1. Shows(held.value.tbs.subject) /\ IsCertificate(held.value)
      BY <2>1, <2>3 DEF NamesInv, ValuesInv, HeldIsTyped, Typed, HasType
    <3>2. wire'.elements = EncodeCertificate(held.value)
      BY <2>1, <2>3 DEF Bytes, Encode
    <3>3. LET f == Fields(TbsRowList, Body("certificate", wire'.elements))
          IN  f # Malformed /\ DecodeName(f[6]) = held.value.tbs.subject
      BY <3>1, <3>2, WrittenShows
    <3> QED
      BY <1>2, <3>1, <3>3 DEF DocumentShows
  <2> QED
    BY <1>1, <1>2, <2>1, <2>2, <2>3 DEF NamesInv
<1>5. CASE LoadPair \/ StorePair
  <2>1. kind = "privateKey"
    BY <1>5 DEF LoadPair, StorePair, DocumentsInv, PairWasLoaded
  <2>2. wire' # None
    <3>1. CASE LoadPair
      BY <3>1 DEF LoadPair
    <3>2. CASE StorePair
      <4>1. wire' = held.value.pkcs8 /\ wire # None /\ held.value = PairOf(wire) /\ held.value # Malformed
        BY <3>2 DEF StorePair, DocumentsInv, PairWasLoaded
      <4> QED
        BY <4>1, PairSays DEF PairOf
    <3> QED
      BY <1>5, <3>1, <3>2
  <2> QED
    BY <1>1, <1>2, <2>1, <2>2 DEF NamesInv
<1> QED
  BY <1>3, <1>4, <1>5

(* Certificates from certificates.                                         *)
LEMMA CopyKeepsNames ==
  ASSUME Atoms, DocumentsInv, ValuesInv, ValuesInv', NamesInv,
         ToMutable \/ IntoCertificate \/ Copy \/ ThroughMessage
  PROVE  NamesInv'
<1>1. UNCHANGED <<kind, wire, edits>> /\ held # None
  BY DEF ToMutable, IntoCertificate, Copy, ThroughMessage, CopyThrough, Holds
<1>2. IsVec(edits') /\ TextsGiven' /\ \A name : Shows(name)' <=> Shows(name)
  BY <1>1, NothingGiven
<1>3. wire' # None
  BY <1>1 DEF NamesInv
<1>4. held' # None
  <2>1. IsFunction(held')
    BY DEF ToMutable, IntoCertificate, Copy, ThroughMessage, CopyThrough, IsFunction
  <2> QED
    BY <2>1 DEF Atoms, Required
<1>5. ASSUME kind = "certificate" PROVE held'.value.tbs.subject = held.value.tbs.subject
  <2>1. CASE ToMutable \/ IntoCertificate
    <3>1. PICK type : held' = [held EXCEPT !.type = type]
      BY <2>1 DEF ToMutable, IntoCertificate
    <3>2. held'.value = held.value
      BY <1>1, <3>1 DEF DocumentsInv, HeldShape
    <3> QED
      BY <3>2
  <2>2. ASSUME NEW mode, CopyThrough(mode) PROVE held'.value.tbs.subject = held.value.tbs.subject
    <3>1. copied' = held.value /\ Holds({"plain", "captured", "mutable"})
      BY <2>2 DEF CopyThrough
    <3>2. IsCertificate(held.value)
      BY <1>5, <3>1 DEF ValuesInv, HeldIsTyped, Typed, HasType
    <3>3. held.value # None
      <4>1. IsFunction(held.value)
        BY <3>2 DEF IsCertificate, IsFunction
      <4> QED
        BY <4>1 DEF Atoms, Required
    <3>4. Same("certificate", held'.value, held.value)
      BY <1>1, <1>4, <1>5, <3>1, <3>3 DEF ValuesInv, CopyIsRead
    <3>5. IsCertificate(held'.value)
      <4>1. held'.type = "captured"
        BY <2>2 DEF CopyThrough
      <4> QED
        BY <1>1, <1>4, <1>5, <4>1 DEF ValuesInv, HeldIsTyped, Holds, Typed, HasType
    <3>6. ASSUME NEW c, IsCertificate(c) PROVE Normal("certificate", c).tbs.subject = c.tbs.subject
      <4>1. c = [tbs |-> c.tbs, signatureAlgorithm |-> c.signatureAlgorithm, signature |-> c.signature,
                 rawData |-> c.rawData] /\ IsTbs(c.tbs)
        BY <3>6 DEF IsCertificate
      <4>2. Normal("certificate", c).tbs = NormalTbs(c.tbs)
        <5> DEFINE u == [c EXCEPT !.rawData = None,
                                  !.tbs.version = IF @ = V1 THEN None ELSE @,
                                  !.tbs.extensions = NormalExtensions(@)]
        <5>1. Normal("certificate", c) = u
          BY DEF Normal
        <5>2. "tbs" \in DOMAIN c
          BY <4>1
        <5>3. u.tbs = [c.tbs EXCEPT !.version = IF @ = V1 THEN None ELSE @, !.extensions = NormalExtensions(@)]
          BY <5>2
        <5> QED
          BY <5>1, <5>3 DEF NormalTbs, NormalVersion
      <4>3. NormalTbs(c.tbs).subject = c.tbs.subject
        BY <4>1 DEF NormalTbs, IsTbs
      <4> QED
        BY <4>2, <4>3
    <3> QED
      BY <3>2, <3>4, <3>5, <3>6 DEF Same
  <2> QED
    BY <2>1, <2>2 DEF Copy, ThroughMessage
<1> QED
  BY <1>1, <1>2, <1>3, <1>4, <1>5 DEF NamesInv

(* A change that is made last.                                             *)
LEMMA OneMoreChange ==
  ASSUME NamesInv, NEW what, edits' = Append(edits, what)
  PROVE  /\ IsVec(edits')
         /\ \E n \in Nat : /\ DOMAIN edits = 1..n /\ DOMAIN edits' = 1..(n + 1)
                           /\ edits'[n + 1] = what /\ \A i \in 1..n : edits'[i] = edits[i]
<1> DEFINE n == Len(edits)
<1>1. IsVec(edits)
  BY DEF NamesInv
<1>2. n \in Nat /\ DOMAIN edits = 1..n /\ edits \in Seq({edits[i] : i \in DOMAIN edits})
  BY <1>1, VecIsSeq
<1> DEFINE S == {edits[i] : i \in DOMAIN edits} \cup {what}
<1>3. edits \in Seq(S) /\ what \in S
  BY <1>2
<1> HIDE DEF S
<1>4. DOMAIN edits' = 1..(n + 1) /\ edits'[n + 1] = what /\ \A i \in 1..n : edits'[i] = edits[i]
  BY <1>2, <1>3
<1>5. IsVec(edits')
  BY <1>1, AppendIsVec
<1> QED
  BY <1>2, <1>4, <1>5

(* A subject is given a text.                                              *)
LEMMA SubjectKeepsNames ==
  ASSUME Atoms, DocumentsInv, ValuesInv, NamesInv, EditSubject
  PROVE  NamesInv'
<1>1. kind = "certificate" /\ held # None /\ Holds({"plain", "mutable"})
  BY DEF EditSubject, CanEdit, Holds
<1> DEFINE name == held.value.tbs.subject
<1>2. PICK s \in NewText : \E r \in Renamings(name, s) :
        r.name # name /\ Edited(<<r.typ, s>>, [held.value EXCEPT !.tbs.subject = r.name])
  BY DEF EditSubject
<1>3. PICK r \in Renamings(name, s) :
        r.name # name /\ Edited(<<r.typ, s>>, [held.value EXCEPT !.tbs.subject = r.name])
  BY <1>2
<1>4. IsCertificate(held.value) /\ IsTbs(held.value.tbs) /\ IsName(name)
  <2>1. IsCertificate(held.value)
    BY <1>1 DEF ValuesInv, HeldIsTyped, Holds, Typed, HasType
  <2> QED
    BY <2>1 DEF IsCertificate, IsTbs
<1>5. held'.value.tbs.subject = r.name
  <2> DEFINE v == [held.value EXCEPT !.tbs.subject = r.name]
  <2>1. held' = [held EXCEPT !.value = v, !.changed = TRUE]
    BY <1>3 DEF Edited
  <2>2. held'.value = v
    BY <1>1, <2>1 DEF DocumentsInv, HeldShape
  <2>3. "tbs" \in DOMAIN held.value /\ "subject" \in DOMAIN held.value.tbs
    BY <1>4 DEF IsCertificate, IsTbs
  <2> QED
    BY <2>2, <2>3
<1>6. s \in Text
  BY DocumentsAssumption
<1> HIDE DEF name
<1>7. RenamedTo(name, s, r)
  BY <1>3, <1>4, <1>6, RenamedIsShown
<1>8. edits' = Append(edits, <<r.typ, s>>) /\ UNCHANGED <<kind, wire>>
  BY <1>3 DEF Edited
<1>9. IsVec(edits')
  BY <1>8, OneMoreChange
<1>10. PICK n \in Nat : /\ DOMAIN edits = 1..n /\ DOMAIN edits' = 1..(n + 1)
                        /\ edits'[n + 1] = <<r.typ, s>> /\ \A i \in 1..n : edits'[i] = edits[i]
  BY <1>8, OneMoreChange
<1>11. n + 1 \in 1..(n + 1) /\ \A i \in 1..(n + 1) : i = n + 1 \/ i \in 1..n
  OBVIOUS
<1>12. TextsGiven'
  BY <1>7, <1>10, <1>11 DEF NamesInv, TextsGiven, IsFriendly, RenamedTo
<1>13. Shows(name)
  BY <1>1 DEF NamesInv, name
<1>14. Shows(r.name)'
  <2> SUFFICES ASSUME NEW i \in 1..(n + 1), IsFriendly(i)'
               PROVE  \E a \in AttributesIn(r.name) : ShowsGiven(a, i)'
    BY <1>10 DEF Shows
  <2>1. PICK a \in AttributesIn(r.name) : a.typ = r.typ /\ AttributeText(a.value) = s
    BY <1>7 DEF RenamedTo
  <2>2. CASE i = n + 1
    BY <1>10, <2>1, <2>2 DEF ShowsGiven
  <2>3. CASE i \in 1..n
    <3>1. edits'[i] = edits[i] /\ n + 1 > i
      BY <1>10, <2>3
    <3>2. CASE edits[i][1] = r.typ
      <4>1. ~LastOfType(i)'
        BY <1>10, <1>11, <3>1, <3>2 DEF LastOfType
      <4> QED
        BY <2>1, <3>1, <3>2, <4>1 DEF ShowsGiven
    <3>3. CASE edits[i][1] # r.typ
      <4>1. PICK b \in AttributesIn(name) : ShowsGiven(b, i)
        BY <1>10, <1>13, <2>3, <3>1 DEF Shows, IsFriendly
      <4>2. b \in AttributesIn(r.name)
        BY <1>7, <3>3, <4>1 DEF RenamedTo, ShowsGiven
      <4>3. LastOfType(i)' => LastOfType(i)
        BY <1>10, <1>11, <3>1 DEF LastOfType
      <4> QED
        BY <3>1, <4>1, <4>2, <4>3 DEF ShowsGiven
    <3> QED
      BY <3>2, <3>3
  <2> QED
    BY <1>11, <2>2, <2>3
<1>15. wire # None
  BY <1>1 DEF NamesInv
<1>16. held' # None
  <2>1. IsFunction(held')
    BY <1>3 DEF Edited, IsFunction
  <2> QED
    BY <2>1 DEF Atoms, Required
<1> QED
  BY <1>5, <1>8, <1>9, <1>12, <1>14, <1>15, <1>16 DEF NamesInv

(* Any other change is of another part.                                    *)
LEMMA OthersKeepNames ==
  ASSUME Atoms, DocumentsInv, ValuesInv, NamesInv, EditCritical \/ EditSigned
  PROVE  NamesInv'
<1>1. PICK what, v : /\ Edited(<<what>>, v) /\ what \notin FriendlyTypes
                     /\ kind = "certificate" => v.tbs.subject = held.value.tbs.subject
  <2>1. CASE EditSigned
    <3> DEFINE part == "signedAttributes"
    <3>1. part \notin FriendlyTypes /\ kind # "certificate"
      BY <2>1 DEF EditSigned, CanEdit, FriendlyTypes
    <3>2. PICK v : Edited(<<part>>, v)
      BY <2>1, Zenon DEF EditSigned
    <3> HIDE DEF part
    <3> QED
      BY <3>1, <3>2
  <2>2. CASE EditCritical
    <3>1. kind = "certificate" /\ Holds({"plain", "mutable"})
      BY <2>2 DEF EditCritical, CanEdit
    <3>2. PICK i \in DOMAIN held.value.tbs.extensions, critical \in {TRUE, FALSE, None} :
            Edited(<<"critical">>, [held.value EXCEPT !.tbs.extensions[i].critical = critical])
      BY <2>2 DEF EditCritical
    <3> DEFINE v == [held.value EXCEPT !.tbs.extensions[i].critical = critical]
    <3>3. IsCertificate(held.value) /\ IsTbs(held.value.tbs)
      BY <3>1 DEF ValuesInv, HeldIsTyped, Holds, Typed, HasType, IsCertificate
    <3>4. v.tbs = [held.value.tbs EXCEPT !.extensions[i].critical = critical]
      <4>1. "tbs" \in DOMAIN held.value
        BY <3>3 DEF IsCertificate
      <4> QED
        BY <4>1
    <3>5. v.tbs.subject = held.value.tbs.subject
      <4>1. "subject" \in DOMAIN held.value.tbs
        BY <3>3 DEF IsTbs
      <4> QED
        BY <3>4, <4>1
    <3> HIDE DEF v
    <3> DEFINE part == "critical"
    <3>6. part \notin FriendlyTypes /\ Edited(<<part>>, v)
      BY <3>2 DEF v, FriendlyTypes
    <3> HIDE DEF part
    <3> QED
      BY <3>5, <3>6
  <2> QED
    BY <2>1, <2>2
<1>2. held # None
  BY DEF EditCritical, EditSigned, CanEdit, Holds
<1>3. /\ held' = [held EXCEPT !.value = v, !.changed = TRUE]
      /\ edits' = Append(edits, <<what>>) /\ UNCHANGED <<kind, wire>>
  BY <1>1 DEF Edited
<1>4. held'.value = v
  BY <1>2, <1>3 DEF DocumentsInv, HeldShape
<1>5. IsVec(edits')
  BY <1>3, OneMoreChange
<1>6. PICK n \in Nat : /\ DOMAIN edits = 1..n /\ DOMAIN edits' = 1..(n + 1)
                       /\ edits'[n + 1] = <<what>> /\ \A i \in 1..n : edits'[i] = edits[i]
  BY <1>3, OneMoreChange
<1>7. ASSUME NEW i \in 1..(n + 1), IsFriendly(i)' PROVE i \in 1..n /\ edits'[i] = edits[i] /\ IsFriendly(i)
  <2>1. i # n + 1
    BY <1>1, <1>6, <1>7 DEF IsFriendly
  <2>2. i \in 1..n
    BY <2>1
  <2> QED
    BY <1>6, <1>7, <2>2 DEF IsFriendly
<1>8. TextsGiven'
  BY <1>6, <1>7 DEF NamesInv, TextsGiven
<1>9. ASSUME kind = "certificate" PROVE Shows(held.value.tbs.subject)'
  <2>1. Shows(held.value.tbs.subject) /\ held'.value.tbs.subject = held.value.tbs.subject
    BY <1>1, <1>2, <1>4, <1>9 DEF NamesInv
  <2> SUFFICES ASSUME NEW i \in 1..(n + 1), IsFriendly(i)'
               PROVE  \E a \in AttributesIn(held'.value.tbs.subject) : ShowsGiven(a, i)'
    BY <1>6 DEF Shows
  <2>2. i \in 1..n /\ edits'[i] = edits[i] /\ IsFriendly(i)
    BY <1>7
  <2>3. PICK a \in AttributesIn(held.value.tbs.subject) : ShowsGiven(a, i)
    BY <1>6, <2>1, <2>2 DEF Shows
  <2>4. LastOfType(i)' => LastOfType(i)
    <3>1. \A j \in 1..n : j \in 1..(n + 1)
      OBVIOUS
    <3> QED
      BY <1>6, <2>2, <3>1 DEF LastOfType
  <2>5. ShowsGiven(a, i)'
    BY <2>2, <2>3, <2>4 DEF ShowsGiven
  <2>6. a \in AttributesIn(held'.value.tbs.subject)
    BY <2>1, <2>3
  <2> QED
    BY <2>5, <2>6
<1>11. held' # None
  <2>1. IsFunction(held')
    BY <1>3 DEF IsFunction
  <2> QED
    BY <2>1 DEF Atoms, Required
<1>12. wire # None
  BY <1>2 DEF NamesInv
<1> QED
  BY <1>3, <1>5, <1>8, <1>9, <1>11, <1>12 DEF NamesInv

(* Every step keeps what the names were given.                             *)
LEMMA NextKeepsNames ==
  Atoms /\ DocumentsInv /\ ValuesInv /\ ValuesInv' /\ HistoryInv /\ HistoryInv' /\ NamesInv /\ [Next]_vars => NamesInv'
<1> SUFFICES ASSUME Atoms, DocumentsInv, ValuesInv, ValuesInv', HistoryInv, HistoryInv', NamesInv, [Next]_vars
             PROVE  NamesInv'
  OBVIOUS
<1>1. CASE UNCHANGED vars
  <2>1. UNCHANGED <<kind, wire, damage, held, edits>>
    BY <1>1 DEF vars
  <2>2. IsVec(edits') /\ TextsGiven' /\ \A name : Shows(name)' <=> Shows(name)
    BY <2>1, NothingGiven
  <2> QED
    BY <2>1, <2>2 DEF NamesInv, DocumentShows
<1> QED
  BY <1>1, WireKeepsNames, ValueKeepsNames, CopyKeepsNames, SubjectKeepsNames, OthersKeepNames DEF Next

(* In every reachable state the subject that is held, or was written, has  *)
(* an attribute of each type it was given a text of.                       *)
THEOREM NamesInvariant ==
  ASSUME Atoms
  PROVE  Spec => []NamesInv
<1>1. DocumentsInv /\ ValuesInv /\ ValuesInv' /\ HistoryInv /\ HistoryInv' /\ NamesInv /\ [Next]_vars => NamesInv'
  BY NextKeepsNames
<1> QED
  BY <1>1, InitNames, DocumentsInvariant, ValuesInvariant, HistoryInvariant, PTL DEF Spec

(* Whatever is changed, read and written in between, a name shows the last *)
(* text it was given of each type, a common name is never lost, and a      *)
(* country always has two printable characters.                            *)
THEOREM NamesKeepTheirText ==
  ASSUME Atoms
  PROVE  Spec => []NamesShowTheirText
<1>1. Among(FriendlyOrder) = FriendlyTypes
  <2>1. DOMAIN FriendlyOrder = 1..6 /\ FriendlyOrder # None
    <3>1. IsFunction(FriendlyOrder)
      BY DEF FriendlyOrder, IsFunction
    <3> QED
      BY <3>1 DEF Atoms, Required, FriendlyOrder
  <2>2. 1..6 = {1, 2, 3, 4, 5, 6}
    OBVIOUS
  <2> QED
    BY <2>1, <2>2 DEF Among, FriendlyTypes, FriendlyOrder
<1>2. DocumentsInv /\ ValuesInv /\ NamesInv => NamesShowTheirText
  <2> DEFINE name == held.value.tbs.subject
             Told(i) == /\ /\ UserFriendly(name) # Malformed
                           /\ \A j \in DOMAIN edits : j > i => edits[j][1] # edits[i][1]
                           => edits[i] \in Among(UserFriendly(name))
                        /\ edits[i][1] = "CN" => FirstString(name, "CN") # None
                        /\ edits[i][1] = "C" => edits[i][2] \in TwoOctets \cap PrintableText
  <2> SUFFICES ASSUME DocumentsInv, ValuesInv, NamesInv, kind = "certificate", held # None,
                      NEW i \in DOMAIN edits, edits[i][1] \in FriendlyTypes
               PROVE  Told(i)
    BY <1>1 DEF NamesShowTheirText
  <2>1. Holds({"plain", "captured", "mutable"})
    BY DEF DocumentsInv, HeldShape, PairWasLoaded, Holds
  <2>2. IsCertificate(held.value)
    BY <2>1 DEF ValuesInv, HeldIsTyped, Typed, HasType
  <2>3. IsName(name)
    BY <2>2 DEF IsCertificate, IsTbs
  <2>4. Shows(name) /\ IsFriendly(i)
    BY DEF NamesInv, IsFriendly
  <2>5. /\ edits[i] = <<edits[i][1], edits[i][2]>>
        /\ edits[i][1] = "C" => edits[i][2] \in TwoOctets \cap PrintableText
    BY <2>4 DEF NamesInv, TextsGiven
  <2> HIDE DEF name
  <2>6. PICK a \in AttributesIn(name) : ShowsGiven(a, i)
    BY <2>4 DEF Shows
  <2>7. a.typ = edits[i][1]
    BY <2>6 DEF ShowsGiven
  <2>8. edits[i][1] = "CN" => FirstString(name, "CN") # None
    BY <2>3, <2>7, CommonNameIsFound
  <2>9. ASSUME UserFriendly(name) # Malformed, LastOfType(i) PROVE edits[i] \in Among(UserFriendly(name))
    <3>1. AttributeText(a.value) = edits[i][2]
      BY <2>6, <2>9 DEF ShowsGiven
    <3>2. <<a.typ, AttributeText(a.value)>> \in Among(UserFriendly(name))
      BY <2>3, <2>7, <2>9, FriendlyShows
    <3> QED
      BY <2>5, <2>7, <3>1, <3>2
  <2> QED
    BY <2>5, <2>8, <2>9 DEF LastOfType
<1> QED
  BY <1>2, NamesInvariant, ValuesInvariant, DocumentsInvariant, PTL

-----------------------------------------------------------------------------
(* What a decoder captures was captured in the elements it read.           *)

(* None of these elements holds a value that is BER.                       *)
AllDer(k, e) == \A i \in 1..Len(e) : CapturedOf(k, e[i]) \cap BerOnly = {}

(* The body that a row got is that of one of the elements.                 *)
LEMMA BodyIsFound ==
  ASSUME NEW n \in Nat, NEW rows, Len(rows) = n, DOMAIN rows = 1..n,
         NEW e, Fields(rows, e) # Malformed, NEW k, AllDer(k, e)
  PROVE  \A i \in 1..n :
           ~rows[i].optional \/ Fields(rows, e)[i] # None =>
             CapturedOf(k, <<rows[i].tag, Fields(rows, e)[i]>>) \cap BerOnly = {}
<1> DEFINE f == Fields(rows, e)
<1>1. Len(e) \in Nat /\ \E p : Aligned(p, n, rows, e, f)
  BY ReadInOrder
<1> HIDE DEF f
<1>2. PICK p : Aligned(p, n, rows, e, f)
  BY <1>1
<1>3. ASSUME NEW i \in 1..n, ~rows[i].optional \/ f[i] # None
      PROVE  CapturedOf(k, <<rows[i].tag, f[i]>>) \cap BerOnly = {}
  <2>1. PICK j \in 1..Len(e) : p[j] = i
    BY <1>2, <1>3 DEF Aligned
  <2>2. e[j][1] = rows[i].tag /\ e[j][2] = f[i]
    BY <1>2, <2>1 DEF Aligned
  <2>3. CapturedOf(k, e[j]) \cap BerOnly = {}
    BY DEF AllDer
  <2> DEFINE x == <<rows[i].tag, f[i]>>
  <2>4. x[1] = e[j][1] /\ x[2] = e[j][2]
    BY <2>2
  <2> HIDE DEF x
  <2>5. CapturedOf(k, x) = CapturedOf(k, e[j])
    BY <2>4 DEF CapturedOf
  <2> QED
    BY <2>3, <2>5 DEF x
<1> QED
  BY <1>3 DEF f

(* Rows that must be there read the first elements.                        *)
LEMMA FirstElements ==
  ASSUME NEW n \in Nat, NEW rows, Len(rows) = n, DOMAIN rows = 1..n,
         NEW m \in 0..n, \A i \in 1..m : ~rows[i].optional,
         NEW e, Fields(rows, e) # Malformed
  PROVE  \A i \in 1..m : /\ i \in 1..Len(e) /\ Len(e) \in Nat
                         /\ e[i][1] = rows[i].tag /\ Fields(rows, e)[i] = e[i][2]
<1> DEFINE f == Fields(rows, e)
<1>1. Len(e) \in Nat /\ \E p : Aligned(p, n, rows, e, f)
  BY ReadInOrder
<1> HIDE DEF f
<1>2. PICK p : Aligned(p, n, rows, e, f)
  BY <1>1
<1>3. \A i \in 1..m : i \in 1..Len(e) /\ p[i] = i
  BY <1>1, <1>2, FirstOnesRead
<1>4. \A i \in 1..m : e[i][1] = rows[i].tag /\ f[i] = e[i][2]
  BY <1>2, <1>3 DEF Aligned
<1> QED
  BY <1>1, <1>3, <1>4 DEF f

(* The value of an opaque structure is the one captured in it.             *)
LEMMA WithinIsCaptured ==
  ASSUME NEW type, NEW b, Within(type, b) # Malformed,
         b # None => Captured(type, b) \cap BerOnly = {}
  PROVE  Within(type, b) \notin BerOnly
BY DocumentsAssumption DEF Within, Captured

(* The values of a list are those captured in its elements.                *)
LEMMA ListIsCaptured ==
  ASSUME NEW type, NEW b, DecodeOpaqueList(type, b) # Malformed,
         b # None => CapturedEach(type, b) \cap BerOnly = {}
  PROVE  Among(DecodeOpaqueList(type, b)) \cap BerOnly = {}
<1> DEFINE v == DecodeOpaqueList(type, b)
<1>1. CASE b = None
  BY <1>1 DEF DecodeOpaqueList, Optional, Among
<1>2. CASE b # None
  <2>1. /\ AllTagged(b, "SEQUENCE")
        /\ v = [i \in DOMAIN b |-> Within(type, b[i][2])]
        /\ \A i \in DOMAIN b : v[i] # Malformed
    BY <1>2 DEF DecodeOpaqueList, Optional, DecodeEach, Sound
  <2> HIDE DEF v
  <2>2. ASSUME NEW i \in DOMAIN b PROVE v[i] \notin BerOnly
    <3>1. b[i][1] = "SEQUENCE"
      BY <2>1 DEF AllTagged
    <3>2. Captured(type, b[i][2]) \subseteq CapturedEach(type, b)
      BY <3>1 DEF CapturedEach, CapturedAmong
    <3>3. Captured(type, b[i][2]) \cap BerOnly = {}
      BY <1>2, <3>2
    <3>4. v[i] = Within(type, b[i][2]) /\ v[i] # Malformed
      BY <2>1
    <3> QED
      BY <3>3, <3>4, WithinIsCaptured
  <2>3. DOMAIN v = DOMAIN b
    BY <2>1
  <2>4. Among(v) \cap BerOnly = {}
    BY <2>2, <2>3 DEF Among
  <2> QED
    BY <2>4 DEF v
<1> QED
  BY <1>1, <1>2

(* The algorithm at the beginning of a structure of two fields.            *)
LEMMA AlgorithmComesFirst ==
  ASSUME NEW tag, NEW b, LET f == Fields(<<One("SEQUENCE"), One(tag)>>, b)
                         IN  f # Malformed /\ Within("Algorithm", f[1]) # Malformed,
         CapturedFirst("Algorithm", b) \cap BerOnly = {}
  PROVE  Within("Algorithm", Fields(<<One("SEQUENCE"), One(tag)>>, b)[1]) \notin BerOnly
<1> DEFINE n == 2
           m == 1
           rows == <<One("SEQUENCE"), One(tag)>>
           f == Fields(rows, b)
<1>1. n \in Nat /\ Len(rows) = n /\ DOMAIN rows = 1..n /\ m \in 0..n /\ 1 \in 1..m /\ \A i \in 1..m : ~rows[i].optional
  BY RowIs
<1>2. f # Malformed /\ Within("Algorithm", f[1]) # Malformed /\ rows[1].tag = "SEQUENCE"
  BY RowIs
<1> HIDE DEF n, m, rows
<1>3. 1 \in 1..Len(b) /\ Len(b) \in Nat /\ b[1][1] = "SEQUENCE" /\ f[1] = b[1][2]
  BY <1>1, <1>2, FirstElements
<1>4. CapturedFirst("Algorithm", b) = Captured("Algorithm", b[1][2])
  BY <1>3 DEF CapturedFirst
<1> HIDE DEF f
<1>5. Within("Algorithm", f[1]) \notin BerOnly
  BY <1>2, <1>3, <1>4, WithinIsCaptured
<1> QED
  BY <1>5 DEF f, rows

-----------------------------------------------------------------------------
(* An algorithm that is an element of a document was captured there, and   *)
(* so was one at the beginning of an element.                              *)
LEMMA AlgorithmOfElement ==
  ASSUME NEW k \in {"certificate", "request", "signerInfo", "timeStampReq", "tstInfo", "privateKey", "digestInfo"},
         NEW b, CapturedOf(k, <<"SEQUENCE", b>>) \cap BerOnly = {}
  PROVE  /\ Captured("Algorithm", b) \cap BerOnly = {}
         /\ CapturedFirst("Algorithm", b) \cap BerOnly = {}
<1> DEFINE x == <<"SEQUENCE", b>>
<1>1. x[1] = "SEQUENCE" /\ x[2] = b
  OBVIOUS
<1> HIDE DEF x
<1>2. CapturedOf(k, x) = Captured("Algorithm", b) \cup CapturedFirst("Algorithm", b)
  BY <1>1 DEF CapturedOf
<1>3. CapturedOf(k, x) \cap BerOnly = {}
  BY DEF x
<1> QED
  BY <1>2, <1>3

(* The algorithm of a public key.                                          *)
LEMMA SpkiIsCaptured ==
  ASSUME NEW b, DecodeSpki(b) # Malformed, CapturedFirst("Algorithm", b) \cap BerOnly = {}
  PROVE  DecodeSpki(b).algorithm \notin BerOnly
<1> DEFINE f == Fields(<<One("SEQUENCE"), One("BITS")>>, b)
<1>1. f # Malformed /\ DecodeSpki(b).algorithm = Within("Algorithm", f[1]) /\ Within("Algorithm", f[1]) # Malformed
  BY DEF DecodeSpki, Decoded, Made, Sound
<1> QED
  BY <1>1, AlgorithmComesFirst

(* The algorithm of an imprint.                                            *)
LEMMA ImprintIsCaptured ==
  ASSUME NEW b, DecodeImprint(b) # Malformed, CapturedFirst("Algorithm", b) \cap BerOnly = {}
  PROVE  DecodeImprint(b).algorithm \notin BerOnly
<1> DEFINE f == Fields(<<One("SEQUENCE"), One("OCTETS")>>, b)
<1>1. f # Malformed /\ DecodeImprint(b).algorithm = Within("Algorithm", f[1]) /\ Within("Algorithm", f[1]) # Malformed
  BY DEF DecodeImprint, Decoded, Made, Sound
<1> QED
  BY <1>1, AlgorithmComesFirst

(* The algorithms in a TBSCertificate.                                     *)
LEMMA TbsIsCaptured ==
  ASSUME NEW e, DecodeTbs(e) # Malformed, AllDer("certificate", e)
  PROVE  /\ DecodeTbs(e).signature \notin BerOnly
         /\ DecodeTbs(e).subjectPublicKeyInfo.algorithm \notin BerOnly
<1> DEFINE n == 10
           rows == <<Opt("0"), One("INTEGER"), One("SEQUENCE"), One("SEQUENCE"), One("SEQUENCE"),
                     One("SEQUENCE"), One("SEQUENCE"), Opt("1"), Opt("2"), Opt("3")>>
           f == Fields(rows, e)
           v == DecodeTbs(e)
<1>1. n \in Nat /\ Len(rows) = n /\ DOMAIN rows = 1..n /\ 3 \in 1..n /\ 7 \in 1..n
  OBVIOUS
<1>2. /\ rows[3].tag = "SEQUENCE" /\ ~rows[3].optional
      /\ rows[7].tag = "SEQUENCE" /\ ~rows[7].optional
  BY RowIs
<1>3. f # Malformed /\ Sound(TbsFields(f)) # Malformed /\ v = Sound(TbsFields(f))
  BY DEF DecodeTbs, Obeying, Decoded, Made
<1> HIDE DEF f, v, rows, n
<1>4. /\ v.signature = Within("Algorithm", f[3]) /\ Within("Algorithm", f[3]) # Malformed
      /\ v.subjectPublicKeyInfo = DecodeSpki(f[7]) /\ DecodeSpki(f[7]) # Malformed
  BY <1>3 DEF Sound, TbsFields
<1>5. \A i \in 1..n : ~rows[i].optional \/ f[i] # None =>
        CapturedOf("certificate", <<rows[i].tag, f[i]>>) \cap BerOnly = {}
  BY <1>1, <1>3, BodyIsFound DEF f
<1>6. /\ CapturedOf("certificate", <<"SEQUENCE", f[3]>>) \cap BerOnly = {}
      /\ CapturedOf("certificate", <<"SEQUENCE", f[7]>>) \cap BerOnly = {}
  BY <1>1, <1>2, <1>5
<1>7. /\ Captured("Algorithm", f[3]) \cap BerOnly = {}
      /\ CapturedFirst("Algorithm", f[7]) \cap BerOnly = {}
  BY <1>6, AlgorithmOfElement
<1>8. v.signature \notin BerOnly
  BY <1>4, <1>7, WithinIsCaptured
<1>9. v.subjectPublicKeyInfo.algorithm \notin BerOnly
  BY <1>4, <1>7, SpkiIsCaptured
<1> QED
  BY <1>8, <1>9 DEF v

(* The algorithm beside what is signed, in a certificate or a request.     *)
LEMMA SignatureAlgorithmIsCaptured ==
  ASSUME NEW e, LET f == Fields(<<One("SEQUENCE"), One("SEQUENCE"), One("BITS")>>, e)
                IN  f # Malformed /\ Within("Algorithm", f[2]) # Malformed,
         2 \in 1..Len(e) => Captured("Algorithm", e[2][2]) \cap BerOnly = {}
  PROVE  Within("Algorithm", Fields(<<One("SEQUENCE"), One("SEQUENCE"), One("BITS")>>, e)[2]) \notin BerOnly
<1> DEFINE n == 3
           m == 2
           rows == <<One("SEQUENCE"), One("SEQUENCE"), One("BITS")>>
           f == Fields(rows, e)
<1>1. n \in Nat /\ Len(rows) = n /\ DOMAIN rows = 1..n /\ m \in 0..n /\ 2 \in 1..m /\ \A i \in 1..m : ~rows[i].optional
  BY RowIs
<1>2. f # Malformed /\ Within("Algorithm", f[2]) # Malformed
  OBVIOUS
<1> HIDE DEF n, m, rows
<1>3. 2 \in 1..Len(e) /\ f[2] = e[2][2]
  BY <1>1, <1>2, FirstElements
<1> HIDE DEF f
<1>4. Within("Algorithm", f[2]) \notin BerOnly
  BY <1>2, <1>3, WithinIsCaptured
<1> QED
  BY <1>4 DEF f, rows

(* What is captured of a certificate.                                      *)
LEMMA CertificateIsCaptured ==
  ASSUME NEW form, NEW e, DecodeCertificate(form, e) # Malformed, AllDer("certificate", Body("certificate", e)),
         2 \in 1..Len(e) => Captured("Algorithm", e[2][2]) \cap BerOnly = {}
  PROVE  CapturedIn("certificate", DecodeCertificate(form, e)) \cap BerOnly = {}
<1> DEFINE v == DecodeCertificate(form, e)
           f == Fields(<<One("SEQUENCE"), One("SEQUENCE"), One("BITS")>>, e)
<1>1. /\ f # Malformed /\ v.signatureAlgorithm = Within("Algorithm", f[2])
      /\ Within("Algorithm", f[2]) # Malformed
  BY DEF DecodeCertificate, Decoded, Made, Sound
<1>2. v.tbs = DecodeTbs(Body("certificate", e)) /\ DecodeTbs(Body("certificate", e)) # Malformed
  BY CertificateHoldsItsBody
<1>3. v.signatureAlgorithm \notin BerOnly
  BY <1>1, SignatureAlgorithmIsCaptured
<1> HIDE DEF v, f
<1>4. v.tbs.signature \notin BerOnly /\ v.tbs.subjectPublicKeyInfo.algorithm \notin BerOnly
  BY <1>2, TbsIsCaptured
<1>5. CapturedIn("certificate", v) \cap BerOnly = {}
  BY <1>3, <1>4 DEF CapturedIn
<1> QED
  BY <1>5 DEF v

(* What is captured of a request.                                          *)
LEMMA RequestInfoIsCaptured ==
  ASSUME NEW e, DecodeRequestInfo(e) # Malformed, AllDer("request", e)
  PROVE  /\ DecodeRequestInfo(e).subjectPublicKeyInfo.algorithm \notin BerOnly
         /\ Among(DecodeRequestInfo(e).attributes) \cap BerOnly = {}
<1> DEFINE n == 4
           rows == <<One("INTEGER"), One("SEQUENCE"), One("SEQUENCE"), One("0")>>
           f == Fields(rows, e)
           v == DecodeRequestInfo(e)
<1>1. n \in Nat /\ Len(rows) = n /\ DOMAIN rows = 1..n /\ 3 \in 1..n /\ 4 \in 1..n
  OBVIOUS
<1>2. /\ rows[3].tag = "SEQUENCE" /\ ~rows[3].optional
      /\ rows[4].tag = "0" /\ ~rows[4].optional
  BY RowIs
<1>3. /\ f # Malformed
      /\ v.subjectPublicKeyInfo = DecodeSpki(f[3]) /\ DecodeSpki(f[3]) # Malformed
      /\ v.attributes = DecodeOpaqueList("Attribute", f[4]) /\ DecodeOpaqueList("Attribute", f[4]) # Malformed
  BY DEF DecodeRequestInfo, Decoded, Made, Sound
<1> HIDE DEF f, v, rows, n
<1>4. \A i \in 1..n : ~rows[i].optional \/ f[i] # None => CapturedOf("request", <<rows[i].tag, f[i]>>) \cap BerOnly = {}
  BY <1>1, <1>3, BodyIsFound DEF f
<1>5. /\ CapturedOf("request", <<"SEQUENCE", f[3]>>) \cap BerOnly = {}
      /\ CapturedOf("request", <<"0", f[4]>>) \cap BerOnly = {}
  BY <1>1, <1>2, <1>4
<1>6. CapturedFirst("Algorithm", f[3]) \cap BerOnly = {}
  BY <1>5, AlgorithmOfElement
<1>7. CapturedEach("Attribute", f[4]) \cap BerOnly = {}
  <2>1. CapturedOf("request", <<"0", f[4]>>) = CapturedEach("Attribute", f[4])
    BY DEF CapturedOf
  <2> QED
    BY <1>5, <2>1
<1>8. v.subjectPublicKeyInfo.algorithm \notin BerOnly
  BY <1>3, <1>6, SpkiIsCaptured
<1>9. Among(v.attributes) \cap BerOnly = {}
  BY <1>3, <1>7, ListIsCaptured
<1> QED
  BY <1>8, <1>9 DEF v

(* And of the whole of it.                                                 *)
LEMMA RequestIsCaptured ==
  ASSUME NEW e, DecodeRequest(e) # Malformed, AllDer("request", Body("request", e)),
         2 \in 1..Len(e) => Captured("Algorithm", e[2][2]) \cap BerOnly = {}
  PROVE  CapturedIn("request", DecodeRequest(e)) \cap BerOnly = {}
<1> DEFINE n == 3
           m == 1
           rows == <<One("SEQUENCE"), One("SEQUENCE"), One("BITS")>>
           v == DecodeRequest(e)
           f == Fields(rows, e)
<1>1. /\ f # Malformed /\ v.signatureAlgorithm = Within("Algorithm", f[2])
      /\ Within("Algorithm", f[2]) # Malformed /\ v.info = DecodeRequestInfo(f[1])
  BY DEF DecodeRequest, Decoded, Made, Sound
<1>2. v.signatureAlgorithm \notin BerOnly
  BY <1>1, SignatureAlgorithmIsCaptured
<1>3. n \in Nat /\ Len(rows) = n /\ DOMAIN rows = 1..n /\ m \in 0..n /\ 1 \in 1..m /\ \A i \in 1..m : ~rows[i].optional
  BY RowIs
<1> HIDE DEF rows, n, m
<1>4. f[1] = e[1][2]
  BY <1>1, <1>3, FirstElements
<1>5. v.info = DecodeRequestInfo(Body("request", e)) /\ DecodeRequestInfo(Body("request", e)) # Malformed
  BY <1>1, <1>4, RequestHoldsItsBody DEF Body
<1> HIDE DEF v, f
<1>6. v.info.subjectPublicKeyInfo.algorithm \notin BerOnly /\ Among(v.info.attributes) \cap BerOnly = {}
  BY <1>5, RequestInfoIsCaptured
<1>7. CapturedIn("request", v) \cap BerOnly = {}
  BY <1>2, <1>6 DEF CapturedIn
<1> QED
  BY <1>7 DEF v

-----------------------------------------------------------------------------
(* What is captured of a SignerInfo.                                       *)
LEMMA SignerInfoIsCaptured ==
  ASSUME NEW e, DecodeSignerInfo(e) # Malformed, AllDer("signerInfo", e)
  PROVE  CapturedIn("signerInfo", DecodeSignerInfo(e)) \cap BerOnly = {}
<1> DEFINE n == 7
           rows == SignerInfoRowsOf(SidTag(e))
           f == Fields(rows, e)
           v == DecodeSignerInfo(e)
<1>1. n \in Nat /\ Len(rows) = n /\ DOMAIN rows = 1..n /\ 3 \in 1..n /\ 4 \in 1..n /\ 5 \in 1..n /\ 7 \in 1..n
  BY DEF SignerInfoRowsOf
<1>2. /\ rows[3].tag = "SEQUENCE" /\ ~rows[3].optional
      /\ rows[4].tag = "0"
      /\ rows[5].tag = "SEQUENCE" /\ ~rows[5].optional
      /\ rows[7].tag = "1"
  BY RowIs DEF SignerInfoRowsOf
<1>3. v = SignerInfoRead(e) /\ v # Malformed
  BY DEF DecodeSignerInfo, Obeying
<1>4. /\ f # Malformed
      /\ v.digestAlgorithm = Within("Algorithm", f[3]) /\ Within("Algorithm", f[3]) # Malformed
      /\ v.signedAttributes = DecodeOpaqueList("Attribute", f[4]) /\ DecodeOpaqueList("Attribute", f[4]) # Malformed
      /\ v.signatureAlgorithm = Within("Algorithm", f[5]) /\ Within("Algorithm", f[5]) # Malformed
      /\ v.unsignedAttributes = DecodeOpaqueList("Attribute", f[7]) /\ DecodeOpaqueList("Attribute", f[7]) # Malformed
  <2> HIDE DEF v
  <2> QED
    BY <1>3 DEF SignerInfoRead, SignerInfoRowsOf, SidTag, ByKeyIdentifier, Decoded, Made, Sound
<1> HIDE DEF f, v, rows, n
<1>5. \A i \in 1..n : ~rows[i].optional \/ f[i] # None =>
        CapturedOf("signerInfo", <<rows[i].tag, f[i]>>) \cap BerOnly = {}
  BY <1>1, <1>4, BodyIsFound DEF f
<1>6. /\ CapturedOf("signerInfo", <<"SEQUENCE", f[3]>>) \cap BerOnly = {}
      /\ f[4] # None => CapturedOf("signerInfo", <<"0", f[4]>>) \cap BerOnly = {}
      /\ CapturedOf("signerInfo", <<"SEQUENCE", f[5]>>) \cap BerOnly = {}
      /\ f[7] # None => CapturedOf("signerInfo", <<"1", f[7]>>) \cap BerOnly = {}
  BY <1>1, <1>2, <1>5
<1>7. Captured("Algorithm", f[3]) \cap BerOnly = {} /\ Captured("Algorithm", f[5]) \cap BerOnly = {}
  BY <1>6, AlgorithmOfElement
<1>8. /\ f[4] # None => CapturedEach("Attribute", f[4]) \cap BerOnly = {}
      /\ f[7] # None => CapturedEach("Attribute", f[7]) \cap BerOnly = {}
  <2>1. /\ CapturedOf("signerInfo", <<"0", f[4]>>) = CapturedEach("Attribute", f[4])
        /\ CapturedOf("signerInfo", <<"1", f[7]>>) = CapturedEach("Attribute", f[7])
    BY DEF CapturedOf
  <2> QED
    BY <1>6, <2>1
<1>9. v.digestAlgorithm \notin BerOnly /\ v.signatureAlgorithm \notin BerOnly
  BY <1>4, <1>7, WithinIsCaptured
<1>10. Among(v.signedAttributes) \cap BerOnly = {} /\ Among(v.unsignedAttributes) \cap BerOnly = {}
  BY <1>4, <1>8, ListIsCaptured
<1>11. CapturedIn("signerInfo", v) \cap BerOnly = {}
  BY <1>9, <1>10 DEF CapturedIn
<1> QED
  BY <1>11 DEF v

(* The certificates of a message.                                          *)
LEMMA CertificatesAreCaptured ==
  ASSUME NEW b, DecodeCertificateSet(b) # Malformed,
         b # None => CapturedOf("signedData", <<"0", b>>) \cap BerOnly = {}
  PROVE  {c.certificate : c \in Among(DecodeCertificateSet(b))} \cap BerOnly = {}
<1> DEFINE v == DecodeCertificateSet(b)
<1>1. CASE b = None
  BY <1>1 DEF DecodeCertificateSet, Among
<1>2. CASE b # None
  <2> DEFINE T == {i \in DOMAIN b : b[i][1] \notin {"0", "1", "2", "3"}}
  <2>1. /\ \A i \in DOMAIN b : b[i][1] \notin {"0", "1", "2", "3"} /\ Within("Certificate", b[i][2]) # Malformed
        /\ v = [i \in DOMAIN b |-> CertificateChoice("certificate", Within("Certificate", b[i][2]))]
    BY <1>2 DEF DecodeCertificateSet
  <2>2. CapturedOf("signedData", <<"0", b>>) = CapturedAmong("Certificate", b, T)
    BY DEF CapturedOf
  <2>3. T = DOMAIN b
    BY <2>1
  <2> HIDE DEF v, T
  <2>4. ASSUME NEW i \in DOMAIN b PROVE v[i].certificate \notin BerOnly
    <3>1. Captured("Certificate", b[i][2]) \subseteq CapturedAmong("Certificate", b, T)
      BY <2>3 DEF CapturedAmong
    <3>2. Captured("Certificate", b[i][2]) \cap BerOnly = {}
      BY <1>2, <2>2, <3>1
    <3>3. Within("Certificate", b[i][2]) \notin BerOnly
      BY <2>1, <3>2, WithinIsCaptured
    <3>4. v[i].certificate = Within("Certificate", b[i][2])
      BY <2>1 DEF CertificateChoice
    <3> QED
      BY <3>3, <3>4
  <2>5. DOMAIN v = DOMAIN b
    BY <2>1
  <2>6. {c.certificate : c \in Among(v)} \cap BerOnly = {}
    BY <2>4, <2>5 DEF Among
  <2> QED
    BY <2>6 DEF v
<1> QED
  BY <1>1, <1>2

(* What is captured of a message.                                          *)
LEMMA SignedDataIsCaptured ==
  ASSUME NEW e, DecodeSignedDataBody(e) # Malformed, AllDer("signedData", e)
  PROVE  CapturedIn("signedData", DecodeSignedDataBody(e)) \cap BerOnly = {}
<1> DEFINE n == 6
           rows == <<One("INTEGER"), One("SET"), One("SEQUENCE"), Opt("0"), Opt("1"), One("SET")>>
           f == Fields(rows, e)
           v == DecodeSignedDataBody(e)
<1>1. n \in Nat /\ Len(rows) = n /\ DOMAIN rows = 1..n /\ 2 \in 1..n /\ 4 \in 1..n /\ 6 \in 1..n
  OBVIOUS
<1>2. /\ rows[2].tag = "SET" /\ ~rows[2].optional
      /\ rows[4].tag = "0"
      /\ rows[6].tag = "SET" /\ ~rows[6].optional
  BY RowIs
<1>3. /\ f # Malformed
      /\ v.digestAlgorithms = DecodeOpaqueList("Algorithm", f[2]) /\ DecodeOpaqueList("Algorithm", f[2]) # Malformed
      /\ v.certificates = DecodeCertificateSet(f[4]) /\ DecodeCertificateSet(f[4]) # Malformed
      /\ v.signerInfos = DecodeOpaqueList("SignerInfo", f[6]) /\ DecodeOpaqueList("SignerInfo", f[6]) # Malformed
  BY DEF DecodeSignedDataBody, Decoded, Made, Sound
<1> HIDE DEF f, v, rows, n
<1>4. \A i \in 1..n : ~rows[i].optional \/ f[i] # None =>
        CapturedOf("signedData", <<rows[i].tag, f[i]>>) \cap BerOnly = {}
  BY <1>1, <1>3, BodyIsFound DEF f
<1>5. /\ CapturedOf("signedData", <<"SET", f[2]>>) \cap BerOnly = {}
      /\ f[4] # None => CapturedOf("signedData", <<"0", f[4]>>) \cap BerOnly = {}
      /\ CapturedOf("signedData", <<"SET", f[6]>>) \cap BerOnly = {}
  BY <1>1, <1>2, <1>4
<1>6. CapturedEach("Algorithm", f[2]) \cap BerOnly = {} /\ CapturedEach("SignerInfo", f[6]) \cap BerOnly = {}
  <2>1. \A b : CapturedOf("signedData", <<"SET", b>>) = CapturedEach("Algorithm", b) \cup CapturedEach("SignerInfo", b)
    BY DEF CapturedOf
  <2> QED
    BY <1>5, <2>1
<1>7. Among(v.digestAlgorithms) \cap BerOnly = {} /\ Among(v.signerInfos) \cap BerOnly = {}
  BY <1>3, <1>6, ListIsCaptured
<1>8. {c.certificate : c \in Among(v.certificates)} \cap BerOnly = {}
  BY <1>3, <1>5, CertificatesAreCaptured
<1>9. CapturedIn("signedData", v) \cap BerOnly = {}
  BY <1>7, <1>8 DEF CapturedIn
<1> QED
  BY <1>9 DEF v

(* What is captured of a private key.                                      *)
LEMMA OneAsymmetricKeyIsCaptured ==
  ASSUME NEW e, DecodeOneAsymmetricKey(e) # Malformed, AllDer("privateKey", e)
  PROVE  CapturedIn("privateKey", DecodeOneAsymmetricKey(e)) \cap BerOnly = {}
<1> DEFINE n == 5
           rows == <<One("INTEGER"), One("SEQUENCE"), One("OCTETS"), Opt("0"), Opt("1")>>
           f == Fields(rows, e)
           v == DecodeOneAsymmetricKey(e)
<1>1. n \in Nat /\ Len(rows) = n /\ DOMAIN rows = 1..n /\ 2 \in 1..n /\ 4 \in 1..n
  OBVIOUS
<1>2. rows[2].tag = "SEQUENCE" /\ ~rows[2].optional /\ rows[4].tag = "0"
  BY RowIs
<1>3. /\ f # Malformed
      /\ v.privateKeyAlgorithm = Within("Algorithm", f[2]) /\ Within("Algorithm", f[2]) # Malformed
      /\ v.attributes = DecodeOpaqueList("Attribute", f[4]) /\ DecodeOpaqueList("Attribute", f[4]) # Malformed
  BY DEF DecodeOneAsymmetricKey, Decoded, Made, Sound
<1> HIDE DEF f, v, rows, n
<1>4. \A i \in 1..n : ~rows[i].optional \/ f[i] # None =>
        CapturedOf("privateKey", <<rows[i].tag, f[i]>>) \cap BerOnly = {}
  BY <1>1, <1>3, BodyIsFound DEF f
<1>5. /\ CapturedOf("privateKey", <<"SEQUENCE", f[2]>>) \cap BerOnly = {}
      /\ f[4] # None => CapturedOf("privateKey", <<"0", f[4]>>) \cap BerOnly = {}
  BY <1>1, <1>2, <1>4
<1>6. Captured("Algorithm", f[2]) \cap BerOnly = {}
  BY <1>5, AlgorithmOfElement
<1>7. f[4] # None => CapturedEach("Attribute", f[4]) \cap BerOnly = {}
  <2>1. CapturedOf("privateKey", <<"0", f[4]>>) = CapturedEach("Attribute", f[4])
    BY DEF CapturedOf
  <2> QED
    BY <1>5, <2>1
<1>8. v.privateKeyAlgorithm \notin BerOnly
  BY <1>3, <1>6, WithinIsCaptured
<1>9. Among(v.attributes) \cap BerOnly = {}
  BY <1>3, <1>7, ListIsCaptured
<1>10. CapturedIn("privateKey", v) \cap BerOnly = {}
  BY <1>8, <1>9 DEF CapturedIn
<1> QED
  BY <1>10 DEF v

-----------------------------------------------------------------------------
(* What is captured of a ContentInfo.                                      *)
LEMMA ContentInfoIsCaptured ==
  ASSUME NEW e, DecodeContentInfo(e) # Malformed, AllDer("contentInfo", e)
  PROVE  CapturedIn("contentInfo", DecodeContentInfo(e)) \cap BerOnly = {}
<1> DEFINE n == 2
           rows == <<One("OID"), One("0")>>
           f == Fields(rows, e)
           v == DecodeContentInfo(e)
<1>1. n \in Nat /\ Len(rows) = n /\ DOMAIN rows = 1..n /\ 2 \in 1..n
  OBVIOUS
<1>2. rows[2].tag = "0" /\ ~rows[2].optional
  BY RowIs
<1>3. /\ f # Malformed
      /\ v.content = Within("Any", f[2]) /\ Within("Any", f[2]) # Malformed
  BY DEF DecodeContentInfo, Obeying, Decoded, Made, Sound
<1> HIDE DEF f, v, rows, n
<1>4. \A i \in 1..n : ~rows[i].optional \/ f[i] # None =>
        CapturedOf("contentInfo", <<rows[i].tag, f[i]>>) \cap BerOnly = {}
  BY <1>1, <1>3, BodyIsFound DEF f
<1>5. CapturedOf("contentInfo", <<"0", f[2]>>) \cap BerOnly = {}
  BY <1>1, <1>2, <1>4
<1>6. Captured("Any", f[2]) \cap BerOnly = {}
  <2>1. CapturedOf("contentInfo", <<"0", f[2]>>) = Captured("Any", f[2])
    BY DEF CapturedOf
  <2> QED
    BY <1>5, <2>1
<1>7. v.content \notin BerOnly
  BY <1>3, <1>6, WithinIsCaptured
<1>8. CapturedIn("contentInfo", v) \cap BerOnly = {}
  BY <1>7 DEF CapturedIn
<1> QED
  BY <1>8 DEF v

(* What is captured of a DigestInfo.                                       *)
LEMMA DigestInfoIsCaptured ==
  ASSUME NEW e, DecodeDigestInfo(e) # Malformed, AllDer("digestInfo", e)
  PROVE  CapturedIn("digestInfo", DecodeDigestInfo(e)) \cap BerOnly = {}
<1> DEFINE n == 2
           rows == <<One("SEQUENCE"), One("OCTETS")>>
           f == Fields(rows, e)
           v == DecodeDigestInfo(e)
<1>1. n \in Nat /\ Len(rows) = n /\ DOMAIN rows = 1..n /\ 1 \in 1..n
  OBVIOUS
<1>2. rows[1].tag = "SEQUENCE" /\ ~rows[1].optional
  BY RowIs
<1>3. /\ f # Malformed
      /\ v.algorithm = Within("Algorithm", f[1]) /\ Within("Algorithm", f[1]) # Malformed
  BY DEF DecodeDigestInfo, Obeying, Decoded, Made, Sound
<1> HIDE DEF f, v, rows, n
<1>4. \A i \in 1..n : ~rows[i].optional \/ f[i] # None =>
        CapturedOf("digestInfo", <<rows[i].tag, f[i]>>) \cap BerOnly = {}
  BY <1>1, <1>3, BodyIsFound DEF f
<1>5. CapturedOf("digestInfo", <<"SEQUENCE", f[1]>>) \cap BerOnly = {}
  BY <1>1, <1>2, <1>4
<1>6. Captured("Algorithm", f[1]) \cap BerOnly = {}
  BY <1>5, AlgorithmOfElement
<1>7. v.algorithm \notin BerOnly
  BY <1>3, <1>6, WithinIsCaptured
<1>8. CapturedIn("digestInfo", v) \cap BerOnly = {}
  BY <1>7 DEF CapturedIn
<1> QED
  BY <1>8 DEF v

(* What is captured of a request for a time-stamp.                         *)
LEMMA TimeStampReqIsCaptured ==
  ASSUME NEW e, DecodeTimeStampReq(e) # Malformed, AllDer("timeStampReq", e)
  PROVE  CapturedIn("timeStampReq", DecodeTimeStampReq(e)) \cap BerOnly = {}
<1> DEFINE n == 6
           rows == <<One("INTEGER"), One("SEQUENCE"), Opt("OID"), Opt("INTEGER"), Opt("BOOLEAN"), Opt("0")>>
           f == Fields(rows, e)
           v == DecodeTimeStampReq(e)
<1>1. n \in Nat /\ Len(rows) = n /\ DOMAIN rows = 1..n /\ 2 \in 1..n
  OBVIOUS
<1>2. rows[2].tag = "SEQUENCE" /\ ~rows[2].optional
  BY RowIs
<1>3. /\ f # Malformed
      /\ v.messageImprint = DecodeImprint(f[2]) /\ DecodeImprint(f[2]) # Malformed
  BY DEF DecodeTimeStampReq, Obeying, Decoded, Made, Sound
<1> HIDE DEF f, v, rows, n
<1>4. \A i \in 1..n : ~rows[i].optional \/ f[i] # None =>
        CapturedOf("timeStampReq", <<rows[i].tag, f[i]>>) \cap BerOnly = {}
  BY <1>1, <1>3, BodyIsFound DEF f
<1>5. CapturedOf("timeStampReq", <<"SEQUENCE", f[2]>>) \cap BerOnly = {}
  BY <1>1, <1>2, <1>4
<1>6. CapturedFirst("Algorithm", f[2]) \cap BerOnly = {}
  BY <1>5, AlgorithmOfElement
<1>7. v.messageImprint.algorithm \notin BerOnly
  BY <1>3, <1>6, ImprintIsCaptured
<1>8. CapturedIn("timeStampReq", v) \cap BerOnly = {}
  BY <1>7 DEF CapturedIn
<1> QED
  BY <1>8 DEF v

(* What is captured of a response to it.                                   *)
LEMMA TimeStampRespIsCaptured ==
  ASSUME NEW e, DecodeTimeStampResp(e) # Malformed, AllDer("timeStampResp", e)
  PROVE  CapturedIn("timeStampResp", DecodeTimeStampResp(e)) \cap BerOnly = {}
<1> DEFINE n == 2
           rows == <<One("SEQUENCE"), Opt("SEQUENCE")>>
           f == Fields(rows, e)
           v == DecodeTimeStampResp(e)
<1>1. n \in Nat /\ Len(rows) = n /\ DOMAIN rows = 1..n /\ 2 \in 1..n
  OBVIOUS
<1>2. rows[2].tag = "SEQUENCE"
  BY RowIs
<1>3. /\ f # Malformed
      /\ v.timeStampToken = Within("ContentInfo", f[2]) /\ Within("ContentInfo", f[2]) # Malformed
  BY DEF DecodeTimeStampResp, Obeying, Decoded, Made, Sound
<1> HIDE DEF f, v, rows, n
<1>4. \A i \in 1..n : ~rows[i].optional \/ f[i] # None =>
        CapturedOf("timeStampResp", <<rows[i].tag, f[i]>>) \cap BerOnly = {}
  BY <1>1, <1>3, BodyIsFound DEF f
<1>5. f[2] # None => CapturedOf("timeStampResp", <<"SEQUENCE", f[2]>>) \cap BerOnly = {}
  BY <1>1, <1>2, <1>4
<1>6. f[2] # None => Captured("ContentInfo", f[2]) \cap BerOnly = {}
  <2>1. CapturedOf("timeStampResp", <<"SEQUENCE", f[2]>>) = Captured("ContentInfo", f[2])
    BY DEF CapturedOf
  <2> QED
    BY <1>5, <2>1
<1>7. v.timeStampToken \notin BerOnly
  BY <1>3, <1>6, WithinIsCaptured
<1>8. CapturedIn("timeStampResp", v) \cap BerOnly = {}
  BY <1>7 DEF CapturedIn
<1> QED
  BY <1>8 DEF v

(* What is captured of a TSTInfo.                                          *)
LEMMA TstInfoIsCaptured ==
  ASSUME NEW e, DecodeTstInfo(e) # Malformed, AllDer("tstInfo", e)
  PROVE  CapturedIn("tstInfo", DecodeTstInfo(e)) \cap BerOnly = {}
<1> DEFINE n == 10
           rows == <<One("INTEGER"), One("OID"), One("SEQUENCE"), One("INTEGER"), One("TIME"),
                     Opt("SEQUENCE"), Opt("BOOLEAN"), Opt("INTEGER"), Opt("0"), Opt("1")>>
           f == Fields(rows, e)
           v == DecodeTstInfo(e)
<1>1. n \in Nat /\ Len(rows) = n /\ DOMAIN rows = 1..n /\ 3 \in 1..n
  OBVIOUS
<1>2. rows[3].tag = "SEQUENCE" /\ ~rows[3].optional
  BY RowIs
<1>3. /\ f # Malformed
      /\ v.messageImprint = DecodeImprint(f[3]) /\ DecodeImprint(f[3]) # Malformed
  BY DEF DecodeTstInfo, Obeying, Decoded, Made, Sound
<1> HIDE DEF f, v, rows, n
<1>4. \A i \in 1..n : ~rows[i].optional \/ f[i] # None => CapturedOf("tstInfo", <<rows[i].tag, f[i]>>) \cap BerOnly = {}
  BY <1>1, <1>3, BodyIsFound DEF f
<1>5. CapturedOf("tstInfo", <<"SEQUENCE", f[3]>>) \cap BerOnly = {}
  BY <1>1, <1>2, <1>4
<1>6. CapturedFirst("Algorithm", f[3]) \cap BerOnly = {}
  BY <1>5, AlgorithmOfElement
<1>7. v.messageImprint.algorithm \notin BerOnly
  BY <1>3, <1>6, ImprintIsCaptured
<1>8. CapturedIn("tstInfo", v) \cap BerOnly = {}
  BY <1>7 DEF CapturedIn
<1> QED
  BY <1>8 DEF v

(* A value that was read of elements that may be written as DER may be     *)
(* written as DER.                                                         *)
LEMMA ReadIsDer ==
  ASSUME NEW k \in Kinds, NEW d, IsDocument(k, d.elements), IsDer(k, d.elements), Decode(k, d) # Malformed
  PROVE  CapturedIn(k, Decode(k, d)) \cap BerOnly = {}
<1> DEFINE e == d.elements
           body == Body(k, e)
<1>1. /\ Len(e) \in Nat /\ DOMAIN e = 1..Len(e)
      /\ Len(body) \in Nat /\ DOMAIN body = 1..Len(body)
  BY VecIsSeq DEF IsDocument
<1>2. AllDer(k, body)
  BY <1>1 DEF IsDer, AllDer
<1>3. k \in {"certificate", "request"} /\ 2 \in 1..Len(e) => Captured("Algorithm", e[2][2]) \cap BerOnly = {}
  BY <1>1 DEF IsDer
<1>4. k \notin {"certificate", "request", "signedData"} => AllDer(k, e)
  BY <1>2 DEF Body
<1> HIDE DEF e, body
<1>5. CASE k = "certificate"
  <2>1. AllDer("certificate", Body("certificate", e)) /\
          (2 \in 1..Len(e) => Captured("Algorithm", e[2][2]) \cap BerOnly = {})
    BY <1>2, <1>3, <1>5 DEF body
  <2>2. Decode(k, d) = DecodeCertificate(d.form, e)
    BY <1>5 DEF Decode, e
  <2> QED
    BY <1>5, <2>1, <2>2, CertificateIsCaptured
<1>6. CASE k = "request"
  <2>1. AllDer("request", Body("request", e)) /\ (2 \in 1..Len(e) => Captured("Algorithm", e[2][2]) \cap BerOnly = {})
    BY <1>2, <1>3, <1>6 DEF body
  <2>2. Decode(k, d) = DecodeRequest(e)
    BY <1>6 DEF Decode, e
  <2> QED
    BY <1>6, <2>1, <2>2, RequestIsCaptured
<1>7. CASE k = "signedData"
  <2>1. AllDer("signedData", Body("signedData", e))
    BY <1>2, <1>7 DEF body
  <2>2. Decode(k, d) = DecodeSignedDataBody(Body("signedData", e))
    BY <1>7, SignedDataHoldsItsBody DEF Decode, e
  <2> QED
    BY <1>7, <2>1, <2>2, SignedDataIsCaptured
<1>8. CASE k = "signerInfo"
  <2>1. Decode(k, d) = DecodeSignerInfo(e) /\ AllDer("signerInfo", e)
    BY <1>4, <1>8 DEF Decode, e
  <2> QED
    BY <1>8, <2>1, SignerInfoIsCaptured
<1>9. CASE k = "privateKey"
  <2>1. Decode(k, d) = DecodeOneAsymmetricKey(e) /\ AllDer("privateKey", e)
    BY <1>4, <1>9 DEF Decode, e
  <2> QED
    BY <1>9, <2>1, OneAsymmetricKeyIsCaptured
<1>10. CASE k = "contentInfo"
  <2>1. Decode(k, d) = DecodeContentInfo(e) /\ AllDer("contentInfo", e)
    BY <1>4, <1>10 DEF Decode, e
  <2> QED
    BY <1>10, <2>1, ContentInfoIsCaptured
<1>11. CASE k = "digestInfo"
  <2>1. Decode(k, d) = DecodeDigestInfo(e) /\ AllDer("digestInfo", e)
    BY <1>4, <1>11 DEF Decode, e
  <2> QED
    BY <1>11, <2>1, DigestInfoIsCaptured
<1>12. CASE k = "timeStampReq"
  <2>1. Decode(k, d) = DecodeTimeStampReq(e) /\ AllDer("timeStampReq", e)
    BY <1>4, <1>12 DEF Decode, e
  <2> QED
    BY <1>12, <2>1, TimeStampReqIsCaptured
<1>13. CASE k = "timeStampResp"
  <2>1. Decode(k, d) = DecodeTimeStampResp(e) /\ AllDer("timeStampResp", e)
    BY <1>4, <1>13 DEF Decode, e
  <2> QED
    BY <1>13, <2>1, TimeStampRespIsCaptured
<1>14. CASE k = "tstInfo"
  <2>1. Decode(k, d) = DecodeTstInfo(e) /\ AllDer("tstInfo", e)
    BY <1>4, <1>14 DEF Decode, e
  <2> QED
    BY <1>14, <2>1, TstInfoIsCaptured
<1>15. CASE k \in {"ecPrivateKey", "rsaPrivateKey", "certList"}
  BY <1>15 DEF CapturedIn
<1> QED
  BY <1>5, <1>6, <1>7, <1>8, <1>9, <1>10, <1>11, <1>12, <1>13, <1>14, <1>15 DEF Kinds

-----------------------------------------------------------------------------
(* What an encoder writes holds the captured values it was given.          *)

(* What is written are rows that have a value.                             *)
LEMMA PresentHolds ==
  ASSUME NEW n \in Nat, NEW cells, Len(cells) = n
  PROVE  \A j \in DOMAIN Present(cells) : \E i \in 1..n : cells[i][2] # None /\ Present(cells)[j] = cells[i]
<1> DEFINE T == {cells[i] : i \in {j \in 1..n : cells[j][2] # None}}
<1>1. PICK w : WrittenBy(w, n, cells, Present(cells))
  BY PresentSteps
<1> DEFINE S == {i \in 0..n : w[i] \in Seq(T)}
<1>2. 0 \in S
  <2>1. w[0] = <<>>
    BY <1>1 DEF WrittenBy
  <2> HIDE DEF T
  <2>2. <<>> \in Seq(T)
    OBVIOUS
  <2>3. w[0] \in Seq(T)
    BY <2>1, <2>2, Zenon
  <2>4. 0 \in 0..n
    OBVIOUS
  <2> QED
    BY <2>3, <2>4
<1>3. ASSUME NEW i \in 1..n, i - 1 \in S PROVE i \in S
  <2>1. w[i] = IF cells[i][2] = None THEN w[i - 1] ELSE Append(w[i - 1], cells[i])
    BY <1>1 DEF WrittenBy
  <2>2. w[i - 1] \in Seq(T) /\ i \in 0..n
    BY <1>3
  <2>3. cells[i][2] # None => cells[i] \in T
    OBVIOUS
  <2> HIDE DEF T
  <2>4. w[i] \in Seq(T)
    BY <2>1, <2>2, <2>3
  <2> QED
    BY <2>2, <2>4
<1>4. n \in S
  <2> HIDE DEF S
  <2> QED
    BY <1>2, <1>3, UpTo
<1>5. Present(cells) \in Seq(T)
  BY <1>1, <1>4 DEF WrittenBy
<1> DEFINE e == Present(cells)
<1> HIDE DEF e
<1>6. \A j \in DOMAIN e : e[j] \in T
  <2> HIDE DEF T
  <2> QED
    BY <1>5 DEF e
<1> QED
  BY <1>6 DEF e

(* If none of the rows that have a value holds BER, nothing written does.  *)
LEMMA RowsAreDer ==
  ASSUME NEW n \in Nat, NEW cells, Len(cells) = n, NEW k,
         \A i \in 1..n : cells[i][2] # None => CapturedOf(k, cells[i]) \cap BerOnly = {}
  PROVE  \A j \in DOMAIN Present(cells) : CapturedOf(k, Present(cells)[j]) \cap BerOnly = {}
<1> TAKE j \in DOMAIN Present(cells)
<1>1. PICK i \in 1..n : cells[i][2] # None /\ Present(cells)[j] = cells[i]
  BY PresentHolds
<1> QED
  BY <1>1

(* Nothing is captured of an element of another tag.                       *)
LEMMA NothingElseHeld ==
  ASSUME NEW k, NEW e, e[1] \notin {"SEQUENCE", "0", "1", "SET"}
  PROVE  CapturedOf(k, e) = {}
BY DEF CapturedOf

(* An opaque structure holds its value, if it is of the type.              *)
LEMMA OpaqueHolds ==
  ASSUME NEW type, NEW t, NEW a
  PROVE  /\ Captured(type, Opaque(type, a)) = {a}
         /\ Captured(type, Opaque(t, a)) \subseteq {a}
         /\ t # "SEQUENCE" => CapturedFirst(type, Opaque(t, a)) = {}
BY DEF Captured, CapturedFirst, Opaque

(* The kinds whose elements may be, or begin with, an algorithm.           *)
AlgorithmKinds == {"certificate", "request", "signerInfo", "timeStampReq", "tstInfo", "privateKey", "digestInfo"}

(* An algorithm is the one thing that its element holds.                   *)
LEMMA AlgorithmHolds ==
  ASSUME NEW k \in AlgorithmKinds, NEW a
  PROVE  CapturedOf(k, <<"SEQUENCE", Opaque("Algorithm", a)>>) = {a}
<1>1. \A b : CapturedOf(k, <<"SEQUENCE", b>>) = Captured("Algorithm", b) \cup CapturedFirst("Algorithm", b)
  BY DEF CapturedOf, AlgorithmKinds
<1> QED
  BY <1>1, OpaqueHolds

(* A structure that begins with an algorithm and has another field.        *)
LEMMA AlgorithmFirstHolds ==
  ASSUME NEW k \in AlgorithmKinds, NEW a, NEW e
  PROVE  CapturedOf(k, <<"SEQUENCE", << <<"SEQUENCE", Opaque("Algorithm", a)>>, e>> >>) = {a}
<1> DEFINE b == << <<"SEQUENCE", Opaque("Algorithm", a)>>, e>>
<1>1. Len(b) = 2 /\ b[1][1] = "SEQUENCE" /\ b[1][2] = Opaque("Algorithm", a)
  OBVIOUS
<1> HIDE DEF b
<1>2. CapturedOf(k, <<"SEQUENCE", b>>) = Captured("Algorithm", b) \cup CapturedFirst("Algorithm", b)
  BY DEF CapturedOf, AlgorithmKinds
<1>3. Captured("Algorithm", b) = {} /\ CapturedFirst("Algorithm", b) = {a}
  BY <1>1, OpaqueHolds DEF Captured, CapturedFirst
<1> QED
  BY <1>2, <1>3 DEF b

(* What begins with neither an algorithm nor a SEQUENCE holds none.        *)
LEMMA NoAlgorithmHolds ==
  ASSUME NEW k \in AlgorithmKinds, NEW b,
         Len(b) > 0 => b[1][1] \notin {"Algorithm", "SEQUENCE"}
  PROVE  CapturedOf(k, <<"SEQUENCE", b>>) = {}
<1>1. CapturedOf(k, <<"SEQUENCE", b>>) = Captured("Algorithm", b) \cup CapturedFirst("Algorithm", b)
  BY DEF CapturedOf, AlgorithmKinds
<1>2. Captured("Algorithm", b) = {} /\ CapturedFirst("Algorithm", b) = {}
  BY DEF Captured, CapturedFirst
<1> QED
  BY <1>1, <1>2

(* A name holds no algorithm.                                              *)
LEMMA NameHolds ==
  ASSUME NEW k \in AlgorithmKinds, NEW name, IsName(name)
  PROVE  CapturedOf(k, <<"SEQUENCE", EncodeName(name)>>) = {}
<1> DEFINE b == EncodeName(name)
<1>1. b = [i \in DOMAIN name |-> <<"SET", EncodeRdn(name[i])>>]
  BY DEF EncodeName
<1>2. Len(name) \in Nat /\ DOMAIN name = 1..Len(name)
  BY VecIsSeq DEF IsName
<1>3. Len(b) = Len(name)
  BY <1>1, <1>2
<1>4. Len(b) > 0 => b[1][1] = "SET"
  BY <1>1, <1>2, <1>3
<1> HIDE DEF b
<1>5. CapturedOf(k, <<"SEQUENCE", b>>) = {}
  BY <1>4, NoAlgorithmHolds
<1> QED
  BY <1>5 DEF b

(* A list of captured elements holds those elements.                       *)
LEMMA ListHolds ==
  ASSUME NEW type, NEW t, NEW values, values # None
  PROVE  CapturedEach(type, EncodeOpaqueList(t, values)) \subseteq Among(values)
<1> DEFINE b == EncodeOpaqueList(t, values)
<1>1. b = [i \in DOMAIN values |-> <<"SEQUENCE", Opaque(t, values[i])>>]
  BY DEF EncodeOpaqueList
<1> HIDE DEF b
<1>2. \A i \in DOMAIN b : i \in DOMAIN values /\ b[i][2] = Opaque(t, values[i])
  BY <1>1
<1>3. ASSUME NEW x \in CapturedEach(type, b) PROVE x \in Among(values)
  <2>1. PICK i \in DOMAIN b : x \in Captured(type, b[i][2])
    BY DEF CapturedEach, CapturedAmong
  <2>2. x = values[i]
    BY <1>2, <2>1, OpaqueHolds
  <2> QED
    BY <1>2, <2>1, <2>2 DEF Among
<1> QED
  BY <1>3 DEF b

-----------------------------------------------------------------------------
(* What is written of a TBSCertificate.                                    *)
LEMMA TbsIsWrittenDer ==
  ASSUME NEW t, IsTbs(t), t.signature \notin BerOnly, t.subjectPublicKeyInfo.algorithm \notin BerOnly
  PROVE  \A j \in DOMAIN EncodeTbs(t) : CapturedOf("certificate", EncodeTbs(t)[j]) \cap BerOnly = {}
<1> DEFINE k == "certificate"
           n == 10
           cells == <<
             <<"0", IF t.version \in {None, V1} THEN None ELSE << <<"INTEGER", t.version>> >> >>,
             <<"INTEGER", t.serialNumber>>,
             <<"SEQUENCE", Opaque("Algorithm", t.signature)>>,
             <<"SEQUENCE", EncodeName(t.issuer)>>,
             <<"SEQUENCE", EncodeValidity(t.validity)>>,
             <<"SEQUENCE", EncodeName(t.subject)>>,
             <<"SEQUENCE", EncodeSpki(t.subjectPublicKeyInfo)>>,
             <<"1", t.issuerUniqueId>>,
             <<"2", t.subjectUniqueId>>,
             <<"3", Explicit("SEQUENCE", EncodeExtensions(t.extensions))>> >>
<1>1. EncodeTbs(t) = Present(cells)
  BY DEF EncodeTbs
<1>2. n \in Nat /\ Len(cells) = n /\ k \in AlgorithmKinds
  BY DEF AlgorithmKinds
<1>3. CapturedOf(k, cells[1]) = {} /\ CapturedOf(k, cells[2]) = {}
  BY DEF CapturedOf
<1>4. CapturedOf(k, cells[3]) = {t.signature}
  BY <1>2, AlgorithmHolds
<1>5. CapturedOf(k, cells[4]) = {} /\ CapturedOf(k, cells[6]) = {}
  BY <1>2, NameHolds DEF IsTbs
<1>6. CapturedOf(k, cells[5]) = {}
  <2> DEFINE b == EncodeValidity(t.validity)
  <2>1. b[1][1] = "TIME"
    BY DEF EncodeValidity, Time
  <2> HIDE DEF b
  <2>2. CapturedOf(k, <<"SEQUENCE", b>>) = {}
    BY <1>2, <2>1, NoAlgorithmHolds
  <2> QED
    BY <2>2 DEF b
<1>7. CapturedOf(k, cells[7]) = {t.subjectPublicKeyInfo.algorithm}
  BY <1>2, AlgorithmFirstHolds DEF EncodeSpki
<1>8. CapturedOf(k, cells[8]) = {} /\ CapturedOf(k, cells[9]) = {} /\ CapturedOf(k, cells[10]) = {}
  BY DEF CapturedOf
<1>9. n = 10
  OBVIOUS
<1> HIDE DEF cells, n
<1>10. ASSUME NEW i \in 1..n PROVE CapturedOf(k, cells[i]) \cap BerOnly = {}
  <2>1. i \in {1, 2, 3, 4, 5, 6, 7, 8, 9, 10}
    BY <1>9
  <2> HIDE DEF k
  <2> QED
    BY <2>1, <1>3, <1>4, <1>5, <1>6, <1>7, <1>8
<1>11. \A j \in DOMAIN Present(cells) : CapturedOf(k, Present(cells)[j]) \cap BerOnly = {}
  BY <1>2, <1>10, RowsAreDer
<1> QED
  BY <1>1, <1>11

(* What is written of the part of a request that is signed.                *)
LEMMA RequestInfoIsWrittenDer ==
  ASSUME NEW r, IsName(r.subject), IsOpaqueList(r.attributes), r.attributes # None,
         r.subjectPublicKeyInfo.algorithm \notin BerOnly, Among(r.attributes) \cap BerOnly = {}
  PROVE  \A j \in DOMAIN EncodeRequestInfo(r) : CapturedOf("request", EncodeRequestInfo(r)[j]) \cap BerOnly = {}
<1> DEFINE k == "request"
           e == EncodeRequestInfo(r)
<1>1. k \in AlgorithmKinds
  BY DEF AlgorithmKinds
<1>2. /\ DOMAIN e = 1..4
      /\ e[1] = <<"INTEGER", r.version>>
      /\ e[2] = <<"SEQUENCE", EncodeName(r.subject)>>
      /\ e[3] = <<"SEQUENCE", EncodeSpki(r.subjectPublicKeyInfo)>>
      /\ e[4] = <<"0", EncodeOpaqueList("Attribute", r.attributes)>>
  BY DEF EncodeRequestInfo
<1> HIDE DEF e
<1>3. CapturedOf(k, e[1]) = {}
  BY <1>2 DEF CapturedOf
<1>4. CapturedOf(k, e[2]) = {}
  BY <1>1, <1>2, NameHolds
<1>5. CapturedOf(k, e[3]) = {r.subjectPublicKeyInfo.algorithm}
  BY <1>1, <1>2, AlgorithmFirstHolds DEF EncodeSpki
<1>6. CapturedOf(k, e[4]) \subseteq Among(r.attributes)
  <2>1. CapturedOf(k, e[4]) = CapturedEach("Attribute", EncodeOpaqueList("Attribute", r.attributes))
    BY <1>2 DEF CapturedOf
  <2> QED
    BY <2>1, ListHolds
<1> QED
  <2> SUFFICES ASSUME NEW j \in DOMAIN e PROVE CapturedOf(k, e[j]) \cap BerOnly = {}
    BY DEF e
  <2>1. j \in {1, 2, 3, 4}
    BY <1>2
  <2> HIDE DEF k
  <2> QED
    BY <2>1, <1>3, <1>4, <1>5, <1>6

(* What is written of a SignerInfo.                                        *)
LEMMA SignerInfoIsWrittenDer ==
  ASSUME NEW s, IsSignerInfo(s), CapturedIn("signerInfo", s) \cap BerOnly = {}
  PROVE  \A j \in DOMAIN EncodeSignerInfo(s) : CapturedOf("signerInfo", EncodeSignerInfo(s)[j]) \cap BerOnly = {}
<1> DEFINE k == "signerInfo"
           n == 7
           cells == << <<"INTEGER", s.version>>,
                       EncodeSid(s.sid),
                       <<"SEQUENCE", Opaque("Algorithm", s.digestAlgorithm)>>,
                       <<"0", EncodeOpaqueList("Attribute", s.signedAttributes)>>,
                       <<"SEQUENCE", Opaque("Algorithm", s.signatureAlgorithm)>>,
                       <<"OCTETS", s.signature>>,
                       <<"1", EncodeOpaqueList("Attribute", s.unsignedAttributes)>> >>
<1>1. EncodeSignerInfo(s) = Present(cells)
  BY DEF EncodeSignerInfo
<1>2. n \in Nat /\ Len(cells) = n /\ k \in AlgorithmKinds
  BY DEF AlgorithmKinds
<1>3. /\ s.digestAlgorithm \notin BerOnly /\ s.signatureAlgorithm \notin BerOnly
      /\ Among(s.signedAttributes) \cap BerOnly = {} /\ Among(s.unsignedAttributes) \cap BerOnly = {}
  BY DEF CapturedIn
<1>4. CapturedOf(k, cells[1]) = {} /\ CapturedOf(k, cells[6]) = {}
  BY DEF CapturedOf
<1>5. CapturedOf(k, cells[2]) = {}
  <2>0. cells[2] = EncodeSid(s.sid)
    OBVIOUS
  <2>1. CASE s.sid.form = "keyIdentifier"
    <3> DEFINE b == Opaque("OctetString", s.sid.id)
    <3>1. DOMAIN b = 1..1 /\ b[1][1] = "OctetString"
      BY DEF Opaque
    <3> HIDE DEF b
    <3>2. CapturedEach("Attribute", b) = {}
      BY <3>1 DEF CapturedEach, CapturedAmong
    <3>3. CapturedOf(k, <<"0", b>>) = CapturedEach("Attribute", b)
      BY DEF CapturedOf
    <3>4. EncodeSid(s.sid) = <<"0", b>>
      BY <2>1 DEF EncodeSid, b
    <3> QED
      BY <2>0, <3>2, <3>3, <3>4
  <2>2. CASE s.sid.form # "keyIdentifier"
    <3> DEFINE name == EncodeName(s.sid.issuer)
               b == << <<"SEQUENCE", name>>, <<"INTEGER", s.sid.serialNumber>> >>
    <3>1. EncodeSid(s.sid) = <<"SEQUENCE", b>>
      BY <2>2 DEF EncodeSid
    <3>2. Len(b) = 2 /\ b[1][1] = "SEQUENCE" /\ b[1][2] = name
      OBVIOUS
    <3>3. IsName(s.sid.issuer)
      BY <2>2 DEF IsSignerInfo, IsSid
    <3> HIDE DEF b, name
    <3>4. CapturedOf(k, <<"SEQUENCE", name>>) = {}
      BY <1>2, <3>3, NameHolds DEF name
    <3>5. Captured("Algorithm", name) = {}
      BY <3>4 DEF CapturedOf
    <3>6. CapturedOf(k, <<"SEQUENCE", b>>) = Captured("Algorithm", b) \cup CapturedFirst("Algorithm", b)
      BY DEF CapturedOf
    <3>7. Captured("Algorithm", b) = {} /\ CapturedFirst("Algorithm", b) = {}
      BY <3>2, <3>5 DEF Captured, CapturedFirst
    <3> QED
      BY <2>0, <3>1, <3>6, <3>7
  <2> QED
    BY <2>1, <2>2
<1>6. CapturedOf(k, cells[3]) = {s.digestAlgorithm} /\ CapturedOf(k, cells[5]) = {s.signatureAlgorithm}
  BY <1>2, AlgorithmHolds
<1>7. cells[4][2] # None => CapturedOf(k, cells[4]) \subseteq Among(s.signedAttributes)
  <2> DEFINE b == EncodeOpaqueList("Attribute", s.signedAttributes)
  <2>1. b # None => s.signedAttributes # None
    BY DEF EncodeOpaqueList
  <2>2. CapturedOf(k, cells[4]) = CapturedEach("Attribute", b) /\ cells[4][2] = b
    BY DEF CapturedOf
  <2> HIDE DEF cells
  <2> QED
    BY <2>1, <2>2, ListHolds
<1>8. cells[7][2] # None => CapturedOf(k, cells[7]) \subseteq Among(s.unsignedAttributes)
  <2> DEFINE b == EncodeOpaqueList("Attribute", s.unsignedAttributes)
  <2>1. b # None => s.unsignedAttributes # None
    BY DEF EncodeOpaqueList
  <2>2. CapturedOf(k, cells[7]) = CapturedEach("Attribute", b) /\ cells[7][2] = b
    BY DEF CapturedOf
  <2> HIDE DEF cells
  <2> QED
    BY <2>1, <2>2, ListHolds
<1>9. n = 7
  OBVIOUS
<1> HIDE DEF cells, n
<1>10. ASSUME NEW i \in 1..n, cells[i][2] # None PROVE CapturedOf(k, cells[i]) \cap BerOnly = {}
  <2>1. i \in {1, 2, 3, 4, 5, 6, 7}
    BY <1>9
  <2> HIDE DEF k
  <2> QED
    BY <2>1, <1>3, <1>4, <1>5, <1>6, <1>7, <1>8, <1>10
<1>11. \A j \in DOMAIN Present(cells) : CapturedOf(k, Present(cells)[j]) \cap BerOnly = {}
  BY <1>2, <1>10, RowsAreDer
<1> QED
  BY <1>1, <1>11

-----------------------------------------------------------------------------
(* The certificates that are written into a message.                       *)
LEMMA CertificatesHold ==
  ASSUME NEW cs, cs # None
  PROVE  CapturedOf("signedData", <<"0", EncodeCertificateSet(cs)>>) \subseteq {c.certificate : c \in Among(cs)}
<1> DEFINE b == EncodeCertificateSet(cs)
           T == {i \in DOMAIN b : b[i][1] \notin {"0", "1", "2", "3"}}
<1>1. CapturedOf("signedData", <<"0", b>>) = CapturedAmong("Certificate", b, T)
  BY DEF CapturedOf
<1>2. b = [i \in DOMAIN cs |-> <<"SEQUENCE", Opaque("Certificate", cs[i].certificate)>>]
  BY DEF EncodeCertificateSet
<1> HIDE DEF b, T
<1>3. \A i \in DOMAIN b : i \in DOMAIN cs /\ b[i][2] = Opaque("Certificate", cs[i].certificate)
  BY <1>2
<1>4. ASSUME NEW x \in CapturedAmong("Certificate", b, T) PROVE x \in {c.certificate : c \in Among(cs)}
  <2>1. PICK i \in DOMAIN b : x \in Captured("Certificate", b[i][2])
    BY DEF CapturedAmong
  <2>2. x = cs[i].certificate /\ cs[i] \in Among(cs)
    BY <1>3, <2>1, OpaqueHolds DEF Among
  <2> QED
    BY <2>2
<1> QED
  BY <1>1, <1>4 DEF b

(* What is written of the body of a message.                               *)
LEMMA SignedDataIsWrittenDer ==
  ASSUME NEW d, CapturedIn("signedData", d) \cap BerOnly = {}
  PROVE  LET e == Body("signedData", EncodeSignedData(d))
         IN  \A j \in DOMAIN e : CapturedOf("signedData", e[j]) \cap BerOnly = {}
<1> DEFINE k == "signedData"
           n == 5
           cells == << <<"INTEGER", d.version>>,
                       <<"SET", EncodeOpaqueList("Algorithm", d.digestAlgorithms)>>,
                       <<"SEQUENCE", EncodeEncapsulated(d.contentInfo)>>,
                       <<"0", EncodeCertificateSet(d.certificates)>>,
                       <<"SET", EncodeOpaqueList("SignerInfo", d.signerInfos)>> >>
<1>1. Body(k, EncodeSignedData(d)) = Present(cells)
  BY DEF EncodeSignedData, Body
<1>2. n \in Nat /\ Len(cells) = n
  OBVIOUS
<1>3. /\ Among(d.digestAlgorithms) \cap BerOnly = {} /\ Among(d.signerInfos) \cap BerOnly = {}
      /\ {c.certificate : c \in Among(d.certificates)} \cap BerOnly = {}
  BY DEF CapturedIn
<1>4. CapturedOf(k, cells[1]) = {} /\ CapturedOf(k, cells[3]) = {}
  BY DEF CapturedOf
<1>5. ASSUME NEW type, NEW values, EncodeOpaqueList(type, values) # None
      PROVE  CapturedOf(k, <<"SET", EncodeOpaqueList(type, values)>>) \subseteq Among(values)
  <2> DEFINE b == EncodeOpaqueList(type, values)
  <2>1. values # None
    BY <1>5 DEF EncodeOpaqueList
  <2>2. CapturedOf(k, <<"SET", b>>) = CapturedEach("Algorithm", b) \cup CapturedEach("SignerInfo", b)
    BY DEF CapturedOf
  <2> QED
    BY <2>1, <2>2, ListHolds
<1>6. /\ cells[2][2] # None => CapturedOf(k, cells[2]) \subseteq Among(d.digestAlgorithms)
      /\ cells[5][2] # None => CapturedOf(k, cells[5]) \subseteq Among(d.signerInfos)
  BY <1>5
<1>7. cells[4][2] # None => CapturedOf(k, cells[4]) \subseteq {c.certificate : c \in Among(d.certificates)}
  <2>1. EncodeCertificateSet(d.certificates) # None => d.certificates # None
    BY DEF EncodeCertificateSet
  <2> QED
    BY <2>1, CertificatesHold
<1>8. n = 5
  OBVIOUS
<1> HIDE DEF cells, n
<1>9. ASSUME NEW i \in 1..n, cells[i][2] # None PROVE CapturedOf(k, cells[i]) \cap BerOnly = {}
  <2>1. i \in {1, 2, 3, 4, 5}
    BY <1>8
  <2> HIDE DEF k
  <2> QED
    BY <2>1, <1>3, <1>4, <1>6, <1>7, <1>9
<1>10. \A j \in DOMAIN Present(cells) : CapturedOf(k, Present(cells)[j]) \cap BerOnly = {}
  BY <1>2, <1>9, RowsAreDer
<1> QED
  BY <1>1, <1>10

(* What is written of a private key.                                       *)
LEMMA OneAsymmetricKeyIsWrittenDer ==
  ASSUME NEW v, CapturedIn("privateKey", v) \cap BerOnly = {}
  PROVE  \A j \in DOMAIN EncodeOneAsymmetricKey(v) :
            CapturedOf("privateKey", EncodeOneAsymmetricKey(v)[j]) \cap BerOnly = {}
<1> DEFINE k == "privateKey"
           n == 5
           cells == << <<"INTEGER", v.version>>,
                       <<"SEQUENCE", Opaque("Algorithm", v.privateKeyAlgorithm)>>,
                       <<"OCTETS", v.privateKey>>,
                       <<"0", EncodeOpaqueList("Attribute", v.attributes)>>,
                       <<"1", v.publicKey>> >>
<1>1. EncodeOneAsymmetricKey(v) = Present(cells)
  BY DEF EncodeOneAsymmetricKey
<1>2. n \in Nat /\ Len(cells) = n /\ k \in AlgorithmKinds
  BY DEF AlgorithmKinds
<1>3. v.privateKeyAlgorithm \notin BerOnly /\ Among(v.attributes) \cap BerOnly = {}
  BY DEF CapturedIn
<1>4. CapturedOf(k, cells[1]) = {} /\ CapturedOf(k, cells[3]) = {} /\ CapturedOf(k, cells[5]) = {}
  BY DEF CapturedOf
<1>5. CapturedOf(k, cells[2]) = {v.privateKeyAlgorithm}
  BY <1>2, AlgorithmHolds
<1>6. cells[4][2] # None => CapturedOf(k, cells[4]) \subseteq Among(v.attributes)
  <2> DEFINE b == EncodeOpaqueList("Attribute", v.attributes)
  <2>1. b # None => v.attributes # None
    BY DEF EncodeOpaqueList
  <2>2. CapturedOf(k, cells[4]) = CapturedEach("Attribute", b) /\ cells[4][2] = b
    BY DEF CapturedOf
  <2> HIDE DEF cells
  <2> QED
    BY <2>1, <2>2, ListHolds
<1>7. n = 5
  OBVIOUS
<1> HIDE DEF cells, n
<1>8. ASSUME NEW i \in 1..n, cells[i][2] # None PROVE CapturedOf(k, cells[i]) \cap BerOnly = {}
  <2>1. i \in {1, 2, 3, 4, 5}
    BY <1>7
  <2> HIDE DEF k
  <2> QED
    BY <2>1, <1>3, <1>4, <1>5, <1>6, <1>8
<1>9. \A j \in DOMAIN Present(cells) : CapturedOf(k, Present(cells)[j]) \cap BerOnly = {}
  BY <1>2, <1>8, RowsAreDer
<1> QED
  BY <1>1, <1>9

(* What is written of a request for a time-stamp.                          *)
LEMMA TimeStampReqIsWrittenDer ==
  ASSUME NEW r, CapturedIn("timeStampReq", r) \cap BerOnly = {}
  PROVE  \A j \in DOMAIN EncodeTimeStampReq(r) : CapturedOf("timeStampReq", EncodeTimeStampReq(r)[j]) \cap BerOnly = {}
<1> DEFINE k == "timeStampReq"
           n == 6
           cells == << <<"INTEGER", r.version>>,
                       <<"SEQUENCE", EncodeImprint(r.messageImprint)>>,
                       <<"OID", r.reqPolicy>>,
                       <<"INTEGER", r.nonce>>,
                       <<"BOOLEAN", Flag(r.certReq)>>,
                       <<"0", EncodeExtensions(r.extensions)>> >>
<1>1. EncodeTimeStampReq(r) = Present(cells)
  BY DEF EncodeTimeStampReq
<1>2. n \in Nat /\ Len(cells) = n /\ k \in AlgorithmKinds
  BY DEF AlgorithmKinds
<1>3. r.messageImprint.algorithm \notin BerOnly
  BY DEF CapturedIn
<1>4. /\ CapturedOf(k, cells[1]) = {} /\ CapturedOf(k, cells[3]) = {} /\ CapturedOf(k, cells[4]) = {}
      /\ CapturedOf(k, cells[5]) = {} /\ CapturedOf(k, cells[6]) = {}
  BY DEF CapturedOf
<1>5. CapturedOf(k, cells[2]) = {r.messageImprint.algorithm}
  BY <1>2, AlgorithmFirstHolds DEF EncodeImprint
<1>6. n = 6
  OBVIOUS
<1> HIDE DEF cells, n
<1>7. ASSUME NEW i \in 1..n PROVE CapturedOf(k, cells[i]) \cap BerOnly = {}
  <2>1. i \in {1, 2, 3, 4, 5, 6}
    BY <1>6
  <2> HIDE DEF k
  <2> QED
    BY <2>1, <1>3, <1>4, <1>5
<1>8. \A j \in DOMAIN Present(cells) : CapturedOf(k, Present(cells)[j]) \cap BerOnly = {}
  BY <1>2, <1>7, RowsAreDer
<1> QED
  BY <1>1, <1>8

(* What is written of the response.                                        *)
LEMMA TimeStampRespIsWrittenDer ==
  ASSUME NEW r, CapturedIn("timeStampResp", r) \cap BerOnly = {}
  PROVE  \A j \in DOMAIN EncodeTimeStampResp(r) :
            CapturedOf("timeStampResp", EncodeTimeStampResp(r)[j]) \cap BerOnly = {}
<1> DEFINE k == "timeStampResp"
           n == 2
           cells == << <<"SEQUENCE", EncodeStatusInfo(r.status)>>,
                       <<"SEQUENCE", IF r.timeStampToken = None THEN None
                                       ELSE Opaque("ContentInfo", r.timeStampToken)>> >>
<1>1. EncodeTimeStampResp(r) = Present(cells)
  BY DEF EncodeTimeStampResp
<1>2. n \in Nat /\ Len(cells) = n
  OBVIOUS
<1>3. r.timeStampToken \notin BerOnly
  BY DEF CapturedIn
<1>4. \A b : CapturedOf(k, <<"SEQUENCE", b>>) = Captured("ContentInfo", b)
  BY DEF CapturedOf
<1>5. CapturedOf(k, cells[1]) = {}
  <2> DEFINE s == r.status
             m == 3
             rows == << <<"INTEGER", s.status>>,
                        <<"SEQUENCE", EncodeFreeText(s.statusString)>>,
                        <<"BITS", IF s.failInfo = None THEN None ELSE EncodeFailureInfo(s.failInfo)>> >>
             b == EncodeStatusInfo(s)
  <2>1. b = Present(rows)
    BY DEF EncodeStatusInfo
  <2>2. m \in Nat /\ Len(rows) = m /\ \A i \in 1..m : rows[i][1] # "ContentInfo"
    OBVIOUS
  <2>3. IsVec(b)
    BY <2>1, EncodedIsVec
  <2>4. DOMAIN b = 1..Len(b)
    BY <2>3, VecIsSeq
  <2> HIDE DEF rows, b, m
  <2>5. \A j \in DOMAIN b : b[j][1] # "ContentInfo"
    BY <2>1, <2>2, PresentHolds
  <2>6. Captured("ContentInfo", b) = {}
    BY <2>4, <2>5 DEF Captured
  <2> QED
    BY <1>4, <2>6 DEF b
<1>6. cells[2][2] # None => CapturedOf(k, cells[2]) = {r.timeStampToken}
  BY <1>4, OpaqueHolds
<1>7. n = 2
  OBVIOUS
<1> HIDE DEF cells, n
<1>8. ASSUME NEW i \in 1..n, cells[i][2] # None PROVE CapturedOf(k, cells[i]) \cap BerOnly = {}
  <2>1. i \in {1, 2}
    BY <1>7
  <2> HIDE DEF k
  <2> QED
    BY <2>1, <1>3, <1>5, <1>6, <1>8
<1>9. \A j \in DOMAIN Present(cells) : CapturedOf(k, Present(cells)[j]) \cap BerOnly = {}
  BY <1>2, <1>8, RowsAreDer
<1> QED
  BY <1>1, <1>9

(* What is written of a TSTInfo.                                           *)
LEMMA TstInfoIsWrittenDer ==
  ASSUME NEW t, CapturedIn("tstInfo", t) \cap BerOnly = {}
  PROVE  \A j \in DOMAIN EncodeTstInfo(t) : CapturedOf("tstInfo", EncodeTstInfo(t)[j]) \cap BerOnly = {}
<1> DEFINE k == "tstInfo"
           n == 10
           cells == << <<"INTEGER", t.version>>,
                       <<"OID", t.policy>>,
                       <<"SEQUENCE", EncodeImprint(t.messageImprint)>>,
                       <<"INTEGER", t.serialNumber>>,
                       <<"TIME", t.genTime>>,
                       <<"SEQUENCE", EncodeAccuracy(t.accuracy)>>,
                       <<"BOOLEAN", Flag(t.ordering)>>,
                       <<"INTEGER", t.nonce>>,
                       <<"0", IF t.tsa = None THEN None ELSE <<EncodeGeneralName(t.tsa)>> >>,
                       <<"1", EncodeExtensions(t.extensions)>> >>
<1>1. EncodeTstInfo(t) = Present(cells)
  BY DEF EncodeTstInfo
<1>2. n \in Nat /\ Len(cells) = n /\ k \in AlgorithmKinds
  BY DEF AlgorithmKinds
<1>3. t.messageImprint.algorithm \notin BerOnly
  BY DEF CapturedIn
<1>4. /\ CapturedOf(k, cells[1]) = {} /\ CapturedOf(k, cells[2]) = {} /\ CapturedOf(k, cells[4]) = {}
      /\ CapturedOf(k, cells[5]) = {} /\ CapturedOf(k, cells[7]) = {} /\ CapturedOf(k, cells[8]) = {}
      /\ CapturedOf(k, cells[9]) = {} /\ CapturedOf(k, cells[10]) = {}
  BY DEF CapturedOf
<1>5. CapturedOf(k, cells[3]) = {t.messageImprint.algorithm}
  BY <1>2, AlgorithmFirstHolds DEF EncodeImprint
<1>6. cells[6][2] # None => CapturedOf(k, cells[6]) = {}
  <2> DEFINE a == t.accuracy
             m == 3
             rows == << <<"INTEGER", a.seconds>>, <<"0", a.millis>>, <<"1", a.micros>> >>
             b == EncodeAccuracy(a)
  <2> SUFFICES ASSUME b # None PROVE CapturedOf(k, <<"SEQUENCE", b>>) = {}
    OBVIOUS
  <2>1. b = Present(rows)
    BY DEF EncodeAccuracy
  <2>2. m \in Nat /\ Len(rows) = m /\ \A i \in 1..m : rows[i][1] \notin {"Algorithm", "SEQUENCE"}
    OBVIOUS
  <2>3. IsVec(b)
    BY <2>1, EncodedIsVec
  <2>4. DOMAIN b = 1..Len(b) /\ Len(b) \in Nat
    BY <2>3, VecIsSeq
  <2> HIDE DEF rows, b, m
  <2>5. \A j \in DOMAIN b : b[j][1] \notin {"Algorithm", "SEQUENCE"}
    BY <2>1, <2>2, PresentHolds
  <2>6. Len(b) > 0 => b[1][1] \notin {"Algorithm", "SEQUENCE"}
    BY <2>4, <2>5
  <2> QED
    BY <1>2, <2>6, NoAlgorithmHolds
<1>7. n = 10
  OBVIOUS
<1> HIDE DEF cells, n
<1>8. ASSUME NEW i \in 1..n, cells[i][2] # None PROVE CapturedOf(k, cells[i]) \cap BerOnly = {}
  <2>1. i \in {1, 2, 3, 4, 5, 6, 7, 8, 9, 10}
    BY <1>7
  <2> HIDE DEF k
  <2> QED
    BY <2>1, <1>3, <1>4, <1>5, <1>6, <1>8
<1>9. \A j \in DOMAIN Present(cells) : CapturedOf(k, Present(cells)[j]) \cap BerOnly = {}
  BY <1>2, <1>8, RowsAreDer
<1> QED
  BY <1>1, <1>9

-----------------------------------------------------------------------------
(* What is written of a value that holds no BER, it may be called DER.     *)
LEMMA WrittenIsDer ==
  ASSUME Atoms, NEW k \in Kinds, k # "certList", NEW v, HasType(k, v), CapturedIn(k, v) \cap BerOnly = {}
  PROVE  IsDer(k, Encode(k, v))
<1>1. CASE k = "certificate"
  <2> DEFINE e == EncodeCertificate(v)
  <2>1. IsTbs(v.tbs)
    BY <1>1 DEF HasType, IsCertificate
  <2>2. /\ v.tbs.signature \notin BerOnly /\ v.tbs.subjectPublicKeyInfo.algorithm \notin BerOnly
        /\ v.signatureAlgorithm \notin BerOnly
    BY <1>1 DEF CapturedIn
  <2>3. Body("certificate", e) = EncodeTbs(v.tbs) /\ e[2][2] = Opaque("Algorithm", v.signatureAlgorithm)
    BY DEF EncodeCertificate, Body
  <2> HIDE DEF e
  <2>4. \A j \in DOMAIN EncodeTbs(v.tbs) : CapturedOf("certificate", EncodeTbs(v.tbs)[j]) \cap BerOnly = {}
    BY <2>1, <2>2, TbsIsWrittenDer
  <2>5. Captured("Algorithm", e[2][2]) \cap BerOnly = {}
    BY <2>2, <2>3, OpaqueHolds
  <2>6. IsDer("certificate", e)
    BY <2>3, <2>4, <2>5 DEF IsDer
  <2> QED
    BY <1>1, <2>6 DEF Encode, e
<1>2. CASE k = "request"
  <2> DEFINE e == EncodeRequest(v)
             r == v.info
  <2>1. IsName(r.subject) /\ IsOpaqueList(r.attributes)
    BY <1>2 DEF HasType, IsRequest
  <2>2. r.attributes # None
    BY <2>1 DEF IsOpaqueList, IsVec, Atoms, Required
  <2>3. /\ r.subjectPublicKeyInfo.algorithm \notin BerOnly /\ Among(r.attributes) \cap BerOnly = {}
        /\ v.signatureAlgorithm \notin BerOnly
    BY <1>2 DEF CapturedIn
  <2>4. Body("request", e) = EncodeRequestInfo(r) /\ e[2][2] = Opaque("Algorithm", v.signatureAlgorithm)
    BY DEF EncodeRequest, Body
  <2> HIDE DEF e, r
  <2>5. \A j \in DOMAIN EncodeRequestInfo(r) : CapturedOf("request", EncodeRequestInfo(r)[j]) \cap BerOnly = {}
    BY <2>1, <2>2, <2>3, RequestInfoIsWrittenDer
  <2>6. Captured("Algorithm", e[2][2]) \cap BerOnly = {}
    BY <2>3, <2>4, OpaqueHolds
  <2>7. IsDer("request", e)
    BY <2>4, <2>5, <2>6 DEF IsDer
  <2> QED
    BY <1>2, <2>7 DEF Encode, e
<1>3. CASE k = "signedData"
  <2>1. CapturedIn("signedData", v) \cap BerOnly = {}
    BY <1>3
  <2>2. \A j \in DOMAIN Body("signedData", EncodeSignedData(v)) :
          CapturedOf("signedData", Body("signedData", EncodeSignedData(v))[j]) \cap BerOnly = {}
    BY <2>1, SignedDataIsWrittenDer
  <2>3. IsDer("signedData", EncodeSignedData(v))
    BY <2>2 DEF IsDer
  <2> QED
    BY <1>3, <2>3 DEF Encode
<1>4. ASSUME NEW e, e = Encode(k, v), k \notin {"certificate", "request", "signedData"},
             \A j \in DOMAIN e : CapturedOf(k, e[j]) \cap BerOnly = {}
      PROVE  IsDer(k, Encode(k, v))
  BY <1>4 DEF IsDer, Body
<1>5. CASE k = "contentInfo"
  <2> DEFINE e == EncodeContentInfo(v)
  <2>1. DOMAIN e = {1, 2} /\ e[1] = <<"OID", v.contentType>> /\ e[2] = <<"0", Opaque("Any", v.content)>>
    BY DEF EncodeContentInfo
  <2>2. v.content \notin BerOnly
    BY <1>5 DEF CapturedIn
  <2> HIDE DEF e
  <2>3. CapturedOf("contentInfo", e[1]) = {}
    BY <2>1 DEF CapturedOf
  <2>4. CapturedOf("contentInfo", e[2]) = Captured("Any", Opaque("Any", v.content))
    BY <2>1 DEF CapturedOf
  <2>5. \A j \in DOMAIN e : CapturedOf("contentInfo", e[j]) \cap BerOnly = {}
    BY <2>1, <2>2, <2>3, <2>4, OpaqueHolds
  <2>6. e = Encode(k, v)
    BY <1>5 DEF Encode, e
  <2> QED
    BY <1>4, <1>5, <2>5, <2>6
<1>6. CASE k = "digestInfo"
  <2> DEFINE e == EncodeDigestInfo(v)
  <2>1. /\ DOMAIN e = {1, 2}
        /\ e[1] = <<"SEQUENCE", Opaque("Algorithm", v.algorithm)>> /\ e[2] = <<"OCTETS", v.digest>>
    BY DEF EncodeDigestInfo
  <2>2. v.algorithm \notin BerOnly
    BY <1>6 DEF CapturedIn
  <2> HIDE DEF e
  <2>3. CapturedOf("digestInfo", e[1]) = {v.algorithm}
    BY <2>1, AlgorithmHolds DEF AlgorithmKinds
  <2>4. CapturedOf("digestInfo", e[2]) = {}
    BY <2>1 DEF CapturedOf
  <2>5. \A j \in DOMAIN e : CapturedOf("digestInfo", e[j]) \cap BerOnly = {}
    BY <2>1, <2>2, <2>3, <2>4
  <2>6. e = Encode(k, v)
    BY <1>6 DEF Encode, e
  <2> QED
    BY <1>4, <1>6, <2>5, <2>6
<1>7. CASE k = "signerInfo"
  <2>1. IsSignerInfo(v) /\ Encode(k, v) = EncodeSignerInfo(v)
    BY <1>7 DEF HasType, Encode
  <2> QED
    BY <1>4, <1>7, <2>1, SignerInfoIsWrittenDer
<1>8. CASE k = "timeStampReq"
  <2>1. Encode(k, v) = EncodeTimeStampReq(v)
    BY <1>8 DEF Encode
  <2> QED
    BY <1>4, <1>8, <2>1, TimeStampReqIsWrittenDer
<1>9. CASE k = "timeStampResp"
  <2>1. Encode(k, v) = EncodeTimeStampResp(v)
    BY <1>9 DEF Encode
  <2> QED
    BY <1>4, <1>9, <2>1, TimeStampRespIsWrittenDer
<1>10. CASE k = "tstInfo"
  <2>1. Encode(k, v) = EncodeTstInfo(v)
    BY <1>10 DEF Encode
  <2> QED
    BY <1>4, <1>10, <2>1, TstInfoIsWrittenDer
<1>11. CASE k = "privateKey"
  <2>1. Encode(k, v) = EncodeOneAsymmetricKey(v)
    BY <1>11 DEF Encode
  <2> QED
    BY <1>4, <1>11, <2>1, OneAsymmetricKeyIsWrittenDer
<1>12. CASE k \in {"ecPrivateKey", "rsaPrivateKey"}
  <2>1. \A e : CapturedOf(k, e) = {}
    BY <1>12 DEF CapturedOf
  <2> QED
    BY <1>4, <1>12, <2>1
<1> QED
  BY <1>1, <1>2, <1>3, <1>5, <1>6, <1>7, <1>8, <1>9, <1>10, <1>11, <1>12 DEF Kinds

(* A document that is called DER holds no captured BER.                    *)
FormIsTrue(d) == d.form = "der" => IsDer(kind, d.elements)

(* What a value is written as is what it is called.                        *)
LEMMA BytesAreTrue ==
  ASSUME Atoms, kind \in Kinds, kind # "certList", NEW v, HasType(kind, v)
  PROVE  FormIsTrue(Bytes(kind, v))
<1>1. Bytes(kind, v).form = "der" => CapturedIn(kind, v) \cap BerOnly = {}
  BY DEF Bytes
<1>2. Bytes(kind, v).elements = Encode(kind, v)
  BY DEF Bytes
<1> QED
  BY <1>1, <1>2, WrittenIsDer DEF FormIsTrue

(* An alteration brings no elements but the one it adds.                   *)
LEMMA AlteredElements ==
  ASSUME NEW s, IsVec(s), NEW i \in DOMAIN s
  PROVE  LET S == {s[j] : j \in DOMAIN s}
             swapped == [s EXCEPT ![i] = s[i + 1], ![i + 1] = s[i]]
         IN  /\ \A j \in DOMAIN RemoveAt(s, i) : RemoveAt(s, i)[j] \in S
             /\ \A e : \A j \in DOMAIN InsertAt(s, i, e) : InsertAt(s, i, e)[j] \in S \cup {e}
             /\ i < Len(s) => \A j \in DOMAIN swapped : swapped[j] \in S
<1> DEFINE n == Len(s)
           S == {s[j] : j \in DOMAIN s}
<1>1. n \in Nat /\ DOMAIN s = 1..n /\ s \in Seq(S)
  BY VecIsSeq
<1>2. i \in 1..n /\ \A j \in DOMAIN s : s[j] \in S
  BY <1>1
<1> HIDE DEF S
<1>3. RemoveAt(s, i) \in Seq(S)
  BY <1>1, <1>2 DEF RemoveAt
<1>4. \A j \in DOMAIN RemoveAt(s, i) : RemoveAt(s, i)[j] \in S
  BY <1>3
<1>5. ASSUME NEW e PROVE \A j \in DOMAIN InsertAt(s, i, e) : InsertAt(s, i, e)[j] \in S \cup {e}
  <2> DEFINE T == S \cup {e}
  <2>1. s \in Seq(T) /\ e \in T
    BY <1>1
  <2> HIDE DEF T
  <2>2. SubSeq(s, 1, i - 1) \in Seq(T) /\ SubSeq(s, i, n) \in Seq(T)
    BY <1>1, <1>2, <2>1
  <2>3. InsertAt(s, i, e) \in Seq(T)
    BY <2>1, <2>2 DEF InsertAt
  <2>4. \A j \in DOMAIN InsertAt(s, i, e) : InsertAt(s, i, e)[j] \in T
    BY <2>3
  <2> QED
    BY <2>4 DEF T
<1>6. ASSUME i < n
      PROVE  LET t == [s EXCEPT ![i] = s[i + 1], ![i + 1] = s[i]] IN \A j \in DOMAIN t : t[j] \in S
  <2>1. i + 1 \in DOMAIN s
    BY <1>1, <1>2, <1>6
  <2> QED
    BY <1>2, <2>1
<1> QED
  BY <1>4, <1>5, <1>6 DEF S

(* With another body that holds no BER either, a document is what it is    *)
(* called.                                                                 *)
LEMMA WithBodyIsDer ==
  ASSUME NEW k, NEW e, IsDocument(k, e), IsDer(k, e), NEW body, IsVec(body),
         \A j \in DOMAIN body : CapturedOf(k, body[j]) \cap BerOnly = {}
  PROVE  IsDer(k, WithBody(k, e, body))
<1> DEFINE d == WithBody(k, e, body)
<1>1. Body(k, d) = body
  BY WithBodyIsDocument
<1>2. k \in {"certificate", "request"} => DOMAIN d = DOMAIN e /\ (2 \in DOMAIN e => d[2] = e[2])
  BY DEF WithBody
<1> HIDE DEF d
<1>3. k \in {"certificate", "request"} /\ 2 \in DOMAIN d => Captured("Algorithm", d[2][2]) \cap BerOnly = {}
  BY <1>2 DEF IsDer
<1>4. IsDer(k, d)
  BY <1>1, <1>3 DEF IsDer
<1> QED
  BY <1>4 DEF d

-----------------------------------------------------------------------------
(* Whatever is read can be written.                                        *)

(* What is there, and what was read, is DER if it says so.                 *)
FormsInv ==
  /\ wire # None => FormIsTrue(wire)
  /\ held # None => IsDocument(kind, held.original.elements) /\ FormIsTrue(held.original)

(* At first there is nothing.                                              *)
LEMMA InitForms == Init => FormsInv
BY DEF Init, FormsInv

(* A new document, and nothing held.                                       *)
LEMMA WriteKeepsForms ==
  ASSUME Atoms, ValuesInv, HistoryInv, FormsInv, Write \/ Receive \/ Rewrite
  PROVE  FormsInv'
<1>1. kind \in Kinds /\ kind \in DOMAIN Written /\ kind' = kind
  BY DocumentsAssumption DEF HistoryInv, Write, Receive, Rewrite
<1>2. \A v \in Written[kind] \cup Refused[kind] : HasType(kind, v)
  BY <1>1, DocumentsAssumption
<1>3. ASSUME NEW v, kind # "certList", HasType(kind, v), wire' = Bytes(kind, v) PROVE FormIsTrue(wire)'
  BY <1>1, <1>3, BytesAreTrue DEF FormIsTrue
<1>4. CASE Write
  <2>1. PICK v \in Written[kind] \cup Refused[kind] : Encodable(kind, "ber", v) /\ wire' = Bytes(kind, v)
    BY <1>4 DEF Write
  <2>2. FormIsTrue(wire)'
    BY <1>2, <1>3, <2>1 DEF Encodable
  <2> QED
    BY <1>1, <1>4, <2>2 DEF FormsInv, Write, FormIsTrue
<1>5. CASE Receive
  <2>1. FormIsTrue(wire)'
    <3>1. CASE \E e \in Foreign[kind], form \in {"der", "ber"} : wire' = [form |-> form, elements |-> e]
      BY <1>1, <3>1, ForeignAssumption DEF FormIsTrue
    <3>2. CASE \E v \in Written[kind] :
                 Encodable(kind, "ber", v) /\ wire' = [form |-> "ber", elements |-> Encode(kind, v)]
      BY <3>2 DEF FormIsTrue
    <3> QED
      BY <1>5, <3>1, <3>2 DEF Receive
  <2> QED
    BY <1>1, <1>5, <2>1 DEF FormsInv, Receive, FormIsTrue
<1>6. CASE Rewrite
  <2>1. wire' = Bytes(kind, held.value) /\ kind # "certList" /\ held' = None
    BY <1>6 DEF Rewrite, Encodable
  <2>2. HasType(kind, held.value)
    BY <1>6, <2>1 DEF Rewrite, ValuesInv, HeldIsTyped, Typed
  <2>3. FormIsTrue(wire)'
    BY <1>3, <2>1, <2>2
  <2> QED
    BY <2>1, <2>3 DEF FormsInv
<1> QED
  BY <1>4, <1>5, <1>6

(* An alteration moves what is there, or adds what holds no BER.           *)
LEMMA AlterKeepsForms ==
  ASSUME HistoryInv, FormsInv, Alter
  PROVE  FormsInv'
<1> DEFINE old == Body(kind, wire.elements)
           Clean(body) == \A j \in DOMAIN body : CapturedOf(kind, body[j]) \cap BerOnly = {}
<1>1. wire # None /\ held = None /\ IsWire(wire) /\ FormIsTrue(wire) /\ kind \in DOMAIN Written
  BY DEF Alter, HistoryInv, FormsInv
<1>2. IsVec(old) /\ IsDocument(kind, wire.elements) /\ wire = [form |-> wire.form, elements |-> wire.elements]
  BY <1>1 DEF IsWire, IsDocument
<1>3. PICK new, what : Altered(what, new) /\ IsVec(new) /\ (Clean(old) => Clean(new))
  <2> HIDE DEF old
  <2>1. PICK i \in DOMAIN old :
           \/ Altered("drop", RemoveAt(old, i))
           \/ Altered("repeat", InsertAt(old, i, old[i]))
           \/ \E e \in SpelledOut[kind] : Altered("spell", InsertAt(old, i, e))
           \/ /\ i < Len(old)
              /\ old[i][1] # old[i + 1][1]
              /\ Altered("swap", [old EXCEPT ![i] = old[i + 1], ![i + 1] = old[i]])
    BY DEF Alter, old
  <2> DEFINE S == {old[j] : j \in DOMAIN old}
             swapped == [old EXCEPT ![i] = old[i + 1], ![i + 1] = old[i]]
             removed == RemoveAt(old, i)
             inserted(e) == InsertAt(old, i, e)
  <2>2. IsVec(removed) /\ IsVec(swapped) /\ \A e : IsVec(inserted(e))
    BY <1>2, AlteredIsVec
  <2>3. /\ \A j \in DOMAIN removed : removed[j] \in S
        /\ \A e : \A j \in DOMAIN inserted(e) : inserted(e)[j] \in S \cup {e}
        /\ i < Len(old) => \A j \in DOMAIN swapped : swapped[j] \in S
    BY <1>2, AlteredElements
  <2>4. Clean(old) => \A x \in S : CapturedOf(kind, x) \cap BerOnly = {}
    OBVIOUS
  <2>5. \A e \in SpelledOut[kind] : CapturedOf(kind, e) \cap BerOnly = {}
    BY <1>1, ForeignAssumption
  <2>6. old[i] \in S
    OBVIOUS
  <2> HIDE DEF S, removed, inserted, swapped
  <2>7. CASE Altered("drop", removed)
    BY <2>2, <2>3, <2>4, <2>7
  <2>8. CASE Altered("repeat", inserted(old[i]))
    <3>1. Clean(old) => Clean(inserted(old[i]))
      BY <2>3, <2>4, <2>6
    <3> QED
      BY <2>2, <2>8, <3>1
  <2>9. CASE \E e \in SpelledOut[kind] : Altered("spell", inserted(e))
    <3>1. PICK e \in SpelledOut[kind] : Altered("spell", inserted(e))
      BY <2>9
    <3>2. Clean(old) => Clean(inserted(e))
      BY <2>3, <2>4, <2>5
    <3> QED
      BY <2>2, <3>1, <3>2
  <2>10. CASE i < Len(old) /\ Altered("swap", swapped)
    BY <2>2, <2>3, <2>4, <2>10
  <2> QED
    BY <2>1, <2>7, <2>8, <2>9, <2>10 DEF removed, inserted, swapped
<1>4. wire' = [wire EXCEPT !.elements = WithBody(kind, wire.elements, new)] /\ UNCHANGED <<kind, held>>
  BY <1>3 DEF Altered
<1> HIDE DEF old
<1>5. wire' = [form |-> wire.form, elements |-> WithBody(kind, wire.elements, new)]
  BY <1>2, <1>4
<1>6. IsDer(kind, wire.elements) => IsDer(kind, WithBody(kind, wire.elements, new))
  <2> SUFFICES ASSUME IsDer(kind, wire.elements) PROVE IsDer(kind, WithBody(kind, wire.elements, new))
    OBVIOUS
  <2>1. Clean(old)
    BY DEF IsDer, old
  <2>2. \A j \in DOMAIN new : CapturedOf(kind, new[j]) \cap BerOnly = {}
    BY <1>3, <2>1
  <2> QED
    BY <1>2, <1>3, <2>2, WithBodyIsDer
<1>7. FormIsTrue(wire)'
  BY <1>1, <1>4, <1>5, <1>6 DEF FormIsTrue
<1> QED
  BY <1>1, <1>4, <1>7 DEF FormsInv

(* What is held came from the document that is there, or from one that is  *)
(* written of it.                                                          *)
LEMMA HeldKeepsForms ==
  ASSUME Atoms, DocumentsInv, ValuesInv, HistoryInv, FormsInv,
         Parse \/ LoadPair \/ ToMutable \/ IntoCertificate \/ Copy \/ ThroughMessage
  PROVE  FormsInv'
<1>1. kind' = kind /\ wire' = wire /\ kind \in Kinds
  BY DocumentsAssumption DEF Parse, LoadPair, ToMutable, IntoCertificate, Copy, ThroughMessage, CopyThrough, HistoryInv
<1>2. CASE Parse \/ LoadPair
  <2>1. wire # None /\ held'.original = wire
    BY <1>2 DEF Parse, LoadPair
  <2>2. FormIsTrue(wire) /\ IsDocument(kind, wire.elements)
    BY <2>1 DEF FormsInv, HistoryInv, IsWire
  <2> QED
    BY <1>1, <2>1, <2>2 DEF FormsInv, FormIsTrue
<1>3. CASE ToMutable \/ IntoCertificate
  <2>1. held # None /\ held'.original = held.original
    BY <1>3 DEF ToMutable, IntoCertificate, Holds, DocumentsInv, HeldShape
  <2> QED
    BY <1>1, <2>1 DEF FormsInv, FormIsTrue
<1>4. ASSUME NEW mode, CopyThrough(mode) PROVE FormsInv'
  <2>1. kind = "certificate" /\ Holds({"plain", "captured", "mutable"}) /\ held'.original = Bytes(kind, held.value)
    BY <1>4 DEF CopyThrough
  <2>2. HasType(kind, held.value)
    BY <2>1 DEF ValuesInv, HeldIsTyped, Typed
  <2>3. FormIsTrue(Bytes(kind, held.value)) /\ IsWire(Bytes(kind, held.value))
    BY <1>1, <2>1, <2>2, BytesAreTrue, BytesAreWire
  <2> QED
    BY <1>1, <2>1, <2>3 DEF FormsInv, FormIsTrue, IsWire
<1> QED
  BY <1>2, <1>3, <1>4 DEF Copy, ThroughMessage

(* Every step keeps documents what they are called.                        *)
LEMMA NextKeepsForms ==
  Atoms /\ DocumentsInv /\ ValuesInv /\ HistoryInv /\ FormsInv /\ [Next]_vars => FormsInv'
<1> SUFFICES ASSUME Atoms, DocumentsInv, ValuesInv, HistoryInv, FormsInv, [Next]_vars
             PROVE  FormsInv'
  OBVIOUS
<1>1. CASE UNCHANGED <<kind, wire, held>>
  BY <1>1 DEF FormsInv, FormIsTrue
<1>2. CASE UNCHANGED vars
  BY <1>1, <1>2 DEF vars
<1>3. CASE Issue
  BY <1>1, <1>3 DEF Issue
<1>4. CASE EditSubject \/ EditCritical \/ EditSigned
  <2>1. /\ held # None /\ kind' = kind /\ wire' = wire
        /\ \E v : held' = [held EXCEPT !.value = v, !.changed = TRUE]
    <3>1. ASSUME EditSubject PROVE CanEdit("certificate") /\ \E what, v : Edited(what, v)
      BY <3>1 DEF EditSubject
    <3>2. ASSUME EditCritical PROVE CanEdit("certificate") /\ \E what, v : Edited(what, v)
      BY <3>2 DEF EditCritical
    <3>3. ASSUME EditSigned PROVE CanEdit("signerInfo") /\ \E what, v : Edited(what, v)
      BY <3>3 DEF EditSigned
    <3> QED
      BY <1>4, <3>1, <3>2, <3>3 DEF CanEdit, Holds, Edited
  <2>2. held'.original = held.original
    BY <2>1 DEF DocumentsInv, HeldShape
  <2> QED
    BY <2>1, <2>2 DEF FormsInv, FormIsTrue
<1>5. CASE StorePair
  <2>1. wire' = held.value.pkcs8 /\ held' = None /\ kind' = kind
    BY <1>5 DEF StorePair
  <2>2. wire # None /\ held.value = PairOf(wire) /\ held.value # Malformed
    BY <1>5 DEF StorePair, DocumentsInv, PairWasLoaded
  <2>3. held.value.pkcs8 = wire
    BY <2>2, PairSays DEF PairOf
  <2> QED
    BY <2>1, <2>2, <2>3 DEF FormsInv, FormIsTrue
<1> QED
  BY <1>2, <1>3, <1>4, <1>5, WriteKeepsForms, AlterKeepsForms, HeldKeepsForms DEF Next

(* In every reachable state a document that is called DER holds no element *)
(* that was captured in BER.                                               *)
THEOREM FormsInvariant ==
  ASSUME Atoms
  PROVE  Spec => []FormsInv
<1>1. DocumentsInv /\ ValuesInv /\ HistoryInv /\ FormsInv /\ [Next]_vars => FormsInv'
  BY NextKeepsForms
<1> QED
  BY <1>1, InitForms, DocumentsInvariant, ValuesInvariant, HistoryInvariant, PTL DEF Spec

(* What a decoder accepts, of any structure and from any library, an       *)
(* encoder can write: as BER, and as DER if it was read as DER.            *)
THEOREM WhatIsReadCanBeWritten ==
  ASSUME Atoms
  PROVE  Spec => []ReadCanBeWritten
<1>1. DocumentsInv /\ ValuesInv /\ FormsInv => ReadCanBeWritten
  <2> DEFINE v == held.value
  <2> SUFFICES ASSUME DocumentsInv, ValuesInv, FormsInv,
                      Holds({"plain"}), ~held.changed, kind # "certList"
               PROVE  /\ Encodable(kind, "ber", v)
                      /\ held.original.form = "der" => Encodable(kind, "der", v)
    BY DEF ReadCanBeWritten
  <2>1. kind \in Kinds
    BY KindIsKnown
  <2>2. held # None /\ v # Malformed /\ v = Decode(kind, held.original) /\ Typed(kind, v)
    BY DEF Holds, DocumentsInv, HeldWasRead, ValuesInv, HeldIsTyped
  <2>3. IsDocument(kind, held.original.elements) /\ FormIsTrue(held.original)
    BY <2>2 DEF FormsInv
  <2> HIDE DEF v
  <2>4. kind = "signerInfo" => Among(v.signedAttributes) \cap BerOnly = {}
    <3> SUFFICES ASSUME kind = "signerInfo" PROVE Among(v.signedAttributes) \cap BerOnly = {}
      OBVIOUS
    <3>1. v = DecodeSignerInfo(held.original.elements)
      BY <2>2 DEF Decode
    <3>2. v.signedAttributes # None => Canonical(v.signedAttributes)
      BY <2>2, <3>1, SignerIsCanonical
    <3> QED
      BY <3>2 DEF Among, Canonical
  <2>5. kind = "signedData" => SignedDataEncodable(v)
    BY <2>2 DEF Typed
  <2>6. kind = "ecPrivateKey" => v.parameters # SpecifiedCurve
    <3> SUFFICES ASSUME kind = "ecPrivateKey" PROVE v.parameters # SpecifiedCurve
      OBVIOUS
    <3>1. IsEcPrivateKey(v)
      BY <2>2 DEF Typed, HasType
    <3>2. IsFunction(SpecifiedCurve)
      BY DEF IsFunction, SpecifiedCurve
    <3>3. SpecifiedCurve # None /\ SpecifiedCurve[1] = "SEQUENCE"
      BY <3>2 DEF Atoms, Required, SpecifiedCurve
    <3> QED
      BY <3>1, <3>3 DEF IsEcPrivateKey
  <2>7. held.original.form = "der" => CapturedIn(kind, v) \cap BerOnly = {}
    <3> SUFFICES ASSUME held.original.form = "der" PROVE CapturedIn(kind, v) \cap BerOnly = {}
      OBVIOUS
    <3>1. IsDer(kind, held.original.elements)
      BY <2>3 DEF FormIsTrue
    <3> QED
      BY <2>1, <2>2, <2>3, <3>1, ReadIsDer
  <2> QED
    BY <2>4, <2>5, <2>6, <2>7 DEF Encodable
<1> QED
  BY <1>1, DocumentsInvariant, ValuesInvariant, FormsInvariant, PTL
=============================================================================

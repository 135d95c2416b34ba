--------------------------- MODULE StructureTypes ---------------------------
(***************************************************************************)
(* What the types of the structures say of a value (the fields it has and  *)
(* which of them are always there), and the rules that its decoder has of  *)
(* the values of its fields.  The encoders look at neither.                *)
(***************************************************************************)
EXTENDS CmsStructures, TimeStampStructures, KeyStructures

(* A field that is not an Option, and has a value. *)
Required(v) == v # None /\ v # Malformed

(* A list or a structure, and no primitive value. *)
IsFunction(f) == f = [i \in DOMAIN f |-> f[i]]

(* A Vec. *)
IsVec(values) == IsFunction(values) /\ IsSequence(values)

(* Captured elements are kept as they are. *)
IsOpaqueList(values) == IsVec(values) /\ \A i \in DOMAIN values : values[i] # Malformed

----------------------------------------------------------------------------
(* Names and general names (rfc3280.rs). *)

IsAttribute(a) == a = Attribute(a.typ, a.value)
IsRdn(rdn) == IsVec(rdn) /\ \A i \in DOMAIN rdn : IsAttribute(rdn[i])
IsName(name) == IsVec(name) /\ \A i \in DOMAIN name : IsRdn(name[i])

IsOtherName(n) == n = [typeId |-> n.typeId, value |-> n.value] /\ Required(n.typeId) /\ n.value # Malformed

IsDirectoryString(s) == s # Malformed /\ s[1] \in DirectoryStringTags

IsEdiPartyName(n) ==
  /\ n = [nameAssigner |-> n.nameAssigner, partyName |-> n.partyName]
  /\ n.nameAssigner = None \/ IsDirectoryString(n.nameAssigner)
  /\ IsDirectoryString(n.partyName)

IsGeneralName(n) ==
  /\ n = [choice |-> n.choice, name |-> n.name]
  /\ n.choice \in {GeneralNameChoice[i] : i \in 1..9}
  /\ CASE n.choice = "otherName"     -> IsOtherName(n.name)
       [] n.choice = "directoryName" -> IsName(n.name)
       [] n.choice = "ediPartyName"  -> IsEdiPartyName(n.name)
       [] OTHER                      -> n.name # Malformed

----------------------------------------------------------------------------
(* Certificates and requests (rfc5280.rs, rfc2986.rs). *)

IsExtension(x) ==
  x = [id |-> x.id, critical |-> x.critical, value |-> x.value] /\ Required(x.id) /\ Required(x.value)

IsExtensions(xs) == xs = None \/ (IsVec(xs) /\ \A i \in DOMAIN xs : IsExtension(xs[i]))

(* As extensions are written and read again: an encoder leaves out a       *)
(* default.                                                                *)
NormalExtensions(xs) ==
  IF xs = None THEN None ELSE [i \in DOMAIN xs |-> [xs[i] EXCEPT !.critical = Flag(@)]]

ExtensionsObey(xs) == xs = None \/ ExtensionsRules(xs)

IsValidity(v) ==
  v = [notBefore |-> v.notBefore, notAfter |-> v.notAfter] /\ Required(v.notBefore) /\ Required(v.notAfter)

IsSpki(k) == k = [algorithm |-> k.algorithm, key |-> k.key] /\ k.algorithm # Malformed /\ Required(k.key)

IsTbs(t) ==
  /\ t = [version |-> t.version, serialNumber |-> t.serialNumber, signature |-> t.signature,
          issuer |-> t.issuer, validity |-> t.validity, subject |-> t.subject,
          subjectPublicKeyInfo |-> t.subjectPublicKeyInfo, issuerUniqueId |-> t.issuerUniqueId,
          subjectUniqueId |-> t.subjectUniqueId, extensions |-> t.extensions]
  /\ Required(t.serialNumber) /\ t.signature # Malformed
  /\ IsName(t.issuer) /\ IsValidity(t.validity) /\ IsName(t.subject) /\ IsSpki(t.subjectPublicKeyInfo)
  /\ t.issuerUniqueId # Malformed /\ t.subjectUniqueId # Malformed
  /\ IsExtensions(t.extensions)

TbsObeys(t) == t.version \in {None} \cup 0..2 /\ ExtensionsObey(t.extensions) /\ TbsRules(t)

IsCertificate(c) ==
  /\ c = [tbs |-> c.tbs, signatureAlgorithm |-> c.signatureAlgorithm, signature |-> c.signature,
          rawData |-> c.rawData]
  /\ IsTbs(c.tbs) /\ c.signatureAlgorithm # Malformed /\ Required(c.signature)

IsRequest(r) ==
  /\ r = [info |-> r.info, signatureAlgorithm |-> r.signatureAlgorithm, signature |-> r.signature]
  /\ r.info = [version |-> r.info.version, subject |-> r.info.subject,
               subjectPublicKeyInfo |-> r.info.subjectPublicKeyInfo, attributes |-> r.info.attributes]
  /\ Required(r.info.version) /\ IsName(r.info.subject) /\ IsSpki(r.info.subjectPublicKeyInfo)
  /\ IsOpaqueList(r.info.attributes)
  /\ r.signatureAlgorithm # Malformed /\ Required(r.signature)

----------------------------------------------------------------------------
(* Messages (rfc5652.rs). *)

IsContentInfo(c) ==
  c = [contentType |-> c.contentType, content |-> c.content] /\ Required(c.contentType) /\ c.content # Malformed

IsSid(sid) ==
  IF sid.form = "keyIdentifier"
    THEN sid = SubjectKeyIdentifier(sid.id) /\ sid.id # Malformed
    ELSE /\ sid = IssuerAndSerialNumber(sid.issuer, sid.serialNumber)
         /\ IsName(sid.issuer) /\ Required(sid.serialNumber)

IsSignerInfo(s) ==
  /\ s = [version |-> s.version, sid |-> s.sid, digestAlgorithm |-> s.digestAlgorithm,
          signedAttributes |-> s.signedAttributes, signatureAlgorithm |-> s.signatureAlgorithm,
          signature |-> s.signature, unsignedAttributes |-> s.unsignedAttributes,
          signedAttributesData |-> s.signedAttributesData]
  /\ Required(s.version) /\ IsSid(s.sid) /\ s.digestAlgorithm # Malformed
  /\ s.signedAttributes = None \/ IsOpaqueList(s.signedAttributes)
  /\ s.signatureAlgorithm # Malformed /\ Required(s.signature)
  /\ s.unsignedAttributes = None \/ IsOpaqueList(s.unsignedAttributes)

SignerInfoObeys(s) == s.version \in 0..5 /\ SignedAttributesRules(s)

IsEncapsulated(c) ==
  c = [contentType |-> c.contentType, content |-> c.content] /\ Required(c.contentType) /\ c.content # Malformed

IsCertificateSet(cs) ==
  cs = None \/ /\ IsVec(cs)
               /\ \A i \in DOMAIN cs : /\ cs[i] = CertificateChoice(cs[i].choice, cs[i].certificate)
                                       /\ cs[i].certificate # Malformed

IsSignedData(d) ==
  /\ d = [version |-> d.version, digestAlgorithms |-> d.digestAlgorithms, contentInfo |-> d.contentInfo,
          certificates |-> d.certificates, crls |-> d.crls, signerInfos |-> d.signerInfos]
  /\ Required(d.version) /\ IsOpaqueList(d.digestAlgorithms) /\ IsEncapsulated(d.contentInfo)
  /\ IsCertificateSet(d.certificates) /\ IsOpaqueList(d.signerInfos)

----------------------------------------------------------------------------
(* Time-stamps (rfc3161.rs). *)

IsImprint(m) ==
  m = [algorithm |-> m.algorithm, digest |-> m.digest] /\ m.algorithm # Malformed /\ Required(m.digest)

IsTimeStampReq(r) ==
  /\ r = [version |-> r.version, messageImprint |-> r.messageImprint, reqPolicy |-> r.reqPolicy,
          nonce |-> r.nonce, certReq |-> r.certReq, extensions |-> r.extensions]
  /\ Required(r.version) /\ IsImprint(r.messageImprint) /\ r.reqPolicy # Malformed /\ r.nonce # Malformed
  /\ IsExtensions(r.extensions)

TimeStampReqObeys(r) == r.version = 1 /\ ExtensionsObey(r.extensions)

IsStatusInfo(s) ==
  /\ s = [status |-> s.status, statusString |-> s.statusString, failInfo |-> s.failInfo]
  /\ Required(s.status)
  /\ s.statusString = None \/ IsOpaqueList(s.statusString)
  /\ s.failInfo \in {None} \cup KnownFailure

IsTimeStampResp(r) ==
  /\ r = [status |-> r.status, timeStampToken |-> r.timeStampToken]
  /\ IsStatusInfo(r.status) /\ r.timeStampToken # Malformed

TimeStampRespObeys(r) == r.status.status \in 0..5 /\ TokenWithSuccess(r)

IsAccuracy(a) ==
  /\ a = [seconds |-> a.seconds, millis |-> a.millis, micros |-> a.micros]
  /\ a.seconds # Malformed /\ a.millis # Malformed /\ a.micros # Malformed

IsTstInfo(t) ==
  /\ t = [version |-> t.version, policy |-> t.policy, messageImprint |-> t.messageImprint,
          serialNumber |-> t.serialNumber, genTime |-> t.genTime, accuracy |-> t.accuracy,
          ordering |-> t.ordering, nonce |-> t.nonce, tsa |-> t.tsa, extensions |-> t.extensions]
  /\ Required(t.version) /\ Required(t.policy) /\ IsImprint(t.messageImprint)
  /\ Required(t.serialNumber) /\ Required(t.genTime)
  /\ t.accuracy = None \/ IsAccuracy(t.accuracy)
  /\ t.nonce # Malformed
  /\ t.tsa = None \/ IsGeneralName(t.tsa)
  /\ IsExtensions(t.extensions)

TstInfoObeys(t) ==
  t.version = 1 /\ (t.accuracy = None \/ AccuracyRules(t.accuracy)) /\ ExtensionsObey(t.extensions)

----------------------------------------------------------------------------
(* Keys (rfc5958.rs, rfc5915.rs, rfc3447.rs). *)

IsOneAsymmetricKey(k) ==
  /\ k = [version |-> k.version, privateKeyAlgorithm |-> k.privateKeyAlgorithm,
          privateKey |-> k.privateKey, attributes |-> k.attributes, publicKey |-> k.publicKey]
  /\ Required(k.version) /\ k.privateKeyAlgorithm # Malformed /\ Required(k.privateKey)
  /\ k.attributes = None \/ IsOpaqueList(k.attributes)
  /\ k.publicKey # Malformed

IsEcPrivateKey(k) ==
  /\ k = [version |-> k.version, privateKey |-> k.privateKey, parameters |-> k.parameters,
          publicKey |-> k.publicKey]
  /\ Required(k.version) /\ Required(k.privateKey)
  /\ k.parameters = None \/ (k.parameters # Malformed /\ k.parameters[1] \in {"OID", "NULL"})
  /\ k.publicKey # Malformed

IsPrime(p) == p = [ri |-> p.ri, di |-> p.di, ti |-> p.ti] /\ Required(p.ri) /\ Required(p.di) /\ Required(p.ti)

IsRsaPrivateKey(k) ==
  /\ k = [integers |-> k.integers, otherPrimeInfos |-> k.otherPrimeInfos]
  /\ k.integers = [i \in 1..9 |-> k.integers[i]] /\ \A i \in 1..9 : k.integers[i] # None
  /\ k.otherPrimeInfos = None \/ /\ IsVec(k.otherPrimeInfos)
                                 /\ \A i \in DOMAIN k.otherPrimeInfos : IsPrime(k.otherPrimeInfos[i])

IsDigestInfo(d) ==
  d = [algorithm |-> d.algorithm, digest |-> d.digest] /\ d.algorithm # Malformed /\ Required(d.digest)

----------------------------------------------------------------------------
(* By kind. *)

HasType(k, v) ==
  CASE k = "certificate"   -> IsCertificate(v)
    [] k = "request"       -> IsRequest(v)
    [] k = "contentInfo"   -> IsContentInfo(v)
    [] k = "signerInfo"    -> IsSignerInfo(v)
    [] k = "signedData"    -> IsSignedData(v)
    [] k = "timeStampReq"  -> IsTimeStampReq(v)
    [] k = "timeStampResp" -> IsTimeStampResp(v)
    [] k = "tstInfo"       -> IsTstInfo(v)
    [] k = "privateKey"    -> IsOneAsymmetricKey(v)
    [] k = "ecPrivateKey"  -> IsEcPrivateKey(v)
    [] k = "rsaPrivateKey" -> IsRsaPrivateKey(v)
    [] k = "digestInfo"    -> IsDigestInfo(v)
    [] OTHER               -> FALSE

Obeys(k, v) ==
  CASE k = "certificate"   -> TbsObeys(v.tbs)
    [] k = "request"       -> v.info.version = 0
    [] k = "signerInfo"    -> SignerInfoObeys(v)
    [] k = "signedData"    -> v.version \in 0..5
    [] k = "timeStampReq"  -> TimeStampReqObeys(v)
    [] k = "timeStampResp" -> TimeStampRespObeys(v)
    [] k = "tstInfo"       -> TstInfoObeys(v)
    [] k = "privateKey"    -> v.version \in {0, 1}
    [] OTHER               -> TRUE
=============================================================================

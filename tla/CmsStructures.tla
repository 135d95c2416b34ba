---------------------------- MODULE CmsStructures ----------------------------
(***************************************************************************)
(* The structures of cms asn1/rfc5652.rs: what is written and read of a    *)
(* SignedData message and its parts.  Certificates are opaque here.        *)
(***************************************************************************)
EXTENDS X509Structures

CONSTANT Rank  (* [attributes -> Nat]: the order of their DER encodings    *)

Sorted(attributes) == SortSeq(attributes, LAMBDA a, b : Rank[a] < Rank[b])

EncodeContentInfo(c) == << <<"OID", c.contentType>>, <<"0", Opaque("Any", c.content)>> >>

(* [0] holds exactly one value, captured. *)
DecodeContentInfo(elements) ==
  Decoded(<<One("OID"), One("0")>>, elements,
          LAMBDA f : [contentType |-> f[1], content |-> Within("Any", f[2])])

----------------------------------------------------------------------------
(* SignerInfo. *)

IssuerAndSerialNumber(name, serial) == [form |-> "issuerAndSerial", issuer |-> name, serialNumber |-> serial]
SubjectKeyIdentifier(id) == [form |-> "keyIdentifier", id |-> id]

EncodeSid(sid) ==
  IF sid.form = "keyIdentifier" THEN <<"0", Opaque("OctetString", sid.id)>>
    ELSE <<"SEQUENCE", << <<"SEQUENCE", EncodeName(sid.issuer)>>, <<"INTEGER", sid.serialNumber>> >> >>

DecodeKeyIdentifier(body) == Sound(SubjectKeyIdentifier(Within("OctetString", body)))

DecodeIssuerAndSerial(body) ==
  Decoded(<<One("SEQUENCE"), One("INTEGER")>>, body,
          LAMBDA f : IssuerAndSerialNumber(DecodeName(f[1]), f[2]))

M_EncodeSignerInfo_KeptBytes(s) ==
  Present(<< <<"INTEGER", s.version>>,
             EncodeSid(s.sid),
             <<"SEQUENCE", Opaque("Algorithm", s.digestAlgorithm)>>,
             <<"0", EncodeOpaqueList("Attribute",
                      IF s.signedAttributesData # None THEN s.signedAttributesData ELSE s.signedAttributes)>>,
             <<"SEQUENCE", Opaque("Algorithm", s.signatureAlgorithm)>>,
             <<"OCTETS", s.signature>>,
             <<"1", EncodeOpaqueList("Attribute", s.unsignedAttributes)>> >>)

(* Signed attributes are written in the order they are in, whatever bytes  *)
(* were kept.                                                              *)
EncodeSignerInfo(s) ==
  Present(<< <<"INTEGER", s.version>>,
             EncodeSid(s.sid),
             <<"SEQUENCE", Opaque("Algorithm", s.digestAlgorithm)>>,
             <<"0", EncodeOpaqueList("Attribute", s.signedAttributes)>>,
             <<"SEQUENCE", Opaque("Algorithm", s.signatureAlgorithm)>>,
             <<"OCTETS", s.signature>>,
             <<"1", EncodeOpaqueList("Attribute", s.unsignedAttributes)>> >>)

(* Signed attributes must be their own sorted DER encoding, in a message   *)
(* of either form; their bytes are kept.                                   *)
Canonical(attributes) ==
  /\ \A i \in DOMAIN attributes : attributes[i] \notin BerOnly
  /\ attributes = Sorted(attributes)

SignedAttributesRules(s) == s.signedAttributes # None => Canonical(s.signedAttributes)

SignerInfoRead(elements) ==
  LET byKey == Len(elements) > 1 /\ elements[2][1] = "0"
  IN  Decoded(<<One("INTEGER"), One(IF byKey THEN "0" ELSE "SEQUENCE"), One("SEQUENCE"), Opt("0"),
                One("SEQUENCE"), One("OCTETS"), Opt("1")>>, elements,
              LAMBDA f : [version              |-> OneOf(0..5, f[1]),
                          sid                  |-> IF byKey THEN DecodeKeyIdentifier(f[2])
                                                     ELSE DecodeIssuerAndSerial(f[2]),
                          digestAlgorithm      |-> Within("Algorithm", f[3]),
                          signedAttributes     |-> DecodeOpaqueList("Attribute", f[4]),
                          signatureAlgorithm   |-> Within("Algorithm", f[5]),
                          signature            |-> f[6],
                          unsignedAttributes   |-> DecodeOpaqueList("Attribute", f[7]),
                          signedAttributesData |-> DecodeOpaqueList("Attribute", f[4])])

M_DecodeSignerInfo_AnyOrder(elements) == SignerInfoRead(elements)

DecodeSignerInfo(elements) == Obeying(SignerInfoRead(elements), SignedAttributesRules)

(* signed_attributes_digested_content: the bytes that were read, or else   *)
(* the attributes in order.                                                *)
DigestedContent(s) ==
  IF s.signedAttributes = None THEN None
    ELSE IF s.signedAttributesData # None THEN s.signedAttributesData ELSE Sorted(s.signedAttributes)

----------------------------------------------------------------------------
(* SignedData. *)

EncodeEncapsulated(c) ==
  Present(<< <<"OID", c.contentType>>, <<"0", Explicit("OCTETS", c.content)>> >>)

DecodeEncapsulated(body) ==
  Decoded(<<One("OID"), Opt("0")>>, body,
          LAMBDA f : [contentType |-> f[1], content |-> Inner("OCTETS", f[2])])

CertificateChoice(choice, certificate) == [choice |-> choice, certificate |-> certificate]

EncodeCertificateSet(cs) ==
  IF cs = None THEN None ELSE [i \in DOMAIN cs |-> <<"SEQUENCE", Opaque("Certificate", cs[i].certificate)>>]

(* The forms other than a certificate are errors; a certificate is taken   *)
(* under any other tag, and written as a SEQUENCE.                         *)
DecodeCertificateSet(body) ==
  IF body = None THEN None
    ELSE IF ~IsSequence(body) \/ \E i \in DOMAIN body : \/ body[i][1] \in {"0", "1", "2", "3"}
                                                         \/ Within("Certificate", body[i][2]) = Malformed
      THEN Malformed
      ELSE [i \in DOMAIN body |-> CertificateChoice("certificate", Within("Certificate", body[i][2]))]

(* Only the form that carries certificates can be written; revocation      *)
(* lists cannot.                                                           *)
SignedDataEncodable(d) ==
  /\ d.crls = None
  /\ d.certificates # None => \A i \in DOMAIN d.certificates : d.certificates[i].choice = "certificate"

EncodeSignedData(d) ==
  << <<"OID", "idSignedData">>,
     <<"0", << <<"SEQUENCE", Present(<<
        <<"INTEGER", d.version>>,
        <<"SET", EncodeOpaqueList("Algorithm", d.digestAlgorithms)>>,
        <<"SEQUENCE", EncodeEncapsulated(d.contentInfo)>>,
        <<"0", EncodeCertificateSet(d.certificates)>>,
        <<"SET", EncodeOpaqueList("SignerInfo", d.signerInfos)>> >>)>> >> >> >>

M_DecodeSignedDataBody_KeepsCrls(elements) ==
  Decoded(<<One("INTEGER"), One("SET"), One("SEQUENCE"), Opt("0"), Opt("1"), One("SET")>>, elements,
          LAMBDA f : [version          |-> OneOf(0..5, f[1]),
                      digestAlgorithms |-> DecodeOpaqueList("Algorithm", f[2]),
                      contentInfo      |-> DecodeEncapsulated(f[3]),
                      certificates     |-> DecodeCertificateSet(f[4]),
                      crls             |-> f[5],
                      signerInfos      |-> DecodeOpaqueList("SignerInfo", f[6])])

(* Revocation lists are an error when they are there. *)
DecodeSignedDataBody(elements) ==
  Decoded(<<One("INTEGER"), One("SET"), One("SEQUENCE"), Opt("0"), Opt("1"), One("SET")>>, elements,
          LAMBDA f : [version          |-> OneOf(0..5, f[1]),
                      digestAlgorithms |-> DecodeOpaqueList("Algorithm", f[2]),
                      contentInfo      |-> DecodeEncapsulated(f[3]),
                      certificates     |-> DecodeCertificateSet(f[4]),
                      crls             |-> OneOf({None}, f[5]),
                      signerInfos      |-> DecodeOpaqueList("SignerInfo", f[6])])

DecodeSignedData(elements) ==
  LET f == Fields(<<One("OID"), One("0")>>, elements)
      body == Inner("SEQUENCE", f[2])
  IN  IF f = Malformed THEN Malformed
        ELSE IF f[1] # "idSignedData" \/ body = Malformed THEN Malformed
          ELSE DecodeSignedDataBody(body)
==============================================================================

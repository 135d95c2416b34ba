--------------------------- MODULE X509Structures ---------------------------
(***************************************************************************)
(* The structures of rfc5280.rs and rfc2986.rs, each with the encoder and  *)
(* the decoder the code has for it.  Algorithm identifiers are opaque: an  *)
(* object identifier and at most one captured parameter.                   *)
(***************************************************************************)
EXTENDS Names

CONSTANT AltNames  (* subjectAltName values that hold a name               *)

(* An optional time: the decoders tell times from other elements by tag.   *)
Time(t) == <<"TIME", t>>

M_EncodeExtension_Reversed(x) ==
  Present(<< <<"OID", x.id>>,
             <<"BOOLEAN", IF x.critical = FALSE THEN FALSE ELSE None>>,
             <<"OCTETS", x.value>> >>)

(* BOOLEAN DEFAULT FALSE: only TRUE is written, but FALSE can be read. *)
EncodeExtension(x) ==
  Present(<< <<"OID", x.id>>,
             <<"BOOLEAN", IF x.critical = TRUE THEN TRUE ELSE None>>,
             <<"OCTETS", x.value>> >>)

DecodeExtension(elements) ==
  Decoded(<<One("OID"), Opt("BOOLEAN"), One("OCTETS")>>, elements,
          LAMBDA f : [id |-> f[1], critical |-> f[2], value |-> f[3]])

EncodeExtensions(xs) ==
  IF xs = None THEN None ELSE [i \in DOMAIN xs |-> <<"SEQUENCE", EncodeExtension(xs[i])>>]

(* One extension or more, no two of the same type. *)
ExtensionsRules(xs) == xs # <<>> /\ \A i, j \in DOMAIN xs : xs[i].id = xs[j].id => i = j

DecodeExtensions(body) ==
  Optional(body, LAMBDA b : Obeying(DecodeEach("SEQUENCE", b, DecodeExtension), ExtensionsRules))

EncodeValidity(v) == <<Time(v.notBefore), Time(v.notAfter)>>

DecodeValidity(body) ==
  Decoded(<<One("TIME"), One("TIME")>>, body, LAMBDA f : [notBefore |-> f[1], notAfter |-> f[2]])

EncodeSpki(k) == << <<"SEQUENCE", Opaque("Algorithm", k.algorithm)>>, <<"BITS", k.key>> >>

DecodeSpki(body) ==
  Decoded(<<One("SEQUENCE"), One("BITS")>>, body,
          LAMBDA f : [algorithm |-> Within("Algorithm", f[1]), key |-> f[2]])

----------------------------------------------------------------------------
(* Certificates. *)

(* Versions count from 0; the default, v1, is not written. *)
V1 == 0
V3 == 2

EncodeTbs(t) ==
  Present(<<
    <<"0", IF t.version \in {None, V1} THEN None ELSE << <<"INTEGER", t.version>> >> >>,
    <<"INTEGER", t.serialNumber>>,
    <<"SEQUENCE", Opaque("Algorithm", t.signature)>>,
    <<"SEQUENCE", EncodeName(t.issuer)>>,
    <<"SEQUENCE", EncodeValidity(t.validity)>>,
    <<"SEQUENCE", EncodeName(t.subject)>>,
    <<"SEQUENCE", EncodeSpki(t.subjectPublicKeyInfo)>>,
    <<"1", t.issuerUniqueId>>,
    <<"2", t.subjectUniqueId>>,
    <<"3", Explicit("SEQUENCE", EncodeExtensions(t.extensions))>> >>)

(* The first subjectAltName is critical and holds a name. *)
NamedByExtension(extensions) ==
  /\ extensions # None
  /\ \E i \in DOMAIN extensions :
       /\ extensions[i].id = "subjectAltName"
       /\ extensions[i].critical = TRUE
       /\ extensions[i].value \in AltNames

DecodeVersion(body) == Optional(Inner("INTEGER", body), LAMBDA v : OneOf(0..2, v))

EffectiveVersion(version) == IF version = None THEN V1 ELSE version

M_TbsFields_OneUniqueId(f) ==
  [version              |-> DecodeVersion(f[1]),
   serialNumber         |-> f[2],
   signature            |-> Within("Algorithm", f[3]),
   issuer               |-> DecodeName(f[4]),
   validity             |-> DecodeValidity(f[5]),
   subject              |-> DecodeName(f[6]),
   subjectPublicKeyInfo |-> DecodeSpki(f[7]),
   issuerUniqueId       |-> f[8],
   subjectUniqueId      |-> f[8],
   extensions           |-> DecodeExtensions(Inner("SEQUENCE", f[10]))]

(* The fields, each decoded. *)
TbsFields(f) ==
  [version              |-> DecodeVersion(f[1]),
   serialNumber         |-> f[2],
   signature            |-> Within("Algorithm", f[3]),
   issuer               |-> DecodeName(f[4]),
   validity             |-> DecodeValidity(f[5]),
   subject              |-> DecodeName(f[6]),
   subjectPublicKeyInfo |-> DecodeSpki(f[7]),
   issuerUniqueId       |-> f[8],
   subjectUniqueId      |-> f[9],
   extensions           |-> DecodeExtensions(Inner("SEQUENCE", f[10]))]

(* The rules between the fields of a TBSCertificate. *)
TbsRules(t) ==
  LET version == EffectiveVersion(t.version)
  IN  /\ Attributes(t.issuer) # <<>>
      /\ t.validity.notBefore <= t.validity.notAfter
      /\ version = V1 => t.issuerUniqueId = None /\ t.subjectUniqueId = None
      /\ t.extensions # None => version = V3
      /\ Attributes(t.subject) = <<>> => NamedByExtension(t.extensions)

DecodeTbs(elements) ==
  Obeying(Decoded(<<Opt("0"), One("INTEGER"), One("SEQUENCE"), One("SEQUENCE"), One("SEQUENCE"),
                    One("SEQUENCE"), One("SEQUENCE"), Opt("1"), Opt("2"), Opt("3")>>,
                  elements, TbsFields),
          TbsRules)

EncodeCertificate(c) ==
  << <<"SEQUENCE", EncodeTbs(c.tbs)>>,
     <<"SEQUENCE", Opaque("Algorithm", c.signatureAlgorithm)>>,
     <<"BITS", c.signature>> >>

(* raw_data are the bytes of the TBSCertificate, in the form they came in. *)
DecodeCertificate(form, elements) ==
  Decoded(<<One("SEQUENCE"), One("SEQUENCE"), One("BITS")>>, elements,
          LAMBDA f : [tbs                |-> DecodeTbs(f[1]),
                      signatureAlgorithm |-> Within("Algorithm", f[2]),
                      signature          |-> f[3],
                      rawData            |-> [form |-> form, elements |-> f[1]]])

----------------------------------------------------------------------------
(* Revocation lists are read and never written. *)

DecodeRevoked(body) ==
  Decoded(<<One("INTEGER"), One("TIME"), Opt("SEQUENCE")>>, body,
          LAMBDA f : [serialNumber |-> f[1], date |-> f[2], extensions |-> DecodeExtensions(f[3])])

DecodeRevokedList(body) ==
  IF body = None THEN <<>> ELSE DecodeEach("SEQUENCE", body, DecodeRevoked)

CrlRules(list) ==
  /\ list.version \in {None, 1}
  /\ list.version = None =>
       /\ list.crlExtensions = None
       /\ \A i \in DOMAIN list.revoked : list.revoked[i].extensions = None

DecodeCertList(elements) ==
  Obeying(
    Decoded(<<Opt("INTEGER"), One("SEQUENCE"), One("SEQUENCE"), One("TIME"), Opt("TIME"),
              Opt("SEQUENCE"), Opt("0")>>, elements,
            LAMBDA f : [version       |-> f[1],
                        signature     |-> Within("Algorithm", f[2]),
                        issuer        |-> DecodeName(f[3]),
                        thisUpdate    |-> f[4],
                        nextUpdate    |-> f[5],
                        revoked       |-> DecodeRevokedList(f[6]),
                        crlExtensions |-> DecodeExtensions(Inner("SEQUENCE", f[7]))]),
    CrlRules)

----------------------------------------------------------------------------
(* Certification requests (rfc2986.rs): the attributes must be there, even *)
(* when there are none.                                                    *)

EncodeRequestInfo(r) ==
  << <<"INTEGER", r.version>>,
     <<"SEQUENCE", EncodeName(r.subject)>>,
     <<"SEQUENCE", EncodeSpki(r.subjectPublicKeyInfo)>>,
     <<"0", EncodeOpaqueList("Attribute", r.attributes)>> >>

DecodeRequestInfo(elements) ==
  Decoded(<<One("INTEGER"), One("SEQUENCE"), One("SEQUENCE"), One("0")>>, elements,
          LAMBDA f : [version              |-> OneOf({0}, f[1]),
                      subject              |-> DecodeName(f[2]),
                      subjectPublicKeyInfo |-> DecodeSpki(f[3]),
                      attributes           |-> DecodeOpaqueList("Attribute", f[4])])

EncodeRequest(r) ==
  << <<"SEQUENCE", EncodeRequestInfo(r.info)>>,
     <<"SEQUENCE", Opaque("Algorithm", r.signatureAlgorithm)>>,
     <<"BITS", r.signature>> >>

DecodeRequest(elements) ==
  Decoded(<<One("SEQUENCE"), One("SEQUENCE"), One("BITS")>>, elements,
          LAMBDA f : [info               |-> DecodeRequestInfo(f[1]),
                      signatureAlgorithm |-> Within("Algorithm", f[2]),
                      signature          |-> f[3]])
=============================================================================

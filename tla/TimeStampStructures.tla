------------------------ MODULE TimeStampStructures ------------------------
(***************************************************************************)
(* The structures of the Time-Stamp Protocol (cms asn1/rfc3161.rs, and     *)
(* PKIFreeText of rfc4210.rs), each with its encoder and its decoder.      *)
(* Accuracy is in whole units, capped at 1000, the first value that is     *)
(* out of range.                                                           *)
(***************************************************************************)
EXTENDS X509Structures, Integers

EncodeImprint(m) == << <<"SEQUENCE", Opaque("Algorithm", m.algorithm)>>, <<"OCTETS", m.digest>> >>

DecodeImprint(body) ==
  Decoded(<<One("SEQUENCE"), One("OCTETS")>>, body,
          LAMBDA f : [algorithm |-> Within("Algorithm", f[1]), digest |-> f[2]])

(* A flag that is written only when it is set. *)
Flag(b) == IF b = TRUE THEN TRUE ELSE None

EncodeTimeStampReq(r) ==
  Present(<< <<"INTEGER", r.version>>,
             <<"SEQUENCE", EncodeImprint(r.messageImprint)>>,
             <<"OID", r.reqPolicy>>,
             <<"INTEGER", r.nonce>>,
             <<"BOOLEAN", Flag(r.certReq)>>,
             <<"0", EncodeExtensions(r.extensions)>> >>)

DecodeTimeStampReq(elements) ==
  Decoded(<<One("INTEGER"), One("SEQUENCE"), Opt("OID"), Opt("INTEGER"), Opt("BOOLEAN"), Opt("0")>>,
          elements,
          LAMBDA f : [version        |-> OneOf({1}, f[1]),
                      messageImprint |-> DecodeImprint(f[2]),
                      reqPolicy      |-> f[3],
                      nonce          |-> f[4],
                      certReq        |-> f[5],
                      extensions     |-> DecodeExtensions(f[6])])

----------------------------------------------------------------------------
(* Responses. *)

(* A failure is one bit.  A BIT STRING: octets, bits set in them, counted  *)
(* from the left of each, and the unused bits of the last octet.           *)
EncodeFailureInfo(bit) ==
  [octets |-> bit \div 8 + 1, set |-> {<<bit \div 8, bit % 8>>}, unused |-> 7 - (bit % 8)]

KnownFailure == {0, 2, 5, 14, 15, 16, 17, 25}

DecodeFailureInfo(bits) ==
  LET selected == {8 * b[1] + b[2] : b \in bits.set} \cap (0..(8 * bits.octets - bits.unused - 1))
  IN  IF Cardinality(selected) # 1 THEN Malformed
        ELSE LET bit == CHOOSE n \in selected : TRUE
             IN  IF bit \in KnownFailure THEN bit ELSE Malformed

EncodeFreeText(strings) ==
  IF strings = None THEN None ELSE [i \in DOMAIN strings |-> <<"UTF8", strings[i]>>]

(* SEQUENCE SIZE (1..MAX) OF UTF8String, of which none is accepted too. *)
DecodeFreeText(body) ==
  Optional(body, LAMBDA b : DecodeEach("UTF8", b, LAMBDA string : string))

EncodeStatusInfo(s) ==
  Present(<< <<"INTEGER", s.status>>,
             <<"SEQUENCE", EncodeFreeText(s.statusString)>>,
             <<"BITS", IF s.failInfo = None THEN None ELSE EncodeFailureInfo(s.failInfo)>> >>)

DecodeStatusInfo(body) ==
  Decoded(<<One("INTEGER"), Opt("SEQUENCE"), Opt("BITS")>>, body,
          LAMBDA f : [status       |-> OneOf(0..5, f[1]),
                      statusString |-> DecodeFreeText(f[2]),
                      failInfo     |-> Optional(f[3], DecodeFailureInfo)])

Granted == 0
GrantedWithMods == 1

(* The token is a ContentInfo, whose content is captured. *)
EncodeTimeStampResp(r) ==
  Present(<< <<"SEQUENCE", EncodeStatusInfo(r.status)>>,
             <<"SEQUENCE", IF r.timeStampToken = None THEN None
                             ELSE Opaque("ContentInfo", r.timeStampToken)>> >>)

M_DecodeTimeStampResp_AnyStatus(elements) ==
  Decoded(<<One("SEQUENCE"), Opt("SEQUENCE")>>, elements,
          LAMBDA f : [status |-> DecodeStatusInfo(f[1]), timeStampToken |-> Within("ContentInfo", f[2])])

(* A token exactly with a successful status. *)
TokenWithSuccess(r) == (r.status.status \in {Granted, GrantedWithMods}) = (r.timeStampToken # None)

DecodeTimeStampResp(elements) ==
  Obeying(
    Decoded(<<One("SEQUENCE"), Opt("SEQUENCE")>>, elements,
            LAMBDA f : [status |-> DecodeStatusInfo(f[1]), timeStampToken |-> Within("ContentInfo", f[2])]),
    TokenWithSuccess)

----------------------------------------------------------------------------
(* TSTInfo. *)

EncodeAccuracy(a) ==
  IF a = None THEN None
    ELSE Present(<< <<"INTEGER", a.seconds>>, <<"0", a.millis>>, <<"1", a.micros>> >>)

Fraction(n) == n = None \/ n \in 1..999

AccuracyRules(a) ==
  Fraction(a.millis) /\ Fraction(a.micros) /\ (a.seconds = None \/ a.seconds >= 0)

DecodeAccuracy(body) ==
  Optional(body, LAMBDA b :
    Obeying(Decoded(<<Opt("INTEGER"), Opt("0"), Opt("1")>>, b,
                    LAMBDA f : [seconds |-> f[1], millis |-> f[2], micros |-> f[3]]),
            AccuracyRules))

EncodeTstInfo(t) ==
  Present(<< <<"INTEGER", t.version>>,
             <<"OID", t.policy>>,
             <<"SEQUENCE", EncodeImprint(t.messageImprint)>>,
             <<"INTEGER", t.serialNumber>>,
             <<"TIME", t.genTime>>,
             <<"SEQUENCE", EncodeAccuracy(t.accuracy)>>,
             <<"BOOLEAN", Flag(t.ordering)>>,
             <<"INTEGER", t.nonce>>,
             <<"0", IF t.tsa = None THEN None ELSE <<EncodeGeneralName(t.tsa)>> >>,
             <<"1", EncodeExtensions(t.extensions)>> >>)

DecodeTsa(body) ==
  Optional(body, LAMBDA b : IF Len(b) = 1 THEN DecodeGeneralName(b[1]) ELSE Malformed)

DecodeTstInfo(elements) ==
  Decoded(<<One("INTEGER"), One("OID"), One("SEQUENCE"), One("INTEGER"), One("TIME"),
            Opt("SEQUENCE"), Opt("BOOLEAN"), Opt("INTEGER"), Opt("0"), Opt("1")>>, elements,
          LAMBDA f : [version        |-> OneOf({1}, f[1]),
                      policy         |-> f[2],
                      messageImprint |-> DecodeImprint(f[3]),
                      serialNumber   |-> f[4],
                      genTime        |-> f[5],
                      accuracy       |-> DecodeAccuracy(f[6]),
                      ordering       |-> f[7],
                      nonce          |-> f[8],
                      tsa            |-> DecodeTsa(f[9]),
                      extensions     |-> DecodeExtensions(f[10])])
=============================================================================

---------------------------- MODULE KeyStructures ----------------------------
(***************************************************************************)
(* Private keys: OneAsymmetricKey (rfc5958.rs), ECPrivateKey and           *)
(* ECParameters (rfc5915.rs, rfc5480.rs), RSAPrivateKey and DigestInfo     *)
(* (rfc3447.rs), and the key pairs that are loaded from them (signing.rs). *)
(***************************************************************************)
EXTENDS X509Structures

CONSTANTS
  KeyAlgorithmOf,  (* [algorithm identifiers -> key algorithm or "unknown"]: KeyAlgorithm::try_from *)
  PrivateKeyInfo   (* [private keys -> [algorithm, bits, publicKey]]: what the crypto libraries
                      read in the octets of a private key                  *)

EncodeOneAsymmetricKey(k) ==
  Present(<< <<"INTEGER", k.version>>,
             <<"SEQUENCE", Opaque("Algorithm", k.privateKeyAlgorithm)>>,
             <<"OCTETS", k.privateKey>>,
             <<"0", EncodeOpaqueList("Attribute", k.attributes)>>,
             <<"1", k.publicKey>> >>)

DecodeOneAsymmetricKey(elements) ==
  Decoded(<<One("INTEGER"), One("SEQUENCE"), One("OCTETS"), Opt("0"), Opt("1")>>, elements,
          LAMBDA f : [version             |-> OneOf({0, 1}, f[1]),
                      privateKeyAlgorithm |-> Within("Algorithm", f[2]),
                      privateKey          |-> f[3],
                      attributes          |-> DecodeOpaqueList("Attribute", f[4]),
                      publicKey           |-> f[5]])

(* ECParameters, a choice of which the specified curve is not implemented. *)
NamedCurve(oid) == <<"OID", oid>>
ImplicitCurve == <<"NULL", None>>
SpecifiedCurve == <<"SEQUENCE", None>>

EncodeEcParameters(p) == IF p = None THEN None ELSE <<p>>

DecodeEcParameters(body) ==
  Optional(body, LAMBDA b : IF Len(b) = 1 /\ b[1][1] \in {"OID", "NULL"} THEN b[1] ELSE Malformed)

EncodeEcPrivateKey(k) ==
  Present(<< <<"INTEGER", k.version>>,
             <<"OCTETS", k.privateKey>>,
             <<"0", EncodeEcParameters(k.parameters)>>,
             <<"1", Explicit("BITS", k.publicKey)>> >>)

DecodeEcPrivateKey(elements) ==
  Decoded(<<One("INTEGER"), One("OCTETS"), Opt("0"), Opt("1")>>, elements,
          LAMBDA f : [version    |-> f[1],
                      privateKey |-> f[2],
                      parameters |-> DecodeEcParameters(f[3]),
                      publicKey  |-> Inner("BITS", f[4])])

----------------------------------------------------------------------------
(* PKCS #1. *)

EncodePrime(p) == << <<"INTEGER", p.ri>>, <<"INTEGER", p.di>>, <<"INTEGER", p.ti>> >>

DecodePrime(body) ==
  Decoded(<<One("INTEGER"), One("INTEGER"), One("INTEGER")>>, body,
          LAMBDA f : [ri |-> f[1], di |-> f[2], ti |-> f[3]])

EncodePrimes(ps) ==
  IF ps = None THEN None ELSE [i \in DOMAIN ps |-> <<"SEQUENCE", EncodePrime(ps[i])>>]

(* SIZE (1..MAX), of which none is accepted too. *)
DecodePrimes(body) == Optional(body, LAMBDA b : DecodeEach("SEQUENCE", b, DecodePrime))

(* Version, n, e, d, p, q, dp, dq and qInv: nine INTEGERs told apart by    *)
(* nothing but their place.                                                *)
EncodeRsaPrivateKey(k) ==
  Present([i \in 1..9 |-> <<"INTEGER", k.integers[i]>>] \o
          << <<"SEQUENCE", EncodePrimes(k.otherPrimeInfos)>> >>)

M_DecodeRsaPrivateKey_NoCoefficient(elements) ==
  Decoded([i \in 1..8 |-> One("INTEGER")] \o <<Opt("INTEGER"), Opt("SEQUENCE")>>,
          elements,
          LAMBDA f : [integers |-> SubSeq(f, 1, 9), otherPrimeInfos |-> DecodePrimes(f[10])])

DecodeRsaPrivateKey(elements) ==
  Decoded([i \in 1..9 |-> One("INTEGER")] \o <<Opt("SEQUENCE")>>,
          elements,
          LAMBDA f : [integers |-> SubSeq(f, 1, 9), otherPrimeInfos |-> DecodePrimes(f[10])])

EncodeDigestInfo(d) == << <<"SEQUENCE", Opaque("Algorithm", d.algorithm)>>, <<"OCTETS", d.digest>> >>

DecodeDigestInfo(elements) ==
  Decoded(<<One("SEQUENCE"), One("OCTETS")>>, elements,
          LAMBDA f : [algorithm |-> Within("Algorithm", f[1]), digest |-> f[2]])

----------------------------------------------------------------------------
(* Key pairs. *)

RsaBits == 2048..8192

(* from_pkcs8_der refuses an algorithm it does not know, a private key     *)
(* that is not one of the algorithm, and small or huge RSA keys.  (The     *)
(* libraries it calls may refuse more, such as a document that claims      *)
(* another public key: loading is something that may happen.)              *)
KeyError(k) ==
  LET alg == KeyAlgorithmOf[k.privateKeyAlgorithm]
      info == PrivateKeyInfo[k.privateKey]
  IN  \/ alg = "unknown"
      \/ info.algorithm # alg
      \/ alg = "Rsa" /\ info.bits \notin RsaBits

M_PublicKeyData_Claimed(k) ==
  IF k.publicKey # None THEN k.publicKey ELSE PrivateKeyInfo[k.privateKey].publicKey

(* The public key is computed from the private one, whatever the document  *)
(* says it is.                                                             *)
PublicKeyData(k) == PrivateKeyInfo[k.privateKey].publicKey

(* The pair keeps the document.  private_key_data is the inner key for RSA, *)
(* the document for ECDSA, and none for Ed25519.                           *)
KeyPair(k, document) ==
  LET alg == KeyAlgorithmOf[k.privateKeyAlgorithm]
  IN  [algorithm      |-> alg,
       key            |-> k.privateKey,
       publicKeyData  |-> PublicKeyData(k),
       pkcs8          |-> document,
       privateKeyData |-> CASE alg = "Rsa"     -> k.privateKey
                            [] alg = "Ed25519" -> None
                            [] OTHER           -> document]

LoadKeyPair(k, document) == IF KeyError(k) THEN Malformed ELSE KeyPair(k, document)
==============================================================================

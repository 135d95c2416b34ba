----------------------------- MODULE MCDocuments -----------------------------
(***************************************************************************)
(* Documents for TLC: a few values of every kind of structure, chosen so   *)
(* that each optional field is there in one of them and absent in another. *)
(***************************************************************************)
EXTENDS Documents

MCText == {"ann", "bob", "us", "u*", "*"}
MCPrintableText == {"ann", "bob", "us"}
MCTwoOctets == {"us", "u*"}
MCAltNames == {"names"}
MCBerOnly == {"algBer", "attributeBer", "contentBer"}
MCNewText == {"bob", "us", "u*"}
MCNewAttributes == {"attribute1", "attribute3", "attributeBer"}

MCRank == [a \in {"attribute1", "attribute2", "attribute3", "attributeBer"} |->
             CASE a = "attribute1" -> 1 [] a = "attribute2" -> 2 [] OTHER -> 3]

MCKeyAlgorithmOf ==
  [a \in {"alg", "algEd", "algRsa", "algBer"} |->
     CASE a = "alg" -> "Ecdsa" [] a = "algEd" -> "Ed25519" [] a = "algRsa" -> "Rsa" [] OTHER -> "unknown"]

MCPrivateKeyInfo ==
  [k \in {"ec", "ed", "rsa", "rsaSmall"} |->
     CASE k = "ec"  -> [algorithm |-> "Ecdsa", bits |-> 256, publicKey |-> "ecPublic"]
       [] k = "ed"  -> [algorithm |-> "Ed25519", bits |-> 256, publicKey |-> "edPublic"]
       [] k = "rsa" -> [algorithm |-> "Rsa", bits |-> 2048, publicKey |-> "rsaPublic"]
       [] OTHER     -> [algorithm |-> "Rsa", bits |-> 2047, publicKey |-> "rsaPublic"]]

----------------------------------------------------------------------------
(* Values. *)

NoName == <<>>
Ann == << <<Attribute("CN", <<"Utf8String", "ann">>)>> >>
AnnBob == << <<Attribute("O", <<"PrintableString", "bob">>), Attribute("CN", <<"Ia5String", "ann">>)>>,
             <<Attribute("C", <<"PrintableString", "us">>)>> >>
Unreadable == << <<Attribute("CN", <<"BmpString", "ann">>)>> >>

Ext(id, critical, value) == [id |-> id, critical |-> critical, value |-> value]
Usage(critical) == Ext("keyUsage", critical, "usage")
San(critical) == Ext("subjectAltName", critical, "names")

Key == [algorithm |-> "alg", key |-> "key"]

Cert(version, subject, issuerId, subjectId, xs) ==
  [tbs |-> [version |-> version, serialNumber |-> 7, signature |-> "alg", issuer |-> Ann,
            validity |-> [notBefore |-> 1, notAfter |-> 1], subject |-> subject,
            subjectPublicKeyInfo |-> Key, issuerUniqueId |-> issuerId, subjectUniqueId |-> subjectId,
            extensions |-> xs],
   signatureAlgorithm |-> "alg", signature |-> "signature", rawData |-> None]

Certs ==
  {Cert(None, AnnBob, None, None, None),
   Cert(V1, Unreadable, None, None, None),
   Cert(1, Ann, "id1", "id2", None),
   Cert(V3, NoName, None, "id2", <<San(TRUE)>>),
   Cert(V3, Ann, None, None, <<Usage(FALSE), San(None)>>),
   [Cert(V3, Ann, "id1", None, <<Usage(TRUE)>>) EXCEPT !.signatureAlgorithm = "algBer"]}

WrongCerts ==
  {Cert(None, Ann, None, None, <<Usage(TRUE)>>),
   Cert(V1, Ann, None, "id2", None),
   Cert(V3, Ann, None, None, <<>>),
   Cert(V3, Ann, None, None, <<Usage(TRUE), Usage(FALSE)>>),
   Cert(V3, NoName, None, None, <<Usage(TRUE)>>),
   Cert(V3, NoName, None, None, <<San(FALSE)>>),
   [Cert(V3, Ann, None, None, None) EXCEPT !.tbs.issuer = NoName],
   [Cert(V3, Ann, None, None, None) EXCEPT !.tbs.validity.notBefore = 2]}

Request(version, attributes) ==
  [info |-> [version |-> version, subject |-> Ann, subjectPublicKeyInfo |-> Key, attributes |-> attributes],
   signatureAlgorithm |-> "alg", signature |-> "signature"]

Signer(version, sid, signed, unsigned) ==
  [version |-> version, sid |-> sid, digestAlgorithm |-> "alg", signedAttributes |-> signed,
   signatureAlgorithm |-> "alg", signature |-> "signature", unsignedAttributes |-> unsigned,
   signedAttributesData |-> None]

ByIssuer == IssuerAndSerialNumber(Ann, 7)
ByKey == SubjectKeyIdentifier("ski")

Message(version, algorithms, content, certificates, signers) ==
  [version |-> version, digestAlgorithms |-> algorithms,
   contentInfo |-> [contentType |-> "data", content |-> content],
   certificates |-> certificates, crls |-> None, signerInfos |-> signers]

Imprint == [algorithm |-> "alg", digest |-> "digest"]

Req(version, policy, nonce, certReq, xs) ==
  [version |-> version, messageImprint |-> Imprint, reqPolicy |-> policy, nonce |-> nonce,
   certReq |-> certReq, extensions |-> xs]

Resp(status, text, failure, token) ==
  [status |-> [status |-> status, statusString |-> text, failInfo |-> failure], timeStampToken |-> token]

Tst(version, accuracy, ordering, nonce, tsa, xs) ==
  [version |-> version, policy |-> "policy", messageImprint |-> Imprint, serialNumber |-> 7,
   genTime |-> 5, accuracy |-> accuracy, ordering |-> ordering, nonce |-> nonce, tsa |-> tsa,
   extensions |-> xs]

Accuracy(s, ms, us) == [seconds |-> s, millis |-> ms, micros |-> us]
Choice(choice, name) == [choice |-> choice, name |-> name]
Party(assigner) == [nameAssigner |-> assigner, partyName |-> <<"Utf8String", "ann">>]

PrivateKey(version, alg, key, attributes, public) ==
  [version |-> version, privateKeyAlgorithm |-> alg, privateKey |-> key, attributes |-> attributes,
   publicKey |-> public]

EcKey(parameters, public) ==
  [version |-> 1, privateKey |-> "ec", parameters |-> parameters, publicKey |-> public]

Prime(n) == [ri |-> n, di |-> n + 1, ti |-> n + 2]
RsaKey(primes) == [integers |-> <<0, 11, 12, 13, 14, 15, 16, 17, 18>>, otherPrimeInfos |-> primes]

----------------------------------------------------------------------------

MCWritten == [
  certificate   |-> Certs,
  request       |-> {Request(0, <<>>), Request(0, <<"attribute2", "attribute1">>)},
  certList      |-> {},
  contentInfo   |-> {[contentType |-> "data", content |-> "content"],
                     [contentType |-> "data", content |-> "contentBer"]},
  signerInfo    |-> {Signer(1, ByIssuer, None, None),
                     Signer(3, ByKey, <<"attribute1", "attribute2">>, None),
                     Signer(1, ByIssuer, <<"attribute2">>, <<"attributeBer", "attribute1">>),
                     Signer(3, ByKey, <<>>, <<>>)},
  signedData    |-> {Message(1, <<>>, None, None, <<>>),
                     Message(3, <<"alg">>, "content", <<>>, <<"signer1">>),
                     Message(1, <<"alg", "algEd">>, "content",
                             <<CertificateChoice("certificate", "c1"), CertificateChoice("certificate", "c2")>>,
                             <<"signer1", "signer2">>)},
  timeStampReq  |-> {Req(1, None, None, None, None), Req(1, "policy", 9, TRUE, <<Usage(FALSE)>>),
                     Req(1, None, 1, FALSE, None)},
  timeStampResp |-> {Resp(0, None, None, "token"), Resp(1, <<"text", "more">>, None, "token")}
                    \cup {Resp(2, None, n, None) : n \in KnownFailure} \cup {Resp(5, <<>>, None, None)},
  tstInfo       |-> {Tst(1, None, None, None, None, None),
                     Tst(1, Accuracy(1, 999, 1), TRUE, 9, Choice("rfc822Name", "mail"), <<Usage(TRUE)>>),
                     Tst(1, Accuracy(None, None, None), FALSE, None, Choice("otherName", [typeId |-> "oid",
                       value |-> "any"]), None),
                     Tst(1, Accuracy(0, None, 5), None, 1, Choice("directoryName", AnnBob), None),
                     Tst(1, Accuracy(None, 1, None), None, None, Choice("ediPartyName", Party(None)), <<San(None)>>),
                     Tst(1, None, TRUE, None, Choice("ediPartyName", Party(<<"PrintableString", "bob">>)), None),
                     Tst(1, None, None, 3, Choice("registeredId", "oid"), None)},
  privateKey    |-> {PrivateKey(0, "alg", "ec", None, None),
                     PrivateKey(1, "algEd", "ed", None, "edPublic"),
                     PrivateKey(1, "algEd", "ed", <<"attribute1">>, "ecPublic"),
                     PrivateKey(1, "algRsa", "rsa", <<>>, "rsaPublic"),
                     PrivateKey(0, "algRsa", "rsaSmall", None, None),
                     PrivateKey(0, "algRsa", "ed", None, None),
                     PrivateKey(0, "algBer", "ec", None, None)},
  ecPrivateKey  |-> {EcKey(None, None), EcKey(NamedCurve("p256"), "ecPublic"), EcKey(ImplicitCurve, None)},
  rsaPrivateKey |-> {RsaKey(None), RsaKey(<<Prime(21), Prime(31)>>)},
  digestInfo    |-> {Imprint, [Imprint EXCEPT !.algorithm = "algBer"]}]

MCRefused == [k \in DOMAIN MCWritten |->
  CASE k = "certificate"   -> WrongCerts
    [] k = "request"       -> {Request(1, <<>>)}
    [] k = "signerInfo"    -> {Signer(3, ByKey, <<"attribute2", "attribute1">>, None),
                               Signer(6, ByKey, None, None)}
    [] k = "signedData"    -> {Message(6, <<"alg">>, None, None, <<>>)}
    [] k = "timeStampReq"  -> {Req(2, None, None, None, None), Req(1, None, 9, None, <<>>)}
    [] k = "timeStampResp" -> {Resp(0, None, None, None), Resp(2, None, None, "token"), Resp(6, None, None, None)}
    [] k = "tstInfo"       -> {Tst(2, None, None, None, None, None),
                               Tst(1, Accuracy(None, 1000, None), None, None, None, None),
                               Tst(1, Accuracy(1, None, 0), None, None, None, None)}
    [] k = "privateKey"    -> {PrivateKey(2, "alg", "ec", None, None)}
    [] OTHER               -> {}]

CrlEntry(serial, xs) ==
  <<"SEQUENCE", Present(<< <<"INTEGER", serial>>, <<"TIME", 3>>, <<"SEQUENCE", EncodeExtensions(xs)>> >>)>>

Crl(version, next, revoked, xs) ==
  Present(<< <<"INTEGER", version>>, <<"SEQUENCE", Opaque("Algorithm", "alg")>>,
             <<"SEQUENCE", EncodeName(Ann)>>, <<"TIME", 4>>, <<"TIME", next>>, <<"SEQUENCE", revoked>>,
             <<"0", Explicit("SEQUENCE", EncodeExtensions(xs))>> >>)

(* A message with revocation lists, or with a certificate of another form. *)
WithCrls ==
  LET e == EncodeSignedData(Message(1, <<"alg">>, None, <<>>, <<>>))
      body == e[2][2][1][2]
  IN  {[e EXCEPT ![2] = <<"0", << <<"SEQUENCE", InsertAt(body, 5, <<"1", <<>> >>)>> >> >>],
       [e EXCEPT ![2] = <<"0", << <<"SEQUENCE",
          ReplaceAt(body, 4, <<"0", << <<"1", Opaque("Certificate", "attributeCertificate")>> >> >>)>> >> >>]}

MCForeign == [k \in DOMAIN MCWritten |->
  CASE k = "certList"      -> {Crl(None, None, None, None),
                               Crl(1, 5, <<CrlEntry(7, None), CrlEntry(8, <<Usage(TRUE)>>)>>, <<Usage(None)>>),
                               Crl(1, None, <<CrlEntry(7, None)>>, None)}
    [] k = "signedData"    -> WithCrls
    [] k = "ecPrivateKey"  -> {EncodeEcPrivateKey(EcKey(SpecifiedCurve, None))}
    [] k = "timeStampResp" -> {<< <<"SEQUENCE", << <<"INTEGER", 2>>, <<"BITS", bits>> >> >> >> :
                                 bits \in {[octets |-> 1, set |-> {<<0, 0>>, <<0, 2>>}, unused |-> 0],
                                           [octets |-> 2, set |-> {<<0, 2>>}, unused |-> 0],
                                           [octets |-> 1, set |-> {}, unused |-> 0]}}
    [] OTHER               -> {}]

MCSpelledOut == [k \in DOMAIN MCWritten |->
  CASE k = "certificate" -> {<<"0", << <<"INTEGER", V1>> >> >>}
    [] k \in {"timeStampReq", "tstInfo"} -> {<<"BOOLEAN", FALSE>>}
    [] OTHER -> {}]
==============================================================================

------------------------ MODULE MCSignedDataExchange ------------------------
(***************************************************************************)
(* SignedDataExchange with an ECDSA signer, a foreign signer with an RSA   *)
(* key and an authority.                                                   *)
(***************************************************************************)
EXTENDS SignedDataExchange, TLC

CONSTANTS kA, kForeign, kTsa, certA, certForeign, certTsa

MCKey == {kA, kForeign, kTsa}
MCKeyAlg == (kA :> "EcdsaSecp256r1") @@ (kForeign :> "Rsa") @@ (kTsa :> "EcdsaSecp384r1")

MCCert == {certA, certForeign, certTsa}
MCCertInfo ==
  LET info(key, serial, purpose) ==
        [key |-> key, issuerAndSerial |-> serial, ski |-> None, purpose |-> purpose,
         notBefore |-> 0, notAfter |-> 1, der |-> serial]
  IN  (certA :> info(kA, 1, "any"))
        @@ (certForeign :> info(kForeign, 2, "any"))
        @@ (certTsa :> info(kTsa, 3, "timeStampingOnly"))

MCAttributeRank ==
  [typ \in AttributeType |->
     CASE typ = "contentType" -> 2 [] typ = "signingTime" -> 3
       [] typ = "messageDigest" -> 4 [] typ = "signingCertificate" -> 5
       [] typ = "signingCertificateV2" -> 6 [] OTHER -> 1]

NoAttributes == {}

(* Contents are only compared, and no property tells them apart. *)
ContentSymmetry == Permutations(Data)
============================================================================

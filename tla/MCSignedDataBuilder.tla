------------------------ MODULE MCSignedDataBuilder ------------------------
(***************************************************************************)
(* SignedDataBuilder with three signing keys, one ECDSA, one Ed25519 and   *)
(* one whose algorithm the crate does not know, and a time-stamping        *)
(* authority.  certTwin has the issuer and serial number of certA, sorts   *)
(* before it and holds the other key.  Each run chooses which setters are  *)
(* called with what.                                                       *)
(***************************************************************************)
EXTENDS SignedDataBuilder, TLC

CONSTANTS kA, kB, kUnknown, kTsa, certA, certB, certTwin, certTsa, idA, extra

MCKey == {kA, kB, kUnknown, kTsa}
MCKeyAlg ==
  (kA :> "EcdsaSecp256r1") @@ (kB :> "Ed25519") @@ (kUnknown :> "Unknown")
    @@ (kTsa :> "EcdsaSecp384r1")

MCCert == {certA, certB, certTwin, certTsa}
MCCertInfo ==
  LET info(key, serial, ski, purpose, der) ==
        [key |-> key, issuerAndSerial |-> serial, ski |-> ski, purpose |-> purpose,
         notBefore |-> 0, notAfter |-> 1, der |-> der]
  IN  (certA :> info(kA, 1, idA, "any", 2))
        @@ (certB :> info(kB, 2, None, "any", 3))
        @@ (certTwin :> info(kB, 1, None, "any", 1))
        @@ (certTsa :> info(kTsa, 4, None, "timeStampingOnly", 4))

MCAttributeRank ==
  [typ \in AttributeType |->
     CASE typ = "contentType" -> 2 [] typ = "signingTime" -> 3
       [] typ = "messageDigest" -> 4 [] typ = "signingCertificate" -> 5
       [] typ = "signingCertificateV2" -> 6 [] OTHER -> 1]

NoAttributes == {}
(* An attribute of the caller's own, one without values, and a reserved one. *)
MCExtraAttribute ==
  {Attribute(extra, {1}), Attribute(extra, {}), Attribute("signingTime", {UtcTime(2024)})}
============================================================================

------------------------ MODULE MCTimeStampProtocol ------------------------
(***************************************************************************)
(* TimeStampProtocol with two messages, two policies and three             *)
(* certificates: a good authority, one whose certificate has expired when  *)
(* the clock starts, and one whose certificate is not for time stamping.   *)
(***************************************************************************)
EXTENDS TimeStampProtocol, TLC

CONSTANTS good, expired, general, kGood, kExpired, kGeneral

MCKeyAlg == [k \in Key |-> IF k = kGeneral THEN "Ed25519" ELSE "EcdsaSecp256r1"]

MCCertInfo ==
  LET info(k, purpose, last) ==
        [key |-> k, issuerAndSerial |-> k, ski |-> None, purpose |-> purpose,
         notBefore |-> 0, notAfter |-> last]
  IN  (good :> info(kGood, "timeStampingOnly", 1))
        @@ (expired :> info(kExpired, "timeStampingOnly", -1))
        @@ (general :> info(kGeneral, "any", 5))

MCAttributeRank ==
  [typ \in AttributeType |->
     CASE typ = "contentType" -> 1 [] typ = "messageDigest" -> 2
       [] typ = "signingTime" -> 3 [] typ = "signingCertificate" -> 4
       [] typ = "signingCertificateV2" -> 5 [] OTHER -> 6]
============================================================================

-------------------------- MODULE TimeStampProtocol --------------------------
(***************************************************************************)
(* The Time-Stamp Protocol client (time_stamp_protocol.rs) against         *)
(* time-stamping authorities and the network between them.                 *)
(*                                                                         *)
(* A call of time_stamp_message_http or time_stamp_request_http is one     *)
(* exchange: the client sends a request and blocks until a reply arrives,  *)
(* the transport fails or HTTP_TIMEOUT expires.  An authority may answer a *)
(* request at any later time, and the network may hand the client a reply  *)
(* to an older request, the same reply twice, or a damaged one.            *)
(***************************************************************************)
EXTENDS SignedData, FiniteSets, Errors

CONSTANTS
  TsaCert,          (* certificates the authorities sign with              *)
  Policy,           (* time-stamping policies                              *)
  Fault,            (* what may be wrong with a reply, a subset of AnyFault *)
  MaxResponseSize,  (* MAX_RESPONSE_SIZE                                   *)
  MaxRequests,      (* bound: requests sent                                *)
  MaxReplies,       (* bound: replies sent                                 *)
  MaxTime           (* bound: the clock                                    *)

AnyFault ==
  {"none", "rejection", "noToken", "notTstInfo", "noContent", "otherVersion",
   "otherImprint", "mislabelledImprint", "noNonce", "otherPolicy", "flippedCertificates",
   "noEss", "bothEss", "essOfOther", "twoSigners", "altered", "badHttp",
   "undecodable", "notSignedData", "declaredTooLarge", "tooLarge", "padded"}

ASSUME TspAssumption ==
  /\ TsaCert \subseteq Cert
  /\ Fault \subseteq AnyFault
  /\ MaxResponseSize \in Nat
  /\ MaxRequests \in Nat
  /\ MaxReplies \in Nat
  /\ MaxTime \in Nat
  /\ None \notin Policy

VARIABLES
  client,    (* the client: its program counter, request and outcome       *)
  requests,  (* every request sent                                         *)
  replies,   (* every reply an authority has sent                          *)
  stamps,    (* ghost: what the authorities have signed                    *)
  clock      (* the time                                                   *)

tspVars == <<client, requests, replies, stamps, clock>>

----------------------------------------------------------------------------
(* Requests. *)

(* validate_message_imprint: a digest algorithm the crate knows, and a     *)
(* digest of its length; no two of the algorithms have the same length.    *)
ImprintOk(x) ==
  /\ DigestIdentifierOk(x.hashAlgorithm)
  /\ x.imprint.alg = x.hashAlgorithm.digest

(* The request of time_stamp_message_http. *)
MessageRequest(message, digest, nonce) ==
  [hashAlgorithm |-> DigestIdentifier(digest),
   imprint       |-> Digest(digest, message),
   nonce         |-> nonce,
   certReq       |-> TRUE,
   policy        |-> None]

(* A nonce drawn from the system's generator has never been drawn before.  *)
FreshNonce == 1 + Cardinality(requests)

----------------------------------------------------------------------------
(* How the client checks a reply.                                          *)

M_BytesRead_ToLimit(reply) ==
  IF reply.length > MaxResponseSize THEN MaxResponseSize ELSE reply.length

(* The length of the body after `take(MAX_RESPONSE_SIZE + 1)`. *)
BytesRead(reply) ==
  IF reply.length > MaxResponseSize + 1 THEN MaxResponseSize + 1 ELSE reply.length

IsSuccess(reply) == reply.status \in {"Granted", "GrantedWithMods"}

(* TimeStampResp::take_from: a token comes with success, and only then.    *)
(* The response is the first value of the body; Constructed::decode of     *)
(* bcder does not look at what follows it, so it may be all that is read.  *)
Decodes(reply) ==
  /\ reply.decodes
  /\ BytesRead(reply) >= reply.size
  /\ IsSuccess(reply) = (reply.token # None)

TransportError(reply) ==
  FirstError(<<
    Check(~reply.httpOk, "Http"),
    Check(reply.declared > MaxResponseSize, "ResponseTooLarge"),
    Check(BytesRead(reply) > MaxResponseSize, "ResponseTooLarge"),
    Check(~Decodes(reply), "Asn1Decode") >>)

(* The TSTInfo against the request; TstInfo::take_from refuses any version *)
(* but 1 before the version check of the client can.                       *)
M_StampError_NoNonce(request, tst) ==
  FirstError(<<
    Check(tst.version # 1, "Asn1Decode"),
    Check(~ImprintOk(tst), "InvalidMessageImprint"),
    Check(request.imprint # tst.imprint, "MessageImprintMismatch"),
    Check(tst.nonce # None /\ tst.nonce # request.nonce, "NonceMismatch"),
    Check(request.policy # None /\ request.policy # tst.policy, "PolicyMismatch") >>)

M_StampError_NoImprint(request, tst) ==
  FirstError(<<
    Check(tst.version # 1, "Asn1Decode"),
    Check(~ImprintOk(tst), "InvalidMessageImprint"),
    Check(tst.nonce # request.nonce, "NonceMismatch"),
    Check(request.policy # None /\ request.policy # tst.policy, "PolicyMismatch") >>)

StampError(request, tst) ==
  FirstError(<<
    Check(tst.version # 1, "Asn1Decode"),
    Check(~ImprintOk(tst), "InvalidMessageImprint"),
    Check(request.imprint # tst.imprint, "MessageImprintMismatch"),
    Check(tst.nonce # request.nonce, "NonceMismatch"),
    Check(request.policy # None /\ request.policy # tst.policy, "PolicyMismatch") >>)

(* The token's own signature and certificate, checked when certificates    *)
(* were asked for.                                                         *)
M_TokenGenuine_DigestOnly(token) ==
  /\ Parses(token)
  /\ Len(token.signerInfos) = 1
  /\ VerifySignature(token.signerInfos[1], token)
  /\ VerifyTimeStampCertificate(token.signerInfos[1], token)

TokenGenuine(token) ==
  /\ Parses(token)
  /\ Len(token.signerInfos) = 1
  /\ VerifyWithSignedData(token.signerInfos[1], token)
  /\ VerifyTimeStampCertificate(token.signerInfos[1], token)

TokenError(request, token) ==
  IF \/ request.certReq # (token.certificates # None)
     \/ token.contentType # IdTstInfo
     \/ token.content = None
    THEN "BadResponse"
  ELSE IF StampError(request, token.content) # "Ok"
    THEN StampError(request, token.content)
  ELSE IF request.certReq /\ ~TokenGenuine(token)
    THEN "BadResponse"
  ELSE "Ok"

(* time_stamp_request_http: an unsuccessful response is returned unchecked, *)
(* as Ok.  TimeStampResponse::signed_data decodes a token only if it is    *)
(* labelled as SignedData.                                                 *)
ResponseError(request, reply) ==
  IF TransportError(reply) # "Ok" THEN TransportError(reply)
  ELSE IF ~IsSuccess(reply) THEN "Ok"
  ELSE IF ~reply.isSignedData THEN "Asn1Decode"
  ELSE TokenError(request, reply.token)

----------------------------------------------------------------------------
(* What an authority sends (external).  A reply is at most one fault away  *)
(* from RFC 3161.                                                          *)

Stamp(request, fault, time) ==
  [version       |-> IF fault = "otherVersion" THEN 2 ELSE 1,
   hashAlgorithm |-> IF fault = "mislabelledImprint" THEN DigestIdentifier("Sha1")
                     ELSE request.hashAlgorithm,
   imprint       |-> IF fault = "otherImprint" THEN Digest(request.imprint.alg, Empty)
                     ELSE request.imprint,
   policy        |-> IF fault # "otherPolicy" /\ request.policy # None THEN request.policy
                     ELSE CHOOSE p \in Policy : p # request.policy,
   nonce         |-> IF fault = "noNonce" THEN None ELSE request.nonce,
   genTime       |-> time]

(* The ESS attributes an authority writes. *)
EssAttributes(c, fault) ==
  LET v1 == Attribute("signingCertificate", {Digest("Sha1", c)})
      v2(d) == Attribute("signingCertificateV2", {Digest("Sha256", d)})
  IN  CASE fault = "noEss"      -> <<>>
        [] fault = "bothEss"    -> <<v1, v2(c)>>
        [] fault = "essOfOther" -> <<v2(CHOOSE d \in Cert : d # c)>>
        [] OTHER                -> <<v2(c)>>

(* One signer of a token. *)
TokenSigner(c, typ, tst, ess) ==
  LET key == CertInfo[c].key
      alg == SigningAlgorithm(KeyAlg[key])
      digest == RequiredDigest(alg)
      attributes == <<Attribute("contentType", {typ}),
                      Attribute("messageDigest", {Digest(digest, tst)})>> \o ess
      sorted == CHOOSE s \in SortedAttributes(attributes) : TRUE
  IN  [version            |-> 1,
       sid                |-> IssuerAndSerial(c),
       digestAlgorithm    |-> DigestIdentifier(digest),
       signedAttributes   |-> sorted,
       signatureAlgorithm |-> AlgorithmIdentifier(alg),
       signature          |-> Signature(key, alg, [covers |-> "attributes", value |-> sorted]),
       unsignedAttributes |-> None]

(* The token: SignedData over the stamp. *)
Token(request, c, fault, time) ==
  LET tst == Stamp(request, fault, time)
      typ == IF fault = "notTstInfo" THEN IdData ELSE IdTstInfo
      signer == TokenSigner(c, typ, tst, EssAttributes(c, fault))
  IN  [version          |-> 3,
       digestAlgorithms |-> <<signer.digestAlgorithm>>,
       contentType      |-> typ,
       content          |-> CASE fault = "noContent" -> None
                              [] fault = "altered" -> [tst EXCEPT !.genTime = @ + 1]
                              [] OTHER -> tst,
       certificates     |-> IF request.certReq # (fault = "flippedCertificates")
                              THEN <<[form |-> "Certificate", cert |-> c]>> ELSE None,
       signerInfos      |-> IF fault = "twoSigners" THEN <<signer, signer>> ELSE <<signer>>]

(* A body of some length, that begins with a response of some size; one    *)
(* without a Content-Length header declares 0.                             *)
Reply(request, c, fault, time) ==
  [httpOk   |-> fault # "badHttp",
   declared |-> IF fault = "declaredTooLarge" THEN MaxResponseSize + 1 ELSE 0,
   length   |-> MaxResponseSize + (IF fault = "tooLarge" THEN 2
                                   ELSE IF fault \in {"declaredTooLarge", "padded"} THEN 1 ELSE 0),
   size     |-> IF fault = "tooLarge" THEN MaxResponseSize + 2 ELSE MaxResponseSize,
   decodes  |-> fault # "undecodable",
   isSignedData |-> fault # "notSignedData",
   status   |-> IF fault = "rejection" THEN "Rejection" ELSE "Granted",
   token    |-> IF fault \in {"rejection", "noToken"} THEN None
                ELSE Token(request, c, fault, time)]

----------------------------------------------------------------------------
(* Actions. *)

NoRequest == [pc |-> "idle", request |-> None, sentAt |-> 0, reply |-> None, error |-> "Ok"]

TspInit ==
  /\ client = NoRequest
  /\ requests = {}
  /\ replies = {}
  /\ stamps = {}
  /\ clock = 0

(* The client validates the imprint of its own request before it sends it. *)
Send(request) ==
  IF ImprintOk(request)
    THEN /\ client' = [NoRequest EXCEPT !.pc = "sent", !.request = request, !.sentAt = clock]
         /\ requests' = requests \cup {request}
         /\ UNCHANGED <<replies, stamps, clock>>
    ELSE /\ client' = [NoRequest EXCEPT !.pc = "failed", !.request = request,
                                        !.error = "InvalidMessageImprint"]
         /\ UNCHANGED <<requests, replies, stamps, clock>>

MaySend == client.pc # "sent" /\ Cardinality(requests) < MaxRequests

(* time_stamp_message_http. *)
SendMessage(message, digest) ==
  /\ MaySend
  /\ Send(MessageRequest(message, digest, FreshNonce))

(* SysRng fails: nothing is sent. *)
RandomFails ==
  /\ MaySend
  /\ client' = [NoRequest EXCEPT !.pc = "failed", !.error = "Random"]
  /\ UNCHANGED <<requests, replies, stamps, clock>>

(* time_stamp_request_http with a request of the caller's own. *)
SendRequest(message, digest, nonce, certReq, policy) ==
  /\ MaySend
  /\ Send([hashAlgorithm |-> digest, imprint |-> Digest("Sha256", message),
           nonce |-> nonce, certReq |-> certReq, policy |-> policy])

(* An authority answers a request, perhaps one the client gave up on. *)
Answer(request, c, fault) ==
  /\ Cardinality(replies) < MaxReplies
  /\ replies' = replies \cup {Reply(request, c, fault, clock)}
  /\ stamps' = stamps \cup
       {[cert |-> c, request |-> request, tst |-> Stamp(request, fault, clock)]}
  /\ UNCHANGED <<client, requests, clock>>

M_Deliver_KeepsReply(reply) ==
  LET error == ResponseError(client.request, reply)
  IN  /\ client.pc = "sent"
      /\ client' = [client EXCEPT !.pc = IF error = "Ok" THEN "ok" ELSE "failed",
                                  !.reply = reply,
                                  !.error = error]
      /\ UNCHANGED <<requests, replies, stamps, clock>>

(* The network hands the client a reply, not necessarily to this request. *)
Deliver(reply) ==
  LET error == ResponseError(client.request, reply)
  IN  /\ client.pc = "sent"
      /\ client' = [client EXCEPT !.pc = IF error = "Ok" THEN "ok" ELSE "failed",
                                  !.reply = IF error = "Ok" THEN reply ELSE None,
                                  !.error = error]
      /\ UNCHANGED <<requests, replies, stamps, clock>>

M_TransportFails_ConnectOnly ==
  /\ client.pc = "sent"
  /\ client.request \notin {s.request : s \in stamps}
  /\ client' = [client EXCEPT !.pc = "failed", !.error = "Reqwest"]
  /\ UNCHANGED <<requests, replies, stamps, clock>>

(* The connection fails, or HTTP_TIMEOUT expires. *)
TransportFails ==
  /\ client.pc = "sent"
  /\ client' = [client EXCEPT !.pc = "failed", !.error = "Reqwest"]
  /\ UNCHANGED <<requests, replies, stamps, clock>>

Tick ==
  /\ clock < MaxTime
  /\ clock' = clock + 1
  /\ UNCHANGED <<client, requests, replies, stamps>>

(* What happens around the client, whoever calls it. *)
NetworkNext ==
  \/ \E request \in requests, c \in TsaCert, fault \in Fault : Answer(request, c, fault)
  \/ \E reply \in replies : Deliver(reply)
  \/ TransportFails
  \/ Tick

(* The client on its own, with any caller. *)
TspNext ==
  \/ \E message \in Content \ {Empty} : SendMessage(message, "Sha256")
  \/ RandomFails
  \/ \E message \in Content \ {Empty}, nonce \in {None, FreshNonce}, certReq \in BOOLEAN,
       policy \in Policy \cup {None}, parameters \in {"absent", "other"} :
       SendRequest(message, [digest |-> "Sha256", parameters |-> parameters],
                   nonce, certReq, policy)
  \/ NetworkNext

(* reqwest ends every exchange after HTTP_TIMEOUT, with a reply or without. *)
TspFairness == WF_tspVars(TransportFails)

TspSpec == TspInit /\ [][TspNext]_tspVars /\ TspFairness

----------------------------------------------------------------------------
(* Properties. *)

(* The variables stay within their types: a client that succeeded has a    *)
(* reply, one that has not has none, and nothing is dated in the future.   *)
TspTypeOK ==
  /\ client.pc \in {"idle", "sent", "ok", "failed"}
  /\ client.request \in requests \cup {None} \/ client.error = "InvalidMessageImprint"
  /\ client.reply \in IF client.pc = "ok" THEN replies ELSE {None}
  /\ (client.pc = "failed") = (client.error # "Ok")
  /\ clock \in 0..MaxTime
  /\ client.sentAt \in 0..clock
  /\ \A s \in stamps : s.request \in requests /\ s.tst.genTime \in 0..clock

(* The client reports a granted time stamp. *)
Stamped == client.pc = "ok" /\ IsSuccess(client.reply)

(* A stamp accepted with certReq was made by an authority whose            *)
(* certificate is for time stamping only and was valid at the stamped      *)
(* time; when the request had a nonce, it was made for this very request   *)
(* and not for an earlier one over the same bytes.                         *)
StampWasMadeForRequest ==
  Stamped /\ client.request.certReq =>
    \E s \in stamps :
      /\ s.tst = client.reply.token.content
      /\ CertInfo[s.cert].purpose = "timeStampingOnly"
      /\ s.tst.genTime \in CertInfo[s.cert].notBefore..CertInfo[s.cert].notAfter
      /\ s.tst.imprint = client.request.imprint
      /\ client.request.nonce # None => s.request = client.request

(* A stamp accepted with a nonce and certReq, as time_stamp_message_http   *)
(* asks for it, names a time within the exchange: no late reply, cached    *)
(* reply or altered reply can move it.                                     *)
StampIsFresh ==
  Stamped /\ client.request.certReq /\ client.request.nonce # None =>
    client.reply.token.content.genTime \in client.sentAt..clock

(* What the client reports was read to its end: a body beyond the limit is *)
(* refused though its length was not declared, no more than one byte past  *)
(* the limit is read of it, and what is read begins with a whole response. *)
ReportedBodyIsWhole == client.pc = "ok" => client.reply.length <= MaxResponseSize

(* What the client accepts with certReq, verify_time_stamp_token accepts   *)
(* once the token is attached to the signature that was stamped: the two   *)
(* lists of checks, written separately, agree.                             *)
AcceptedStampVerifies ==
  Stamped /\ client.request.certReq =>
    VerifyTimeStampToken([signature |-> client.request.imprint.of,
                          unsignedAttributes |-> None], client.reply.token)

(* Every exchange ends, whatever the authority and the network do. *)
ExchangeEnds == client.pc = "sent" ~> client.pc # "sent"
=============================================================================

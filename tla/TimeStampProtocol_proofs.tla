---------------------- MODULE TimeStampProtocol_proofs ----------------------
(***************************************************************************)
(* What the time-stamp client accepts was made for its request, within the *)
(* exchange, and verifies once it is attached; for any authorities,        *)
(* requests, faults and bounds.                                            *)
(***************************************************************************)
EXTENDS TimeStampProtocol, Errors_proofs, FiniteSetTheorems, TLAPS

----------------------------------------------------------------------------
(* The checks of a reply. *)

(* A reply that is accepted came within the limit, and decodes.            *)
LEMMA BodyPassed ==
  ASSUME NEW request, NEW reply, ResponseError(request, reply) = "Ok"
  PROVE  ~(BytesRead(reply) > MaxResponseSize) /\ Decodes(reply)
<1> DEFINE checks == <<
      Check(~reply.httpOk, "Http"),
      Check(reply.declared > MaxResponseSize, "ResponseTooLarge"),
      Check(BytesRead(reply) > MaxResponseSize, "ResponseTooLarge"),
      Check(~Decodes(reply), "Asn1Decode") >>
<1>1. TransportError(reply) = "Ok"
  BY DEF ResponseError
<1>2. FirstError(checks) = "Ok"
  BY <1>1 DEF TransportError
<1>3. DOMAIN checks = 1..4 /\ \A i \in 1..4 : checks[i].error # "Ok"
  BY DEF Check
<1>4. ~checks[3].fails /\ ~checks[4].fails
  <2> HIDE DEF checks
  <2>1. \A i \in 1..4 : ~checks[i].fails
    BY <1>2, <1>3, NoCheckFails
  <2> QED
    BY <2>1
<1> QED
  BY <1>4 DEF Check

(* One that is accepted with success has a token that passed.              *)
LEMMA TransportPassed ==
  ASSUME NEW request, NEW reply, ResponseError(request, reply) = "Ok", IsSuccess(reply)
  PROVE  reply.token # None /\ TokenError(request, reply.token) = "Ok"
<1>1. TokenError(request, reply.token) = "Ok"
  BY DEF ResponseError
<1> QED
  BY <1>1, BodyPassed DEF Decodes

(* A time stamp that passed answers the request.                           *)
LEMMA StampPassed ==
  ASSUME NEW request, NEW tst, StampError(request, tst) = "Ok"
  PROVE  /\ tst.version = 1
         /\ ImprintOk(tst)
         /\ request.imprint = tst.imprint
         /\ tst.nonce = request.nonce
<1> DEFINE checks == <<
      Check(tst.version # 1, "Asn1Decode"),
      Check(~ImprintOk(tst), "InvalidMessageImprint"),
      Check(request.imprint # tst.imprint, "MessageImprintMismatch"),
      Check(tst.nonce # request.nonce, "NonceMismatch"),
      Check(request.policy # None /\ request.policy # tst.policy, "PolicyMismatch") >>
<1>1. FirstError(checks) = "Ok"
  BY DEF StampError
<1>2. DOMAIN checks = 1..5 /\ \A i \in 1..5 : checks[i].error # "Ok"
  BY DEF Check
<1>3. \A i \in 1..5 : ~checks[i].fails
  <2> HIDE DEF checks
  <2> QED
    BY <1>1, <1>2, NoCheckFails
<1>4. ~checks[1].fails /\ ~checks[2].fails /\ ~checks[3].fails /\ ~checks[4].fails
  <2> HIDE DEF checks
  <2> QED
    BY <1>3
<1> QED
  BY <1>4 DEF Check

(* So does a token, whose signature was checked too.                       *)
LEMMA TokenPassed ==
  ASSUME NEW request, NEW token, TokenError(request, token) = "Ok", request.certReq = TRUE
  PROVE  /\ token.certificates # None
         /\ token.contentType = IdTstInfo
         /\ token.content # None
         /\ StampError(request, token.content) = "Ok"
         /\ TokenGenuine(token)
BY DEF TokenError

----------------------------------------------------------------------------
(* Tokens. *)

(* Three ranks can be put in order.                                        *)
LEMMA ThreeInOrder ==
  ASSUME NEW r \in [1..3 -> Int]
  PROVE  \E p \in Bijection(1..3, 1..3) : \A i, j \in 1..3 : i < j => r[p[i]] <= r[p[j]]
<1> DEFINE To(a, b, c) == [i \in 1..3 |-> IF i = 1 THEN a ELSE IF i = 2 THEN b ELSE c]
<1>1. /\ To(1, 2, 3) \in Bijection(1..3, 1..3)
      /\ To(1, 3, 2) \in Bijection(1..3, 1..3)
      /\ To(2, 1, 3) \in Bijection(1..3, 1..3)
      /\ To(2, 3, 1) \in Bijection(1..3, 1..3)
      /\ To(3, 1, 2) \in Bijection(1..3, 1..3)
      /\ To(3, 2, 1) \in Bijection(1..3, 1..3)
  BY DEF Bijection, Injection, Surjection, IsInjective
<1>2. CASE r[1] <= r[2] /\ r[2] <= r[3]
  <2>1. \A i, j \in 1..3 : i < j => r[To(1, 2, 3)[i]] <= r[To(1, 2, 3)[j]]
    BY <1>2
  <2> QED
    BY <1>1, <2>1
<1>3. CASE r[1] <= r[3] /\ r[3] <= r[2]
  <2>1. \A i, j \in 1..3 : i < j => r[To(1, 3, 2)[i]] <= r[To(1, 3, 2)[j]]
    BY <1>3
  <2> QED
    BY <1>1, <2>1
<1>4. CASE r[2] <= r[1] /\ r[1] <= r[3]
  <2>1. \A i, j \in 1..3 : i < j => r[To(2, 1, 3)[i]] <= r[To(2, 1, 3)[j]]
    BY <1>4
  <2> QED
    BY <1>1, <2>1
<1>5. CASE r[2] <= r[3] /\ r[3] <= r[1]
  <2>1. \A i, j \in 1..3 : i < j => r[To(2, 3, 1)[i]] <= r[To(2, 3, 1)[j]]
    BY <1>5
  <2> QED
    BY <1>1, <2>1
<1>6. CASE r[3] <= r[1] /\ r[1] <= r[2]
  <2>1. \A i, j \in 1..3 : i < j => r[To(3, 1, 2)[i]] <= r[To(3, 1, 2)[j]]
    BY <1>6
  <2> QED
    BY <1>1, <2>1
<1>7. CASE r[3] <= r[2] /\ r[2] <= r[1]
  <2>1. \A i, j \in 1..3 : i < j => r[To(3, 2, 1)[i]] <= r[To(3, 2, 1)[j]]
    BY <1>7
  <2> QED
    BY <1>1, <2>1
<1> QED
  BY <1>2, <1>3, <1>4, <1>5, <1>6, <1>7

(* Attributes, in their DER order.                                         *)
InDerOrder(attributes) == CHOOSE s \in SortedAttributes(attributes) : TRUE

(* Three attributes have a DER order, which has the same attributes.       *)
LEMMA ThreeSorted ==
  ASSUME NEW s, DOMAIN s = 1..3, \A i \in 1..3 : s[i].typ \in AttributeType
  PROVE  \E p \in Bijection(1..3, 1..3) : InDerOrder(s) = [i \in 1..3 |-> s[p[i]]]
<1> DEFINE t == InDerOrder(s)
           rank == [x \in Range(s) |-> AttributeRank[x.typ]]
           r == [i \in 1..3 |-> rank[s[i]]]
           sorted == {u \in Rearrangements(s) :
                        \A i, j \in DOMAIN s : i < j => rank[u[i]] <= rank[u[j]]}
<1>1. \A x \in Range(s) : x.typ \in AttributeType
  BY DEF Range
<1>2. r \in [1..3 -> Int]
  <2>1. \A x \in Range(s) : rank[x] \in Int
    BY <1>1, RankAssumption
  <2>2. \A i \in 1..3 : s[i] \in Range(s)
    BY DEF Range
  <2> HIDE DEF rank
  <2> QED
    BY <2>1, <2>2
<1>3. PICK p \in Bijection(1..3, 1..3) : \A i, j \in 1..3 : i < j => r[p[i]] <= r[p[j]]
  <2> HIDE DEF r
  <2> QED
    BY <1>2, ThreeInOrder
<1>4. [i \in 1..3 |-> s[p[i]]] \in sorted
  <2>1. p \in [1..3 -> 1..3]
    BY DEF Bijection, Injection
  <2> DEFINE u == [i \in 1..3 |-> s[p[i]]]
  <2>2. u \in Rearrangements(s)
    BY DEF Rearrangements
  <2>3. \A i \in 1..3 : rank[u[i]] = r[p[i]]
    <3> HIDE DEF rank
    <3> QED
      BY <2>1
  <2> HIDE DEF rank, r, u
  <2>4. \A i, j \in DOMAIN s : i < j => rank[u[i]] <= rank[u[j]]
    BY <1>3, <2>3
  <2>5. u \in sorted
    BY <2>2, <2>4
  <2> QED
    BY <2>5 DEF u
<1>5. t \in Rearrangements(s)
  <2>1. SortedAttributes(s) = {u \in sorted : u = CHOOSE w \in sorted : TRUE}
    BY DEF SortedAttributes, DerSorted
  <2> HIDE DEF sorted
  <2>2. (CHOOSE w \in sorted : TRUE) \in SortedAttributes(s)
    BY <1>4, <2>1
  <2>3. t \in SortedAttributes(s)
    BY <2>2 DEF InDerOrder
  <2>4. t \in sorted
    BY <2>1, <2>3
  <2> QED
    BY <2>4 DEF sorted
<1> QED
  BY <1>5 DEF Rearrangements

(* A list of two and a list of one are a list of three.                    *)
LEMMA ThreeJoined ==
  ASSUME NEW a, NEW b, NEW c
  PROVE  <<a, b>> \o <<c>> = <<a, b, c>>
<1> DEFINE S == {a, b, c}
           left == <<a, b>> \o <<c>>
           right == <<a, b, c>>
<1>1. /\ <<a, b>> \in Seq(S) /\ Len(<<a, b>>) = 2
      /\ <<c>> \in Seq(S) /\ Len(<<c>>) = 1
  OBVIOUS
<1>2. left \in Seq(S) /\ Len(left) = 3
  BY <1>1
<1>3. left[1] = a /\ left[2] = b /\ left[3] = c
  BY <1>1
<1>4. right \in Seq(S) /\ Len(right) = 3 /\ right[1] = a /\ right[2] = b /\ right[3] = c
  OBVIOUS
<1>5. \A i \in 1..3 : left[i] = right[i]
  BY <1>3, <1>4
<1> HIDE DEF left, right, S
<1>6. DOMAIN left = 1..3 /\ DOMAIN right = 1..3
  BY <1>2, <1>4
<1>7. left = [i \in 1..3 |-> left[i]] /\ right = [i \in 1..3 |-> right[i]]
  BY <1>2, <1>4, <1>6
<1>8. left = right
  BY <1>5, <1>7
<1> QED
  BY <1>8 DEF left, right

(* The signer of a token is found under the certificate it signed with.    *)
LEMMA TokenCertificate ==
  ASSUME NEW request, NEW c, NEW fault, NEW time, NEW token,
         token = Token(request, c, fault, time), token.certificates # None
  PROVE  \A d \in SigningCertificate(token.signerInfos[1], token) : d = c
<1>1. token.certificates = <<[form |-> "Certificate", cert |-> c]>>
  BY DEF Token
<1> QED
  BY <1>1 DEF SigningCertificate

(* An authority's signed attributes hold the digest of the stamp it made.  *)
LEMMA AlteredTokenFails ==
  ASSUME NEW request, NEW c, NEW time \in Nat, NEW token,
         token = Token(request, c, "altered", time),
         token.certificates # None, token.contentType = IdTstInfo,
         VerifyWithSignedData(token.signerInfos[1], token)
  PROVE  FALSE
<1> DEFINE tst == Stamp(request, "altered", time)
           key == CertInfo[c].key
           digest == RequiredDigest(SigningAlgorithm(KeyAlg[key]))
           a1 == Attribute("contentType", {IdTstInfo})
           a2 == Attribute("messageDigest", {Digest(digest, tst)})
           a3 == Attribute("signingCertificateV2", {Digest("Sha256", c)})
           signer == token.signerInfos[1]
<1>1. /\ signer = TokenSigner(c, IdTstInfo, tst, EssAttributes(c, "altered"))
      /\ token.content = [tst EXCEPT !.genTime = @ + 1]
  BY DEF Token
<1>2. EssAttributes(c, "altered") = <<a3>>
  BY DEF EssAttributes
<1>3. signer.signedAttributes = InDerOrder(<<a1, a2, a3>>)
  <2>1. <<a1, a2>> \o <<a3>> = <<a1, a2, a3>>
    <3> HIDE DEF a1, a2, a3
    <3> QED
      BY ThreeJoined
  <2>2. signer.signedAttributes = InDerOrder(<<a1, a2>> \o EssAttributes(c, "altered"))
    <3> HIDE DEF tst, signer
    <3>1. TokenSigner(c, IdTstInfo, tst, EssAttributes(c, "altered")).signedAttributes
            = InDerOrder(<<a1, a2>> \o EssAttributes(c, "altered"))
      BY DEF TokenSigner, InDerOrder
    <3> QED
      BY <1>1, <3>1
  <2> HIDE DEF a1, a2, a3, signer
  <2> QED
    BY <1>2, <2>1, <2>2
<1>4. PICK p \in Bijection(1..3, 1..3) :
        signer.signedAttributes = [i \in 1..3 |-> <<a1, a2, a3>>[p[i]]]
  <2>1. /\ a1.typ = "contentType" /\ a2.typ = "messageDigest" /\ a3.typ = "signingCertificateV2"
        /\ {a1.typ, a2.typ, a3.typ} \subseteq AttributeType
    BY DEF Attribute, AttributeType, EssAttribute
  <2>2. a1.typ \in AttributeType /\ a2.typ \in AttributeType /\ a3.typ \in AttributeType
    BY <2>1
  <2> DEFINE s == <<a1, a2, a3>>
  <2>3. DOMAIN s = 1..3 /\ \A i \in 1..3 : s[i].typ \in AttributeType
    <3> HIDE DEF a1, a2, a3
    <3> QED
      BY <2>2
  <2> HIDE DEF s, signer
  <2>4. signer.signedAttributes = InDerOrder(s)
    BY <1>3 DEF s
  <2>5. \E p \in Bijection(1..3, 1..3) : InDerOrder(s) = [i \in 1..3 |-> s[p[i]]]
    BY <2>3, ThreeSorted
  <2>6. \E p \in Bijection(1..3, 1..3) : signer.signedAttributes = [i \in 1..3 |-> s[p[i]]]
    BY <2>4, <2>5
  <2> HIDE DEF a1, a2, a3
  <2> QED
    BY <2>6 DEF s
<1>5. Values(signer.signedAttributes, "messageDigest") = {Digest(digest, tst)}
  <2> DEFINE t == [i \in 1..3 |-> <<a1, a2, a3>>[p[i]]]
  <2>1. /\ p \in [1..3 -> 1..3]
        /\ \E i \in 1..3 : p[i] = 2
    BY DEF Bijection, Surjection
  <2>2. \A i \in 1..3 : t[i].typ = "messageDigest" <=> p[i] = 2
    BY <2>1 DEF Attribute
  <2>3. \A i \in 1..3 : p[i] = 2 => t[i].values = {Digest(digest, tst)}
    BY <2>1 DEF Attribute
  <2> HIDE DEF t
  <2>4. DOMAIN t = 1..3
    BY DEF t
  <2>5. Values(t, "messageDigest") = {Digest(digest, tst)}
    BY <2>1, <2>2, <2>3, <2>4 DEF Values
  <2> QED
    BY <1>4, <2>5 DEF t
<1>6. tst # token.content
  BY <1>1 DEF Stamp
<1>7. signer.signedAttributes = None
  <2>1. signer.signedAttributes # None =>
          Digest(digest, tst) = Digest(signer.digestAlgorithm.digest, token.content)
    BY <1>5 DEF VerifyWithSignedData, VerifyMessageDigest, VerifyMessageDigestWithContent
  <2> QED
    BY <1>6, <2>1 DEF Digest
<1>8. signer.signature.message.covers = "attributes"
  BY <1>1 DEF TokenSigner, Signature
<1>9. \E d \in SigningCertificate(signer, token) :
        SignatureValid(signer, d, SignedMessage(signer, token.content))
  BY DEF VerifyWithSignedData, VerifySignature, VerifySignatureWithContent
<1>10. signer.signature.message.covers = "content"
  BY <1>7, <1>9 DEF SignatureValid, Signature, SignedMessage
<1> QED
  BY <1>8, <1>10

(* The token of a reply that passed was made by the authority for a        *)
(* request of its own, and the authority's certificate is in order.        *)
LEMMA GenuineToken ==
  ASSUME NEW request, NEW r, NEW c, NEW fault, NEW time \in Nat, NEW token,
         token = Token(request, c, fault, time),
         TokenError(r, token) = "Ok", r.certReq = TRUE
  PROVE  /\ token.content = Stamp(request, fault, time)
         /\ CertInfo[c].purpose = "timeStampingOnly"
         /\ time \in CertInfo[c].notBefore..CertInfo[c].notAfter
         /\ r.nonce # None => request.nonce = r.nonce
<1>1. /\ token.certificates # None
      /\ token.contentType = IdTstInfo
      /\ token.content # None
      /\ StampError(r, token.content) = "Ok"
      /\ TokenGenuine(token)
  BY TokenPassed
<1>2. /\ VerifyWithSignedData(token.signerInfos[1], token)
      /\ VerifyTimeStampCertificate(token.signerInfos[1], token)
  BY <1>1 DEF TokenGenuine
<1>3. fault # "altered"
  BY <1>1, <1>2, AlteredTokenFails
<1>4. token.content = Stamp(request, fault, time)
  BY <1>1, <1>3 DEF Token
<1>5. token.content.genTime = time
  BY <1>4 DEF Stamp
<1>6. r.nonce # None => request.nonce = r.nonce
  BY <1>1, <1>4, StampPassed DEF Stamp
<1> QED
  BY <1>1, <1>2, <1>4, <1>5, <1>6, TokenCertificate DEF VerifyTimeStampCertificate

----------------------------------------------------------------------------
(* The inductive invariant. *)

Waiting == client.pc \in {"sent", "ok"}

ClientShape ==
  client = [pc |-> client.pc, request |-> client.request, sentAt |-> client.sentAt,
            reply |-> client.reply, error |-> client.error]

(* The client's request was sent in the past. *)
ClientSent == Waiting => client.request \in requests /\ client.sentAt \in 0..clock

RequestShape ==
  \A r \in requests : r.imprint = Digest(r.imprint.alg, r.imprint.of) /\ r.certReq \in BOOLEAN

(* No two requests have the same nonce, and the next one has another.      *)
NoncesUsed ==
  /\ IsFiniteSet(requests)
  /\ \A r \in requests : r.nonce = None \/ r.nonce \in 1..Cardinality(requests)
  /\ \A r, q \in requests : r.nonce # None /\ r.nonce = q.nonce => r = q

(* Authorities stamp what was sent, in the past. *)
StampsMade == \A s \in stamps : s.request \in requests /\ s.tst.genTime \in 0..clock

(* A request with a nonce is stamped after the client sent it. *)
StampsLater ==
  Waiting /\ client.request.nonce # None =>
    \A s \in stamps : s.request = client.request => s.tst.genTime >= client.sentAt

(* Every reply was made by an authority. *)
RepliesMade ==
  \A reply \in replies : \E s \in stamps, fault \in Fault :
    /\ reply = Reply(s.request, s.cert, fault, s.tst.genTime)
    /\ s.tst = Stamp(s.request, fault, s.tst.genTime)

(* The client has checked the reply it reports. *)
ReplyChecked ==
  client.pc = "ok" =>
    client.reply \in replies /\ ResponseError(client.request, client.reply) = "Ok"

TspInv ==
  /\ clock \in Nat
  /\ ClientShape
  /\ ClientSent
  /\ RequestShape
  /\ NoncesUsed
  /\ StampsMade
  /\ StampsLater
  /\ RepliesMade
  /\ ReplyChecked

LEMMA TspInvInit == TspInit => TspInv
<1> SUFFICES ASSUME TspInit PROVE TspInv
  OBVIOUS
<1>1. clock \in Nat /\ ClientShape /\ ~Waiting /\ client.pc # "ok"
  BY DEF TspInit, NoRequest, ClientShape, Waiting
<1>2. IsFiniteSet(requests) /\ requests = {} /\ stamps = {} /\ replies = {}
  BY FS_EmptySet DEF TspInit
<1> QED
  BY <1>1, <1>2 DEF TspInv, ClientSent, RequestShape, NoncesUsed, StampsMade, StampsLater,
                    RepliesMade, ReplyChecked

(* A request of the right shape, with no nonce or with a fresh one.        *)
LEMMA SendPreserves ==
  ASSUME TspInv, NEW request, Send(request),
         request.imprint = Digest(request.imprint.alg, request.imprint.of),
         request.certReq \in BOOLEAN,
         request.nonce \in {None, FreshNonce}
  PROVE  TspInv'
<1>1. CASE ImprintOk(request)
  <2>1. /\ client' = [NoRequest EXCEPT !.pc = "sent", !.request = request, !.sentAt = clock]
        /\ requests' = requests \cup {request}
        /\ UNCHANGED <<replies, stamps, clock>>
    BY <1>1 DEF Send
  <2>2. client' = [pc |-> "sent", request |-> request, sentAt |-> clock,
                   reply |-> None, error |-> "Ok"]
    BY <2>1 DEF NoRequest
  <2>3. clock' \in Nat /\ ClientShape' /\ ClientSent' /\ ReplyChecked'
    <3>1. clock' = clock /\ clock \in Nat /\ clock \in 0..clock
      BY <2>1 DEF TspInv
    <3>2. ClientShape' /\ ReplyChecked'
      BY <2>2 DEF ClientShape, ReplyChecked
    <3> QED
      BY <2>1, <2>2, <3>1, <3>2 DEF ClientSent
  <2>4. RequestShape' /\ StampsMade' /\ RepliesMade'
    BY <2>1 DEF TspInv, RequestShape, StampsMade, RepliesMade
  <2>5. /\ IsFiniteSet(requests')
        /\ Cardinality(requests) \in Nat
        /\ request \in requests => Cardinality(requests') = Cardinality(requests)
        /\ request \notin requests => Cardinality(requests') = Cardinality(requests) + 1
    BY <2>1, FS_AddElement, FS_CardinalityType DEF TspInv, NoncesUsed
  <2>6. request.nonce # None => /\ request.nonce = 1 + Cardinality(requests)
                                /\ \A r \in requests : r.nonce # request.nonce
    BY <2>5 DEF FreshNonce, TspInv, NoncesUsed
  <2>7. NoncesUsed'
    <3>1. \A r \in requests' : r.nonce = None \/ r.nonce \in 1..Cardinality(requests')
      BY <2>1, <2>5, <2>6 DEF TspInv, NoncesUsed
    <3>2. \A r, q \in requests' : r.nonce # None /\ r.nonce = q.nonce => r = q
      BY <2>1, <2>6 DEF TspInv, NoncesUsed
    <3> QED
      BY <2>5, <3>1, <3>2 DEF NoncesUsed
  <2>8. StampsLater'
    BY <2>1, <2>2, <2>6 DEF StampsLater, TspInv, StampsMade
  <2> QED
    BY <2>3, <2>4, <2>7, <2>8 DEF TspInv
<1>2. CASE ~ImprintOk(request)
  <2>1. /\ client' = [NoRequest EXCEPT !.pc = "failed", !.request = request,
                                       !.error = "InvalidMessageImprint"]
        /\ UNCHANGED <<requests, replies, stamps, clock>>
    BY <1>2 DEF Send
  <2>2. client' = [pc |-> "failed", request |-> request, sentAt |-> 0, reply |-> None,
                   error |-> "InvalidMessageImprint"]
    BY <2>1 DEF NoRequest
  <2>3. ClientShape' /\ ClientSent' /\ StampsLater' /\ ReplyChecked'
    BY <2>2 DEF ClientShape, ClientSent, StampsLater, ReplyChecked, Waiting
  <2> QED
    BY <2>1, <2>3 DEF TspInv, RequestShape, NoncesUsed, StampsMade, RepliesMade
<1> QED
  BY <1>1, <1>2

(* An authority's answer: the new stamp is dated now. *)
LEMMA AnswerPreserves ==
  ASSUME TspInv, NEW request \in requests, NEW c \in TsaCert, NEW fault \in Fault,
         Answer(request, c, fault)
  PROVE  TspInv'
<1> DEFINE new == [cert |-> c, request |-> request, tst |-> Stamp(request, fault, clock)]
<1>1. /\ replies' = replies \cup {Reply(request, c, fault, clock)}
      /\ stamps' = stamps \cup {new}
      /\ UNCHANGED <<client, requests, clock>>
  BY DEF Answer
<1>2. /\ new.request = request /\ new.cert = c
      /\ new.tst = Stamp(request, fault, clock) /\ new.tst.genTime = clock
  BY DEF Stamp
<1> HIDE DEF new
<1>3. StampsMade'
  BY <1>1, <1>2 DEF TspInv, StampsMade
<1>4. StampsLater'
  BY <1>1, <1>2 DEF TspInv, StampsLater, ClientSent, Waiting
<1>5. RepliesMade'
  <2> SUFFICES ASSUME NEW reply \in replies'
               PROVE  \E s \in stamps', f \in Fault :
                        /\ reply = Reply(s.request, s.cert, f, s.tst.genTime)
                        /\ s.tst = Stamp(s.request, f, s.tst.genTime)
    BY DEF RepliesMade
  <2>1. CASE reply \in replies
    BY <1>1, <2>1 DEF TspInv, RepliesMade
  <2>2. CASE reply = Reply(request, c, fault, clock)
    BY <1>1, <1>2, <2>2
  <2> QED
    BY <1>1, <2>1, <2>2
<1>6. clock' \in Nat /\ ClientShape' /\ ClientSent' /\ RequestShape' /\ NoncesUsed'
  BY <1>1 DEF TspInv, ClientShape, ClientSent, Waiting, RequestShape, NoncesUsed
<1>7. ReplyChecked'
  BY <1>1 DEF TspInv, ReplyChecked
<1> QED
  BY <1>3, <1>4, <1>5, <1>6, <1>7 DEF TspInv

(* A delivered reply, checked against the request the client waits with.   *)
LEMMA DeliverPreserves ==
  ASSUME TspInv, NEW reply \in replies, Deliver(reply)
  PROVE  TspInv'
<1> DEFINE error == ResponseError(client.request, reply)
<1> HIDE DEF error
<1>1. /\ client.pc = "sent"
      /\ client' = [client EXCEPT !.pc = IF error = "Ok" THEN "ok" ELSE "failed",
                                  !.reply = IF error = "Ok" THEN reply ELSE None,
                                  !.error = error]
      /\ UNCHANGED <<requests, replies, stamps, clock>>
  BY DEF Deliver, error
<1>2. client' = [pc      |-> IF error = "Ok" THEN "ok" ELSE "failed",
                 request |-> client.request,
                 sentAt  |-> client.sentAt,
                 reply   |-> IF error = "Ok" THEN reply ELSE None,
                 error   |-> error]
  BY <1>1 DEF TspInv, ClientShape
<1>3. ClientShape' /\ client'.request = client.request /\ client'.sentAt = client.sentAt
  BY <1>2 DEF ClientShape
<1>4. Waiting
  BY <1>1 DEF Waiting
<1>5. ClientSent' /\ StampsLater'
  BY <1>1, <1>3, <1>4 DEF TspInv, ClientSent, StampsLater
<1>6. ReplyChecked'
  BY <1>1, <1>2 DEF ReplyChecked, error
<1> QED
  BY <1>1, <1>3, <1>5, <1>6 DEF TspInv, RequestShape, NoncesUsed, StampsMade, RepliesMade

(* The client fails without a reply. *)
LEMMA FailurePreserves ==
  ASSUME TspInv, RandomFails \/ TransportFails
  PROVE  TspInv'
<1>1. UNCHANGED <<requests, replies, stamps, clock>>
  BY DEF RandomFails, TransportFails
<1>2. ClientShape' /\ client'.pc = "failed"
  <2>1. CASE RandomFails
    BY <2>1 DEF RandomFails, NoRequest, ClientShape
  <2>2. CASE TransportFails
    <3>1. client' = [pc |-> "failed", request |-> client.request, sentAt |-> client.sentAt,
                     reply |-> client.reply, error |-> "Reqwest"]
      BY <2>2 DEF TransportFails, TspInv, ClientShape
    <3> QED
      BY <3>1 DEF ClientShape
  <2> QED
    BY <2>1, <2>2
<1>3. ClientSent' /\ StampsLater' /\ ReplyChecked'
  BY <1>2 DEF ClientSent, StampsLater, ReplyChecked, Waiting
<1> QED
  BY <1>1, <1>2, <1>3 DEF TspInv, RequestShape, NoncesUsed, StampsMade, RepliesMade

LEMMA TickPreserves ==
  ASSUME TspInv, Tick
  PROVE  TspInv'
<1>1. /\ clock \in Nat /\ clock' = clock + 1
      /\ UNCHANGED <<client, requests, replies, stamps>>
  BY DEF Tick, TspInv
<1>2. ClientSent' /\ StampsMade'
  BY <1>1 DEF TspInv, ClientSent, StampsMade, Waiting
<1>3. ClientShape' /\ StampsLater' /\ ReplyChecked'
  BY <1>1 DEF TspInv, ClientShape, StampsLater, ReplyChecked, Waiting
<1> QED
  BY <1>1, <1>2, <1>3 DEF TspInv, RequestShape, NoncesUsed, RepliesMade

LEMMA TspInvNext == TspInv /\ [TspNext]_tspVars => TspInv'
<1> SUFFICES ASSUME TspInv, [TspNext]_tspVars PROVE TspInv'
  OBVIOUS
<1>1. ASSUME NEW message \in Content \ {Empty}, SendMessage(message, "Sha256")
      PROVE  TspInv'
  <2> DEFINE request == MessageRequest(message, "Sha256", FreshNonce)
  <2>1. /\ request.imprint = Digest(request.imprint.alg, request.imprint.of)
        /\ request.certReq \in BOOLEAN
        /\ request.nonce \in {None, FreshNonce}
    BY DEF MessageRequest, Digest
  <2>2. Send(request)
    BY <1>1 DEF SendMessage
  <2> HIDE DEF request
  <2> QED
    BY <2>1, <2>2, SendPreserves
<1>2. ASSUME NEW message \in Content \ {Empty}, NEW digest, NEW nonce \in {None, FreshNonce},
             NEW certReq \in BOOLEAN, NEW policy,
             SendRequest(message, digest, nonce, certReq, policy)
      PROVE  TspInv'
  <2> DEFINE request == [hashAlgorithm |-> digest, imprint |-> Digest("Sha256", message),
                         nonce |-> nonce, certReq |-> certReq, policy |-> policy]
  <2>1. /\ request.imprint = Digest(request.imprint.alg, request.imprint.of)
        /\ request.certReq \in BOOLEAN
        /\ request.nonce \in {None, FreshNonce}
    BY DEF Digest
  <2>2. Send(request)
    BY <1>2 DEF SendRequest
  <2> HIDE DEF request
  <2> QED
    BY <2>1, <2>2, SendPreserves
<1>3. CASE NetworkNext
  BY <1>3, AnswerPreserves, DeliverPreserves, FailurePreserves, TickPreserves DEF NetworkNext
<1>4. CASE RandomFails
  BY <1>4, FailurePreserves
<1>5. CASE UNCHANGED tspVars
  BY <1>5 DEF tspVars, TspInv, ClientShape, ClientSent, Waiting, RequestShape, NoncesUsed,
              StampsMade, StampsLater, RepliesMade, ReplyChecked
<1> QED
  BY <1>1, <1>2, <1>3, <1>4, <1>5 DEF TspNext

(* The inductive invariant holds of every run.                             *)
THEOREM TspInvariant == TspSpec => []TspInv
<1> QED
  BY TspInvInit, TspInvNext, PTL DEF TspSpec

----------------------------------------------------------------------------
(* Type correctness. *)

LEMMA SendTyped ==
  ASSUME TspInv, TspTypeOK, NEW request, Send(request)
  PROVE  TspTypeOK'
<1>1. clock' = clock /\ stamps' = stamps /\ requests \subseteq requests'
  BY DEF Send
<1>2. \/ /\ client' = [pc |-> "sent", request |-> request, sentAt |-> clock,
                       reply |-> None, error |-> "Ok"]
         /\ request \in requests'
      \/ client' = [pc |-> "failed", request |-> request, sentAt |-> 0, reply |-> None,
                    error |-> "InvalidMessageImprint"]
  BY DEF Send, NoRequest
<1>3. clock \in 0..MaxTime /\ clock \in Nat
  BY DEF TspTypeOK, TspInv
<1>4. client'.sentAt \in 0..clock'
  BY <1>1, <1>2, <1>3
<1>5. \A s \in stamps' : s.request \in requests' /\ s.tst.genTime \in 0..clock'
  BY <1>1 DEF TspTypeOK
<1> QED
  BY <1>1, <1>2, <1>3, <1>4, <1>5 DEF TspTypeOK

LEMMA TspTypeNext == TspInv /\ TspInv' /\ TspTypeOK /\ [TspNext]_tspVars => TspTypeOK'
<1> SUFFICES ASSUME TspInv, TspInv', TspTypeOK, [TspNext]_tspVars PROVE TspTypeOK'
  OBVIOUS
<1>1. ASSUME NEW message \in Content \ {Empty}, SendMessage(message, "Sha256")
      PROVE  TspTypeOK'
  BY <1>1, SendTyped DEF SendMessage
<1>2. ASSUME NEW message \in Content \ {Empty}, NEW digest, NEW nonce \in {None, FreshNonce},
             NEW certReq \in BOOLEAN, NEW policy,
             SendRequest(message, digest, nonce, certReq, policy)
      PROVE  TspTypeOK'
  BY <1>2, SendTyped DEF SendRequest
<1>3. ASSUME NEW request \in requests, NEW c \in TsaCert, NEW fault \in Fault,
             Answer(request, c, fault)
      PROVE  TspTypeOK'
  <2>1. UNCHANGED <<client, requests, clock>> /\ replies \subseteq replies'
    BY <1>3 DEF Answer
  <2>2. \A s \in stamps' : s.request \in requests' /\ s.tst.genTime \in 0..clock'
    BY DEF TspInv, StampsMade
  <2> QED
    BY <2>1, <2>2 DEF TspTypeOK
<1>4. ASSUME NEW reply \in replies, Deliver(reply)
      PROVE  TspTypeOK'
  <2> DEFINE error == ResponseError(client.request, reply)
  <2> HIDE DEF error
  <2>1. /\ client.pc = "sent"
        /\ client' = [client EXCEPT !.pc = IF error = "Ok" THEN "ok" ELSE "failed",
                                    !.reply = IF error = "Ok" THEN reply ELSE None,
                                    !.error = error]
        /\ UNCHANGED <<requests, replies, stamps, clock>>
    BY <1>4 DEF Deliver, error
  <2>2. /\ client'.pc = IF error = "Ok" THEN "ok" ELSE "failed"
        /\ client'.request = client.request
        /\ client'.sentAt = client.sentAt
        /\ client'.reply = IF error = "Ok" THEN reply ELSE None
        /\ client'.error = error
    BY <2>1 DEF TspInv, ClientShape
  <2>3. client.request \in requests
    BY <2>1 DEF TspInv, ClientSent, Waiting
  <2> QED
    BY <2>1, <2>2, <2>3 DEF TspTypeOK
<1>5. CASE RandomFails
  <2>1. client' = [pc |-> "failed", request |-> None, sentAt |-> 0, reply |-> None,
                   error |-> "Random"]
    BY <1>5 DEF RandomFails, NoRequest
  <2>2. UNCHANGED <<requests, replies, stamps, clock>> /\ 0 \in 0..clock
    BY <1>5 DEF RandomFails, TspInv
  <2> QED
    BY <2>1, <2>2 DEF TspTypeOK
<1>6. CASE TransportFails
  <2>1. client' = [pc |-> "failed", request |-> client.request, sentAt |-> client.sentAt,
                   reply |-> client.reply, error |-> "Reqwest"]
    BY <1>6 DEF TransportFails, TspInv, ClientShape
  <2>2. client.pc = "sent" /\ UNCHANGED <<requests, replies, stamps, clock>>
    BY <1>6 DEF TransportFails
  <2>3. client.request \in requests
    BY <2>2 DEF TspInv, ClientSent, Waiting
  <2> QED
    BY <2>1, <2>2, <2>3 DEF TspTypeOK
<1>7. CASE Tick
  <2>1. /\ clock \in Nat /\ clock < MaxTime /\ clock' = clock + 1
        /\ UNCHANGED <<client, requests, replies, stamps>>
    BY <1>7 DEF Tick, TspInv
  <2>2. clock' \in 0..MaxTime /\ 0..clock \subseteq 0..clock'
    BY <2>1, TspAssumption
  <2> QED
    BY <2>1, <2>2 DEF TspTypeOK
<1>8. CASE UNCHANGED tspVars
  BY <1>8 DEF tspVars, TspTypeOK
<1> QED
  BY <1>1, <1>2, <1>3, <1>4, <1>5, <1>6, <1>7, <1>8 DEF TspNext, NetworkNext

(* The variables stay within their types; a client that succeeded has a    *)
(* reply, and one that has not has none.                                   *)
THEOREM TspTypes == TspSpec => []TspTypeOK
<1>1. TspInit => TspTypeOK
  BY TspAssumption DEF TspInit, TspTypeOK, NoRequest
<1> QED
  BY <1>1, TspTypeNext, TspInvariant, PTL DEF TspSpec

----------------------------------------------------------------------------
(* What the client may rely on. *)

(* An accepted stamp, the request it was made for, and how it was checked. *)
LEMMA AcceptedStamp ==
  ASSUME TspInv, Stamped, client.request.certReq
  PROVE  \E s \in stamps :
           /\ client.reply.token.content = s.tst
           /\ s.tst.genTime \in Nat
           /\ CertInfo[s.cert].purpose = "timeStampingOnly"
           /\ s.tst.genTime \in CertInfo[s.cert].notBefore..CertInfo[s.cert].notAfter
           /\ client.request.nonce # None => s.request = client.request
           /\ TokenError(client.request, client.reply.token) = "Ok"
           /\ client.request \in requests
           /\ client.request.certReq = TRUE
<1> DEFINE request == client.request
           reply == client.reply
<1>1. /\ client.pc = "ok" /\ IsSuccess(reply)
      /\ request \in requests /\ reply \in replies
      /\ ResponseError(request, reply) = "Ok"
  BY DEF Stamped, TspInv, ReplyChecked, ClientSent, Waiting
<1>2. request.certReq = TRUE
  BY <1>1 DEF TspInv, RequestShape
<1>3. reply.token # None /\ TokenError(request, reply.token) = "Ok"
  <2> HIDE DEF request, reply
  <2> QED
    BY <1>1, TransportPassed
<1>4. PICK s \in stamps, fault \in Fault :
        /\ reply = Reply(s.request, s.cert, fault, s.tst.genTime)
        /\ s.tst = Stamp(s.request, fault, s.tst.genTime)
  BY <1>1 DEF TspInv, RepliesMade
<1>5. /\ s.request \in requests /\ s.tst.genTime \in Nat
  BY DEF TspInv, StampsMade
<1>6. reply.token = Token(s.request, s.cert, fault, s.tst.genTime)
  <2> DEFINE made == Reply(s.request, s.cert, fault, s.tst.genTime)
  <2>1. made.token = None \/ made.token = Token(s.request, s.cert, fault, s.tst.genTime)
    BY DEF Reply
  <2> HIDE DEF made, reply
  <2>2. reply = made
    BY <1>4 DEF made
  <2> QED
    BY <1>3, <2>1, <2>2
<1>7. /\ reply.token.content = Stamp(s.request, fault, s.tst.genTime)
      /\ CertInfo[s.cert].purpose = "timeStampingOnly"
      /\ s.tst.genTime \in CertInfo[s.cert].notBefore..CertInfo[s.cert].notAfter
      /\ request.nonce # None => s.request.nonce = request.nonce
  <2> DEFINE token == reply.token
             made == s.request
             c == s.cert
  <2>1. PICK time \in Nat : time = s.tst.genTime
    BY <1>5
  <2>2. /\ token = Token(made, c, fault, time)
        /\ TokenError(request, token) = "Ok"
        /\ request.certReq = TRUE
    BY <1>2, <1>3, <1>6, <2>1
  <2> HIDE DEF token, made, c, request
  <2>3. /\ token.content = Stamp(made, fault, time)
        /\ CertInfo[c].purpose = "timeStampingOnly"
        /\ time \in CertInfo[c].notBefore..CertInfo[c].notAfter
        /\ request.nonce # None => made.nonce = request.nonce
    BY ONLY <2>2, GenuineToken
  <2> QED
    BY <2>1, <2>3 DEF token, made, c
<1>8. request.nonce # None => s.request = request
  BY <1>1, <1>5, <1>7 DEF TspInv, NoncesUsed
<1> QED
  BY <1>1, <1>2, <1>3, <1>4, <1>5, <1>7, <1>8

(* A stamp the client accepted was made by a valid time-stamping authority *)
(* and, with a nonce, for this very request and not an earlier one.        *)
THEOREM StampForRequest == TspSpec => []StampWasMadeForRequest
<1>1. TspInv => StampWasMadeForRequest
  <2> SUFFICES ASSUME TspInv, Stamped, client.request.certReq
               PROVE  \E s \in stamps :
                        /\ s.tst = client.reply.token.content
                        /\ CertInfo[s.cert].purpose = "timeStampingOnly"
                        /\ s.tst.genTime \in CertInfo[s.cert].notBefore..CertInfo[s.cert].notAfter
                        /\ s.tst.imprint = client.request.imprint
                        /\ client.request.nonce # None => s.request = client.request
    BY DEF StampWasMadeForRequest
  <2>1. PICK s \in stamps :
           /\ client.reply.token.content = s.tst
           /\ CertInfo[s.cert].purpose = "timeStampingOnly"
           /\ s.tst.genTime \in CertInfo[s.cert].notBefore..CertInfo[s.cert].notAfter
           /\ client.request.nonce # None => s.request = client.request
           /\ TokenError(client.request, client.reply.token) = "Ok"
           /\ client.request.certReq = TRUE
    BY AcceptedStamp
  <2>2. StampError(client.request, s.tst) = "Ok"
    <3> DEFINE request == client.request
               token == client.reply.token
    <3>1. TokenError(request, token) = "Ok" /\ request.certReq = TRUE /\ token.content = s.tst
      BY <2>1
    <3> HIDE DEF request, token
    <3>2. StampError(request, token.content) = "Ok"
      BY <3>1, TokenPassed
    <3> QED
      BY <3>1, <3>2 DEF request
  <2>3. client.request.imprint = s.tst.imprint
    BY <2>2, StampPassed
  <2> QED
    BY <2>1, <2>3
<1> QED
  BY <1>1, TspInvariant, PTL

(* A stamp the client asked for with a nonce names a time within the       *)
(* exchange.                                                               *)
THEOREM StampFreshness == TspSpec => []StampIsFresh
<1>1. TspInv => StampIsFresh
  <2> SUFFICES ASSUME TspInv, Stamped, client.request.certReq, client.request.nonce # None
               PROVE  client.reply.token.content.genTime \in client.sentAt..clock
    BY DEF StampIsFresh
  <2>1. PICK s \in stamps : client.reply.token.content = s.tst /\ s.request = client.request
    BY AcceptedStamp
  <2>2. Waiting /\ client.sentAt \in Int /\ clock \in Int
    BY DEF Stamped, Waiting, TspInv, ClientSent
  <2>3. s.tst.genTime >= client.sentAt /\ s.tst.genTime \in 0..clock
    BY <2>1, <2>2 DEF TspInv, StampsLater, StampsMade
  <2> QED
    BY <2>1, <2>2, <2>3
<1> QED
  BY <1>1, TspInvariant, PTL

(* No body beyond the limit is reported, whatever length it declares.      *)
THEOREM ReportedBodies == TspSpec => []ReportedBodyIsWhole
<1>1. TspInv => ReportedBodyIsWhole
  <2> SUFFICES ASSUME TspInv, client.pc = "ok"
               PROVE  client.reply.length <= MaxResponseSize
    BY DEF ReportedBodyIsWhole
  <2> DEFINE reply == client.reply
  <2>1. reply \in replies /\ ResponseError(client.request, reply) = "Ok"
    BY DEF TspInv, ReplyChecked
  <2>2. reply.length \in Nat /\ MaxResponseSize \in Nat
    <3>1. PICK s \in stamps, fault \in Fault : reply = Reply(s.request, s.cert, fault, s.tst.genTime)
      BY <2>1 DEF TspInv, RepliesMade
    <3> HIDE DEF reply
    <3> QED
      BY <3>1, TspAssumption DEF Reply
  <2> HIDE DEF reply
  <2>3. ~(BytesRead(reply) > MaxResponseSize)
    BY <2>1, BodyPassed
  <2>4. reply.length <= MaxResponseSize
    BY <2>2, <2>3 DEF BytesRead
  <2> QED
    BY <2>4 DEF reply
<1> QED
  BY <1>1, TspInvariant, PTL

(* So the two lists of checks of a time stamp agree.                       *)
LEMMA AcceptedVerifiesInv == TspInv => AcceptedStampVerifies
<1> DEFINE request == client.request
           token == client.reply.token
           info == [signature |-> request.imprint.of, unsignedAttributes |-> None]
<1> SUFFICES ASSUME TspInv, Stamped, client.request.certReq
             PROVE  VerifyTimeStampToken(info, token)
  BY DEF AcceptedStampVerifies
<1>1. /\ TokenError(request, token) = "Ok"
      /\ request \in requests
      /\ request.certReq = TRUE
  BY AcceptedStamp
<1>2. request.imprint = Digest(request.imprint.alg, request.imprint.of)
  BY <1>1 DEF TspInv, RequestShape
<1>3. info.signature = request.imprint.of
  OBVIOUS
<1> HIDE DEF request, token, info
<1>4. /\ token.contentType = IdTstInfo
      /\ token.content # None
      /\ StampError(request, token.content) = "Ok"
      /\ TokenGenuine(token)
  BY <1>1, TokenPassed
<1>5. /\ token.content.version = 1
      /\ ImprintOk(token.content)
      /\ request.imprint = token.content.imprint
  BY <1>4, StampPassed
<1>6. token.content.imprint = Digest(token.content.hashAlgorithm.digest, info.signature)
  BY <1>2, <1>3, <1>5 DEF ImprintOk
<1> QED
  BY <1>4, <1>5, <1>6 DEF VerifyTimeStampToken, TokenGenuine, ImprintOk

(* What the client accepts with certReq, verify_time_stamp_token accepts   *)
(* on the signature that was stamped: the two lists of checks agree.       *)
THEOREM AcceptedVerifies == TspSpec => []AcceptedStampVerifies
<1> QED
  BY AcceptedVerifiesInv, TspInvariant, PTL
=============================================================================

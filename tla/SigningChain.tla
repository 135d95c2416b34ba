---------------------------- MODULE SigningChain ----------------------------
(***************************************************************************)
(* CapturedX509Certificate::resolve_signing_chain (certificate.rs), one    *)
(* step for each certificate it buffers and one for each issuer it finds.  *)
(*                                                                         *)
(* A captured certificate is its encoding, and two of them are equal when  *)
(* their encodings are.  Two encodings may hold the same certificate.      *)
(***************************************************************************)
EXTENDS Certificates, FiniteSets

CONSTANTS
  Captured,          (* captured certificates                         *)
  CertificateIn,     (* [Captured -> the certificate it holds]        *)
  MaxGiven           (* bounds how many certificates a call is given  *)

ASSUME CapturedAssumption ==
  /\ MaxGiven \in Nat
  /\ None \notin Captured

VARIABLES
  pc,          (* "buffering", "linking", "returned"                      *)
  self,        (* the certificate whose chain is resolved                 *)
  certs,       (* the certificates given to the call, in their order      *)
  next,        (* the position of the next one to buffer                  *)
  remaining,   (* the positions in certs of those buffered and not used   *)
  chain        (* the chain so far, which the call returns                *)

chainVars == <<pc, self, certs, next, remaining, chain>>

Elements(s) == {s[i] : i \in DOMAIN s}

(* Pairs of certificates of which the first signed the second. *)
Signatures ==
  {pair \in Captured \X Captured : SignedBy(CertificateIn[pair[2]], CertificateIn[pair[1]])}

Signed(c, candidate) == <<candidate, c>> \in Signatures

----------------------------------------------------------------------------

(* The last certificate found, or the one the call started from. *)
LastCertificate == IF chain = <<>> THEN self ELSE chain[Len(chain)]

(* find_signing_certificate over the remaining ones: the positions of      *)
(* those that signed the last certificate, of which it takes the first.    *)
Candidates == {i \in remaining : Signed(LastCertificate, certs[i])}
M_First_Last(positions) == {i \in positions : \A j \in positions : i >= j}
First(positions) == {i \in positions : \A j \in positions : i <= j}

(* One round of the loop that filters out ourself and what was seen. *)
M_Buffer_KeepsSelf ==
  /\ pc = "buffering" /\ next <= Len(certs)
  /\ remaining' = IF \E i \in remaining : certs[i] = certs[next]
                    THEN remaining ELSE remaining \cup {next}
  /\ next' = next + 1
  /\ UNCHANGED <<pc, self, certs, chain>>
M_Buffer_KeepsSeen ==
  /\ pc = "buffering" /\ next <= Len(certs)
  /\ remaining' = IF certs[next] = self THEN remaining ELSE remaining \cup {next}
  /\ next' = next + 1
  /\ UNCHANGED <<pc, self, certs, chain>>
M_Buffer_WaitsAtSelf ==
  /\ pc = "buffering" /\ next <= Len(certs) /\ certs[next] # self
  /\ remaining' = IF \E i \in remaining : certs[i] = certs[next]
                    THEN remaining ELSE remaining \cup {next}
  /\ next' = next + 1
  /\ UNCHANGED <<pc, self, certs, chain>>
Buffer ==
  /\ pc = "buffering" /\ next <= Len(certs)
  /\ remaining' = IF certs[next] = self \/ \E i \in remaining : certs[i] = certs[next]
                    THEN remaining ELSE remaining \cup {next}
  /\ next' = next + 1
  /\ UNCHANGED <<pc, self, certs, chain>>

Buffered ==
  /\ pc = "buffering" /\ next > Len(certs)
  /\ pc' = "linking"
  /\ UNCHANGED <<self, certs, next, remaining, chain>>

(* One round of the loop that follows issuers; the issuer is removed from  *)
(* the remaining ones.                                                     *)
M_Link_KeepsIssuer ==
  /\ pc = "linking"
  /\ \E i \in First(Candidates) : chain' = Append(chain, certs[i])
  /\ UNCHANGED <<pc, self, certs, next, remaining>>
Link ==
  /\ pc = "linking"
  /\ \E i \in First(Candidates) :
       /\ chain' = Append(chain, certs[i])
       /\ remaining' = {j \in remaining : certs[j] # certs[i]}
  /\ UNCHANGED <<pc, self, certs, next>>

Return ==
  /\ pc = "linking" /\ Candidates = {}
  /\ pc' = "returned"
  /\ UNCHANGED <<self, certs, next, remaining, chain>>

(* A behaviour is one call: calls share nothing. *)
ChainInit ==
  /\ pc = "buffering"
  /\ self \in Captured
  /\ \E n \in 0..MaxGiven : certs \in [1..n -> Captured]
  /\ next = 1 /\ remaining = {} /\ chain = <<>>

ChainNext == Buffer \/ Buffered \/ Link \/ Return

(* The call runs to completion in its caller's thread. *)
ChainSpec == ChainInit /\ [][ChainNext]_chainVars /\ WF_chainVars(ChainNext)

----------------------------------------------------------------------------
(* Properties. *)

(* The positions stay within what was given, and no certificate is at two  *)
(* of those that remain.                                                   *)
ChainTypeOK ==
  /\ pc \in {"buffering", "linking", "returned"}
  /\ self \in Captured
  /\ certs \in Seq(Captured)
  /\ next \in 1..(Len(certs) + 1)
  /\ remaining \subseteq 1..(next - 1)
  /\ chain \in Seq(Captured)
  /\ \A i, j \in remaining : certs[i] = certs[j] => i = j

(* The chain lists no certificate twice, never the one it was asked about, *)
(* and only certificates that were given.                                  *)
ChainIsSimple ==
  /\ \A i, j \in DOMAIN chain : chain[i] = chain[j] => i = j
  /\ Elements(chain) \subseteq Elements(certs) \ {self}

(* Each certificate of the chain signed the one before it, the first the   *)
(* one the call was asked about; a part of FollowsSignatures, stated for   *)
(* the inductive invariant.                                                *)
ChainIsSigned ==
  \A i \in DOMAIN chain : Signed(IF i = 1 THEN self ELSE chain[i - 1], chain[i])

(* A caller relies on the order it gives certificates in: where two of     *)
(* them could continue the chain, it is the one given first that does.     *)
FirstGivenWins ==
  \A k \in DOMAIN chain, i \in DOMAIN certs :
    LET subject == IF k = 1 THEN self ELSE chain[k - 1]
        used == {self} \cup {chain[m] : m \in 1..(k - 1)}
    IN  certs[i] \notin used /\ Signed(subject, certs[i])
          => \E j \in 1..i : certs[j] = chain[k]

(* Every call returns, whatever cycles of cross-signed certificates it is  *)
(* given.                                                                  *)
ResolveEnds == <>(pc = "returned")

(* The call is a SigningPath over what it was given: in particular it ends *)
(* only when no certificate it was given could continue the chain.         *)
Path == INSTANCE SigningPath WITH
  start <- self, pool <- Elements(certs), path <- chain, ended <- pc = "returned"

FollowsSignatures == Path!PathSpec
=============================================================================

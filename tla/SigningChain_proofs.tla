------------------------ MODULE SigningChain_proofs ------------------------
(***************************************************************************)
(* resolve_signing_chain, for any set of certificates and any number of    *)
(* them given: the chain is simple and signed, and the call follows        *)
(* SigningPath step by step.                                               *)
(***************************************************************************)
EXTENDS SigningChain, TLAPS

(* The inductive invariant.  That the chain stays simple needs to know     *)
(* that what remains is neither in the chain nor the certificate asked     *)
(* about; that it ends only where nothing continues it, that every         *)
(* certificate given so far is asked about, used, or remains.              *)
RemainingUnused ==
  \A i \in remaining : certs[i] # self /\ certs[i] \notin Elements(chain)

RemainingComplete ==
  \A i \in 1..(next - 1) :
    \/ certs[i] = self
    \/ certs[i] \in Elements(chain)
    \/ \E j \in remaining : certs[j] = certs[i]

(* Of equal certificates the first one given is kept.                      *)
RemainingFirst ==
  \A i \in remaining, j \in DOMAIN certs : certs[j] = certs[i] => i <= j

LinkingAfterBuffering ==
  /\ pc = "buffering" => chain = <<>>
  /\ pc # "buffering" => next = Len(certs) + 1

ChainInv ==
  /\ ChainTypeOK
  /\ ChainIsSimple
  /\ ChainIsSigned
  /\ RemainingUnused
  /\ RemainingComplete
  /\ RemainingFirst
  /\ LinkingAfterBuffering
  /\ FirstGivenWins

LEMMA ChainStart == ChainInit => ChainInv
  <1> SUFFICES ASSUME ChainInit PROVE ChainInv
    OBVIOUS
  <1> USE DEF ChainInit
  <1>1. PICK n \in 0..MaxGiven : certs \in [1..n -> Captured]
    OBVIOUS
  <1>2. n \in Nat
    BY CapturedAssumption
  <1>3. certs \in Seq(Captured) /\ Len(certs) = n
    BY <1>1, <1>2
  <1>4. ChainTypeOK
    BY <1>2, <1>3 DEF ChainTypeOK
  <1>5. ChainIsSimple /\ ChainIsSigned /\ RemainingUnused
    BY DEF ChainIsSimple, ChainIsSigned, RemainingUnused, Elements
  <1>6. RemainingComplete /\ RemainingFirst /\ LinkingAfterBuffering /\ FirstGivenWins
    BY DEF RemainingComplete, RemainingFirst, LinkingAfterBuffering, FirstGivenWins
  <1> QED
    BY <1>4, <1>5, <1>6 DEF ChainInv

LEMMA BufferKeeps == ChainInv /\ Buffer => ChainInv'
  <1> SUFFICES ASSUME ChainInv, Buffer PROVE ChainInv'
    OBVIOUS
  <1> USE DEF ChainInv, Buffer
  <1>1. ChainTypeOK'
    BY DEF ChainTypeOK
  <1>2. chain = <<>> /\ chain' = <<>>
    BY DEF LinkingAfterBuffering
  <1>3. ChainIsSimple' /\ ChainIsSigned'
    BY <1>2 DEF ChainIsSimple, ChainIsSigned, Elements
  <1>4. RemainingUnused'
    BY <1>2 DEF RemainingUnused, Elements, ChainTypeOK
  <1>5. RemainingComplete'
    <2> SUFFICES ASSUME NEW i \in 1..(next' - 1)
                 PROVE  \/ certs[i] = self \/ certs[i] \in Elements(chain)
                        \/ \E j \in remaining' : certs[j] = certs[i]
      BY DEF RemainingComplete
    <2>1. CASE i = next
      BY <2>1
    <2>2. CASE i # next
      <3>1. i \in 1..(next - 1)
        BY <2>2 DEF ChainTypeOK
      <3>2. remaining \subseteq remaining'
        OBVIOUS
      <3> QED
        BY <3>1, <3>2 DEF RemainingComplete
    <2> QED
      BY <2>1, <2>2
  <1>6. LinkingAfterBuffering' /\ FirstGivenWins'
    BY <1>2 DEF LinkingAfterBuffering, FirstGivenWins
  <1>7. RemainingFirst'
    <2> SUFFICES ASSUME NEW i \in remaining', NEW j \in DOMAIN certs, certs[j] = certs[i]
                 PROVE  i <= j
      BY DEF RemainingFirst
    <2>1. CASE i \in remaining
      BY <2>1 DEF RemainingFirst
    <2>2. CASE i \notin remaining
      <3>1. i = next /\ certs[i] # self /\ \A k \in remaining : certs[k] # certs[i]
        BY <2>2
      <3>2. certs[i] \notin Elements(chain)
        BY <1>2 DEF Elements
      <3>3. j \notin 1..(next - 1)
        BY <3>1, <3>2 DEF RemainingComplete
      <3> QED
        BY <3>1, <3>3 DEF ChainTypeOK
    <2> QED
      BY <2>1, <2>2
  <1> QED
    BY <1>1, <1>3, <1>4, <1>5, <1>6, <1>7

LEMMA BufferedKeeps == ChainInv /\ Buffered => ChainInv'
  <1> SUFFICES ASSUME ChainInv, Buffered PROVE ChainInv'
    OBVIOUS
  <1>1. next = Len(certs) + 1
    BY DEF ChainInv, ChainTypeOK, Buffered
  <1> QED
    BY <1>1 DEF ChainInv, Buffered, ChainTypeOK, ChainIsSimple, ChainIsSigned, RemainingUnused,
                RemainingComplete, RemainingFirst, LinkingAfterBuffering, FirstGivenWins,
                Elements, Signed

(* Following one issuer. *)
LEMMA LinkKeeps == ChainInv /\ Link => ChainInv'
  <1> SUFFICES ASSUME ChainInv, Link PROVE ChainInv'
    OBVIOUS
  <1> USE DEF ChainInv
  <1>1. PICK k \in First(Candidates) :
          /\ chain' = Append(chain, certs[k])
          /\ remaining' = {j \in remaining : certs[j] # certs[k]}
    BY DEF Link
  <1>2. k \in remaining /\ Signed(LastCertificate, certs[k])
    BY <1>1 DEF First, Candidates
  <1>3. UNCHANGED <<pc, self, certs, next>> /\ pc = "linking"
    BY DEF Link
  <1>4. k \in DOMAIN certs /\ certs[k] \in Captured
    BY <1>2 DEF ChainTypeOK
  <1>5. certs[k] # self /\ certs[k] \notin Elements(chain)
    BY <1>2 DEF RemainingUnused
  <1>6. /\ chain \in Seq(Captured)
        /\ Len(chain') = Len(chain) + 1
        /\ \A i \in DOMAIN chain : chain'[i] = chain[i]
        /\ chain'[Len(chain) + 1] = certs[k]
        /\ DOMAIN chain' = DOMAIN chain \cup {Len(chain) + 1}
    BY <1>1, <1>4 DEF ChainTypeOK
  <1>7. Elements(chain') = Elements(chain) \cup {certs[k]}
    BY <1>6 DEF Elements
  <1>8. ChainTypeOK'
    <2>1. remaining' \subseteq remaining
      BY <1>1
    <2>2. remaining' \subseteq 1..(next - 1) /\ \A i, j \in remaining' : certs[i] = certs[j] => i = j
      BY <2>1 DEF ChainTypeOK
    <2>3. chain' \in Seq(Captured)
      BY <1>1, <1>4, <1>6
    <2> QED
      BY <1>3, <2>2, <2>3 DEF ChainTypeOK
  <1>9. ChainIsSimple'
    <2>1. \A i, j \in DOMAIN chain' : chain'[i] = chain'[j] => i = j
      BY <1>5, <1>6 DEF ChainIsSimple, Elements
    <2>2. Elements(chain') \subseteq Elements(certs) \ {self}
      BY <1>4, <1>5, <1>7 DEF ChainIsSimple, Elements
    <2> QED
      BY <1>3, <2>1, <2>2 DEF ChainIsSimple, Elements
  <1>10. ChainIsSigned'
    <2> SUFFICES ASSUME NEW i \in DOMAIN chain'
                 PROVE  Signed(IF i = 1 THEN self ELSE chain'[i - 1], chain'[i])
      BY <1>3 DEF ChainIsSigned, Signed
    <2>1. CASE i \in DOMAIN chain
      <3>1. i # 1 => i - 1 \in DOMAIN chain
        BY <1>6, <2>1
      <3> QED
        BY <1>6, <2>1, <3>1 DEF ChainIsSigned
    <2>2. CASE i = Len(chain) + 1
      <3>1. (IF i = 1 THEN self ELSE chain'[i - 1]) = LastCertificate
        BY <1>6, <2>2 DEF LastCertificate
      <3> QED
        BY <1>2, <1>6, <2>2, <3>1
    <2> QED
      BY <1>6, <2>1, <2>2
  <1>11. RemainingUnused'
    BY <1>1, <1>3, <1>7 DEF RemainingUnused
  <1>12. RemainingComplete'
    <2> SUFFICES ASSUME NEW i \in 1..(next - 1)
                 PROVE  \/ certs[i] = self \/ certs[i] \in Elements(chain')
                        \/ \E j \in remaining' : certs[j] = certs[i]
      BY <1>3 DEF RemainingComplete
    <2>1. CASE certs[i] = self \/ certs[i] \in Elements(chain) \/ certs[i] = certs[k]
      BY <1>7, <2>1
    <2>2. CASE certs[i] # certs[k] /\ \E j \in remaining : certs[j] = certs[i]
      BY <1>1, <2>2
    <2> QED
      BY <2>1, <2>2 DEF RemainingComplete
  <1>13. LinkingAfterBuffering' /\ RemainingFirst'
    BY <1>1, <1>3 DEF LinkingAfterBuffering, RemainingFirst
  <1>14. FirstGivenWins'
    <2> SUFFICES ASSUME NEW n \in DOMAIN chain', NEW i \in DOMAIN certs,
                        certs[i] # self, \A m \in 1..(n - 1) : certs[i] # chain'[m],
                        Signed(IF n = 1 THEN self ELSE chain'[n - 1], certs[i])
                 PROVE  \E j \in 1..i : certs[j] = chain'[n]
      BY <1>3 DEF FirstGivenWins, Signed
    <2>1. CASE n \in DOMAIN chain
      <3>1. \A m \in 1..(n - 1) : m \in DOMAIN chain /\ chain'[m] = chain[m]
        BY <1>6, <2>1
      <3>2. n # 1 => chain'[n - 1] = chain[n - 1]
        BY <1>6, <2>1, <3>1
      <3> QED
        BY <1>6, <2>1, <3>1, <3>2 DEF FirstGivenWins
    <2>2. CASE n = Len(chain) + 1
      <3>1. (IF n = 1 THEN self ELSE chain'[n - 1]) = LastCertificate
        BY <1>6, <2>2 DEF LastCertificate
      <3>2. certs[i] \notin Elements(chain)
        BY <1>6, <2>2 DEF Elements
      <3>3. i \in 1..(next - 1)
        BY <1>3 DEF LinkingAfterBuffering, ChainTypeOK
      <3>4. PICK j \in remaining : certs[j] = certs[i]
        BY <3>2, <3>3 DEF RemainingComplete
      <3>5. j \in Candidates
        BY <3>1, <3>4 DEF Candidates
      <3>6. k <= j /\ j <= i
        BY <1>1, <3>4, <3>5 DEF First, RemainingFirst
      <3>7. k \in 1..i
        BY <1>2, <3>4, <3>6 DEF ChainTypeOK
      <3> QED
        BY <1>6, <2>2, <3>7
    <2> QED
      BY <1>6, <2>1, <2>2
  <1> QED
    BY <1>8, <1>9, <1>10, <1>11, <1>12, <1>13, <1>14

LEMMA ReturnKeeps == ChainInv /\ (Return \/ UNCHANGED chainVars) => ChainInv'
  <1> SUFFICES ASSUME ChainInv, Return \/ UNCHANGED chainVars PROVE ChainInv'
    OBVIOUS
  <1> USE DEF ChainInv
  <1>1. UNCHANGED <<self, certs, next, remaining, chain>>
    BY DEF Return, chainVars
  <1>2. pc' = pc \/ (pc = "linking" /\ pc' = "returned")
    BY DEF Return, chainVars
  <1>3. ChainTypeOK'
    BY <1>1, <1>2 DEF ChainTypeOK
  <1>4. ChainIsSimple' /\ RemainingUnused' /\ RemainingComplete' /\ RemainingFirst'
    BY <1>1 DEF ChainIsSimple, RemainingUnused, RemainingComplete, RemainingFirst, Elements
  <1>5. ChainIsSigned' /\ FirstGivenWins'
    BY <1>1 DEF ChainIsSigned, FirstGivenWins, Signed
  <1>6. LinkingAfterBuffering'
    BY <1>1, <1>2 DEF LinkingAfterBuffering
  <1> QED
    BY <1>3, <1>4, <1>5, <1>6

(* The invariant holds for every call, with any certificates.              *)
THEOREM ChainInvariant == ChainSpec => []ChainInv
  <1>1. ChainInv /\ [ChainNext]_chainVars => ChainInv'
    BY BufferKeeps, BufferedKeeps, LinkKeeps, ReturnKeeps DEF ChainNext
  <1> QED
    BY ChainStart, <1>1, PTL DEF ChainSpec

(* No certificate is twice among those that resolve_signing_chain still    *)
(* considers, and its positions stay within what it was given.             *)
THEOREM ChainTypeCorrect == ChainSpec => []ChainTypeOK
  <1>1. ChainInv => ChainTypeOK
    BY DEF ChainInv
  <1> QED
    BY ChainInvariant, <1>1, PTL

(* The chain lists no certificate twice and never the one it was asked     *)
(* about, in whatever cycle the certificates sign each other.              *)
THEOREM ChainNeverRepeats == ChainSpec => []ChainIsSimple
  <1>1. ChainInv => ChainIsSimple
    BY DEF ChainInv
  <1> QED
    BY ChainInvariant, <1>1, PTL

(* Each certificate of the chain signed the one before it.                 *)
THEOREM ChainLinksSignatures == ChainSpec => []ChainIsSigned
  <1>1. ChainInv => ChainIsSigned
    BY DEF ChainInv
  <1> QED
    BY ChainInvariant, <1>1, PTL

(* Where several of the certificates given could continue the chain, it is *)
(* the one given first that does.                                          *)
THEOREM ChainTakesFirst == ChainSpec => []FirstGivenWins
  <1>1. ChainInv => FirstGivenWins
    BY DEF ChainInv
  <1> QED
    BY ChainInvariant, <1>1, PTL

----------------------------------------------------------------------------

(* The safety part of FollowsSignatures. *)
FollowsPath == Path!PathInit /\ [][Path!PathNext]_(Path!pathVars)

LEMMA PathStart == ChainInit => Path!PathInit
  <1> SUFFICES ASSUME ChainInit PROVE Path!PathInit
    OBVIOUS
  <1>1. ChainInv
    BY ChainStart
  <1>2. Elements(certs) \subseteq Captured
    BY <1>1 DEF ChainInv, ChainTypeOK, Elements
  <1> QED
    BY <1>2 DEF ChainInit, Path!PathInit

(* Following an issuer extends the path by one of its issuers. *)
LEMMA LinkExtends == ChainInv /\ Link => Path!Extend
  <1> SUFFICES ASSUME ChainInv, Link PROVE Path!Extend
    OBVIOUS
  <1>1. PICK k \in First(Candidates) : chain' = Append(chain, certs[k])
    BY DEF Link
  <1>2. k \in remaining /\ Signed(LastCertificate, certs[k])
    BY <1>1 DEF First, Candidates
  <1>3. k \in DOMAIN certs
    BY <1>2 DEF ChainInv, ChainTypeOK
  <1>4. certs[k] \in Elements(certs)
    BY <1>3 DEF Elements
  <1>5. certs[k] \notin Path!Visited
    BY <1>2 DEF ChainInv, RemainingUnused, Path!Visited, Elements
  <1>6. <<certs[k], Path!Tip>> \in Signatures
    BY <1>2 DEF Signed, Path!Tip, LastCertificate
  <1>7. certs[k] \in Path!Issuers
    BY <1>4, <1>5, <1>6 DEF Path!Issuers
  <1> QED
    BY <1>1, <1>7 DEF Link, Path!Extend

(* The call returns only where no certificate it was given continues.      *)
LEMMA ReturnEnds == ChainInv /\ Return => Path!End
  <1> SUFFICES ASSUME ChainInv, Return PROVE Path!End
    OBVIOUS
  <1>1. SUFFICES ASSUME NEW c \in Path!Issuers PROVE FALSE
    BY DEF Return, Path!End
  <1>2. c \in Elements(certs) /\ c # self /\ c \notin Elements(chain)
    BY DEF Path!Issuers, Path!Visited, Elements
  <1>3. Signed(LastCertificate, c)
    BY DEF Path!Issuers, Path!Tip, Signed, LastCertificate
  <1>4. PICK i \in 1..(next - 1) : certs[i] = c
    BY <1>2 DEF ChainInv, LinkingAfterBuffering, ChainTypeOK, Return, Elements
  <1>5. PICK j \in remaining : certs[j] = c
    BY <1>2, <1>4 DEF ChainInv, RemainingComplete
  <1> QED
    BY <1>3, <1>5 DEF Return, Candidates

(* resolve_signing_chain implements SigningPath: every step extends the    *)
(* path by a certificate that signed the last one, ends it where none is   *)
(* left, or leaves it alone.                                               *)
THEOREM ChainFollowsPath == ChainSpec => FollowsPath
  <1>1. ChainInv /\ [ChainNext]_chainVars => [Path!PathNext]_(Path!pathVars)
    <2> SUFFICES ASSUME ChainInv, [ChainNext]_chainVars
                 PROVE  [Path!PathNext]_(Path!pathVars)
      OBVIOUS
    <2>1. CASE Buffer \/ Buffered \/ UNCHANGED chainVars
      BY <2>1 DEF Buffer, Buffered, chainVars, Path!pathVars, Elements
    <2>2. CASE Link
      BY <2>2, LinkExtends DEF Path!PathNext
    <2>3. CASE Return
      BY <2>3, ReturnEnds DEF Path!PathNext
    <2> QED
      BY <2>1, <2>2, <2>3 DEF ChainNext
  <1> QED
    BY PathStart, ChainInvariant, <1>1, PTL DEF ChainSpec, FollowsPath
=============================================================================

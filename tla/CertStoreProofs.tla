--------------------------- MODULE CertStoreProofs ---------------------------
(***************************************************************************)
(* exit/https.go, for every number of relays and of pairs.  The inductive  *)
(* invariant IInv says how far a start of the node has come: the pair being *)
(* published is the latest, its key is in the file, and the relays before  *)
(* the loop's index have what the loop publishes.                          *)
(***************************************************************************)
EXTENDS CertStore, TLAPS

(* Nothing is newer than the latest pair, and a pair that has not been     *)
(* written to the file is on no relay.                                     *)
CreatedInv ==
  /\ keyFile <= created
  /\ complete \subseteq 0..created
  /\ \A r \in Relays : certificate[r] <= created
  /\ process = "writing" => created # 0
  /\ process \in {"storingCertificate", "storingKey"} => created # 0 /\ keyFile = created

(* The pairs of a complete publication: no relay goes back behind them.    *)
CompleteInv ==
  \A p \in complete : \A r \in Relays : p <= certificate[r] /\ p <= privateKey[r]

(* Where the two loops start, and what they have published.                *)
LoopInv ==
  /\ process \in {"started", "creating", "writing"} => relay = 1
  /\ process = "storingCertificate" =>
       \A r \in Relays : r < relay => certificate[r] = created
  /\ process = "storingKey" =>
       /\ \A r \in Relays : certificate[r] = created
       /\ \A r \in Relays : r < relay => privateKey[r] = created

(* The certificate that was found is on a relay.                           *)
FoundInv ==
  process = "found" => found # 0 /\ \E r \in Relays : certificate[r] = found

IInv ==
  /\ TypeOK
  /\ CreatedInv
  /\ LoopInv
  /\ FoundInv
  /\ KeyAfterCertificate
  /\ KeyFileNotStale
  /\ CompleteInv
  /\ CompletePairKept
  /\ NewPairIsEverywhere

-----------------------------------------------------------------------------
LEMMA InitIInv == Init => IInv
<1> SUFFICES ASSUME Init
             PROVE  IInv
  OBVIOUS
<1>1. 0 \in Pairs /\ 1 \in 1..(NRelays + 1)
  BY CertAssumption DEF Pairs
<1>2. TypeOK
  BY <1>1 DEF Init, TypeOK, Nothing
<1>3. QED
  BY <1>2 DEF Init, IInv, CreatedInv, LoopInv, FoundInv, KeyAfterCertificate, KeyFileNotStale,
              CompleteInv, CompletePairKept, NewPairIsEverywhere

(* Every step of the node, and a crash, preserve the inductive invariant.  *)
LEMMA NextIInv == IInv /\ [Next]_vars => IInv'
<1> SUFFICES ASSUME IInv, [Next]_vars
             PROVE  IInv'
  OBVIOUS
<1> USE CertAssumption
    DEF IInv, TypeOK, CreatedInv, LoopInv, FoundInv, KeyAfterCertificate, KeyFileNotStale,
        CompleteInv, CompletePairKept, NewPairIsEverywhere, Pairs, Relays, Nothing
<1>1. CASE NewExit
  <2>1. /\ 0 \in Pairs /\ 1 \in 1..(NRelays + 1)
        /\ Nothing \in [certificate : Pairs, privateKey : Pairs]
    OBVIOUS
  <2>2. TypeOK'
    BY <1>1, <2>1 DEF NewExit
  <2>3. QED
    BY <1>1, <2>2 DEF NewExit
<1>2. CASE SetConfig
  BY <1>2 DEF SetConfig
<1>3. CASE ConfigIsNil
  BY <1>3 DEF ConfigIsNil, Goto
<1>4. ASSUME NEW c \in Pairs, QueryCertificate(c)
      PROVE  IInv'
  BY <1>4 DEF QueryCertificate, Goto
<1>5. ASSUME NEW k \in Pairs, QueryPrivateKey(k)
      PROVE  IInv'
  <2>1. CASE k = 0
    BY <1>5, <2>1 DEF QueryPrivateKey, Goto
  <2>2. CASE k # 0
    <3>1. PICK r \in Relays, q \in Relays : privateKey[r] = k /\ certificate[q] = found
      BY <1>5, <2>2 DEF QueryPrivateKey, Goto
    <3>2. k \in Nat /\ found \in Nat /\ k <= found
      <4>1. privateKey[r] # 0 => certificate[q] >= privateKey[r]
        BY DEF KeyAfterCertificate
      <4>2. QED
        BY <2>2, <3>1, <4>1
    <3>3. found \in complete => k = found
      BY <3>1, <3>2 DEF CompleteInv
    <3>4. QED
      BY <1>5, <2>2, <3>3 DEF QueryPrivateKey, Goto
  <2>3. QED
    BY <2>1, <2>2
<1>6. CASE CreatePair
  <2>1. created + 1 \in Pairs /\ created \in Nat
    BY <1>6 DEF CreatePair
  <2>2. TypeOK' /\ KeyAfterCertificate' /\ CompleteInv' /\ CompletePairKept' /\ NewPairIsEverywhere'
    BY <1>6, <2>1 DEF CreatePair, Goto
  <2>3. CreatedInv' /\ LoopInv' /\ FoundInv' /\ KeyFileNotStale'
    BY <1>6, <2>1 DEF CreatePair, Goto
  <2>4. QED
    BY <2>2, <2>3
<1>7. CASE WriteKeyFile
  <2>1. /\ process = "writing" /\ process' = "storingCertificate"
        /\ keyFile' = created
        /\ UNCHANGED <<config, found, relay, served, certificate, privateKey, created, complete>>
    BY <1>7 DEF WriteKeyFile, Goto
  <2>2. TypeOK' /\ CreatedInv'
    BY <2>1
  <2>3. LoopInv'
    BY <2>1
  <2>4. QED
    BY <2>1, <2>2, <2>3
<1>8. CASE WriteKeyFileFails
  <2>1. TypeOK' /\ CreatedInv' /\ LoopInv' /\ FoundInv'
    BY <1>8 DEF WriteKeyFileFails, Goto
  <2>2. KeyAfterCertificate' /\ KeyFileNotStale' /\ CompleteInv' /\ CompletePairKept'
        /\ NewPairIsEverywhere'
    BY <1>8 DEF WriteKeyFileFails, Goto
  <2>3. QED
    BY <2>1, <2>2
<1>9. CASE StoreCertificate
  BY <1>9 DEF StoreCertificate
<1>10. CASE StoreCertificateFails
  <2>1. CASE UNCHANGED certificate
    BY <1>10, <2>1 DEF StoreCertificateFails, Goto
  <2>2. CASE certificate' = [certificate EXCEPT ![relay] = created]
    BY <1>10, <2>2 DEF StoreCertificateFails, Goto
  <2>3. QED
    BY <1>10, <2>1, <2>2 DEF StoreCertificateFails
<1>11. CASE CertificateStored
  BY <1>11 DEF CertificateStored, Goto
<1>12. CASE StorePrivateKey
  BY <1>12 DEF StorePrivateKey
<1>13. CASE StorePrivateKeyFails
  <2>1. CASE UNCHANGED privateKey
    BY <1>13, <2>1 DEF StorePrivateKeyFails, Goto
  <2>2. CASE privateKey' = [privateKey EXCEPT ![relay] = created]
    BY <1>13, <2>2 DEF StorePrivateKeyFails, Goto
  <2>3. QED
    BY <1>13, <2>1, <2>2 DEF StorePrivateKeyFails
<1>14. CASE PrivateKeyStored
  <2>1. relay \notin Relays /\ process = "storingKey" /\ relay = NRelays + 1
    BY <1>14 DEF PrivateKeyStored, Goto
  <2>2. \A r \in Relays : certificate[r] = created /\ privateKey[r] = created
    BY <2>1
  <2>3. TypeOK' /\ KeyAfterCertificate' /\ CreatedInv'
    BY <1>14 DEF PrivateKeyStored, Goto
  <2>4. LoopInv' /\ FoundInv' /\ KeyFileNotStale' /\ CompleteInv' /\ CompletePairKept'
    BY <1>14 DEF PrivateKeyStored, Goto
  <2>5. NewPairIsEverywhere'
    BY <1>14, <2>2 DEF PrivateKeyStored, Goto
  <2>6. QED
    BY <2>3, <2>4, <2>5
<1>15. CASE Crash
  BY <1>15 DEF Crash, Gone
<1>16. CASE UNCHANGED vars
  BY <1>16 DEF vars, memory
<1>17. QED
  BY <1>1, <1>2, <1>3, <1>4, <1>5, <1>6, <1>7, <1>8, <1>9, <1>10, <1>11, <1>12, <1>13, <1>14,
     <1>15, <1>16 DEF Next, StartReverseProxy

LEMMA Invariance == SafetySpec => []IInv
  BY InitIInv, NextIInv, PTL DEF SafetySpec

-----------------------------------------------------------------------------
(* The variables of the certificate's life keep their types.               *)
THEOREM TypeCorrect == SafetySpec => []TypeOK
  BY Invariance, PTL DEF IInv

(* For any number of relays, a private key is on a relay only when every   *)
(* relay has a certificate at least as new (https.go:134-141).             *)
THEOREM KeyAfterCertificateHolds == SafetySpec => []KeyAfterCertificate
  BY Invariance, PTL DEF IInv

(* For any number of relays and of pairs: the certificate of a pair that   *)
(* was published to the end is served with its own key only, whatever was  *)
(* interrupted later and whichever relays answered (https.go:27-46,        *)
(* 134-141).                                                               *)
THEOREM CompletePairKeptHolds == SafetySpec => []CompletePairKept
  BY Invariance, PTL DEF IInv

(* No certificate on a relay is newer than a readable key file             *)
(* (https.go:128-134).                                                     *)
THEOREM KeyFileNotStaleHolds == SafetySpec => []KeyFileNotStale
  BY Invariance, PTL DEF IInv

(* A new pair is served only when every relay has all of it                *)
(* (https.go:104-143).                                                     *)
THEOREM NewPairIsEverywhereHolds == SafetySpec => []NewPairIsEverywhere
  BY Invariance, PTL DEF IInv
=============================================================================

------------------------------ MODULE CertStore ------------------------------
(***************************************************************************)
(* The TLS certificate of an exit node with an HTTPS port (exit/https.go,  *)
(* started by NewExit in exit/exit.go).  StartReverseProxy looks for the   *)
(* node's certificate on the relays.  If it finds none, it makes a pair,   *)
(* writes the private key to a file, and publishes first the certificate   *)
(* and then the encrypted private key, each relay by relay.  If it finds   *)
(* one, it asks the relays for the private key.  An error ends the         *)
(* process, which the operator may start again with the same node key.     *)
(*                                                                         *)
(* Pairs are numbered in the order of creation, 0 stands for none.  A      *)
(* relay keeps the latest certificate and the latest key of the node (both *)
(* kinds are replaceable).  What a relay answers is decrypted and decoded  *)
(* without errors: only this node signs for its key.                       *)
(***************************************************************************)
EXTENDS Naturals

CONSTANTS NRelays,   \* relays in the list
          MaxPairs   \* pairs that are created

Relays == 1..NRelays
Pairs == 0..MaxPairs

ASSUME CertAssumption == NRelays \in Nat /\ MaxPairs \in Nat

VARIABLES
  process,      \* the goroutine of StartReverseProxy, or why the node is gone
  config,       \* whether NewExit has assigned exit.config
  found,        \* the certificate StartReverseProxy has found
  relay,        \* the loop over the relays
  served,       \* the certificate and the private key of the HTTPS server
  keyFile,      \* the private key in the file, 0 if missing or truncated
  certificate,  \* the certificate on each relay
  privateKey,   \* the private key on each relay
  created,      \* pairs created so far
  complete      \* history: pairs whose publication ended without an error

memory == <<process, config, found, relay, served>>
vars == <<memory, keyFile, certificate, privateKey, created, complete>>

Nothing == [certificate |-> 0, privateKey |-> 0]

TypeOK ==
  /\ process \in {"down", "started", "found", "creating", "writing", "storingCertificate",
                  "storingKey", "serving", "failed", "noKey"}
  /\ config \in BOOLEAN
  /\ found \in Pairs
  /\ relay \in 1..(NRelays + 1)
  /\ served \in [certificate : Pairs, privateKey : Pairs]
  /\ keyFile \in Pairs
  /\ certificate \in [Relays -> Pairs]
  /\ privateKey \in [Relays -> Pairs]
  /\ created \in Pairs
  /\ complete \subseteq Pairs

Init ==
  /\ process = "down" /\ config = FALSE /\ found = 0 /\ relay = 1 /\ served = Nothing
  /\ keyFile = 0
  /\ certificate = [r \in Relays |-> 0]
  /\ privateKey = [r \in Relays |-> 0]
  /\ created = 0
  /\ complete = {}

Goto(from, to) == process = from /\ process' = to

-----------------------------------------------------------------------------
(* NewExit starts the goroutine of StartReverseProxy and assigns           *)
(* exit.config after that.                                                 *)

Gone == process \in {"down", "failed", "noKey"}

NewExit ==
  /\ Gone
  /\ process' = "started"
  /\ config' = FALSE /\ found' = 0 /\ relay' = 1 /\ served' = Nothing
  /\ UNCHANGED <<keyFile, certificate, privateKey, created, complete>>

SetConfig ==
  /\ ~ Gone /\ ~ config
  /\ config' = TRUE
  /\ UNCHANGED <<process, found, relay, served, keyFile, certificate, privateKey, created,
                 complete>>

(* The goroutine runs before the assignment: e.config is nil.              *)
ConfigIsNil ==
  /\ ~ config
  /\ Goto("started", "failed")
  /\ UNCHANGED <<config, found, relay, served, keyFile, certificate, privateKey, created, complete>>

-----------------------------------------------------------------------------
(* StartReverseProxy.  QuerySingle returns the event of the relay that     *)
(* answers first, or nil if none that can be reached has one.              *)

QueryCertificate(c) ==
  /\ config
  /\ c \in {certificate[r] : r \in Relays} \cup {0}
  /\ Goto("started", IF c = 0 THEN "creating" ELSE "found")
  /\ found' = c
  /\ UNCHANGED <<config, relay, served, keyFile, certificate, privateKey, created, complete>>

(* Variant of QueryPrivateKey that starts over when there is no key.       *)
QueryPrivateKeyAgain(k) ==
  /\ k \in {privateKey[r] : r \in Relays} \cup {0}
  /\ Goto("found", IF k = 0 THEN "started" ELSE "serving")
  /\ served' = IF k = 0 THEN Nothing ELSE [certificate |-> found, privateKey |-> k]
  /\ UNCHANGED <<config, found, relay, keyFile, certificate, privateKey, created, complete>>

(* Certificate and key are put together without comparing them.            *)
QueryPrivateKey(k) ==
  /\ k \in {privateKey[r] : r \in Relays} \cup {0}
  /\ Goto("found", IF k = 0 THEN "noKey" ELSE "serving")
  /\ served' = IF k = 0 THEN Nothing ELSE [certificate |-> found, privateKey |-> k]
  /\ UNCHANGED <<config, found, relay, keyFile, certificate, privateKey, created, complete>>

-----------------------------------------------------------------------------
(* createAndStoreCertificateData.                                          *)

CreatePair ==
  /\ created < MaxPairs
  /\ Goto("creating", "writing")
  /\ created' = created + 1
  /\ UNCHANGED <<config, found, relay, served, keyFile, certificate, privateKey, complete>>

(* Variant of WriteKeyFile that does not replace a file that exists.       *)
WriteKeyFileOnce ==
  /\ Goto("writing", "storingCertificate")
  /\ keyFile' = IF keyFile = 0 THEN created ELSE keyFile
  /\ UNCHANGED <<config, found, relay, served, certificate, privateKey, created, complete>>

WriteKeyFile ==
  /\ Goto("writing", "storingCertificate")
  /\ keyFile' = created
  /\ UNCHANGED <<config, found, relay, served, certificate, privateKey, created, complete>>

(* os.WriteFile fails, or the process is killed, between truncating the    *)
(* file and writing it.                                                    *)
WriteKeyFileFails ==
  /\ Goto("writing", "failed")
  /\ keyFile' = 0
  /\ UNCHANGED <<config, found, relay, served, certificate, privateKey, created, complete>>

(* Variant of StoreCertificate that publishes the key in the same loop.    *)
StoreBoth ==
  /\ process = "storingCertificate" /\ relay \in Relays
  /\ certificate' = [certificate EXCEPT ![relay] = created]
  /\ privateKey' = [privateKey EXCEPT ![relay] = created]
  /\ relay' = relay + 1
  /\ UNCHANGED <<process, config, found, served, keyFile, created, complete>>

(* storeCertificate: the next relay of the list.                           *)
StoreCertificate ==
  /\ process = "storingCertificate" /\ relay \in Relays
  /\ certificate' = [certificate EXCEPT ![relay] = created]
  /\ relay' = relay + 1
  /\ UNCHANGED <<process, config, found, served, keyFile, privateKey, created, complete>>

(* EnsureRelay or Publish fails; of Publish perhaps only the reply.        *)
StoreCertificateFails ==
  /\ relay \in Relays
  /\ Goto("storingCertificate", "failed")
  /\ certificate' \in {certificate, [certificate EXCEPT ![relay] = created]}
  /\ UNCHANGED <<config, found, relay, served, keyFile, privateKey, created, complete>>

CertificateStored ==
  /\ relay \notin Relays
  /\ Goto("storingCertificate", "storingKey")
  /\ relay' = 1
  /\ UNCHANGED <<config, found, served, keyFile, certificate, privateKey, created, complete>>

(* Variant of StorePrivateKey whose loop goes one relay too far.           *)
StorePrivateKeyPastEnd ==
  /\ process = "storingKey" /\ relay <= NRelays + 1
  /\ privateKey' = [privateKey EXCEPT ![relay] = created]
  /\ relay' = relay + 1
  /\ UNCHANGED <<process, config, found, served, keyFile, certificate, created, complete>>

(* Variant of StorePrivateKey that goes on when a relay refuses the key.   *)
StorePrivateKeySkips ==
  /\ process = "storingKey" /\ relay \in Relays
  /\ privateKey' \in {privateKey, [privateKey EXCEPT ![relay] = created]}
  /\ relay' = relay + 1
  /\ UNCHANGED <<process, config, found, served, keyFile, certificate, created, complete>>

(* storePrivateKey: the next relay of the list.                            *)
StorePrivateKey ==
  /\ process = "storingKey" /\ relay \in Relays
  /\ privateKey' = [privateKey EXCEPT ![relay] = created]
  /\ relay' = relay + 1
  /\ UNCHANGED <<process, config, found, served, keyFile, certificate, created, complete>>

StorePrivateKeyFails ==
  /\ relay \in Relays
  /\ Goto("storingKey", "failed")
  /\ privateKey' \in {privateKey, [privateKey EXCEPT ![relay] = created]}
  /\ UNCHANGED <<config, found, relay, served, keyFile, certificate, created, complete>>

PrivateKeyStored ==
  /\ relay \notin Relays
  /\ Goto("storingKey", "serving")
  /\ served' = [certificate |-> created, privateKey |-> created]
  /\ complete' = complete \cup {created}
  /\ UNCHANGED <<config, found, relay, keyFile, certificate, privateKey, created>>

-----------------------------------------------------------------------------
(* The process is killed, or ListenAndServeTLS fails.                      *)
Crash ==
  /\ ~ Gone
  /\ process' = "down"
  /\ UNCHANGED <<config, found, relay, served, keyFile, certificate, privateKey, created, complete>>

StartReverseProxy ==
  \/ ConfigIsNil
  \/ \E c \in Pairs : QueryCertificate(c)
  \/ \E k \in Pairs : QueryPrivateKey(k)
  \/ CreatePair \/ WriteKeyFile \/ WriteKeyFileFails
  \/ StoreCertificate \/ StoreCertificateFails \/ CertificateStored
  \/ StorePrivateKey \/ StorePrivateKeyFails \/ PrivateKeyStored

Next == NewExit \/ SetConfig \/ StartReverseProxy \/ Crash

SafetySpec == Init /\ [][Next]_vars

(* The two goroutines go on; queries and publications return.              *)
Fairness == WF_vars(SetConfig) /\ WF_vars(StartReverseProxy)

Spec == SafetySpec /\ Fairness

-----------------------------------------------------------------------------
(* A relay that has a private key means that every relay has a certificate *)
(* at least as new: whatever crashes and failures interrupt the node, the  *)
(* key is published after the certificate is everywhere (https.go:134-141).*)
KeyAfterCertificate ==
  \A r, q \in Relays : privateKey[r] # 0 => certificate[q] >= privateKey[r]

(* A pair that was published to the end stays usable: its certificate,     *)
(* from whichever relay it is read, is never served with the key of        *)
(* another pair, however many later publications were interrupted, and     *)
(* from whichever relay the key is read (https.go:27-46, 134-141).  A      *)
(* certificate whose own publication was interrupted is not promised that: *)
(* the key that is found for it may be the one of an earlier pair.         *)
CompletePairKept ==
  (process = "serving" /\ served.certificate \in complete) =>
    served.privateKey = served.certificate

(* Unless it is truncated, the key file is at least as new as every        *)
(* certificate on a relay: no published certificate is without its key     *)
(* because the file was not yet written (https.go:128-134).                *)
KeyFileNotStale ==
  keyFile # 0 => \A r \in Relays : certificate[r] <= keyFile

(* A new pair is only served once every relay has both halves of it: the   *)
(* next start, whichever relay answers it, finds the pair that clients     *)
(* have seen (https.go:104-143).                                           *)
NewPairIsEverywhere ==
  (process = "serving" /\ found = 0) =>
    \A r \in Relays : certificate[r] = served.certificate /\ privateKey[r] = served.privateKey

(* Every start ends: with a server or with the end of the process (the     *)
(* last disjunct is the bound on the pairs): no relay's answer makes the   *)
(* node go round in circles (https.go:25-102).                             *)
StartEnds ==
  process = "started" ~> process = "serving" \/ Gone \/ created = MaxPairs

(* What the comment in StartReverseProxy says and the code does not do:    *)
(* for a certificate it has found, the private key is loaded from the file *)
(* (https.go:41).  So a node whose file has a key does not give up because *)
(* there is no key.                                                        *)
KeyLoadedFromFile == process = "noKey" => keyFile = 0
=============================================================================

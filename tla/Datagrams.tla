------------------------------ MODULE Datagrams ------------------------------
(***************************************************************************)
(* What the exit node really gives a backend connection: not the byte      *)
(* stream of TCP but datagrams.  Each connection receives events of its    *)
(* own key only, only after they were offered by a relay, each at most     *)
(* once however often the relays repeat it, in any order, and none after   *)
(* the connection is closed.  ExitNode is shown to implement this.         *)
(***************************************************************************)
EXTENDS Naturals, Sequences, Functions

CONSTANTS Conns,    \* connections: records with a field key
          Events    \* events: records with a field key

VARIABLES offered,  \* the events that relays have handed to the exit node
          got,      \* for each connection, the events it received, in order
          closed    \* the connections that are closed

datagramVars == <<offered, got, closed>>

DatagramInit ==
  /\ offered = {}
  /\ got = [c \in Conns |-> <<>>]
  /\ closed = {}

Offer(e) ==
  /\ offered' = offered \cup {e}
  /\ UNCHANGED <<got, closed>>

Deliver(c, e) ==
  /\ e \in offered
  /\ e.key = c.key
  /\ c \notin closed
  /\ e \notin Range(got[c])
  /\ got' = [got EXCEPT ![c] = Append(@, e)]
  /\ UNCHANGED <<offered, closed>>

Close(c) ==
  /\ closed' = closed \cup {c}
  /\ UNCHANGED <<offered, got>>

DatagramNext ==
  \/ \E e \in Events : Offer(e)
  \/ \E c \in Conns : Close(c)
  \/ \E c \in Conns, e \in Events : Deliver(c, e)

DatagramSpec == DatagramInit /\ [][DatagramNext]_datagramVars
=============================================================================

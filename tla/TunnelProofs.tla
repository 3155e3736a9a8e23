---------------------------- MODULE TunnelProofs ----------------------------
(***************************************************************************)
(* Both nodes of a connection, for every number of relays, chunks, replies,*)
(* copies and seconds: each node runs as its own module says, so that the  *)
(* theorems about it hold here too; what a backend receives was sent by    *)
(* the client, and what a backend answers passes the filter of the entry   *)
(* node's subscription.                                                    *)
(*                                                                         *)
(* The link between the nodes is SentInv: the exit node handles no chunk   *)
(* that the client has not sent.  Hence a backend that has received data   *)
(* speaks after the filter was made (HeardInv).                            *)
(***************************************************************************)
EXTENDS Tunnel, TLAPS

(* The components with what is proved about them.                          *)
EntryP == INSTANCE EntryConnProofs WITH MaxCopies <- EntryCopies

ExitP == INSTANCE ExitNodeProofs
           WITH Keys <- {Key}, Unparsable <- {}, MaxData <- MaxOut, MaxCopies <- ExitCopies,
                readIDs <- exitReadIDs, buffer <- exitBuffer,
                ctxDone <- exitCtxDone, sock <- exitSock

HistoryType ==
  /\ heard \in [Exit!Conns -> BOOLEAN]
  /\ answers \subseteq Entry!Replies
  /\ \A n \in answers : Entry!Published(n)

SentInv == \A h \in Exit!Handlers : handler[h] # "none" => h.event.seq <= sent

HeardInv == \A c \in Exit!Conns : heard[c] => since # NoSub

IInv ==
  /\ EntryP!IInv
  /\ ExitP!IInv
  /\ HistoryType
  /\ SentInv
  /\ HeardInv
  /\ AnswersPassFilter

-----------------------------------------------------------------------------
(* What the components assume of their constants, Tunnel assumes.          *)
LEMMA Assumptions == EntryP!EntryAssumption /\ ExitP!ExitAssumption
BY TunnelAssumption DEF TunnelAssumption, EntryP!EntryAssumption, ExitP!ExitAssumption,
   ExitP!Conns, ExitP!Copies

(* Entry and EntryP, Exit and ExitP are instances of one module: their     *)
(* definitions are the same.                                               *)
LEMMA SameEntry ==
  /\ Entry!Init <=> EntryP!Init
  /\ UNCHANGED Entry!vars <=> UNCHANGED EntryP!vars
  /\ Entry!Replies = EntryP!Replies /\ Entry!Relays = EntryP!Relays
  /\ \A n : Entry!InFilter(n) <=> EntryP!InFilter(n)
  /\ \A n, r, kept : Entry!BackendReplies(n, r, kept) <=> EntryP!BackendReplies(n, r, kept)
  /\ Entry!Next <=> EntryP!Next
<1> USE DEF Entry!upVars, EntryP!upVars, Entry!downVars, EntryP!downVars,
       Entry!helperVars, EntryP!helperVars, Entry!closeVars, EntryP!closeVars,
       Entry!outsideVars, EntryP!outsideVars, Entry!vars, EntryP!vars,
       Entry!Replies, EntryP!Replies, Entry!Relays, EntryP!Relays
<1>1. Entry!Main <=> EntryP!Main
  BY DEF Entry!Main, EntryP!Main, Entry!DialPublishes, EntryP!DialPublishes,
       Entry!DialSkips, EntryP!DialSkips, Entry!DialFails, EntryP!DialFails,
       Entry!ReplySuccess, EntryP!ReplySuccess, Entry!ReplyFails, EntryP!ReplyFails,
       Entry!Return, EntryP!Return
<1>2. Entry!Up <=> EntryP!Up
  BY DEF Entry!Up, EntryP!Up, Entry!WriteStarts, EntryP!WriteStarts, Entry!Subscribe,
       EntryP!Subscribe, Entry!WritePublishes, EntryP!WritePublishes,
       Entry!WriteFails, EntryP!WriteFails, Entry!WriteReturns, EntryP!WriteReturns,
       Entry!ReadClientEnds, EntryP!ReadClientEnds, Entry!CloseBoth,
       EntryP!CloseBoth
<1>3. Entry!Down <=> EntryP!Down
  BY DEF Entry!Down, EntryP!Down, Entry!Read, EntryP!Read, Entry!Offered,
       EntryP!Offered, Entry!Matches, EntryP!Matches, Entry!InFilter, EntryP!InFilter,
       Entry!Published,
       EntryP!Published, Entry!HandOver, EntryP!HandOver, Entry!TakeReply,
       EntryP!TakeReply, Entry!ReadCancelled, EntryP!ReadCancelled,
       Entry!WriteClient, EntryP!WriteClient, Entry!WriteClientFails,
       EntryP!WriteClientFails, Entry!CloseBoth, EntryP!CloseBoth
<1>4. Entry!Helper <=> EntryP!Helper
  BY DEF Entry!Helper, EntryP!Helper, Entry!HelperSelects, EntryP!HelperSelects,
       Entry!HelperCancelled, EntryP!HelperCancelled, Entry!HelperTakes,
       EntryP!HelperTakes, Entry!Offered, EntryP!Offered, Entry!Matches,
       EntryP!Matches, Entry!InFilter, EntryP!InFilter, Entry!Published,
       EntryP!Published, Entry!HandOver, EntryP!HandOver
<1>5. \A n, r, kept : Entry!BackendReplies(n, r, kept) <=> EntryP!BackendReplies(n, r, kept)
  BY DEF Entry!BackendReplies, EntryP!BackendReplies, Entry!Published,
       EntryP!Published
<1>6. Entry!Outside <=> EntryP!Outside
  BY <1>5 DEF Entry!Outside, EntryP!Outside, Entry!ClientCloses, EntryP!ClientCloses,
       Entry!Tick, EntryP!Tick, Entry!SubscribesAt, EntryP!SubscribesAt
<1>7. \A n : Entry!InFilter(n) <=> EntryP!InFilter(n)
  BY DEF Entry!InFilter, EntryP!InFilter
<1>8. Entry!Init <=> EntryP!Init
  BY DEF Entry!Init, EntryP!Init
<1>9. Entry!Next <=> EntryP!Next
  BY <1>1, <1>2, <1>3, <1>4, <1>6 DEF Entry!Next, EntryP!Next
<1>10. UNCHANGED Entry!vars <=> UNCHANGED EntryP!vars
  OBVIOUS
<1> QED
  BY <1>5, <1>7, <1>8, <1>9, <1>10

LEMMA SameReply ==
  ASSUME NEW n
  PROVE  /\ Entry!InFilter(n)' <=> EntryP!InFilter(n)'
         /\ Entry!Published(n) <=> EntryP!Published(n)
         /\ Entry!Published(n)' <=> EntryP!Published(n)'
BY DEF Entry!InFilter, EntryP!InFilter, Entry!Published, EntryP!Published

LEMMA SameDatagram ==
  [EntryP!Datagram!DatagramNext]_(EntryP!Datagram!datagramVars)
    => [Entry!Datagram!DatagramNext]_(Entry!Datagram!datagramVars)
BY DEF Entry!Datagram!DatagramNext, EntryP!Datagram!DatagramNext,
       Entry!Datagram!Offer, EntryP!Datagram!Offer, Entry!Datagram!Close,
       EntryP!Datagram!Close, Entry!Datagram!Deliver, EntryP!Datagram!Deliver,
       Entry!Datagram!Range, EntryP!Datagram!Range, Entry!Datagram!datagramVars,
       EntryP!Datagram!datagramVars,
       Entry!ReplyEvent, EntryP!ReplyEvent, Entry!ThisConn, EntryP!ThisConn,
       Entry!Replies, EntryP!Replies, Entry!Published, EntryP!Published

LEMMA SameExit ==
  /\ Exit!Init <=> ExitP!Init
  /\ UNCHANGED Exit!vars <=> UNCHANGED ExitP!vars
  /\ Exit!Handlers = ExitP!Handlers /\ Exit!Conns = ExitP!Conns
  /\ \A h : Exit!ReceiveEvent(h) <=> ExitP!ReceiveEvent(h)
  /\ Exit!Next <=> ExitP!Next
<1> USE DEF Exit!vars, ExitP!vars, Exit!connVars, ExitP!connVars, Exit!handlerVars,
       ExitP!handlerVars, Exit!Handlers, ExitP!Handlers, Exit!Conns, ExitP!Conns,
       Exit!Events, ExitP!Events, Exit!Copies, ExitP!Copies, Exit!Goto, ExitP!Goto,
       Exit!ConnOf, ExitP!ConnOf
<1>1. \A h : Exit!ReceiveEvent(h) <=> ExitP!ReceiveEvent(h)
  BY DEF Exit!ReceiveEvent, ExitP!ReceiveEvent, Exit!Precedes, ExitP!Precedes
<1>2. \A h : Exit!Handler(h) <=> ExitP!Handler(h)
  BY DEF Exit!Handler, ExitP!Handler, Exit!DecodeMessage, ExitP!DecodeMessage,
       Exit!LockKey, ExitP!LockKey, Exit!HoldsLock, ExitP!HoldsLock, Exit!DialFails,
       ExitP!DialFails, Exit!DialSucceeds, ExitP!DialSucceeds, Exit!LoadConnection,
       ExitP!LoadConnection, Exit!WriteNostrEvent, ExitP!WriteNostrEvent,
       Exit!TakeEvent, ExitP!TakeEvent
<1>3. \A c : Exit!Reader(c) <=> ExitP!Reader(c)
  BY DEF Exit!Reader, ExitP!Reader, Exit!ReadCancelled, ExitP!ReadCancelled,
       Exit!WriteBackend, ExitP!WriteBackend, Exit!WriteBackendFails,
       ExitP!WriteBackendFails, Exit!EndReader, ExitP!EndReader, Exit!CloseBoth,
       ExitP!CloseBoth
<1>4. \A c : Exit!Writer(c) <=> ExitP!Writer(c)
  BY DEF Exit!Writer, ExitP!Writer, Exit!ReadBackend, ExitP!ReadBackend,
       Exit!ReadBackendEnds, ExitP!ReadBackendEnds, Exit!Publish, ExitP!Publish,
       Exit!PublishFails, ExitP!PublishFails, Exit!EndWriter, ExitP!EndWriter,
       Exit!CloseBoth, ExitP!CloseBoth
<1>5. \A c : Exit!BackendCloses(c) <=> ExitP!BackendCloses(c)
  BY DEF Exit!BackendCloses, ExitP!BackendCloses
<1>6. Exit!Init <=> ExitP!Init
  BY DEF Exit!Init, ExitP!Init
<1> QED
  BY <1>1, <1>2, <1>3, <1>4, <1>5, <1>6 DEF Exit!Next, ExitP!Next

-----------------------------------------------------------------------------
(* A step of the tunnel is, for each node, a step of that node or none.    *)
LEMMA EntryNodeSteps == [Next]_vars => [Entry!Next]_(Entry!vars)
<1> USE DEF Entry!vars, Entry!upVars, Entry!downVars, Entry!helperVars, Entry!closeVars,
       Entry!outsideVars, entryVars
<1>1. ASSUME EntryStep
      PROVE  Entry!Next
  BY <1>1 DEF EntryStep, Entry!Next, Entry!Outside
<1>2. ASSUME NEW c \in Exit!Conns, NEW n \in Entry!Replies, NEW r \in Entry!Relays,
             NEW kept \in BOOLEAN, PublishReply(c, n, r, kept)
      PROVE  Entry!Next
  BY <1>2 DEF PublishReply, Entry!Next, Entry!Outside
<1>3. CASE ExitStep \/ \E c \in Exit!Conns : ReadBackend(c)
  BY <1>3 DEF ExitStep, ReadBackend
<1>4. CASE \E h \in Exit!Handlers : HandOver(h)
  BY <1>4 DEF HandOver
<1>5. CASE UNCHANGED vars
  BY <1>5 DEF vars
<1> QED
  BY <1>1, <1>2, <1>3, <1>4, <1>5 DEF Next

LEMMA ExitNodeSteps == [Next]_vars => [Exit!Next]_(Exit!vars)
<1> USE DEF Exit!vars, exitVars
<1>1. CASE EntryStep
  BY <1>1 DEF EntryStep
<1>2. ASSUME NEW c \in Exit!Conns, NEW n \in Entry!Replies, NEW r \in Entry!Relays,
             NEW kept \in BOOLEAN, PublishReply(c, n, r, kept)
      PROVE  Exit!Next
  BY <1>2 DEF PublishReply, Exit!Next, Exit!Writer
<1>3. ASSUME NEW c \in Exit!Conns, ReadBackend(c)
      PROVE  Exit!Next
  BY <1>3 DEF ReadBackend, Exit!Next, Exit!Writer
<1>4. CASE ExitStep
  BY <1>4 DEF ExitStep, Exit!Next, Exit!Writer
<1>5. CASE \E h \in Exit!Handlers : HandOver(h)
  BY <1>5 DEF HandOver, Exit!Next
<1>6. CASE UNCHANGED vars
  BY <1>6 DEF vars
<1> QED
  BY <1>1, <1>2, <1>3, <1>4, <1>5, <1>6 DEF Next

(* Every behaviour of the two nodes together is one of the entry node and  *)
(* one of the exit node: what EntryConnProofs and ExitNodeProofs show of   *)
(* a node alone (conn.go, exit.go) holds when they are connected.          *)
THEOREM NodesRunAsSpecified == SafetySpec => Entry!SafetySpec /\ Exit!SafetySpec
<1>1. Init => Entry!Init /\ Exit!Init
  BY DEF Init
<1> QED
  BY <1>1, EntryNodeSteps, ExitNodeSteps, PTL DEF SafetySpec, Entry!SafetySpec, Exit!SafetySpec

-----------------------------------------------------------------------------
LEMMA InitIInv == Init => IInv
<1> SUFFICES ASSUME Init
             PROVE  IInv
  OBVIOUS
<1>1. EntryP!IInv /\ ExitP!IInv
  BY Assumptions, SameEntry, SameExit, EntryP!InitIInv, ExitP!InitIInv DEF Init
<1>2. HistoryType /\ SentInv /\ HeardInv /\ AnswersPassFilter
  BY DEF Init, HistoryType, SentInv, HeardInv, AnswersPassFilter, Exit!Init
<1> QED
  BY <1>1, <1>2 DEF IInv

LEMMA NodesPreserve ==
  ASSUME IInv, [Next]_vars
  PROVE  EntryP!IInv' /\ ExitP!IInv'
<1>1. [EntryP!Next]_(EntryP!vars) /\ [ExitP!Next]_(ExitP!vars)
  BY EntryNodeSteps, ExitNodeSteps, SameEntry, SameExit
<1> QED
  BY <1>1, Assumptions, EntryP!NextIInv, ExitP!NextIInv DEF IInv

(* What the entry node's steps leave of the client's side.                 *)
LEMMA SentGrows ==
  ASSUME IInv, [Next]_vars
  PROVE  /\ sent \in Nat /\ sent' \in Nat /\ sent' \in {sent, sent + 1}
         /\ since # NoSub => since' # NoSub
<1>1. [EntryP!Next]_(EntryP!vars)
  BY EntryNodeSteps, SameEntry
<1>2. sent \in Nat /\ sent' \in Nat
  BY NodesPreserve, Assumptions DEF IInv, EntryP!IInv, EntryP!TypeOK, EntryP!EntryAssumption
<1>3. since # NoSub => since' # NoSub
  BY <1>1, Assumptions, EntryP!SinceStep DEF IInv
<1>4. sent' = sent \/ sent' = sent + 1
  <2> USE DEF EntryP!upVars
  <2>1. CASE EntryP!Up
    BY <2>1 DEF EntryP!Up, EntryP!WriteStarts, EntryP!WritePublishes, EntryP!WriteFails,
                EntryP!WriteReturns, EntryP!ReadClientEnds
  <2>2. CASE EntryP!Main
    BY <2>2 DEF EntryP!Main, EntryP!DialPublishes, EntryP!DialSkips, EntryP!DialFails,
                EntryP!ReplySuccess, EntryP!ReplyFails, EntryP!Return
  <2>3. CASE EntryP!Down
    BY <2>3 DEF EntryP!Down, EntryP!Read, EntryP!ReadCancelled, EntryP!WriteClient,
                EntryP!WriteClientFails
  <2>4. CASE EntryP!Helper \/ EntryP!Outside
    BY <2>4 DEF EntryP!Helper, EntryP!HelperSelects, EntryP!HelperTakes,
                EntryP!HelperCancelled, EntryP!Outside, EntryP!ClientCloses,
                EntryP!BackendReplies, EntryP!SubscribesAt, EntryP!Tick
  <2>5. CASE UNCHANGED EntryP!vars
    BY <2>5 DEF EntryP!vars
  <2> QED
    BY <1>1, <2>1, <2>2, <2>3, <2>4, <2>5 DEF EntryP!Next
<1> QED
  BY <1>2, <1>3, <1>4

(* A relay has only what the client has sent.                              *)
LEMMA OnRelayWasSent ==
  ASSUME IInv, NEW h \in Exit!Handlers, OnRelay(h.event)
  PROVE  h.event.seq <= sent
<1>1. sent \in Nat
  BY Assumptions DEF IInv, EntryP!IInv, EntryP!TypeOK, EntryP!EntryAssumption
<1>2. CASE h.event.seq = 0
  BY <1>1, <1>2
<1>3. CASE h.event.seq # 0
  <2>1. PICK r \in EntryP!Relays : h.event.seq \in Range(log[r])
    BY <1>3, SameEntry DEF OnRelay
  <2>2. log[r] \in Seq(1..MaxOut) /\ Len(log[r]) \in Nat
    BY <2>1 DEF IInv, EntryP!IInv, EntryP!TypeOK
  <2>3. Len(log[r]) <= sent
    <3>1. CASE up = "none"
      BY <1>1, <2>2, <3>1 DEF IInv, EntryP!IInv, EntryP!LoopInv
    <3>2. CASE up # "none"
      BY <1>1, <3>2 DEF IInv, EntryP!IInv, EntryP!LoopInv, EntryP!Stored
    <3> QED
      BY <3>1, <3>2
  <2>4. PICK i \in 1..Len(log[r]) : h.event.seq = log[r][i]
    BY <2>1, <2>2 DEF Range
  <2>5. log[r] = [j \in 1..Len(log[r]) |-> j]
    BY DEF IInv, EntryP!IInv, EntryP!LoopInv
  <2> QED
    BY <1>1, <2>2, <2>3, <2>4, <2>5
<1> QED
  BY <1>2, <1>3

(* A handler starts with the event that a relay hands over.                *)
LEMMA OnlyHandOverStarts ==
  ASSUME IInv, [Next]_vars, NEW g \in Exit!Handlers, handler[g] = "none", handler'[g] # "none"
  PROVE  HandOver(g)
<1> USE SameExit DEF ExitP!connVars, ExitP!handlerVars
<1>1. handler \in [Exit!Handlers -> {"none", "started", "waiting", "locked", "sending", "returned"}]
  BY DEF IInv, ExitP!IInv, ExitP!TypeOK
<1>2. ASSUME NEW h \in Exit!Handlers, Exit!Handler(h)
      PROVE  FALSE
  <2>1. \E from \in {"started", "waiting", "locked", "sending"},
           to \in {"waiting", "locked", "sending", "returned"} :
          handler[h] = from /\ handler' = [handler EXCEPT ![h] = to]
    BY <1>2 DEF Exit!Handler, Exit!DecodeMessage, Exit!LockKey, Exit!DialFails,
         Exit!DialSucceeds, Exit!LoadConnection, Exit!WriteNostrEvent, Exit!Goto
  <2> QED
    BY <1>1, <2>1
<1>3. ASSUME NEW h \in Exit!Handlers, HandOver(h)
      PROVE  h = g
  BY <1>1, <1>3 DEF HandOver, Exit!ReceiveEvent, Exit!Goto
<1>4. CASE EntryStep
  BY <1>4 DEF EntryStep, exitVars
<1>5. CASE \/ ExitStep /\ \A h \in Exit!Handlers : ~ Exit!Handler(h)
           \/ \E c \in Exit!Conns : ReadBackend(c)
           \/ \E c \in Exit!Conns, n \in Entry!Replies, r \in Entry!Relays, kept \in BOOLEAN :
                PublishReply(c, n, r, kept)
  BY <1>5 DEF ExitStep, ReadBackend, PublishReply, Exit!Reader, Exit!ReadCancelled,
       Exit!WriteBackend, Exit!WriteBackendFails, Exit!ReadBackend, Exit!ReadBackendEnds,
       Exit!Publish, Exit!PublishFails, Exit!BackendCloses, Exit!handlerVars
<1>6. CASE UNCHANGED vars
  BY <1>6 DEF vars, exitVars
<1> QED
  BY <1>2, <1>3, <1>4, <1>5, <1>6 DEF Next, ExitStep

LEMMA SentStep ==
  ASSUME IInv, [Next]_vars
  PROVE  SentInv'
<1> SUFFICES ASSUME NEW h \in Exit!Handlers, handler'[h] # "none"
             PROVE  h.event.seq <= sent'
  BY DEF SentInv
<1>1. h.event.seq <= sent
  <2>1. CASE handler[h] = "none"
    BY <2>1, OnlyHandOverStarts, OnRelayWasSent DEF HandOver
  <2>2. CASE handler[h] # "none"
    BY <2>2 DEF IInv, SentInv
  <2> QED
    BY <2>1, <2>2
<1>2. h.event.seq \in Nat
  BY DEF Exit!Handlers, Exit!Events
<1> QED
  BY <1>1, <1>2, SentGrows

(* A backend that has received data has received a chunk of the client,    *)
(* which left the entry node after the filter was made.                    *)
LEMMA DataAfterSubscription ==
  ASSUME IInv, NEW c \in Exit!Conns, delivered[c] # <<>>
  PROVE  since # NoSub
<1>1. delivered[c] \in Seq(ExitP!Events)
  BY SameExit DEF IInv, ExitP!IInv, ExitP!TypeOK
<1>2. delivered[c][1] \in Range(delivered[c])
  BY <1>1 DEF Range
<1>3. PICK h \in ExitP!Handlers : h.event = delivered[c][1] /\ ExitP!Received(h) /\ h.event.seq # 0
  <2>1. c \in ExitP!Conns /\ ExitP!ReadInv
    BY SameExit DEF IInv, ExitP!IInv
  <2>2. delivered[c][1] \in exitReadIDs[c]
    BY <1>2, <2>1 DEF ExitP!ReadInv, ExitP!Range, Range
  <2> QED
    BY <2>1, <2>2 DEF ExitP!ReadInv
<1>4. h.event.seq \in Nat /\ h.event.seq <= sent
  BY <1>3, SameExit DEF IInv, SentInv, ExitP!Received, ExitP!Handlers, ExitP!Events
<1>5. sent > 0
  <2>1. sent \in 0..MaxOut /\ MaxOut \in Nat
    BY Assumptions DEF IInv, EntryP!IInv, EntryP!TypeOK, EntryP!EntryAssumption
  <2> QED
    BY <1>3, <1>4, <2>1
<1> QED
  BY <1>5 DEF IInv, EntryP!IInv, EntryP!SinceInv

LEMMA HistoryStep ==
  ASSUME IInv, [Next]_vars
  PROVE  HistoryType' /\ HeardInv' /\ AnswersPassFilter'
<1>1. ASSUME NEW n \in EntryP!Replies, EntryP!Published(n)
      PROVE  /\ Entry!Published(n)'
             /\ EntryP!InFilter(n) => Entry!InFilter(n)'
  <2>1. [EntryP!Next]_(EntryP!vars)
    BY EntryNodeSteps, SameEntry
  <2>2. EntryP!IInv
    BY DEF IInv
  <2> QED
    BY <1>1, <2>1, <2>2, Assumptions, EntryP!OldReplyMatches, SameEntry, SameReply
<1>2. \A n \in answers : Entry!Published(n)' /\ Entry!InFilter(n)'
  BY <1>1, SameEntry, SameReply DEF IInv, HistoryType, AnswersPassFilter
<1>3. CASE UNCHANGED history
  BY <1>2, <1>3, SentGrows DEF IInv, history, HistoryType, HeardInv, AnswersPassFilter
<1>4. ASSUME NEW c \in Exit!Conns, ReadBackend(c)
      PROVE  HistoryType' /\ HeardInv' /\ AnswersPassFilter'
  <2>1. /\ heard' = [heard EXCEPT ![c] = delivered[c] # <<>>]
        /\ answers' = answers
    BY <1>4 DEF ReadBackend
  <2>2. HistoryType' /\ AnswersPassFilter'
    BY <1>2, <2>1 DEF IInv, HistoryType, AnswersPassFilter
  <2>3. ASSUME NEW d \in Exit!Conns, heard'[d]
        PROVE  since' # NoSub
    <3>1. CASE d = c
      <4>1. delivered[c] # <<>>
        BY <2>1, <2>3, <3>1 DEF IInv, HistoryType
      <4> QED
        BY <4>1, DataAfterSubscription, SentGrows
    <3>2. CASE d # c
      BY <2>1, <2>3, <3>2, SentGrows DEF IInv, HistoryType, HeardInv
    <3> QED
      BY <3>1, <3>2
  <2> QED
    BY <2>2, <2>3 DEF HeardInv
<1>5. ASSUME NEW c \in Exit!Conns, NEW n \in Entry!Replies, NEW r \in Entry!Relays,
             NEW kept \in BOOLEAN, PublishReply(c, n, r, kept)
      PROVE  HistoryType' /\ HeardInv' /\ AnswersPassFilter'
  <2>1. /\ heard' = heard
        /\ answers' = answers \cup (IF heard[c] THEN {n} ELSE {})
    BY <1>5 DEF PublishReply
  <2>2. HeardInv'
    BY <2>1, SentGrows DEF IInv, HistoryType, HeardInv
  <2>3. Entry!Published(n)' /\ (heard[c] => Entry!InFilter(n)')
    <3>1. EntryP!BackendReplies(n, r, kept) /\ n \in EntryP!Replies /\ r \in EntryP!Relays
      BY <1>5, SameEntry DEF PublishReply
    <3>2. heard[c] => since # NoSub
      BY DEF IInv, HeardInv
    <3> QED
      BY <3>1, <3>2, Assumptions, EntryP!NewReplyInFilter, SameEntry, SameReply DEF IInv
  <2> QED
    BY <1>2, <2>1, <2>2, <2>3 DEF IInv, HistoryType, AnswersPassFilter
<1>6. CASE EntryStep \/ ExitStep \/ \E h \in Exit!Handlers : HandOver(h)
  BY <1>3, <1>6 DEF EntryStep, ExitStep, HandOver
<1>7. CASE UNCHANGED vars
  BY <1>3, <1>7 DEF vars
<1> QED
  BY <1>4, <1>5, <1>6, <1>7 DEF Next

LEMMA NextIInv == IInv /\ [Next]_vars => IInv'
BY NodesPreserve, SentStep, HistoryStep DEF IInv

LEMMA Invariance == SafetySpec => []IInv
BY InitIInv, NextIInv, PTL DEF SafetySpec

(* What a backend answers after it has received data passes the filter of  *)
(* the entry node's late subscription (conn.go:216-238 with exit.go:349),  *)
(* however often the relays repeat an event and whichever they lose.       *)
THEOREM AnswersPassFilterHolds == SafetySpec => []AnswersPassFilter
<1>1. IInv => AnswersPassFilter
  BY DEF IInv
<1> QED
  BY <1>1, Invariance, PTL

-----------------------------------------------------------------------------
(* The refinement of Datagrams, from the client to the backend: what its   *)
(* parameters offered and closed are replaced by.                          *)
Offers == {Chunk(n) : n \in 1..sent}

Shut == {c \in Exit!Conns : exitSock[c] = "closed"}

(* What a backend has received after a step is a chunk that the client has *)
(* sent.                                                                   *)
LEMMA DeliveredWasSent ==
  ASSUME IInv, [Next]_vars, NEW c \in Exit!Conns, NEW e \in Range(delivered'[c])
  PROVE  e \in Offers' /\ \E n \in 1..MaxOut : e = Chunk(n)
<1>1. c \in ExitP!Conns /\ ExitP!ReadInv' /\ SentInv'
  BY SameExit, NextIInv DEF IInv, ExitP!IInv
<1>2. e \in exitReadIDs'[c]
  BY <1>1 DEF ExitP!ReadInv, ExitP!Range, Range
<1>3. PICK h \in ExitP!Handlers : h.event = e /\ ExitP!Received(h)' /\ e.seq # 0
  BY <1>1, <1>2 DEF ExitP!ReadInv
<1>4. e \in [key : {Key}, seq : 0..MaxOut] /\ e.seq <= sent'
  BY <1>1, <1>3, SameExit DEF SentInv, ExitP!Received, ExitP!Handlers, ExitP!Events
<1>5. e = Chunk(e.seq) /\ e.seq \in 1..MaxOut
  BY <1>3, <1>4, TunnelAssumption DEF TunnelAssumption, Chunk
<1>6. e.seq \in 1..sent'
  BY <1>4, <1>5, SentGrows
<1> QED
  BY <1>5, <1>6 DEF Offers, Chunk

(* A step that sends nothing.                                              *)
LEMMA ExitSide ==
  ASSUME IInv, [Next]_vars, sent' = sent
  PROVE  [Outward!DatagramNext]_(Outward!datagramVars)
<1> USE DEF Outward!DatagramNext, Outward!datagramVars
<1>1. Offers' = Offers
  BY DEF Offers, Chunk
<1>2. [ExitP!Next]_(ExitP!vars) /\ ExitP!IInv
  BY ExitNodeSteps, SameExit DEF IInv
<1>3. ExitP!Down = Shut /\ ExitP!Down' = Shut'
  BY SameExit DEF ExitP!Down, Shut
<1>4. ASSUME UNCHANGED <<delivered, ExitP!Down>>
      PROVE  UNCHANGED Outward!datagramVars
  BY <1>1, <1>3, <1>4 DEF Offers, Shut
<1>5. ASSUME NEW c \in Exit!Conns, ExitP!Datagram!Close(c)
      PROVE  Outward!Close(c)
  <2>1. Shut' = Shut \cup {c} /\ delivered' = delivered
    BY <1>3, <1>5 DEF ExitP!Datagram!Close, ExitP!Down
  <2> QED
    BY <1>1, <2>1 DEF Outward!Close, Offers, Shut
<1>6. ASSUME NEW c \in Exit!Conns, NEW e \in ExitP!Events, ExitP!Datagram!Deliver(c, e)
      PROVE  \E x \in {Chunk(n) : n \in 1..MaxOut} : Outward!Deliver(c, x)
  <2>1. /\ e.key = c.key /\ c \notin Shut /\ e \notin Range(delivered[c])
        /\ delivered' = [delivered EXCEPT ![c] = Append(@, e)]
        /\ Shut' = Shut
    BY <1>3, <1>6 DEF ExitP!Datagram!Deliver, ExitP!Datagram!Range, Range, ExitP!Down
  <2>2. e \in Range(delivered'[c])
    <3>1. delivered \in [Exit!Conns -> Seq(ExitP!Events)]
      BY SameExit DEF IInv, ExitP!IInv, ExitP!TypeOK
    <3>2. delivered'[c] = Append(delivered[c], e) /\ delivered[c] \in Seq(ExitP!Events)
      BY <2>1, <3>1
    <3>3. Len(delivered[c]) + 1 \in DOMAIN delivered'[c] /\ delivered'[c][Len(delivered[c]) + 1] = e
      BY <3>2
    <3> QED
      BY <3>3 DEF Range
  <2>3. e \in Offers /\ \E n \in 1..MaxOut : e = Chunk(n)
    BY <1>1, <2>2, DeliveredWasSent
  <2>4. Outward!Deliver(c, e)
    BY <1>1, <2>1, <2>3 DEF Outward!Deliver, Outward!Range, Range, Offers, Shut
  <2> QED
    BY <2>3, <2>4
<1>7. ASSUME NEW e \in ExitP!Events, ExitP!Datagram!Offer(e)
      PROVE  UNCHANGED Outward!datagramVars
  <2>1. UNCHANGED <<delivered, ExitP!Down>>
    BY <1>7 DEF ExitP!Datagram!Offer, ExitP!Down
  <2> QED
    BY <1>4, <2>1
<1>8. \/ \E e \in ExitP!Events : ExitP!Datagram!Offer(e)
      \/ \E c \in ExitP!Conns : ExitP!Datagram!Close(c)
      \/ \E c \in ExitP!Conns, e \in ExitP!Events : ExitP!Datagram!Deliver(c, e)
      \/ UNCHANGED <<ExitP!Offered, delivered, ExitP!Down>>
  BY <1>2, Assumptions, ExitP!DatagramStep
<1> QED
  BY <1>4, <1>5, <1>6, <1>7, <1>8, SameExit

LEMMA OutwardStep == IInv /\ [Next]_vars => [Outward!DatagramNext]_(Outward!datagramVars)
<1> SUFFICES ASSUME IInv, [Next]_vars
             PROVE  [Outward!DatagramNext]_(Outward!datagramVars)
  OBVIOUS
<1>1. CASE sent' = sent
  BY <1>1, ExitSide
<1>2. CASE sent' # sent
  <2>1. EntryStep
    BY <1>2 DEF Next, vars, entryVars, ExitStep, ReadBackend, HandOver, PublishReply,
         Entry!BackendReplies, Entry!upVars
  <2>2. UNCHANGED <<delivered, Shut>>
    BY <2>1 DEF EntryStep, exitVars, Shut
  <2>3. sent' = sent + 1 /\ sent \in Nat /\ sent' \in 1..MaxOut
    <3>1. sent' = sent + 1 /\ sent \in Nat
      BY <1>2, SentGrows
    <3>2. sent' \in 0..MaxOut
      BY NodesPreserve DEF EntryP!IInv, EntryP!TypeOK
    <3> QED
      BY <3>1, <3>2, TunnelAssumption DEF TunnelAssumption
  <2>4. Offers' = Offers \cup {Chunk(sent + 1)}
    <3>1. 1..sent' = 1..sent \cup {sent + 1}
      BY <2>3
    <3> QED
      BY <2>3, <3>1 DEF Offers, Chunk
  <2>5. Outward!Offer(Chunk(sent + 1))
    BY <2>2, <2>4 DEF Outward!Offer, Offers, Shut
  <2> QED
    BY <2>3, <2>5 DEF Outward!DatagramNext
<1> QED
  BY <1>1, <1>2

(* From the client to the backend and back, through both nodes and the     *)
(* relays: nothing arrives that was not sent, nothing twice on a           *)
(* connection, nothing after the receiving end is closed (conn.go:120-149  *)
(* on both nodes, exit.go:336-352).                                        *)
THEOREM EndToEndHolds == SafetySpec => EndToEnd
<1>1. Init => Outward!DatagramInit
  <2> SUFFICES ASSUME Init
               PROVE  Outward!DatagramInit
    OBVIOUS
  <2>1. Offers = {} /\ Shut = {}
    BY DEF Init, Entry!Init, Exit!Init, Offers, Shut
  <2> QED
    BY <2>1 DEF Init, Exit!Init, Outward!DatagramInit, Offers, Shut
<1>2. SafetySpec => Outward!DatagramSpec
  BY <1>1, OutwardStep, Invariance, PTL DEF SafetySpec, Outward!DatagramSpec
<1>3. SafetySpec => Entry!ImplementsDatagrams
  <2>1. Init => Entry!Datagram!DatagramInit
    <3> SUFFICES ASSUME Init
                 PROVE  Entry!Datagram!DatagramInit
      OBVIOUS
    <3>1. /\ {Entry!ReplyEvent(n) : n \in {i \in Entry!Replies : Entry!Published(i)}} = {}
          /\ received = <<>> /\ sock = "open"
      BY DEF Init, Entry!Init, Entry!Published
    <3> QED
      BY <3>1 DEF Entry!Datagram!DatagramInit
  <2>2. IInv /\ [Next]_vars => [Entry!Datagram!DatagramNext]_(Entry!Datagram!datagramVars)
    <3> SUFFICES ASSUME IInv, [Next]_vars
                 PROVE  [Entry!Datagram!DatagramNext]_(Entry!Datagram!datagramVars)
      OBVIOUS
    <3>1. EntryP!IInv /\ [EntryP!Next]_(EntryP!vars)
      BY EntryNodeSteps, SameEntry DEF IInv
    <3>2. [EntryP!Datagram!DatagramNext]_(EntryP!Datagram!datagramVars)
      BY <3>1, Assumptions, EntryP!DatagramStep
    <3> QED
      BY <3>2, SameDatagram
  <2> QED
    BY <2>1, <2>2, Invariance, PTL
       DEF SafetySpec, Entry!ImplementsDatagrams, Entry!Datagram!DatagramSpec
<1> QED
  BY <1>2, <1>3 DEF EndToEnd
=============================================================================

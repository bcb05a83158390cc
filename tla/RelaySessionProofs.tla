------------------------- MODULE RelaySessionProofs -------------------------
(***************************************************************************)
(* Theorems about RelaySession for any number of tabs, connections and     *)
(* requests: the object's safety carries over to the real clients (the     *)
(* refinement of SessionRelay), a client keeps one socket and no other     *)
(* tab ever works on the browser's requests.                               *)
(*                                                                         *)
(* Two hypotheses appear.  MaxOpens <= 1: a caller connects its client     *)
(* once, as both callers do.  Backlogs = Nat: the peers of SessionRelay    *)
(* may have any number of frames in flight, as RelayClient may.  It says   *)
(* nothing of the session, which does not mention Backlogs.                *)
(***************************************************************************)
EXTENDS RelaySession, SessionRelayProofs

-----------------------------------------------------------------------------
(* Types.  A request the sandboxes work on was taken up by a tab.          *)

ServedByATab == \A r \in atBrowser : servedBy[r] \in Tabs

TabTypeOK ==
  /\ ws \in [Tabs -> Conns \cup {NoConn}]
  /\ currentState \in [Tabs -> RelayState]
  /\ reconnectTimer \in [Tabs -> BOOLEAN]
  /\ intentionalClose \in [Tabs -> BOOLEAN]
  /\ owner \in [Conns -> Tabs \cup {NoTab}]
  /\ servedBy \in [Reqs -> Tabs \cup {NoTab}]
  /\ opens \in [Tabs -> 0 .. MaxOpens]
  /\ faults \in 0 .. MaxFaults

BaseInv == PendingInv /\ TabTypeOK /\ ServedByATab

LEMMA ReadyStatusType == ReadyStatus \in Statuses /\ ReadyStatus \in UpFrames
<1>1. \E m \in Statuses : m.ready
  BY RelaySessionAssumption
<1>2. ReadyStatus \in Statuses
  BY <1>1 DEF ReadyStatus
<1>3. QED BY <1>2, FrameTypes

LEMMA OutputType ==
  ASSUME NEW b \in Tabs, NEW ends, NEW frames \in [Conns -> Seq(UpFrames)],
         NEW m \in UpFrames, TabTypeOK
  PROVE  Output(b, ends, frames, m) \in [Conns -> Seq(UpFrames)]
<1>1. CASE ws[b] # NoConn /\ ends[ws[b]] = "open"
  <2>1. ws[b] \in Conns
    BY <1>1 DEF TabTypeOK
  <2>2. Sent(frames[ws[b]], m) \in Seq(UpFrames)
    BY <2>1, SentType
  <2>3. QED
    BY <1>1, <2>1, <2>2 DEF Output
<1>2. CASE ~(ws[b] # NoConn /\ ends[ws[b]] = "open")
  BY <1>2 DEF Output
<1>3. QED BY <1>1, <1>2

\* A frame that a tab takes is one of those the object sends.
LEMMA TakenFrame ==
  ASSUME TypeOK, NEW c \in Conns, NEW type, Delivers(c, type)
  PROVE  /\ Head(down[c]) \in DownFrames
         /\ Tail(down[c]) \in Seq(DownFrames)
         /\ owner[c] # NoTab
         /\ type = "accept" => Head(down[c]) = Accept
         /\ type = "mcp_request" => /\ Head(down[c]).id \in Reqs
                                    /\ Head(down[c]) = Request(Head(down[c]).id)
         /\ Head(down[c]) = Close => type = "close"
<1>1. /\ Head(down[c]) \in DownFrames
      /\ Tail(down[c]) \in Seq(DownFrames)
  BY DEF TypeOK, Delivers
<1>2. Head(down[c]).type = type /\ owner[c] # NoTab
  BY DEF Delivers
<1>3. QED
  BY <1>1, <1>2 DEF DownFrames, Close, Accept, Refuse, Request

LEMMA DeliversType ==
  ASSUME TypeOK, NEW c \in Conns, NEW type, Delivers(c, type),
         up' \in [Conns -> Seq(UpFrames)], atBrowser' \in SUBSET Reqs
  PROVE  TypeOK'
<1>1. /\ peer' \in [Conns -> PeerStates]
      /\ down' \in [Conns -> Seq(DownFrames)]
  BY TakenFrame DEF Delivers, PeerAfter, TypeOK, PeerStates
<1>2. QED
  BY <1>1 DEF Delivers, TypeOK, memory, client

-----------------------------------------------------------------------------
(***************************************************************************)
(* The refinement of SessionRelay, step by step.  What RelayClient does is *)
(* what a peer may do: dial, take the next frame, answer on some open      *)
(* connection or nowhere, close.                                           *)
(***************************************************************************)

LEMMA ConnectRefines ==
  ASSUME NEW b \in Tabs, NEW c \in Conns, connect(b, c) \/ reconnect(b, c)
  PROVE  Next
<1>1. Dial(c)
  BY DEF connect, reconnect, doConnect
<1>2. QED BY <1>1 DEF Next, Peers

LEMMA DisconnectRefines ==
  ASSUME TabTypeOK, NEW b \in Tabs, disconnect(b)
  PROVE  [Next]_vars
<1>1. CASE ws[b] # NoConn /\ peer[ws[b]] \in {"dialing", "open"}
  <2>1. ws[b] \in Conns /\ PeerCloses(ws[b])
    BY <1>1 DEF TabTypeOK, disconnect
  <2>2. QED BY <2>1 DEF Next, Peers
<1>2. CASE ~(ws[b] # NoConn /\ peer[ws[b]] \in {"dialing", "open"})
  BY <1>2 DEF disconnect
<1>3. QED BY <1>1, <1>2

LEMMA OnmessageRefines ==
  ASSUME TypeOK, NEW c \in Conns, onmessage(c)
  PROVE  Next
<1>1. Delivers(c, "mcp_request")
  BY DEF onmessage
<1>2. Head(down[c]) # Close
  BY <1>1, TakenFrame
<1>3. up' = UpAfter(c)
  BY <1>2 DEF onmessage, UpAfter
<1>4. PeerReads(c)
  BY <1>1, <1>3 DEF onmessage, Delivers, PeerReads
<1>5. QED BY <1>4 DEF Next, Peers

LEMMA OncloseRefines ==
  ASSUME TypeOK, NEW c \in Conns, onclose(c)
  PROVE  Next
<1>1. PICK type \in {"close", "refuse"} : Delivers(c, type)
  BY DEF onclose
<1>2. Head(down[c]).type # "mcp_request"
  BY <1>1 DEF Delivers
<1>3. up' = UpAfter(c) /\ UNCHANGED atBrowser
  BY DEF onclose
<1>4. PeerReads(c)
  BY <1>1, <1>2, <1>3 DEF Delivers, PeerReads
<1>5. QED BY <1>4 DEF Next, Peers

\* What a wire carries is a sequence, so its length is no obstacle.
LEMMA AnyBacklog ==
  ASSUME Backlogs = Nat, TypeOK
  PROVE  \A c \in Conns : Len(up[c]) \in Backlogs
<1>1. up \in [Conns -> Seq(UpFrames)]
  BY DEF TypeOK
<1>2. QED BY <1>1

\* Were the peers bounded, the sdk's status could be the frame too many.
LEMMA OnopenRefines ==
  ASSUME Backlogs = Nat, TypeOK, TabTypeOK, NEW c \in Conns, onopen(c)
  PROVE  Next
<1> DEFINE b == owner[c]
           announces == App = "sdk" /\ currentState[b] # "connected"
<1>1. Delivers(c, "accept") /\ UNCHANGED atBrowser
  BY DEF onopen
<1>2. /\ Head(down[c]) = Accept
      /\ b \in Tabs
  BY <1>1, TakenFrame DEF TabTypeOK
<1>3. Head(down[c]) # Close /\ Head(down[c]).type # "mcp_request"
  BY <1>2 DEF Accept, Close
<1>4. CASE up' = up
  <2>1. up' = UpAfter(c)
    BY <1>3, <1>4 DEF UpAfter
  <2>2. PeerReads(c)
    BY <1>1, <1>3, <2>1 DEF Delivers, PeerReads
  <2>3. QED BY <2>2 DEF Next, Peers
<1>5. CASE up' # up
  <2>1. up' = Output(b, peer', up, ReadyStatus)
    BY <1>5 DEF onopen
  <2> DEFINE d == ws[b]
  <2>2. /\ d \in Conns
        /\ peer'[d] = "open"
        /\ up' = [up EXCEPT ![d] = Sent(@, ReadyStatus)]
    BY <1>2, <1>5, <2>1 DEF Output, TabTypeOK
  <2>3. Len(up[d]) \in Backlogs
    BY <2>2, AnyBacklog
  <2>4. ReadyStatus \in Statuses
    BY ReadyStatusType
  <2>5. PeerReads(c)
    BY <1>1, <1>2, <1>3, <2>2, <2>3, <2>4 DEF Delivers, PeerReads
  <2>6. QED BY <2>5 DEF Next, Peers
<1>6. QED BY <1>4, <1>5

LEMMA SandboxDoneRefines ==
  ASSUME Backlogs = Nat, TypeOK, TabTypeOK, ServedByATab, NEW r \in Reqs, sandboxDone(r)
  PROVE  Next
<1> DEFINE b == servedBy[r]
           d == ws[b]
<1>1. b \in Tabs /\ r \in atBrowser
  BY DEF sandboxDone, ServedByATab
<1>2. PICK tools \in BOOLEAN :
        /\ tools => kind[r] = "list"
        /\ up' = Output(b, peer, up,
                        [type |-> "mcp_response", id |-> r, tools |-> tools])
  BY DEF sandboxDone
<1>3. /\ atBrowser' = atBrowser \ {r}
      /\ UNCHANGED <<memory, pendingRequests, stored, life, server, peer, down, client,
                     sentOn, forgotten>>
  BY DEF sandboxDone
<1> DEFINE m == [type |-> "mcp_response", id |-> r, tools |-> tools]
<1>4. CASE d # NoConn /\ peer[d] = "open"
  <2>1. d \in Conns
    BY <1>1, <1>4 DEF TabTypeOK
  <2>2. up' = [up EXCEPT ![d] = Sent(@, m)]
    BY <1>2, <1>4 DEF Output
  <2>3. PeerSends(d, m)
    BY <1>3, <1>4, <2>1, <2>2, AnyBacklog DEF PeerSends
  <2>4. PeerResponds(r)
    BY <1>1, <1>2, <1>3, <2>1, <2>3 DEF PeerResponds
  <2>5. QED BY <2>4 DEF Next, Peers
<1>5. CASE ~(d # NoConn /\ peer[d] = "open")
  <2>1. up' = up
    BY <1>2, <1>5 DEF Output
  <2>2. PeerResponds(r)
    BY <1>1, <1>3, <2>1 DEF PeerResponds, wires
  <2>3. QED BY <2>2 DEF Next, Peers
<1>6. QED BY <1>4, <1>5

LEMMA ObjectStepRefines ==
  ASSUME ObjectStep \/ Fault \/ \E c \in Conns : Forget(c)
  PROVE  Next
<1>1. CASE ObjectStep
  BY <1>1, RelaySessionAssumption
  DEF ObjectStep, Upgrade, Reads, Arrive, Dispatch, Expire, Next, Object
<1>2. CASE Fault
  BY <1>2 DEF Fault, Next, Object, Network
<1>3. CASE \E c \in Conns : Forget(c)
  BY <1>3 DEF Forget, Next, Network
<1>4. QED BY <1>1, <1>2, <1>3

-----------------------------------------------------------------------------
(* Types of the whole session, with or without room.                       *)

LEMMA ConnectTabTypes ==
  ASSUME TabTypeOK, NEW b \in Tabs, NEW c \in Conns, connect(b, c) \/ reconnect(b, c)
  PROVE  TabTypeOK'
<1>1. /\ ws' \in [Tabs -> Conns \cup {NoConn}]
      /\ owner' \in [Conns -> Tabs \cup {NoTab}]
  BY DEF TabTypeOK, connect, reconnect, doConnect
<1>2. currentState' \in [Tabs -> RelayState]
  BY DEF TabTypeOK, connect, reconnect, setState, RelayState
<1>3. /\ reconnectTimer' \in [Tabs -> BOOLEAN]
      /\ intentionalClose' \in [Tabs -> BOOLEAN]
  BY DEF TabTypeOK, connect, reconnect
<1>4. opens' \in [Tabs -> 0 .. MaxOpens]
  BY RelaySessionAssumption DEF TabTypeOK, connect, reconnect
<1>5. UNCHANGED <<servedBy, faults>>
  BY DEF connect, reconnect
<1>6. QED
  BY <1>1, <1>2, <1>3, <1>4, <1>5 DEF TabTypeOK

LEMMA TabReadsTypes ==
  ASSUME TypeOK, TabTypeOK, NEW c \in Conns, TabReads(c)
  PROVE  TabTypeOK'
<1>1. owner[c] \in Tabs
  BY DEF TabReads, onopen, onmessage, onclose, Delivers, TabTypeOK
<1>2. CASE onopen(c)
  <2>1. currentState' \in [Tabs -> RelayState]
    BY <1>1, <1>2 DEF onopen, setState, TabTypeOK, RelayState
  <2>2. QED
    BY <1>2, <2>1 DEF onopen, TabTypeOK
<1>3. CASE onmessage(c)
  <2>1. Head(down[c]).id \in Reqs
    BY <1>3, TakenFrame DEF onmessage
  <2>2. servedBy' \in [Reqs -> Tabs \cup {NoTab}]
    BY <1>1, <1>3, <2>1 DEF onmessage, TabTypeOK
  <2>3. QED
    BY <1>3, <2>2 DEF onmessage, TabTypeOK
<1>4. CASE onclose(c)
  <2>1. /\ currentState' \in [Tabs -> RelayState]
        /\ ws' \in [Tabs -> Conns \cup {NoConn}]
    BY <1>1, <1>4 DEF onclose, setState, TabTypeOK, RelayState
  <2>2. reconnectTimer' \in [Tabs -> BOOLEAN]
    BY <1>1, <1>4 DEF onclose, TabTypeOK
  <2>3. QED
    BY <1>4, <2>1, <2>2 DEF onclose, TabTypeOK
<1>5. QED
  BY <1>2, <1>3, <1>4 DEF TabReads

LEMMA OtherTabTypes ==
  ASSUME TabTypeOK,
         \/ (\E b \in Tabs : disconnect(b)) \/ (\E c \in Conns : Forget(c))
         \/ (\E r \in Reqs : sandboxDone(r))
         \/ ObjectStep \/ Fault \/ UNCHANGED sessionVars
  PROVE  TabTypeOK'
<1>1. CASE \E b \in Tabs : disconnect(b)
  BY <1>1 DEF disconnect, setState, TabTypeOK, RelayState
<1>2. CASE \E c \in Conns : Forget(c)
  BY <1>2 DEF Forget, TabTypeOK
<1>3. CASE (\E r \in Reqs : sandboxDone(r)) \/ ObjectStep \/ UNCHANGED sessionVars
  <2>1. UNCHANGED <<tabVars, faults>>
    BY <1>3 DEF sandboxDone, ObjectStep, Upgrade, Reads, Arrive, Dispatch, Expire,
                Elsewhere, sessionVars
  <2>2. QED
    BY <2>1 DEF tabVars, TabTypeOK
<1>4. CASE Fault
  <2>1. Disturb
    BY <1>4 DEF Fault
  <2>2. QED
    BY <2>1, RelaySessionAssumption DEF Disturb, tabVars, TabTypeOK
<1>5. QED
  BY <1>1, <1>2, <1>3, <1>4

LEMMA TabTypesStep ==
  ASSUME TypeOK, TabTypeOK, [SessionNext]_sessionVars
  PROVE  TabTypeOK'
<1>1. CASE TabStep
  BY <1>1, ConnectTabTypes, TabReadsTypes, OtherTabTypes DEF TabStep
<1>2. CASE ObjectStep \/ Fault \/ UNCHANGED sessionVars
  BY <1>2, OtherTabTypes
<1>3. QED BY <1>1, <1>2 DEF SessionNext

\* Nobody but onmessage adds to atBrowser, and it notes the tab.
LEMMA ServedByATabStep ==
  ASSUME TypeOK, TabTypeOK, ServedByATab, [SessionNext]_sessionVars
  PROVE  ServedByATab'
<1>1. ASSUME NEW c \in Conns, onmessage(c)
      PROVE  ServedByATab'
  <2>1. owner[c] \in Tabs /\ Head(down[c]).id \in Reqs
    BY <1>1, TakenFrame DEF onmessage, TabTypeOK
  <2>2. QED
    BY <1>1, <2>1 DEF onmessage, ServedByATab, TabTypeOK, TypeOK
<1>2. CASE atBrowser' \subseteq atBrowser /\ UNCHANGED servedBy
  BY <1>2 DEF ServedByATab
<1>3. ASSUME NEW b \in Tabs, NEW c \in Conns, connect(b, c) \/ reconnect(b, c)
      PROVE  UNCHANGED <<atBrowser, servedBy>>
  BY <1>3 DEF connect, reconnect, doConnect, Dial
<1>4. ASSUME NEW b \in Tabs, disconnect(b)
      PROVE  UNCHANGED <<atBrowser, servedBy>>
  BY <1>4 DEF disconnect, PeerCloses, vars
<1>5. ASSUME NEW c \in Conns, onopen(c) \/ onclose(c) \/ Forget(c)
      PROVE  UNCHANGED <<atBrowser, servedBy>>
  BY <1>5 DEF onopen, onclose, Forget, Recycle
<1>6. ASSUME NEW r \in Reqs, sandboxDone(r)
      PROVE  atBrowser' \subseteq atBrowser /\ UNCHANGED servedBy
  BY <1>6 DEF sandboxDone, tabVars
<1>7. CASE ObjectStep
  <2>1. UNCHANGED servedBy
    BY <1>7 DEF ObjectStep, Upgrade, Reads, Arrive, Dispatch, Expire, Elsewhere, tabVars
  <2>2. UNCHANGED atBrowser
    BY <1>7
    DEF ObjectStep, Upgrade, Reads, Arrive, Dispatch, Expire, handleInit, Hibernate,
        handleWebSocketUpgrade, ObjectReads, handleStatusMessage, handleMcpResponse,
        handleMcpStream, webSocketClose, McpArrive, McpDispatch, RequestTimeout
  <2>3. QED BY <1>2, <2>1, <2>2
<1>8. CASE Fault
  <2>1. UNCHANGED servedBy
    BY <1>8 DEF Fault, Disturb, tabVars
  <2>2. UNCHANGED atBrowser
    BY <1>8 DEF Fault, handleTeardown, alarm, Cleanup, Restart, Break
  <2>3. QED BY <1>2, <2>1, <2>2
<1>9. CASE UNCHANGED sessionVars
  BY <1>2, <1>9 DEF sessionVars, vars, tabVars
<1>10. QED
  BY <1>1, <1>2, <1>3, <1>4, <1>5, <1>6, <1>7, <1>8, <1>9
  DEF SessionNext, TabStep, TabReads

LEMMA BaseStep ==
  ASSUME BaseInv, [SessionNext]_sessionVars
  PROVE  BaseInv'
<1>1. TypeOK
  BY DEF BaseInv, PendingInv
<1>2. TabTypeOK' /\ ServedByATab'
  BY <1>1, TabTypesStep, ServedByATabStep DEF BaseInv
<1>3. CASE [Next]_vars
  <2>1. TypeOK'
    BY <1>1, <1>3, TypeStep
  <2>2. EveryWaiterIsPending' /\ PendingFollowsSocket'
    BY <1>3, PendingObject, PendingElsewhere DEF BaseInv, Next
  <2>3. QED BY <1>2, <2>1, <2>2 DEF BaseInv, PendingInv
<1>4. ASSUME TypeOK', UNCHANGED <<pendingRequests, phase, browserSocket, sentOn>>
      PROVE  BaseInv'
  BY <1>2, <1>4, PendingUntouched DEF BaseInv, PendingInv
<1>5. ASSUME NEW c \in Conns, onopen(c)
      PROVE  BaseInv'
  <2>1. Delivers(c, "accept") /\ UNCHANGED atBrowser
    BY <1>5 DEF onopen
  <2>2. owner[c] \in Tabs
    BY <2>1 DEF Delivers, BaseInv, TabTypeOK
  <2>3. up' \in [Conns -> Seq(UpFrames)]
    <3>1. up \in [Conns -> Seq(UpFrames)]
      BY <1>1 DEF TypeOK
    <3>2. Output(owner[c], peer', up, ReadyStatus) \in [Conns -> Seq(UpFrames)]
      BY <2>2, <3>1, OutputType, ReadyStatusType DEF BaseInv
    <3>3. QED BY <1>5, <3>1, <3>2 DEF onopen
  <2>4. atBrowser' \in SUBSET Reqs
    BY <1>1, <2>1 DEF TypeOK
  <2>5. TypeOK'
    BY <1>1, <2>1, <2>3, <2>4, DeliversType
  <2>6. UNCHANGED <<pendingRequests, phase, browserSocket, sentOn>>
    BY <2>1 DEF Delivers, memory, client
  <2>7. QED BY <1>4, <2>5, <2>6
<1>6. ASSUME NEW r \in Reqs, sandboxDone(r)
      PROVE  BaseInv'
  <2>1. servedBy[r] \in Tabs
    BY <1>6 DEF sandboxDone, BaseInv, ServedByATab
  <2>2. PICK tools \in BOOLEAN :
          up' = Output(servedBy[r], peer, up,
                       [type |-> "mcp_response", id |-> r, tools |-> tools])
    BY <1>6 DEF sandboxDone
  <2>3. [type |-> "mcp_response", id |-> r, tools |-> tools] \in UpFrames
    BY DEF UpFrames, ResponseMsgs
  <2>4. up \in [Conns -> Seq(UpFrames)]
    BY <1>1 DEF TypeOK
  <2>5. up' \in [Conns -> Seq(UpFrames)]
    BY <2>1, <2>2, <2>3, <2>4, OutputType DEF BaseInv
  <2>6. TypeOK'
    BY <1>1, <1>6, <2>5 DEF sandboxDone, TypeOK, memory, client
  <2>7. UNCHANGED <<pendingRequests, phase, browserSocket, sentOn>>
    BY <1>6 DEF sandboxDone, memory, client
  <2>8. QED BY <1>4, <2>6, <2>7
<1>7. CASE TabStep
  <2>1. ASSUME NEW b \in Tabs, disconnect(b)
        PROVE  BaseInv'
    BY <1>3, <2>1, DisconnectRefines DEF BaseInv
  <2>2. ASSUME NEW b \in Tabs, NEW c \in Conns, connect(b, c) \/ reconnect(b, c)
        PROVE  BaseInv'
    BY <1>3, <2>2, ConnectRefines
  <2>3. ASSUME NEW c \in Conns, onmessage(c) \/ onclose(c) \/ Forget(c)
        PROVE  BaseInv'
    BY <1>1, <1>3, <2>3, OnmessageRefines, OncloseRefines, ObjectStepRefines
  <2>4. QED
    BY <1>5, <1>6, <1>7, <2>1, <2>2, <2>3 DEF TabStep, TabReads
<1>8. CASE ObjectStep \/ Fault
  BY <1>3, <1>8, ObjectStepRefines
<1>9. CASE UNCHANGED sessionVars
  BY <1>3, <1>9 DEF sessionVars
<1>10. QED
  BY <1>7, <1>8, <1>9 DEF SessionNext

LEMMA BaseInit == SessionInit => BaseInv
<1> SUFFICES ASSUME SessionInit
             PROVE  BaseInv
  OBVIOUS
<1>1. TypeOK
  BY TypeCorrectInit DEF SessionInit
<1>2. EveryWaiterIsPending /\ PendingFollowsSocket /\ ServedByATab
  BY DEF SessionInit, Init, EveryWaiterIsPending, PendingFollowsSocket, ServedByATab
<1>3. TabTypeOK
  BY RelaySessionAssumption DEF SessionInit, TabTypeOK, RelayState
<1>4. QED
  BY <1>1, <1>2, <1>3 DEF BaseInv, PendingInv

LEMMA BaseCorrect == SessionSpec => []BaseInv
BY BaseInit, BaseStep, PTL DEF SessionSpec

\* Whatever the clients, the object and the network do, every variable of the
\* session has its type, and nobody waits without a timer or for another
\* browser, whatever bound the peers of SessionRelay are given.
THEOREM SessionTypeCorrect == SessionSpec => [](SessionTypeOK /\ EveryWaiterIsPending /\ PendingFollowsSocket)
<1>1. BaseInv => SessionTypeOK /\ EveryWaiterIsPending /\ PendingFollowsSocket
  BY DEF BaseInv, PendingInv, TabTypeOK, SessionTypeOK
<1>2. QED
  BY <1>1, BaseCorrect, PTL

\* RelayClient is one of the peers SessionRelay allows: every behaviour of the
\* session is one of SessionRelay, so what is proved of the object for
\* arbitrary peers holds of the real one.
THEOREM SessionImplementsObject == Backlogs = Nat => (SessionSpec => ObjectSpec)
<1> SUFFICES ASSUME Backlogs = Nat
             PROVE  SessionSpec => ObjectSpec
  OBVIOUS
<1>1. SessionInit => Init
  BY DEF SessionInit
<1>2. BaseInv /\ [SessionNext]_sessionVars => [Next]_vars
  <2> SUFFICES ASSUME BaseInv, [SessionNext]_sessionVars
               PROVE  [Next]_vars
    OBVIOUS
  <2>1. TypeOK /\ TabTypeOK /\ ServedByATab
    BY DEF BaseInv, PendingInv
  <2>2. CASE TabStep
    BY <2>1, <2>2, ConnectRefines, DisconnectRefines, OnopenRefines, OnmessageRefines,
       OncloseRefines, SandboxDoneRefines, ObjectStepRefines
    DEF TabStep, TabReads
  <2>3. CASE ObjectStep \/ Fault
    BY <2>3, ObjectStepRefines
  <2>4. CASE UNCHANGED sessionVars
    BY <2>4 DEF sessionVars
  <2>5. QED
    BY <2>2, <2>3, <2>4 DEF SessionNext
<1>3. QED
  BY <1>1, <1>2, BaseCorrect, PTL DEF SessionSpec, ObjectSpec, Spec

\* With RelayClient at the far end, its sockets lost and opened again, the
\* object keeps its promises: an accepted request is followed by its partial
\* events, by one final answer at most and by nothing more (RequestReply), no
\* connection is open that is neither the browser's nor one the object forgot
\* when it hibernated, and the token survives a restart.
THEOREM SessionKeepsTheContract ==
  ASSUME Backlogs = Nat
  PROVE  SessionSpec => RepliesSpec /\ [](OneBrowser /\ TokenIsDurable)
BY SessionImplementsObject, RelayImplementsReplies, OnlyTheForgottenStayOpen,
   TokenSurvivesRestarts, PTL DEF ObjectSpec

-----------------------------------------------------------------------------
(***************************************************************************)
(* The clients.  ClientsInv is inductive when connect() is called once.    *)
(* An onclose of any connection of a tab forgets the tab's own socket; it  *)
(* is harmless because a connection that is not over is that socket, and   *)
(* one that is closing belongs to a client that has given its socket up.   *)
(***************************************************************************)

OwnedInUse == \A c \in Conns : peer[c] # "free" => owner[c] \in Tabs

ClosingIsMeant == \A c \in Conns : peer[c] = "closing" => intentionalClose[owner[c]]

UnopenedIsIdle ==
  \A b \in Tabs : opens[b] = 0 =>
    ws[b] = NoConn /\ ~reconnectTimer[b] /\ ~intentionalClose[b]

TimerHasNoSocket == \A b \in Tabs : reconnectTimer[b] => ws[b] = NoConn

SocketIsOwned ==
  \A b \in Tabs : ws[b] # NoConn => owner[ws[b]] = b /\ peer[ws[b]] # "free"

ClientsInv ==
  /\ BaseInv
  /\ OwnedInUse /\ ClosingIsMeant
  /\ UnopenedIsIdle /\ TimerHasNoSocket /\ SocketIsOwned
  /\ OneSocketPerClient /\ DisconnectIsFinal

\* The state 'ready' is set by an sdk client only.
Announced == App = "sdk" => ReadyMeansOpen

\* Which states of the two ends can follow each other when a tab takes a frame.
LEMMA PeerAdvances ==
  ASSUME TypeOK, NEW c \in Conns, NEW type, Delivers(c, type)
  PROVE  /\ \A d \in Conns : d # c => peer'[d] = peer[d]
         /\ peer[c] \in {"dialing", "open", "closing"}
         /\ type \in {"close", "refuse"} => peer'[c] = "closed"
         /\ type = "mcp_request" => peer'[c] = peer[c]
         /\ type = "accept" =>
              peer'[c] = IF peer[c] = "dialing" THEN "open" ELSE peer[c]
BY DEF Delivers, PeerAfter, TypeOK

\* Steps of the object and of the network do not concern the clients.
LEMMA ClientsElsewhere ==
  ASSUME ObjectStep \/ Fault \/ UNCHANGED sessionVars
  PROVE  UNCHANGED <<tabVars, peer>>
<1>1. CASE ObjectStep
  <2>1. UNCHANGED tabVars
    BY <1>1 DEF ObjectStep, Upgrade, Reads, Arrive, Dispatch, Expire, Elsewhere
  <2>2. UNCHANGED peer
    BY <1>1
    DEF ObjectStep, Upgrade, Reads, Arrive, Dispatch, Expire, handleInit, Hibernate,
        handleWebSocketUpgrade, ObjectReads, handleStatusMessage, handleMcpResponse,
        handleMcpStream, webSocketClose, McpArrive, McpDispatch, RequestTimeout, wires
  <2>3. QED BY <2>1, <2>2
<1>2. CASE Fault
  <2>1. UNCHANGED tabVars
    BY <1>2 DEF Fault, Disturb
  <2>2. UNCHANGED peer
    BY <1>2 DEF Fault, handleTeardown, alarm, Cleanup, Restart, Break
  <2>3. QED BY <2>1, <2>2
<1>3. CASE UNCHANGED sessionVars
  BY <1>3 DEF sessionVars, vars, wires
<1>4. QED BY <1>1, <1>2, <1>3

LEMMA ClientsFrame ==
  ASSUME UNCHANGED <<tabVars, peer>>
  PROVE  /\ OwnedInUse => OwnedInUse'
         /\ ClosingIsMeant => ClosingIsMeant'
         /\ UnopenedIsIdle => UnopenedIsIdle'
         /\ TimerHasNoSocket => TimerHasNoSocket'
         /\ SocketIsOwned => SocketIsOwned'
         /\ OneSocketPerClient => OneSocketPerClient'
         /\ DisconnectIsFinal => DisconnectIsFinal'
         /\ ReadyMeansOpen => ReadyMeansOpen'
         /\ NeverGivesUp => NeverGivesUp'
BY DEF tabVars, OwnedInUse, ClosingIsMeant, UnopenedIsIdle, TimerHasNoSocket,
       SocketIsOwned, OneSocketPerClient, DisconnectIsFinal, ReadyMeansOpen, NeverGivesUp

\* A client without a socket has no connection that is not over.
LEMMA NoSocketNoConnection ==
  ASSUME ClientsInv, NEW b \in Tabs, ws[b] = NoConn, NEW c \in Conns, owner[c] = b
  PROVE  peer[c] \notin {"dialing", "open"}
BY SessionRelayAssumption DEF ClientsInv, OneSocketPerClient

\* The tab that dials has no socket: it never connected, or its socket closed.
LEMMA DialsWithoutSocket ==
  ASSUME ClientsInv, MaxOpens <= 1, NEW b \in Tabs, NEW c \in Conns,
         connect(b, c) \/ reconnect(b, c)
  PROVE  /\ ws[b] = NoConn
         /\ ~intentionalClose[b]
         /\ reconnectTimer'[b] = FALSE
<1>1. TabTypeOK
  BY DEF ClientsInv, BaseInv
<1>2. CASE connect(b, c)
  <2>1. opens[b] = 0
    BY <1>1, <1>2, RelaySessionAssumption DEF connect, TabTypeOK
  <2>2. QED
    BY <1>1, <1>2, <2>1 DEF connect, ClientsInv, UnopenedIsIdle, TabTypeOK
<1>3. CASE reconnect(b, c)
  BY <1>1, <1>3 DEF reconnect, ClientsInv, TimerHasNoSocket, DisconnectIsFinal, TabTypeOK
<1>4. QED BY <1>2, <1>3

LEMMA ClientsConnect ==
  ASSUME ClientsInv, Announced, BaseInv', MaxOpens <= 1, NEW b \in Tabs, NEW c \in Conns,
         connect(b, c) \/ reconnect(b, c)
  PROVE  ClientsInv' /\ Announced'
<1>1. TypeOK /\ TabTypeOK
  BY DEF ClientsInv, BaseInv, PendingInv
<1>2. /\ peer[c] = "free"
      /\ peer' = [peer EXCEPT ![c] = "dialing"]
      /\ ws' = [ws EXCEPT ![b] = c]
      /\ owner' = [owner EXCEPT ![c] = b]
  BY DEF connect, reconnect, doConnect, Dial
<1>3. /\ ws[b] = NoConn /\ ~intentionalClose[b] /\ ~reconnectTimer'[b]
      /\ \A d \in Conns : owner[d] = b => peer[d] \notin {"dialing", "open"}
  BY DialsWithoutSocket, NoSocketNoConnection
<1>4. /\ intentionalClose' = intentionalClose
      /\ \A a \in Tabs : a # b => reconnectTimer'[a] = reconnectTimer[a]
      /\ opens'[b] # 0
      /\ \A a \in Tabs : a # b => opens'[a] = opens[a]
  <2>1. CASE connect(b, c)
    BY <1>1, <1>3, <2>1 DEF connect, TabTypeOK
  <2>2. CASE reconnect(b, c)
    <3>1. opens[b] # 0
      BY <2>2 DEF reconnect, ClientsInv, UnopenedIsIdle
    <3>2. QED
      BY <1>1, <2>2, <3>1 DEF reconnect, TabTypeOK
  <2>3. QED BY <2>1, <2>2
<1>5. OwnedInUse' /\ ClosingIsMeant'
  BY <1>1, <1>2, <1>4 DEF ClientsInv, OwnedInUse, ClosingIsMeant, TypeOK, TabTypeOK
<1>6. UnopenedIsIdle' /\ TimerHasNoSocket'
  BY <1>1, <1>2, <1>3, <1>4 DEF ClientsInv, UnopenedIsIdle, TimerHasNoSocket, TabTypeOK
<1>7. OneSocketPerClient'
  <2> SUFFICES ASSUME NEW d \in Conns, peer'[d] \in {"dialing", "open"}
               PROVE  ws'[owner'[d]] = d
    BY DEF OneSocketPerClient
  <2>1. CASE d = c
    BY <1>1, <1>2, <2>1 DEF TabTypeOK
  <2>2. CASE d # c
    <3>1. peer[d] \in {"dialing", "open"} /\ owner'[d] = owner[d]
      BY <1>1, <1>2, <2>2 DEF TypeOK, TabTypeOK
    <3>2. ws[owner[d]] = d /\ owner[d] # b
      BY <1>3, <3>1 DEF ClientsInv, OneSocketPerClient
    <3>3. QED
      BY <1>2, <3>1, <3>2
  <2>3. QED BY <2>1, <2>2
<1>8. DisconnectIsFinal'
  <2> SUFFICES ASSUME NEW a \in Tabs, intentionalClose'[a]
               PROVE  /\ ~reconnectTimer'[a] /\ ws'[a] = NoConn
                      /\ \A d \in Conns : owner'[d] = a => peer'[d] \notin {"dialing", "open"}
    BY DEF DisconnectIsFinal
  <2>1. a # b /\ intentionalClose[a]
    BY <1>3, <1>4
  <2>2. QED
    BY <1>1, <1>2, <1>4, <2>1 DEF ClientsInv, DisconnectIsFinal, TypeOK, TabTypeOK
<1>9. SocketIsOwned'
  BY <1>1, <1>2, <1>3, SessionRelayAssumption
  DEF ClientsInv, SocketIsOwned, TypeOK, TabTypeOK
<1>10. Announced'
  <2> SUFFICES ASSUME App = "sdk", NEW a \in Tabs, currentState'[a] = "ready"
               PROVE  ws'[a] # NoConn /\ peer'[ws'[a]] = "open"
    BY DEF Announced, ReadyMeansOpen
  <2>1. currentState' = [currentState EXCEPT ![b] = "connecting"]
    BY DEF connect, reconnect, setState
  <2>2. a # b /\ currentState[a] = "ready"
    BY <1>1, <2>1 DEF TabTypeOK
  <2>3. ws[a] # NoConn /\ peer[ws[a]] = "open"
    BY <2>2 DEF Announced, ReadyMeansOpen
  <2>4. QED
    BY <1>1, <1>2, <2>2, <2>3 DEF TypeOK, TabTypeOK
<1>11. QED
  BY <1>5, <1>6, <1>7, <1>8, <1>9, <1>10 DEF ClientsInv

LEMMA ClientsDisconnect ==
  ASSUME ClientsInv, Announced, BaseInv', NEW b \in Tabs, disconnect(b)
  PROVE  ClientsInv' /\ Announced'
<1>1. TypeOK /\ TabTypeOK
  BY DEF ClientsInv, BaseInv, PendingInv
<1>2. /\ opens[b] # 0
      /\ intentionalClose' = [intentionalClose EXCEPT ![b] = TRUE]
      /\ reconnectTimer' = [reconnectTimer EXCEPT ![b] = FALSE]
      /\ ws' = [ws EXCEPT ![b] = NoConn]
      /\ currentState' = [currentState EXCEPT ![b] = "disconnected"]
      /\ UNCHANGED <<owner, opens>>
  BY <1>1 DEF disconnect, setState, TabTypeOK
<1>3. \A d \in Conns : d # ws[b] => peer'[d] = peer[d]
  BY <1>1 DEF disconnect, PeerCloses, vars, wires, TypeOK
<1>4. \A d \in Conns :
        /\ peer'[d] \in {"dialing", "open"} => peer'[d] = peer[d] /\ d # ws[b]
        /\ peer'[d] = "closing" => peer[d] = "closing" \/ d = ws[b]
        /\ peer'[d] = "free" <=> peer[d] = "free"
  BY <1>1, <1>3, SessionRelayAssumption DEF disconnect, PeerCloses, vars, wires, TypeOK
<1>5. ws[b] # NoConn => ws[b] \in Conns /\ owner[ws[b]] = b
  BY <1>1 DEF ClientsInv, SocketIsOwned, TabTypeOK
<1>6. OwnedInUse' /\ ClosingIsMeant'
  <2>1. OwnedInUse'
    BY <1>2, <1>4 DEF ClientsInv, OwnedInUse
  <2>2. ClosingIsMeant'
    BY <1>1, <1>2, <1>4, <1>5, SessionRelayAssumption
    DEF ClientsInv, ClosingIsMeant, OwnedInUse, TabTypeOK
  <2>3. QED BY <2>1, <2>2
<1>7. UnopenedIsIdle' /\ TimerHasNoSocket'
  BY <1>1, <1>2 DEF ClientsInv, UnopenedIsIdle, TimerHasNoSocket, TabTypeOK
<1>8. SocketIsOwned'
  BY <1>1, <1>2, <1>4 DEF ClientsInv, SocketIsOwned, TabTypeOK
<1>9. OneSocketPerClient'
  <2> SUFFICES ASSUME NEW d \in Conns, peer'[d] \in {"dialing", "open"}
               PROVE  ws'[owner'[d]] = d
    BY DEF OneSocketPerClient
  <2>1. ws[owner[d]] = d /\ owner[d] # b
    BY <1>4 DEF ClientsInv, OneSocketPerClient
  <2>2. QED
    BY <1>2, <2>1
<1>10. DisconnectIsFinal'
  <2> SUFFICES ASSUME NEW a \in Tabs, intentionalClose'[a]
               PROVE  /\ ~reconnectTimer'[a] /\ ws'[a] = NoConn
                      /\ \A d \in Conns : owner'[d] = a => peer'[d] \notin {"dialing", "open"}
    BY DEF DisconnectIsFinal
  <2>1. CASE a = b
    <3>1. \A d \in Conns : owner'[d] = b => peer'[d] \notin {"dialing", "open"}
      BY <1>2, <1>4 DEF ClientsInv, OneSocketPerClient
    <3>2. QED
      BY <1>1, <1>2, <2>1, <3>1 DEF TabTypeOK
  <2>2. CASE a # b
    <3>1. /\ ~reconnectTimer[a] /\ ws[a] = NoConn
          /\ \A d \in Conns : owner[d] = a => peer[d] \notin {"dialing", "open"}
      BY <1>1, <1>2, <2>2 DEF ClientsInv, DisconnectIsFinal, TabTypeOK
    <3>2. QED
      BY <1>1, <1>2, <1>4, <2>2, <3>1 DEF TabTypeOK
  <2>3. QED BY <2>1, <2>2
<1>11. Announced'
  <2> SUFFICES ASSUME App = "sdk", NEW a \in Tabs, currentState'[a] = "ready"
               PROVE  ws'[a] # NoConn /\ peer'[ws'[a]] = "open"
    BY DEF Announced, ReadyMeansOpen
  <2>1. a # b /\ currentState[a] = "ready"
    BY <1>1, <1>2 DEF TabTypeOK
  <2>2. ws[a] # NoConn /\ peer[ws[a]] = "open" /\ owner[ws[a]] = a
    BY <2>1 DEF Announced, ReadyMeansOpen, ClientsInv, SocketIsOwned
  <2>3. ws[a] \in Conns /\ ws[a] # ws[b]
    BY <1>1, <1>5, <2>1, <2>2 DEF TabTypeOK
  <2>4. QED
    BY <1>1, <1>2, <1>3, <2>1, <2>2, <2>3 DEF TabTypeOK
<1>12. QED
  BY <1>6, <1>7, <1>8, <1>9, <1>10, <1>11 DEF ClientsInv

LEMMA ClientsOnopen ==
  ASSUME ClientsInv, Announced, BaseInv', NEW c \in Conns, onopen(c)
  PROVE  ClientsInv' /\ Announced'
<1>1. TypeOK /\ TabTypeOK
  BY DEF ClientsInv, BaseInv, PendingInv
<1> DEFINE b == owner[c]
<1>2. /\ UNCHANGED <<ws, reconnectTimer, intentionalClose, owner, opens>>
      /\ Delivers(c, "accept")
  BY DEF onopen
<1>3. /\ b \in Tabs
      /\ \A d \in Conns : d # c => peer'[d] = peer[d]
      /\ peer[c] \in {"dialing", "open", "closing"}
      /\ peer'[c] = IF peer[c] = "dialing" THEN "open" ELSE peer[c]
  BY <1>1, <1>2, PeerAdvances DEF Delivers, TabTypeOK
<1>4. \A d \in Conns :
        /\ peer'[d] \in {"dialing", "open"} <=> peer[d] \in {"dialing", "open"}
        /\ peer'[d] = "closing" <=> peer[d] = "closing"
        /\ peer'[d] = "free" <=> peer[d] = "free"
        /\ peer[d] = "open" => peer'[d] = "open"
  BY <1>3
<1>5. /\ OwnedInUse' /\ ClosingIsMeant' /\ UnopenedIsIdle' /\ TimerHasNoSocket'
      /\ OneSocketPerClient' /\ DisconnectIsFinal'
  BY <1>2, <1>4
  DEF ClientsInv, OwnedInUse, ClosingIsMeant, UnopenedIsIdle, TimerHasNoSocket,
      OneSocketPerClient, DisconnectIsFinal
<1>6. SocketIsOwned'
  BY <1>1, <1>2, <1>4 DEF ClientsInv, SocketIsOwned, TabTypeOK
<1>7. Announced'
  <2> SUFFICES ASSUME App = "sdk", NEW a \in Tabs, currentState'[a] = "ready"
               PROVE  ws'[a] # NoConn /\ peer'[ws'[a]] = "open"
    BY DEF Announced, ReadyMeansOpen
  <2>1. CASE currentState[a] = "ready"
    <3>1. ws[a] \in Conns /\ peer[ws[a]] = "open"
      BY <1>1, <2>1 DEF Announced, ReadyMeansOpen, TabTypeOK
    <3>2. QED
      BY <1>2, <1>4, <3>1, SessionRelayAssumption
  <2>2. CASE currentState[a] # "ready"
    <3>1. a = b /\ peer[c] = "dialing"
      BY <1>1, <1>3, <2>2 DEF onopen, setState, TabTypeOK
    <3>2. ws[b] = c
      BY <3>1 DEF ClientsInv, OneSocketPerClient
    <3>3. QED
      BY <1>2, <1>3, <3>1, <3>2, SessionRelayAssumption
  <2>3. QED BY <2>1, <2>2
<1>8. QED
  BY <1>5, <1>6, <1>7 DEF ClientsInv

LEMMA ClientsOnclose ==
  ASSUME ClientsInv, Announced, BaseInv', NEW c \in Conns, onclose(c)
  PROVE  ClientsInv' /\ Announced'
<1>1. TypeOK /\ TabTypeOK
  BY DEF ClientsInv, BaseInv, PendingInv
<1> DEFINE b == owner[c]
<1>2. PICK type \in {"close", "refuse"} : Delivers(c, type)
  BY DEF onclose
<1>3. /\ b \in Tabs
      /\ \A d \in Conns : d # c => peer'[d] = peer[d]
      /\ peer[c] \in {"dialing", "open", "closing"}
      /\ peer'[c] = "closed"
  BY <1>1, <1>2, PeerAdvances DEF Delivers, TabTypeOK
<1>4. /\ ws' = [ws EXCEPT ![b] = NoConn]
      /\ currentState' = [currentState EXCEPT ![b] = "disconnected"]
      /\ reconnectTimer' = [reconnectTimer EXCEPT ![b] = @ \/ ~intentionalClose[b]]
      /\ UNCHANGED <<intentionalClose, owner, opens>>
  BY DEF onclose, setState
\* The tab's own socket is c, or the client has none.
<1>5. ws[b] \in {c, NoConn}
  <2>1. CASE peer[c] \in {"dialing", "open"}
    BY <2>1 DEF ClientsInv, OneSocketPerClient
  <2>2. CASE peer[c] = "closing"
    BY <1>3, <2>2 DEF ClientsInv, ClosingIsMeant, DisconnectIsFinal
  <2>3. QED BY <1>3, <2>1, <2>2
<1>6. OwnedInUse' /\ ClosingIsMeant'
  BY <1>3, <1>4 DEF ClientsInv, OwnedInUse, ClosingIsMeant
<1>7. reconnectTimer'[b] => ~intentionalClose[b]
  BY <1>1, <1>3, <1>4 DEF ClientsInv, DisconnectIsFinal, TabTypeOK
<1>8. opens[b] # 0
  <2>1. CASE peer[c] \in {"dialing", "open"}
    <3>1. ws[b] = c
      BY <2>1 DEF ClientsInv, OneSocketPerClient
    <3>2. QED
      BY <1>3, <3>1, SessionRelayAssumption DEF ClientsInv, UnopenedIsIdle
  <2>2. CASE peer[c] = "closing"
    BY <1>3, <2>2 DEF ClientsInv, ClosingIsMeant, UnopenedIsIdle
  <2>3. QED BY <1>3, <2>1, <2>2
<1>9. UnopenedIsIdle'
  <2> SUFFICES ASSUME NEW a \in Tabs, opens'[a] = 0
               PROVE  ws'[a] = NoConn /\ ~reconnectTimer'[a] /\ ~intentionalClose'[a]
    BY DEF UnopenedIsIdle
  <2>1. a # b /\ opens[a] = 0
    BY <1>4, <1>8
  <2>2. QED
    BY <1>1, <1>4, <2>1 DEF ClientsInv, UnopenedIsIdle, TabTypeOK
<1>10. TimerHasNoSocket' /\ SocketIsOwned'
  <2>1. TimerHasNoSocket'
    BY <1>1, <1>3, <1>4 DEF ClientsInv, TimerHasNoSocket, TabTypeOK
  <2>2. SocketIsOwned'
    BY <1>1, <1>3, <1>4 DEF ClientsInv, SocketIsOwned, TabTypeOK
  <2>3. QED BY <2>1, <2>2
<1>11. OneSocketPerClient'
  <2> SUFFICES ASSUME NEW d \in Conns, peer'[d] \in {"dialing", "open"}
               PROVE  ws'[owner'[d]] = d
    BY DEF OneSocketPerClient
  <2>1. d # c /\ peer[d] \in {"dialing", "open"}
    BY <1>3
  <2>2. ws[owner[d]] = d
    BY <2>1 DEF ClientsInv, OneSocketPerClient
  <2>3. owner[d] # b
    BY <1>5, <2>1, <2>2, SessionRelayAssumption
  <2>4. QED
    BY <1>4, <2>2, <2>3
<1>12. DisconnectIsFinal'
  <2> SUFFICES ASSUME NEW a \in Tabs, intentionalClose'[a]
               PROVE  /\ ~reconnectTimer'[a] /\ ws'[a] = NoConn
                      /\ \A d \in Conns : owner'[d] = a => peer'[d] \notin {"dialing", "open"}
    BY DEF DisconnectIsFinal
  <2>1. /\ ~reconnectTimer[a] /\ ws[a] = NoConn
        /\ \A d \in Conns : owner[d] = a => peer[d] \notin {"dialing", "open"}
    BY <1>4 DEF ClientsInv, DisconnectIsFinal
  <2>2. ~reconnectTimer'[a]
    BY <1>1, <1>4, <1>7, <2>1 DEF TabTypeOK
  <2>3. QED
    BY <1>1, <1>3, <1>4, <2>1, <2>2 DEF TabTypeOK
<1>13. Announced'
  <2> SUFFICES ASSUME App = "sdk", NEW a \in Tabs, currentState'[a] = "ready"
               PROVE  ws'[a] # NoConn /\ peer'[ws'[a]] = "open"
    BY DEF Announced, ReadyMeansOpen
  <2>1. a # b /\ currentState[a] = "ready"
    BY <1>1, <1>4 DEF TabTypeOK
  <2>2. ws[a] \in Conns /\ peer[ws[a]] = "open" /\ owner[ws[a]] = a
    BY <1>1, <2>1 DEF Announced, ReadyMeansOpen, ClientsInv, SocketIsOwned, TabTypeOK
  <2>3. QED
    BY <1>1, <1>3, <1>4, <2>1, <2>2, SessionRelayAssumption DEF TabTypeOK
<1>14. QED
  BY <1>6, <1>9, <1>10, <1>11, <1>12, <1>13 DEF ClientsInv

LEMMA ClientsForget ==
  ASSUME ClientsInv, Announced, BaseInv', NEW c \in Conns, Forget(c)
  PROVE  ClientsInv' /\ Announced'
<1>1. TypeOK /\ TabTypeOK
  BY DEF ClientsInv, BaseInv, PendingInv
<1>2. /\ \A b \in Tabs : ws[b] # c
      /\ peer[c] = "closed"
      /\ peer' = [peer EXCEPT ![c] = "free"]
      /\ owner' = [owner EXCEPT ![c] = NoTab]
      /\ UNCHANGED <<ws, currentState, reconnectTimer, intentionalClose, opens>>
  BY DEF Forget, Recycle
<1>3. OwnedInUse' /\ ClosingIsMeant' /\ OneSocketPerClient'
  BY <1>1, <1>2
  DEF ClientsInv, OwnedInUse, ClosingIsMeant, OneSocketPerClient, TypeOK, TabTypeOK
<1>4. UnopenedIsIdle' /\ TimerHasNoSocket'
  BY <1>2 DEF ClientsInv, UnopenedIsIdle, TimerHasNoSocket
<1>5. DisconnectIsFinal'
  BY <1>1, <1>2, RelaySessionAssumption DEF ClientsInv, DisconnectIsFinal, TypeOK, TabTypeOK
<1>6. SocketIsOwned' /\ Announced'
  BY <1>1, <1>2
  DEF ClientsInv, SocketIsOwned, Announced, ReadyMeansOpen, TypeOK, TabTypeOK
<1>7. QED
  BY <1>3, <1>4, <1>5, <1>6 DEF ClientsInv

LEMMA ClientsStep ==
  ASSUME ClientsInv, Announced, MaxOpens <= 1, [SessionNext]_sessionVars
  PROVE  ClientsInv' /\ Announced'
<1>1. BaseInv'
  BY BaseStep DEF ClientsInv
<1>2. CASE UNCHANGED <<tabVars, peer>>
  BY <1>1, <1>2, ClientsFrame DEF ClientsInv, Announced
<1>3. ASSUME NEW c \in Conns, onmessage(c)
      PROVE  ClientsInv' /\ Announced'
  <2>1. TypeOK /\ Delivers(c, "mcp_request")
    BY <1>3 DEF onmessage, ClientsInv, BaseInv, PendingInv
  <2>2. UNCHANGED peer
    <3>1. peer'[c] = peer[c] /\ \A d \in Conns : d # c => peer'[d] = peer[d]
      BY <2>1, PeerAdvances
    <3>2. peer' = [peer EXCEPT ![c] = PeerAfter(c)]
      BY <2>1 DEF Delivers
    <3>3. QED
      BY <2>1, <3>1, <3>2 DEF TypeOK
  <2>3. UNCHANGED <<ws, currentState, reconnectTimer, intentionalClose, owner, opens>>
    BY <1>3 DEF onmessage
  <2>4. /\ OwnedInUse' /\ ClosingIsMeant' /\ UnopenedIsIdle' /\ TimerHasNoSocket'
        /\ SocketIsOwned' /\ OneSocketPerClient' /\ DisconnectIsFinal' /\ Announced'
    BY <2>2, <2>3
    DEF ClientsInv, OwnedInUse, ClosingIsMeant, UnopenedIsIdle, TimerHasNoSocket,
        SocketIsOwned, OneSocketPerClient, DisconnectIsFinal, Announced, ReadyMeansOpen
  <2>5. QED
    BY <1>1, <2>4 DEF ClientsInv
<1>4. ASSUME NEW r \in Reqs, sandboxDone(r)
      PROVE  UNCHANGED <<tabVars, peer>>
  BY <1>4 DEF sandboxDone
<1>5. CASE TabStep
  BY <1>1, <1>2, <1>3, <1>4, <1>5, ClientsConnect, ClientsDisconnect, ClientsOnopen,
     ClientsOnclose, ClientsForget
  DEF TabStep, TabReads
<1>6. CASE ObjectStep \/ Fault \/ UNCHANGED sessionVars
  BY <1>2, <1>6, ClientsElsewhere
<1>7. QED
  BY <1>5, <1>6 DEF SessionNext

LEMMA ClientsInit == SessionInit => ClientsInv /\ Announced /\ NeverGivesUp
<1> SUFFICES ASSUME SessionInit
             PROVE  ClientsInv /\ Announced /\ NeverGivesUp
  OBVIOUS
<1>1. OwnedInUse /\ ClosingIsMeant /\ OneSocketPerClient
  BY DEF SessionInit, Init, OwnedInUse, ClosingIsMeant, OneSocketPerClient
<1>2. UnopenedIsIdle /\ TimerHasNoSocket /\ SocketIsOwned /\ DisconnectIsFinal
  BY DEF SessionInit, UnopenedIsIdle, TimerHasNoSocket, SocketIsOwned, DisconnectIsFinal
<1>3. Announced /\ NeverGivesUp
  BY DEF SessionInit, Announced, ReadyMeansOpen, NeverGivesUp
<1>4. QED
  BY <1>1, <1>2, <1>3, BaseInit DEF ClientsInv

\* onclose is the only handler that takes the socket away from a client that
\* wants one, and it leaves a timer behind.
LEMMA NeverGivesUpStep ==
  ASSUME BaseInv, NeverGivesUp, [SessionNext]_sessionVars
  PROVE  NeverGivesUp'
<1>1. TypeOK /\ TabTypeOK
  BY DEF BaseInv, PendingInv
<1>2. ASSUME NEW b \in Tabs, NEW c \in Conns, connect(b, c) \/ reconnect(b, c)
      PROVE  NeverGivesUp'
  <2>1. ws' = [ws EXCEPT ![b] = c] /\ c # NoConn
    BY <1>2, SessionRelayAssumption DEF connect, reconnect, doConnect
  <2>2. \A a \in Tabs : a # b => /\ opens'[a] = opens[a]
                                 /\ intentionalClose'[a] = intentionalClose[a]
                                 /\ reconnectTimer'[a] = reconnectTimer[a]
    BY <1>1, <1>2 DEF connect, reconnect, TabTypeOK
  <2>3. QED
    BY <1>1, <2>1, <2>2 DEF NeverGivesUp, TabTypeOK
<1>3. ASSUME NEW b \in Tabs, disconnect(b)
      PROVE  NeverGivesUp'
  BY <1>1, <1>3 DEF disconnect, NeverGivesUp, TabTypeOK
<1>4. ASSUME NEW c \in Conns, onclose(c)
      PROVE  NeverGivesUp'
  <2>1. owner[c] \in Tabs
    BY <1>1, <1>4 DEF onclose, Delivers, TabTypeOK
  <2>2. QED
    BY <1>1, <1>4, <2>1 DEF onclose, NeverGivesUp, TabTypeOK
<1>5. CASE UNCHANGED <<ws, reconnectTimer, intentionalClose, opens>>
  BY <1>5 DEF NeverGivesUp
<1>6. CASE TabStep
  <2>1. ASSUME NEW c \in Conns, onopen(c) \/ onmessage(c) \/ Forget(c)
        PROVE  NeverGivesUp'
    BY <1>5, <2>1 DEF onopen, onmessage, Forget
  <2>2. ASSUME NEW r \in Reqs, sandboxDone(r)
        PROVE  NeverGivesUp'
    BY <1>5, <2>2 DEF sandboxDone, tabVars
  <2>3. QED
    BY <1>2, <1>3, <1>4, <1>6, <2>1, <2>2 DEF TabStep, TabReads
<1>7. CASE ObjectStep \/ Fault \/ UNCHANGED sessionVars
  BY <1>5, <1>7, ClientsElsewhere DEF tabVars
<1>8. QED
  BY <1>6, <1>7 DEF SessionNext

\* A client that wants a connection has a socket or a timer, however often it
\* is connected and disconnected.
THEOREM ClientsNeverGiveUp == SessionSpec => []NeverGivesUp
BY ClientsInit, NeverGivesUpStep, BaseCorrect, PTL DEF SessionSpec

LEMMA ClientsCorrect ==
  ASSUME MaxOpens <= 1
  PROVE  SessionSpec => [](ClientsInv /\ Announced)
<1>1. ClientsInv /\ Announced /\ [SessionNext]_sessionVars => ClientsInv' /\ Announced'
  BY ClientsStep
<1>2. QED
  BY <1>1, ClientsInit, PTL DEF SessionSpec

\* After disconnect() no timer, close event or answer that was on its way
\* brings the client back.
THEOREM ClientsStayAway ==
  ASSUME MaxOpens <= 1
  PROVE  SessionSpec => []DisconnectIsFinal
BY ClientsCorrect, PTL DEF ClientsInv

\* What holds of every client driven by the sdk at every moment: one socket,
\* known to it while it is not over; readiness that the other side can know
\* of; a next attempt.
THEOREM ClientsAreSound ==
  ASSUME MaxOpens <= 1, App = "sdk"
  PROVE  SessionSpec => []ClientInv
<1>1. ClientsInv /\ Announced /\ BaseInv /\ NeverGivesUp => ClientInv
  BY DEF ClientsInv, Announced, BaseInv, PendingInv, TabTypeOK, SessionTypeOK, ClientInv
<1>2. QED
  BY <1>1, ClientsCorrect, ClientsNeverGiveUp, BaseCorrect, PTL

-----------------------------------------------------------------------------
(***************************************************************************)
(* Whose answer it is.  A request travels on the connection it was         *)
(* forwarded on and nowhere else, and that connection stays its tab's      *)
(* while it is the session's browser.                                      *)
(***************************************************************************)

OnWire(frames, r) == \E i \in 1 .. Len(frames) : frames[i] = Request(r)

Forwarded(r) == phase[r] \in {"waiting", "done"}

TravelsWhereSent ==
  \A c \in Conns, r \in Reqs : OnWire(down[c], r) => sentOn[r] = c /\ Forwarded(r)

WorkedOnWasForwarded == \A r \in atBrowser : Forwarded(r)

ServedByItsSocket ==
  \A r \in pendingRequests \cap atBrowser : servedBy[r] = owner[sentOn[r]]

BrowserInUse == browserSocket # NoConn => server[browserSocket] # "free"

ServedInv ==
  /\ BaseInv
  /\ TravelsWhereSent /\ WorkedOnWasForwarded /\ ServedByItsSocket
  /\ BrowserInUse

LEMMA OnWireTail ==
  ASSUME NEW s \in Seq(DownFrames), s # <<>>, NEW r
  PROVE  /\ OnWire(Tail(s), r) => OnWire(s, r)
         /\ Head(s) = Request(r) => OnWire(s, r)
<1>1. ASSUME OnWire(Tail(s), r)
      PROVE  OnWire(s, r)
  <2>1. PICK i \in 1 .. Len(Tail(s)) : Tail(s)[i] = Request(r)
    BY <1>1 DEF OnWire
  <2>2. i + 1 \in 1 .. Len(s) /\ s[i + 1] = Request(r)
    BY <2>1
  <2>3. QED BY <2>2 DEF OnWire
<1>2. Head(s) = Request(r) => OnWire(s, r)
  BY DEF OnWire
<1>3. QED BY <1>1, <1>2

LEMMA OnWireAppend ==
  ASSUME NEW s \in Seq(DownFrames), NEW m \in DownFrames, NEW r,
         OnWire(Append(s, m), r)
  PROVE  OnWire(s, r) \/ m = Request(r)
BY DEF OnWire

LEMMA OnWireSent ==
  ASSUME NEW s \in Seq(DownFrames), NEW m \in DownFrames, NEW r,
         OnWire(Sent(s, m), r)
  PROVE  OnWire(s, r) \/ m = Request(r)
BY OnWireAppend DEF Sent

LEMMA OnWireSingle ==
  ASSUME NEW m \in {Close, Accept, Refuse}, NEW r
  PROVE  ~OnWire(<<m>>, r)
BY DEF OnWire, Close, Accept, Refuse, Request

LEMMA OnWireClosed ==
  ASSUME TypeOK, NEW c \in Conns \cup {NoConn}, NEW d \in Conns, NEW r,
         OnWire(DownClosed(c)[d], r)
  PROVE  OnWire(down[d], r)
<1>1. DownClosed(c)[d] = down[d] \/ DownClosed(c)[d] = Append(down[d], Close)
  BY DEF DownClosed, TypeOK
<1>2. down[d] \in Seq(DownFrames) /\ Close \in DownFrames
  BY FrameTypes DEF TypeOK
<1>3. Close # Request(r)
  BY DEF Close, Request
<1>4. QED
  BY <1>1, <1>2, <1>3, OnWireAppend

\* What a step of the object may do to a request that was forwarded, to the
\* frames on their way to the tabs, and to the browser's socket.
Advance ==
  \A r \in Reqs : Forwarded(r) =>
    /\ Forwarded(r)' /\ sentOn'[r] = sentOn[r]
    /\ r \in pendingRequests' => r \in pendingRequests

Travel ==
  \A c \in Conns, r \in Reqs : OnWire(down'[c], r) =>
    OnWire(down[c], r) \/ (sentOn'[r] = c /\ Forwarded(r)')

LEMMA FailAllAdvances ==
  ASSUME TypeOK, failAllPending, UNCHANGED sentOn
  PROVE  Advance
BY DEF TypeOK, failAllPending, RejectAll, Waiting, Advance, Forwarded

LEMMA NothingAdvances ==
  ASSUME UNCHANGED <<phase, pendingRequests, sentOn>>
  PROVE  Advance
BY DEF Advance, Forwarded

LEMMA LifecycleFacts ==
  ASSUME TypeOK, BrowserInUse,
         handleInit \/ handleTeardown \/ alarm \/ Hibernate \/ Restart
  PROVE  Advance /\ Travel /\ BrowserInUse'
<1>1. CASE handleInit \/ Hibernate
  <2>1. UNCHANGED <<phase, pendingRequests, sentOn, down, server>>
    BY <1>1 DEF handleInit, Hibernate, wires, client
  <2>2. BrowserInUse'
    BY <1>1, <2>1 DEF handleInit, Hibernate, Reconstruct, BrowserInUse
  <2>3. QED
    BY <2>1, <2>2, NothingAdvances DEF Travel
<1>2. CASE handleTeardown \/ alarm
  <2>1. Cleanup
    BY <1>2 DEF handleTeardown, alarm
  <2>2. Travel
    BY <2>1, OnWireClosed DEF Cleanup, Travel, TypeOK
  <2>3. BrowserInUse'
    BY <2>1 DEF Cleanup, memory, ServerClosed, BrowserInUse, TypeOK
  <2>4. QED
    BY <2>1, <2>2, <2>3, FailAllAdvances DEF Cleanup
<1>3. CASE Restart
  <2>1. Advance
    BY <1>3 DEF Restart, Advance, Forwarded, TypeOK
  <2>2. Travel
    BY <1>3, OnWireSingle DEF Restart, Travel, TypeOK
  <2>3. BrowserInUse'
    BY <1>3 DEF Restart, Reconstruct, BrowserInUse
  <2>4. QED BY <2>1, <2>2, <2>3
<1>4. QED
  BY <1>1, <1>2, <1>3

LEMMA UpgradeFacts ==
  ASSUME TypeOK, BrowserInUse, NEW c \in Conns, NEW token \in BOOLEAN,
         handleWebSocketUpgrade(c, token)
  PROVE  Advance /\ Travel /\ BrowserInUse'
<1>1. Advance
  BY FailAllAdvances, NothingAdvances DEF handleWebSocketUpgrade, client
<1>2. Travel
  <2> SUFFICES ASSUME NEW d \in Conns, NEW r \in Reqs, OnWire(down'[d], r)
               PROVE  OnWire(down[d], r)
    BY DEF Travel
  <2>1. CASE d = c
    <3>1. down'[c] \in {<<Accept>>, <<Refuse>>}
      <4>1. CASE Authorized(token)
        <5>1. DownClosed(browserSocket) \in [Conns -> Seq(DownFrames)]
          BY ServerClosedType DEF TypeOK
        <5>2. QED
          BY <4>1, <5>1 DEF handleWebSocketUpgrade
      <4>2. CASE ~Authorized(token)
        BY <4>2 DEF handleWebSocketUpgrade, TypeOK
      <4>3. QED BY <4>1, <4>2
    <3>2. QED
      BY <2>1, <3>1, OnWireSingle
  <2>2. CASE d # c
    <3>1. CASE Authorized(token)
      <4>1. DownClosed(browserSocket) \in [Conns -> Seq(DownFrames)]
        BY ServerClosedType DEF TypeOK
      <4>2. down'[d] = DownClosed(browserSocket)[d]
        BY <2>2, <3>1, <4>1 DEF handleWebSocketUpgrade
      <4>3. browserSocket \in Conns \cup {NoConn}
        BY DEF TypeOK
      <4>4. QED
        BY <4>2, <4>3, OnWireClosed
    <3>2. CASE ~Authorized(token)
      BY <2>2, <3>2 DEF handleWebSocketUpgrade, TypeOK
    <3>3. QED BY <3>1, <3>2
  <2>3. QED BY <2>1, <2>2
<1>3. BrowserInUse'
  <2>1. CASE Authorized(token)
    <3>1. ServerClosed(browserSocket) \in [Conns -> ServerStates]
      BY ServerClosedType DEF TypeOK
    <3>2. server'[c] = "open" /\ browserSocket' = c
      BY <2>1, <3>1 DEF handleWebSocketUpgrade
    <3>3. QED BY <3>2 DEF BrowserInUse
  <2>2. CASE ~Authorized(token)
    BY <2>2 DEF handleWebSocketUpgrade, BrowserInUse, TypeOK
  <2>3. QED BY <2>1, <2>2
<1>4. QED BY <1>1, <1>2, <1>3

LEMMA ReadsFacts ==
  ASSUME TypeOK, BrowserInUse, NEW c \in Conns, ObjectReads(c)
  PROVE  Advance /\ Travel /\ BrowserInUse'
<1>1. CASE handleStatusMessage(c) \/ handleMcpStream(c)
  <2>1. UNCHANGED <<phase, pendingRequests, sentOn, down, server, browserSocket>>
    BY <1>1 DEF handleStatusMessage, handleMcpStream, memory, client
  <2>2. QED
    BY <2>1, NothingAdvances DEF Travel, BrowserInUse
<1>2. CASE handleMcpResponse(c)
  <2>1. Advance
    BY <1>2 DEF handleMcpResponse, Answer, client, Advance, Forwarded, TypeOK
  <2>2. QED
    BY <1>2, <2>1 DEF handleMcpResponse, Travel, BrowserInUse
<1>3. CASE webSocketClose(c)
  <2>1. Advance
    BY <1>3, FailAllAdvances, NothingAdvances DEF webSocketClose, client
  <2>2. Travel
    BY <1>3, OnWireClosed DEF webSocketClose, Travel
  <2>3. BrowserInUse'
    BY <1>3 DEF webSocketClose, BrowserInUse, TypeOK
  <2>4. QED BY <2>1, <2>2, <2>3
<1>4. QED
  BY <1>1, <1>2, <1>3 DEF ObjectReads

LEMMA McpFacts ==
  ASSUME TypeOK, BrowserInUse, NEW r \in Reqs,
         \/ \E token \in BOOLEAN : McpArrive(r, token)
         \/ McpDispatch(r)
         \/ RequestTimeout(r)
  PROVE  Advance /\ Travel /\ BrowserInUse'
<1>1. ASSUME NEW token \in BOOLEAN, McpArrive(r, token)
      PROVE  Advance /\ Travel /\ BrowserInUse'
  BY <1>1 DEF McpArrive, Answer, memory, wires, Advance, Forwarded, Travel, BrowserInUse, TypeOK
<1>2. CASE RequestTimeout(r)
  BY <1>2 DEF RequestTimeout, RejectAll, Waiting, memory, wires, Advance, Forwarded,
              Travel, BrowserInUse, TypeOK
<1>3. CASE McpDispatch(r)
  <2>1. BrowserInUse'
    BY <1>3 DEF McpDispatch, memory, BrowserInUse
  <2>2. ASSUME NEW a, AnswerLocally(r, a)
        PROVE  Advance /\ Travel
    BY <1>3, <2>2 DEF McpDispatch, AnswerLocally, Answer, Advance, Forwarded, Travel, TypeOK
  <2>3. CASE Connected /\ Forward(r)
    <3>1. phase[r] = "body" /\ browserSocket \in Conns
      BY <1>3, <2>3 DEF McpDispatch, Connected, TypeOK
    <3>2. Forwarded(r)' /\ sentOn'[r] = browserSocket
      BY <2>3 DEF Forward, Answer, Forwarded, TypeOK
    <3>3. \A q \in Reqs : q # r => /\ phase'[q] = phase[q] /\ sentOn'[q] = sentOn[q]
                                   /\ q \in pendingRequests' => q \in pendingRequests
      BY <2>3 DEF Forward, Answer, TypeOK
    <3>4. Advance
      BY <3>1, <3>3 DEF Advance, Forwarded
    <3>5. Travel
      <4> SUFFICES ASSUME NEW c \in Conns, NEW q \in Reqs, OnWire(down'[c], q),
                          ~OnWire(down[c], q)
                   PROVE  q = r /\ c = browserSocket
        BY <3>2 DEF Travel
      <4>1. /\ c = browserSocket
            /\ down'[c] = Sent(down[c], Request(r))
        BY <2>3, <3>1 DEF Forward, TypeOK
      <4>2. Request(r) \in DownFrames /\ down[c] \in Seq(DownFrames)
        BY FrameTypes DEF TypeOK
      <4>3. Request(r) = Request(q)
        BY <4>1, <4>2, OnWireSent
      <4>4. QED
        BY <4>1, <4>3 DEF Request
    <3>6. QED BY <2>1, <3>4, <3>5
  <2>4. QED
    BY <1>3, <2>1, <2>2, <2>3 DEF McpDispatch
<1>4. QED BY <1>1, <1>2, <1>3

LEMMA BreakFacts ==
  ASSUME TypeOK, BrowserInUse, NEW c \in Conns, Break(c)
  PROVE  Advance /\ Travel /\ BrowserInUse'
<1>1. Advance
  BY NothingAdvances DEF Break, client
<1>2. Travel
  BY OnWireSingle DEF Break, Travel, TypeOK
<1>3. BrowserInUse'
  BY DEF Break, memory, BrowserInUse
<1>4. QED BY <1>1, <1>2, <1>3

\* Steps of the object change neither whose a connection is nor what the
\* sandboxes work on.
LEMMA ServedObject ==
  ASSUME ServedInv, ObjectStep \/ Fault
  PROVE  /\ TravelsWhereSent' /\ WorkedOnWasForwarded' /\ ServedByItsSocket'
         /\ BrowserInUse'
<1>1. TypeOK /\ BrowserInUse
  BY DEF ServedInv, BaseInv, PendingInv
<1>2. Advance /\ Travel /\ BrowserInUse'
  <2>1. CASE ObjectStep
    BY <1>1, <2>1, RelaySessionAssumption, LifecycleFacts, UpgradeFacts, ReadsFacts, McpFacts
    DEF ObjectStep, Upgrade, Reads, Arrive, Dispatch, Expire
  <2>2. CASE Fault
    BY <1>1, <2>2, LifecycleFacts, BreakFacts DEF Fault
  <2>3. QED BY <2>1, <2>2
<1>3. UNCHANGED <<owner, servedBy>>
  BY ClientsElsewhere DEF tabVars
<1>4. UNCHANGED atBrowser
  <2>1. CASE ObjectStep
    BY <2>1
    DEF ObjectStep, Upgrade, Reads, Arrive, Dispatch, Expire, handleInit, Hibernate,
        handleWebSocketUpgrade, ObjectReads, handleStatusMessage, handleMcpResponse,
        handleMcpStream, webSocketClose, McpArrive, McpDispatch, RequestTimeout
  <2>2. CASE Fault
    BY <2>2 DEF Fault, handleTeardown, alarm, Cleanup, Restart, Break
  <2>3. QED BY <2>1, <2>2
<1>5. TravelsWhereSent'
  BY <1>2 DEF ServedInv, TravelsWhereSent, Travel, Advance
<1>6. WorkedOnWasForwarded'
  BY <1>1, <1>2, <1>4 DEF ServedInv, WorkedOnWasForwarded, Advance, TypeOK
<1>7. ServedByItsSocket'
  BY <1>1, <1>2, <1>3, <1>4
  DEF ServedInv, WorkedOnWasForwarded, ServedByItsSocket, Advance, TypeOK
<1>8. QED BY <1>2, <1>5, <1>6, <1>7

LEMMA ServedConnect ==
  ASSUME ServedInv, NEW b \in Tabs, NEW c \in Conns, connect(b, c) \/ reconnect(b, c)
  PROVE  /\ TravelsWhereSent' /\ WorkedOnWasForwarded' /\ ServedByItsSocket'
         /\ BrowserInUse'
<1>1. /\ server[c] = "free"
      /\ owner' = [owner EXCEPT ![c] = b]
      /\ UNCHANGED <<browserSocket, server, down, phase, pendingRequests, atBrowser, sentOn,
                     servedBy>>
  BY DEF connect, reconnect, doConnect, Dial, memory, client
<1>2. browserSocket # c
  BY <1>1, SessionRelayAssumption DEF ServedInv, BrowserInUse
<1>3. ServedByItsSocket'
  <2> SUFFICES ASSUME NEW r \in pendingRequests \cap atBrowser
               PROVE  servedBy[r] = owner'[sentOn[r]]
    BY <1>1 DEF ServedByItsSocket
  <2>1. sentOn[r] = browserSocket /\ browserSocket \in Conns /\ servedBy[r] = owner[sentOn[r]]
    BY DEF ServedInv, BaseInv, PendingInv, PendingFollowsSocket, ServedByItsSocket, TypeOK
  <2>2. QED
    BY <1>1, <1>2, <2>1 DEF ServedInv, BaseInv, TabTypeOK
<1>4. QED
  BY <1>1, <1>3
  DEF ServedInv, TravelsWhereSent, WorkedOnWasForwarded, BrowserInUse, Forwarded

LEMMA ServedForget ==
  ASSUME ServedInv, NEW c \in Conns, Forget(c)
  PROVE  /\ TravelsWhereSent' /\ WorkedOnWasForwarded' /\ ServedByItsSocket'
         /\ BrowserInUse'
<1>1. TypeOK /\ TabTypeOK
  BY DEF ServedInv, BaseInv, PendingInv
<1>2. /\ browserSocket # c
      /\ server' = [server EXCEPT ![c] = "free"]
      /\ down' = [down EXCEPT ![c] = <<>>]
      /\ owner' = [owner EXCEPT ![c] = NoTab]
      /\ UNCHANGED <<browserSocket, phase, pendingRequests, atBrowser, sentOn, servedBy>>
  BY DEF Forget, Recycle, memory, client
<1>3. TravelsWhereSent'
  <2> SUFFICES ASSUME NEW d \in Conns, NEW r \in Reqs, OnWire(down'[d], r)
               PROVE  sentOn[r] = d /\ Forwarded(r)
    BY <1>2 DEF TravelsWhereSent, Forwarded
  <2>1. OnWire(down[d], r)
    BY <1>1, <1>2 DEF OnWire, TypeOK
  <2>2. QED
    BY <2>1 DEF ServedInv, TravelsWhereSent
<1>4. ServedByItsSocket'
  <2> SUFFICES ASSUME NEW r \in pendingRequests \cap atBrowser
               PROVE  servedBy[r] = owner'[sentOn[r]]
    BY <1>2 DEF ServedByItsSocket
  <2>1. sentOn[r] = browserSocket /\ servedBy[r] = owner[sentOn[r]]
    BY DEF ServedInv, BaseInv, PendingInv, PendingFollowsSocket, ServedByItsSocket
  <2>2. browserSocket \in Conns
    BY <1>1 DEF ServedInv, BaseInv, PendingInv, PendingFollowsSocket, TypeOK
  <2>3. QED
    BY <1>1, <1>2, <2>1, <2>2 DEF TabTypeOK
<1>5. BrowserInUse' /\ WorkedOnWasForwarded'
  BY <1>1, <1>2
  DEF ServedInv, BrowserInUse, WorkedOnWasForwarded, Forwarded, TypeOK
<1>6. QED BY <1>3, <1>4, <1>5

\* A request reaches its tab on the connection it was sent on.
LEMMA ServedTabReads ==
  ASSUME ServedInv, NEW c \in Conns, TabReads(c)
  PROVE  /\ TravelsWhereSent' /\ WorkedOnWasForwarded' /\ ServedByItsSocket'
         /\ BrowserInUse'
<1>1. TypeOK /\ TabTypeOK
  BY DEF ServedInv, BaseInv, PendingInv
<1>2. PICK type : Delivers(c, type)
  BY DEF TabReads, onopen, onmessage, onclose
<1>3. /\ down[c] # <<>> /\ down[c] \in Seq(DownFrames)
      /\ down' = [down EXCEPT ![c] = Tail(@)]
      /\ UNCHANGED <<browserSocket, server, phase, pendingRequests, sentOn>>
  BY <1>1, <1>2 DEF Delivers, memory, client, TypeOK
<1>4. UNCHANGED owner
  BY DEF TabReads, onopen, onmessage, onclose
<1>5. TravelsWhereSent'
  <2> SUFFICES ASSUME NEW d \in Conns, NEW r \in Reqs, OnWire(down'[d], r)
               PROVE  sentOn[r] = d /\ Forwarded(r)
    BY <1>3 DEF TravelsWhereSent, Forwarded
  <2>1. down'[d] = down[d] \/ (d = c /\ down'[d] = Tail(down[c]))
    BY <1>1, <1>3 DEF TypeOK
  <2>2. OnWire(down[d], r)
    BY <1>3, <2>1, OnWireTail
  <2>3. QED
    BY <2>2 DEF ServedInv, TravelsWhereSent
<1>6. BrowserInUse'
  BY <1>3 DEF ServedInv, BrowserInUse
<1>7. CASE UNCHANGED <<atBrowser, servedBy>>
  BY <1>3, <1>4, <1>5, <1>6, <1>7
  DEF ServedInv, WorkedOnWasForwarded, ServedByItsSocket, Forwarded
<1>8. CASE onmessage(c) /\ peer[c] = "open"
  <2> DEFINE q == Head(down[c]).id
  <2>1. q \in Reqs /\ Head(down[c]) = Request(q)
    BY <1>1, <1>8, TakenFrame DEF onmessage
  <2>2. sentOn[q] = c /\ Forwarded(q)
    BY <1>3, <2>1, OnWireTail DEF ServedInv, TravelsWhereSent
  <2>3. /\ atBrowser' = atBrowser \cup {q}
        /\ servedBy' = [servedBy EXCEPT ![q] = owner[c]]
    BY <1>8 DEF onmessage
  <2>4. WorkedOnWasForwarded'
    BY <1>3, <2>2, <2>3 DEF ServedInv, WorkedOnWasForwarded, Forwarded
  <2>5. ServedByItsSocket'
    <3> SUFFICES ASSUME NEW r \in Reqs, r \in pendingRequests, r \in atBrowser'
                 PROVE  servedBy'[r] = owner[sentOn[r]]
      BY <1>1, <1>3, <1>4 DEF ServedByItsSocket, TypeOK
    <3>1. CASE r = q
      BY <1>1, <2>1, <2>2, <2>3, <3>1 DEF TabTypeOK
    <3>2. CASE r # q
      BY <1>1, <2>3, <3>2 DEF ServedInv, ServedByItsSocket, TabTypeOK
    <3>3. QED BY <3>1, <3>2
  <2>6. QED BY <1>5, <1>6, <2>4, <2>5
<1>9. QED
  BY <1>7, <1>8 DEF TabReads, onopen, onmessage, onclose

LEMMA ServedStep ==
  ASSUME ServedInv, [SessionNext]_sessionVars
  PROVE  ServedInv'
<1>1. BaseInv'
  BY BaseStep DEF ServedInv
<1>2. ASSUME /\ atBrowser' \subseteq atBrowser
             /\ UNCHANGED <<browserSocket, server, down, phase, pendingRequests, sentOn,
                            owner, servedBy>>
      PROVE  ServedInv'
  BY <1>1, <1>2
  DEF ServedInv, TravelsWhereSent, WorkedOnWasForwarded, ServedByItsSocket, BrowserInUse,
      Forwarded
<1>3. ASSUME NEW b \in Tabs, disconnect(b)
      PROVE  ServedInv'
  BY <1>2, <1>3 DEF disconnect, PeerCloses, vars, memory, wires, client
<1>4. ASSUME NEW r \in Reqs, sandboxDone(r)
      PROVE  ServedInv'
  BY <1>2, <1>4 DEF sandboxDone, tabVars, memory, client
<1>5. CASE TabStep
  BY <1>1, <1>3, <1>4, <1>5, ServedConnect, ServedForget, ServedTabReads DEF TabStep, ServedInv
<1>6. CASE ObjectStep \/ Fault
  BY <1>1, <1>6, ServedObject DEF ServedInv
<1>7. CASE UNCHANGED sessionVars
  BY <1>2, <1>7 DEF sessionVars, tabVars, vars, memory, wires, client
<1>8. QED
  BY <1>5, <1>6, <1>7 DEF SessionNext

LEMMA ServedInit == SessionInit => ServedInv
<1> SUFFICES ASSUME SessionInit
             PROVE  ServedInv
  OBVIOUS
<1>1. TravelsWhereSent
  BY DEF SessionInit, Init, TravelsWhereSent, OnWire
<1>2. WorkedOnWasForwarded /\ ServedByItsSocket /\ BrowserInUse
  BY DEF SessionInit, Init, WorkedOnWasForwarded, ServedByItsSocket, BrowserInUse
<1>3. QED
  BY <1>1, <1>2, BaseInit DEF ServedInv

\* The tab that works on a pending request is the one whose socket is the
\* session's browser: no answer comes from a tab that was not asked.
THEOREM NoTabAnswersForAnother == SessionSpec => []ServedByTheBrowser
<1>1. ServedInv => ServedByTheBrowser
  BY DEF ServedInv, BaseInv, PendingInv, PendingFollowsSocket, ServedByItsSocket,
         ServedByTheBrowser
<1>2. QED
  BY <1>1, ServedInit, ServedStep, PTL DEF SessionSpec

=============================================================================

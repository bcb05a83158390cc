------------------------- MODULE SessionRelayProofs -------------------------
(***************************************************************************)
(* Theorems about SessionRelay for any number of connections and requests: *)
(* type correctness, the inductive invariant behind "nobody waits without  *)
(* a timer" and "no browser answers for another", and the refinement of    *)
(* RequestReply.                                                           *)
(***************************************************************************)
EXTENDS SessionRelay, TLAPS

LEMMA SentType ==
  ASSUME NEW S, NEW frames \in Seq(S), NEW m \in S
  PROVE  Sent(frames, m) \in Seq(S)
BY DEF Sent

LEMMA FrameTypes ==
  /\ Close \in UpFrames /\ Close \in DownFrames
  /\ Accept \in DownFrames /\ Refuse \in DownFrames
  /\ \A r \in Reqs : Request(r) \in DownFrames
  /\ Statuses \subseteq UpFrames
BY DEF UpFrames, DownFrames, Close, Accept, Refuse, Request

LEMMA ServerClosedType ==
  ASSUME TypeOK, NEW c \in Conns \cup {NoConn}
  PROVE  /\ ServerClosed(c) \in [Conns -> ServerStates]
         /\ DownClosed(c) \in [Conns -> Seq(DownFrames)]
BY SessionRelayAssumption, FrameTypes DEF TypeOK, ServerClosed, DownClosed, ServerStates

LEMMA FailAllType ==
  ASSUME TypeOK, failAllPending
  PROVE  /\ pendingRequests' \in SUBSET Reqs
         /\ phase' \in [Reqs -> {"new", "body", "waiting", "done"}]
         /\ kind' \in [Reqs -> AllKinds]
         /\ answer' \in [Reqs -> Refusals \cup Finals \cup {NoAnswer}]
         /\ parts' \in [Reqs -> Nat]
BY DEF TypeOK, failAllPending, RejectAll, Waiting, Rejection, ToolsFallback, Finals

LEMMA AnswerType ==
  ASSUME TypeOK, NEW r \in Reqs, NEW a \in Refusals \cup Finals, Answer(r, a)
  PROVE  /\ phase' \in [Reqs -> {"new", "body", "waiting", "done"}]
         /\ kind' \in [Reqs -> AllKinds]
         /\ answer' \in [Reqs -> Refusals \cup Finals \cup {NoAnswer}]
         /\ parts' \in [Reqs -> Nat]
BY DEF TypeOK, Answer

-----------------------------------------------------------------------------

LEMMA ObjectLifecycleType ==
  ASSUME TypeOK,
         handleInit \/ handleTeardown \/ alarm \/ Hibernate \/ Restart
  PROVE  TypeOK'
<1>1. CASE handleInit
  BY <1>1 DEF TypeOK, handleInit, wires, client
<1>2. CASE handleTeardown \/ alarm
  <2>1. Cleanup
    BY <1>2 DEF handleTeardown, alarm
  <2>2. server' \in [Conns -> ServerStates] /\ down' \in [Conns -> Seq(DownFrames)]
    BY <2>1, ServerClosedType DEF Cleanup, TypeOK
  <2>3. /\ pendingRequests' \in SUBSET Reqs
        /\ phase' \in [Reqs -> {"new", "body", "waiting", "done"}]
        /\ kind' \in [Reqs -> AllKinds]
        /\ answer' \in [Reqs -> Refusals \cup Finals \cup {NoAnswer}]
        /\ parts' \in [Reqs -> Nat]
    BY <2>1, FailAllType DEF Cleanup
  <2>4. QED
    BY <2>1, <2>2, <2>3 DEF Cleanup, TypeOK, memory
<1>3. CASE Hibernate
  BY <1>3 DEF TypeOK, Hibernate, Reconstruct, wires, client
<1>4. CASE Restart
  <2>1. /\ server' \in [Conns -> ServerStates]
        /\ up' \in [Conns -> Seq(UpFrames)]
    BY <1>4 DEF TypeOK, Restart, ServerStates
  <2>2. down' \in [Conns -> Seq(DownFrames)]
    BY <1>4, FrameTypes DEF TypeOK, Restart
  <2>3. /\ phase' \in [Reqs -> {"new", "body", "waiting", "done"}]
        /\ answer' \in [Reqs -> Refusals \cup Finals \cup {NoAnswer}]
    BY <1>4 DEF TypeOK, Restart, Finals
  <2>4. QED
    BY <1>4, <2>1, <2>2, <2>3 DEF TypeOK, Restart, Reconstruct
<1>5. QED
  BY <1>1, <1>2, <1>3, <1>4

LEMMA UpgradeType ==
  ASSUME TypeOK, NEW c \in Conns, NEW token \in BOOLEAN,
         handleWebSocketUpgrade(c, token)
  PROVE  TypeOK'
<1>1. CASE Authorized(token)
  <2>1. server' \in [Conns -> ServerStates]
    BY <1>1, ServerClosedType DEF handleWebSocketUpgrade, TypeOK, ServerStates
  <2>2. down' \in [Conns -> Seq(DownFrames)]
    <3>1. DownClosed(browserSocket) \in [Conns -> Seq(DownFrames)]
      BY ServerClosedType DEF TypeOK
    <3>2. <<Accept>> \in Seq(DownFrames)
      BY FrameTypes
    <3>3. QED
      BY <1>1, <3>1, <3>2 DEF handleWebSocketUpgrade
  <2>3. /\ pendingRequests' \in SUBSET Reqs
        /\ phase' \in [Reqs -> {"new", "body", "waiting", "done"}]
        /\ kind' \in [Reqs -> AllKinds]
        /\ answer' \in [Reqs -> Refusals \cup Finals \cup {NoAnswer}]
        /\ parts' \in [Reqs -> Nat]
    <3>1. CASE browserSocket # NoConn
      BY <1>1, <3>1, FailAllType DEF handleWebSocketUpgrade
    <3>2. CASE browserSocket = NoConn
      BY <1>1, <3>2 DEF handleWebSocketUpgrade, TypeOK, client
    <3>3. QED BY <3>1, <3>2
  <2>4. QED
    BY <1>1, <2>1, <2>2, <2>3 DEF handleWebSocketUpgrade, TypeOK
<1>2. CASE ~Authorized(token)
  <2>1. <<Refuse>> \in Seq(DownFrames)
    BY FrameTypes
  <2>2. down' \in [Conns -> Seq(DownFrames)]
    BY <1>2, <2>1 DEF handleWebSocketUpgrade, TypeOK
  <2>3. QED
    BY <1>2, <2>2 DEF handleWebSocketUpgrade, TypeOK, client, ServerStates
<1>3. QED
  BY <1>1, <1>2

LEMMA ObjectReadsType ==
  ASSUME TypeOK, NEW c \in Conns, ObjectReads(c)
  PROVE  TypeOK'
<1> DEFINE m == Head(up[c])
<1>1. /\ m \in UpFrames
      /\ Tail(up[c]) \in Seq(UpFrames)
  BY DEF TypeOK, ObjectReads, handleStatusMessage, handleMcpResponse,
         handleMcpStream, webSocketClose, Receives
<1>2. [up EXCEPT ![c] = Tail(@)] \in [Conns -> Seq(UpFrames)]
  BY <1>1 DEF TypeOK
<1>3. CASE handleStatusMessage(c)
  <2>1. m \in Statuses
    BY <1>1, <1>3 DEF handleStatusMessage, Receives, UpFrames, ResponseMsgs, StreamMsgs, Close
  <2>2. m.ready \in BOOLEAN /\ m.tools \in BOOLEAN
    BY <2>1, SessionRelayAssumption
  <2>3. QED
    BY <1>2, <1>3, <2>2 DEF handleStatusMessage, TypeOK, client
<1>4. CASE handleMcpResponse(c)
  <2>1. m \in ResponseMsgs
    BY <1>1, <1>4, SessionRelayAssumption
    DEF handleMcpResponse, Receives, UpFrames, ResponseMsgs, StreamMsgs, Close
  <2>2. m.id \in Reqs /\ m.tools \in BOOLEAN
    BY <2>1 DEF ResponseMsgs
  <2>3. cachedToolList' \in BOOLEAN /\ pendingRequests' \in SUBSET Reqs
    BY <1>4, <2>2 DEF handleMcpResponse, TypeOK
  <2>4. /\ phase' \in [Reqs -> {"new", "body", "waiting", "done"}]
        /\ kind' \in [Reqs -> AllKinds]
        /\ answer' \in [Reqs -> Refusals \cup Finals \cup {NoAnswer}]
        /\ parts' \in [Reqs -> Nat]
    <3>1. CASE m.id \in pendingRequests /\ phase[m.id] = "waiting"
      <4>1. Answer(m.id, "result")
        BY <1>4, <3>1 DEF handleMcpResponse
      <4>2. QED
        BY <2>2, <4>1, AnswerType DEF Finals
    <3>2. CASE ~(m.id \in pendingRequests /\ phase[m.id] = "waiting")
      BY <1>4, <3>2 DEF handleMcpResponse, TypeOK, client
    <3>3. QED BY <3>1, <3>2
  <2>5. QED
    BY <1>2, <1>4, <2>3, <2>4 DEF handleMcpResponse, TypeOK
<1>5. CASE handleMcpStream(c)
  BY <1>2, <1>5 DEF handleMcpStream, TypeOK, memory
<1>6. CASE webSocketClose(c)
  <2>1. down' \in [Conns -> Seq(DownFrames)]
    BY <1>6, ServerClosedType DEF webSocketClose
  <2>2. /\ browserSocket' \in Conns \cup {NoConn} /\ browserReady' \in BOOLEAN
        /\ pendingRequests' \in SUBSET Reqs
        /\ phase' \in [Reqs -> {"new", "body", "waiting", "done"}]
        /\ kind' \in [Reqs -> AllKinds]
        /\ answer' \in [Reqs -> Refusals \cup Finals \cup {NoAnswer}]
        /\ parts' \in [Reqs -> Nat]
    <3>1. CASE c = browserSocket
      BY <1>6, <3>1, FailAllType DEF webSocketClose
    <3>2. CASE c # browserSocket
      BY <1>6, <3>2 DEF webSocketClose, TypeOK, client
    <3>3. QED BY <3>1, <3>2
  <2>3. /\ server' \in [Conns -> ServerStates]
        /\ up' \in [Conns -> Seq(UpFrames)]
    BY <1>6 DEF webSocketClose, TypeOK, ServerStates
  <2>4. /\ UNCHANGED <<cachedToolList, sessionToken, stored, life, peer, atBrowser, sentOn>>
        /\ forgotten' = forgotten \ {c}
    BY <1>6 DEF webSocketClose
  <2>5. QED
    BY <2>1, <2>2, <2>3, <2>4 DEF TypeOK
<1>7. QED
  BY <1>3, <1>4, <1>5, <1>6 DEF ObjectReads

LEMMA McpType ==
  ASSUME TypeOK, NEW r \in Reqs,
         \/ \E token \in BOOLEAN : McpArrive(r, token)
         \/ McpDispatch(r)
         \/ RequestTimeout(r)
  PROVE  TypeOK'
<1>1. ASSUME NEW token \in BOOLEAN, McpArrive(r, token)
      PROVE  TypeOK'
  <2>1. CASE Authorized(token)
    BY <1>1, <2>1 DEF McpArrive, TypeOK, memory, wires
  <2>2. CASE ~Authorized(token)
    <3>1. Answer(r, "unauthorized")
      BY <1>1, <2>2 DEF McpArrive
    <3>2. QED
      BY <1>1, <3>1, AnswerType DEF McpArrive, TypeOK, memory, wires, Refusals
  <2>3. QED BY <2>1, <2>2
<1>2. CASE McpDispatch(r)
  <2>1. ASSUME NEW a \in Finals, AnswerLocally(r, a)
        PROVE  TypeOK'
    BY <1>2, <2>1, AnswerType DEF McpDispatch, AnswerLocally, TypeOK, memory
  <2>2. CASE Connected /\ Forward(r)
    <3>1. browserSocket \in Conns
      BY <2>2 DEF Connected, TypeOK
    <3>2. /\ pendingRequests' \in SUBSET Reqs
          /\ sentOn' \in [Reqs -> Conns \cup {NoConn}]
      BY <2>2, <3>1 DEF Forward, TypeOK
    <3>3. CASE server[browserSocket] = "open"
      <4>1. down' \in [Conns -> Seq(DownFrames)]
        <5>1. Sent(down[browserSocket], Request(r)) \in Seq(DownFrames)
          BY <3>1, FrameTypes, SentType DEF TypeOK
        <5>2. QED
          BY <2>2, <3>1, <3>3, <5>1 DEF Forward, TypeOK
      <4>2. QED
        BY <1>2, <2>2, <3>2, <3>3, <4>1 DEF Forward, McpDispatch, TypeOK, memory
    <3>4. CASE server[browserSocket] # "open"
      <4>1. (IF kind[r] = "stream" THEN "exception" ELSE Rejection(r)) \in Finals
        BY DEF Rejection, ToolsFallback, Finals
      <4>2. PICK a \in Finals : Answer(r, a)
        BY <2>2, <3>4, <4>1 DEF Forward
      <4>3. QED
        BY <1>2, <2>2, <3>2, <3>4, <4>2, AnswerType DEF Forward, McpDispatch, TypeOK, memory
    <3>5. QED BY <3>3, <3>4
  <2>3. QED
    BY <1>2, <2>1, <2>2 DEF McpDispatch, ToolsFallback, Finals
<1>3. CASE RequestTimeout(r)
  <2>1. /\ phase' \in [Reqs -> {"new", "body", "waiting", "done"}]
        /\ kind' \in [Reqs -> AllKinds]
        /\ answer' \in [Reqs -> Refusals \cup Finals \cup {NoAnswer}]
        /\ parts' \in [Reqs -> Nat]
    BY <1>3 DEF TypeOK, RequestTimeout, RejectAll, Waiting, Rejection, ToolsFallback, Finals
  <2>2. QED
    BY <1>3, <2>1 DEF TypeOK, RequestTimeout, memory, wires
<1>4. QED
  BY <1>1, <1>2, <1>3

LEMMA NetworkType ==
  ASSUME TypeOK, Network
  PROVE  TypeOK'
<1>1. ASSUME NEW c \in Conns, Break(c)
      PROVE  TypeOK'
  <2>1. <<Close>> \in Seq(UpFrames) /\ <<Close>> \in Seq(DownFrames)
    BY FrameTypes
  <2>2. QED
    BY <1>1, <2>1 DEF Break, TypeOK, memory, client
<1>2. ASSUME NEW c \in Conns, Recycle(c)
      PROVE  TypeOK'
  BY <1>2 DEF Recycle, TypeOK, memory, client, ServerStates, PeerStates
<1>3. QED
  BY <1>1, <1>2 DEF Network

LEMMA PeerSendsType ==
  ASSUME TypeOK, NEW c \in Conns, NEW m \in UpFrames, PeerSends(c, m),
         atBrowser' \in SUBSET Reqs
  PROVE  TypeOK'
<1>1. Sent(up[c], m) \in Seq(UpFrames)
  BY SentType DEF TypeOK
<1>2. QED
  BY <1>1 DEF PeerSends, TypeOK, memory, client

LEMMA PeersType ==
  ASSUME TypeOK, Peers
  PROVE  TypeOK'
<1>1. ASSUME NEW c \in Conns, Dial(c)
      PROVE  TypeOK'
  BY <1>1 DEF Dial, TypeOK, memory, client, PeerStates
<1>2. ASSUME NEW c \in Conns, PeerReads(c)
      PROVE  TypeOK'
  <2>1. /\ Head(down[c]) \in DownFrames
        /\ Tail(down[c]) \in Seq(DownFrames)
    BY <1>2 DEF PeerReads, TypeOK
  <2>2. /\ peer' \in [Conns -> PeerStates]
        /\ down' \in [Conns -> Seq(DownFrames)]
    BY <1>2, <2>1 DEF PeerReads, PeerAfter, TypeOK, PeerStates
  <2>3. atBrowser' \in SUBSET Reqs
    BY <1>2, <2>1 DEF PeerReads, TypeOK, DownFrames, Close, Accept, Refuse
  <2>4. up' \in [Conns -> Seq(UpFrames)]
    <3>1. UpAfter(c) \in [Conns -> Seq(UpFrames)]
      <4>1. Sent(up[c], Close) \in Seq(UpFrames)
        BY FrameTypes, SentType DEF TypeOK
      <4>2. QED
        BY <4>1 DEF UpAfter, TypeOK
    <3>2. ASSUME NEW d \in Conns, NEW m \in Statuses,
                 up' = [up EXCEPT ![d] = Sent(@, m)]
          PROVE  up' \in [Conns -> Seq(UpFrames)]
      <4>1. Sent(up[d], m) \in Seq(UpFrames)
        BY FrameTypes, SentType DEF TypeOK
      <4>2. QED
        BY <3>2, <4>1 DEF TypeOK
    <3>3. QED
      BY <1>2, <3>1, <3>2 DEF PeerReads
  <2>5. QED
    BY <1>2, <2>2, <2>3, <2>4 DEF PeerReads, TypeOK, memory, client
<1>3. ASSUME NEW c \in Conns, PeerSendsStatus(c)
      PROVE  TypeOK'
  BY <1>3, FrameTypes, PeerSendsType DEF PeerSendsStatus, TypeOK
<1>4. ASSUME NEW c \in Conns, PeerCloses(c)
      PROVE  TypeOK'
  <2>1. Sent(up[c], Close) \in Seq(UpFrames)
    BY FrameTypes, SentType DEF TypeOK
  <2>2. QED
    BY <1>4, <2>1 DEF PeerCloses, TypeOK, memory, client, PeerStates
<1>5. ASSUME NEW r \in Reqs, PeerResponds(r)
      PROVE  TypeOK'
  <2>1. ASSUME NEW c \in Conns, NEW tools \in BOOLEAN,
               PeerSends(c, [type |-> "mcp_response", id |-> r, tools |-> tools])
        PROVE  TypeOK'
    <3>1. [type |-> "mcp_response", id |-> r, tools |-> tools] \in UpFrames
      BY DEF UpFrames, ResponseMsgs
    <3>2. atBrowser' \in SUBSET Reqs
      BY <1>5 DEF PeerResponds, TypeOK
    <3>3. QED
      BY <2>1, <3>1, <3>2, PeerSendsType
  <2>2. CASE UNCHANGED <<memory, pendingRequests, stored, life, wires, client,
                         sentOn, forgotten>>
    BY <1>5, <2>2 DEF PeerResponds, TypeOK, memory, wires, client
  <2>3. QED
    BY <1>5, <2>1, <2>2 DEF PeerResponds
<1>6. ASSUME NEW r \in Reqs, NEW c \in Conns, PeerStreams(c, r)
      PROVE  TypeOK'
  <2>1. [type |-> "mcp_stream", id |-> r] \in UpFrames
    BY DEF UpFrames, StreamMsgs
  <2>2. QED
    BY <1>6, <2>1, PeerSendsType DEF PeerStreams, TypeOK
<1>7. QED
  BY <1>1, <1>2, <1>3, <1>4, <1>5, <1>6 DEF Peers

LEMMA TypeStep == TypeOK /\ [Next]_vars => TypeOK'
<1> SUFFICES ASSUME TypeOK, [Next]_vars
             PROVE  TypeOK'
  OBVIOUS
<1>1. CASE Object
  BY <1>1, ObjectLifecycleType, UpgradeType, ObjectReadsType, McpType DEF Object
<1>2. CASE Network
  BY <1>2, NetworkType
<1>3. CASE Peers
  BY <1>3, PeersType
<1>4. CASE UNCHANGED vars
  BY <1>4 DEF vars, memory, wires, client, TypeOK
<1>5. QED
  BY <1>1, <1>2, <1>3, <1>4 DEF Next

LEMMA TypeCorrectInit == Init => TypeOK
<1> SUFFICES ASSUME Init
             PROVE  TypeOK
  OBVIOUS
<1>1. kind \in [Reqs -> AllKinds]
  BY SessionRelayAssumption DEF Init
<1>2. /\ up \in [Conns -> Seq(UpFrames)]
      /\ down \in [Conns -> Seq(DownFrames)]
  BY DEF Init
<1>3. /\ server \in [Conns -> ServerStates]
      /\ peer \in [Conns -> PeerStates]
  BY DEF Init, ServerStates, PeerStates
<1>4. QED
  BY <1>1, <1>2, <1>3 DEF Init, TypeOK

\* The variables of the relay, and the frames in flight on every connection,
\* always have the types the code gives them.
THEOREM TypeCorrect == Spec => []TypeOK
BY TypeCorrectInit, TypeStep, PTL DEF Spec

-----------------------------------------------------------------------------
(***************************************************************************)
(* The two invariants about pending requests.  Each is inductive given     *)
(* TypeOK.  The second is what makes a skipped failAllPending harmless in  *)
(* handleWebSocketUpgrade when there is no browser: then nothing is        *)
(* pending.                                                                *)
(***************************************************************************)

PendingInv == TypeOK /\ EveryWaiterIsPending /\ PendingFollowsSocket

\* failAllPending leaves nobody waiting and nothing pending.
LEMMA FailAllSettles ==
  ASSUME PendingInv, failAllPending
  PROVE  EveryWaiterIsPending' /\ PendingFollowsSocket'
BY DEF PendingInv, TypeOK, EveryWaiterIsPending, PendingFollowsSocket,
       failAllPending, RejectAll, Waiting

\* Steps that touch neither the requests nor the identity of the browser.
LEMMA PendingUntouched ==
  ASSUME PendingInv, UNCHANGED <<pendingRequests, phase, browserSocket, sentOn>>
  PROVE  EveryWaiterIsPending' /\ PendingFollowsSocket'
BY DEF PendingInv, EveryWaiterIsPending, PendingFollowsSocket

LEMMA PendingObject ==
  ASSUME PendingInv, Object
  PROVE  EveryWaiterIsPending' /\ PendingFollowsSocket'
<1>1. CASE handleInit \/ Hibernate
  <2>1. CASE handleInit
    BY <2>1, PendingUntouched DEF handleInit, client
  <2>2. CASE Hibernate
    BY <2>2 DEF Hibernate, client, PendingInv, EveryWaiterIsPending, PendingFollowsSocket
  <2>3. QED BY <1>1, <2>1, <2>2
<1>2. CASE handleTeardown \/ alarm
  BY <1>2, FailAllSettles DEF handleTeardown, alarm, Cleanup
<1>3. CASE Restart
  BY <1>3 DEF Restart, PendingInv, TypeOK, EveryWaiterIsPending, PendingFollowsSocket
<1>4. ASSUME NEW c \in Conns, NEW token \in BOOLEAN, handleWebSocketUpgrade(c, token)
      PROVE  EveryWaiterIsPending' /\ PendingFollowsSocket'
  <2>1. CASE ~Authorized(token)
    BY <1>4, <2>1, PendingUntouched DEF handleWebSocketUpgrade, client
  <2>2. CASE Authorized(token) /\ browserSocket # NoConn
    BY <1>4, <2>2, FailAllSettles DEF handleWebSocketUpgrade
  <2>3. CASE Authorized(token) /\ browserSocket = NoConn
    <3>1. pendingRequests = {}
      BY <2>3 DEF PendingInv, PendingFollowsSocket
    <3>2. QED
      BY <1>4, <2>3, <3>1
      DEF handleWebSocketUpgrade, client, PendingInv, EveryWaiterIsPending, PendingFollowsSocket
  <2>4. QED BY <2>1, <2>2, <2>3
<1>5. ASSUME NEW c \in Conns, ObjectReads(c)
      PROVE  EveryWaiterIsPending' /\ PendingFollowsSocket'
  <2>1. CASE handleStatusMessage(c)
    BY <2>1, PendingUntouched DEF handleStatusMessage, client
  <2>2. CASE handleMcpStream(c)
    BY <2>2, PendingUntouched DEF handleMcpStream, memory
  <2>3. CASE handleMcpResponse(c)
    <3> DEFINE r == Head(up[c]).id
    <3>1. PendingFollowsSocket'
      BY <2>3 DEF handleMcpResponse, PendingInv, PendingFollowsSocket
    <3>2. EveryWaiterIsPending'
      <4>1. CASE r \in pendingRequests /\ phase[r] = "waiting"
        BY <2>3, <4>1
        DEF handleMcpResponse, Answer, PendingInv, TypeOK, EveryWaiterIsPending
      <4>2. CASE ~(r \in pendingRequests /\ phase[r] = "waiting")
        BY <2>3, <4>2
        DEF handleMcpResponse, client, PendingInv, TypeOK, EveryWaiterIsPending
      <4>3. QED BY <4>1, <4>2
    <3>3. QED BY <3>1, <3>2
  <2>4. CASE webSocketClose(c)
    <3>1. CASE c = browserSocket
      BY <2>4, <3>1, FailAllSettles DEF webSocketClose
    <3>2. CASE c # browserSocket
      BY <2>4, <3>2, PendingUntouched DEF webSocketClose, client
    <3>3. QED BY <3>1, <3>2
  <2>5. QED
    BY <1>5, <2>1, <2>2, <2>3, <2>4 DEF ObjectReads
<1>6. ASSUME NEW r \in Reqs, NEW token \in BOOLEAN, McpArrive(r, token)
      PROVE  EveryWaiterIsPending' /\ PendingFollowsSocket'
  BY <1>6 DEF McpArrive, Answer, memory, PendingInv, TypeOK,
              EveryWaiterIsPending, PendingFollowsSocket
<1>7. ASSUME NEW r \in Reqs, McpDispatch(r)
      PROVE  EveryWaiterIsPending' /\ PendingFollowsSocket'
  <2>1. ASSUME NEW a, AnswerLocally(r, a)
        PROVE  EveryWaiterIsPending' /\ PendingFollowsSocket'
    BY <1>7, <2>1 DEF McpDispatch, AnswerLocally, Answer, memory, PendingInv, TypeOK,
                      EveryWaiterIsPending, PendingFollowsSocket
  <2>2. CASE Connected /\ Forward(r)
    <3>1. PendingFollowsSocket'
      BY <1>7, <2>2 DEF McpDispatch, Forward, Connected, memory, PendingInv, TypeOK,
                        PendingFollowsSocket
    <3>2. EveryWaiterIsPending'
      BY <2>2 DEF Forward, Answer, PendingInv, TypeOK, EveryWaiterIsPending
    <3>3. QED BY <3>1, <3>2
  <2>3. QED
    BY <1>7, <2>1, <2>2 DEF McpDispatch
<1>8. ASSUME NEW r \in Reqs, RequestTimeout(r)
      PROVE  EveryWaiterIsPending' /\ PendingFollowsSocket'
  BY <1>8 DEF RequestTimeout, RejectAll, Waiting, memory, PendingInv, TypeOK,
              EveryWaiterIsPending, PendingFollowsSocket
<1>9. QED
  BY <1>1, <1>2, <1>3, <1>4, <1>5, <1>6, <1>7, <1>8 DEF Object

\* The peers and the network never touch what is pending.
LEMMA PendingElsewhere ==
  ASSUME PendingInv, Network \/ Peers \/ UNCHANGED vars
  PROVE  EveryWaiterIsPending' /\ PendingFollowsSocket'
<1>1. UNCHANGED <<pendingRequests, phase, browserSocket, sentOn>>
  BY DEF Network, Peers, Break, Recycle, Dial, PeerReads, PeerSendsStatus, PeerCloses,
         PeerResponds, PeerStreams, PeerSends, vars, memory, client
<1>2. QED
  BY <1>1, PendingUntouched

LEMMA PendingCorrect == Spec => []PendingInv
<1>1. Init => EveryWaiterIsPending /\ PendingFollowsSocket
  BY DEF Init, EveryWaiterIsPending, PendingFollowsSocket
<1>2. PendingInv /\ [Next]_vars => PendingInv'
  BY TypeStep, PendingObject, PendingElsewhere DEF PendingInv, Next
<1>3. Init => TypeOK
  BY TypeCorrectInit
<1>4. QED
  BY <1>1, <1>2, <1>3, PTL DEF Spec, PendingInv

\* A client that waits for the browser can always be reached by a timer, by
\* failAllPending and by the answer itself.
THEOREM NobodyWaitsUnseen == Spec => []EveryWaiterIsPending
BY PendingCorrect, PTL DEF PendingInv

\* No request outlives the socket it was sent on, so no other browser is ever
\* expected to answer it.
THEOREM PendingRequestsFollowSocket == Spec => []PendingFollowsSocket
BY PendingCorrect, PTL DEF PendingInv

-----------------------------------------------------------------------------

\* handleInit persists the token it sets, and the constructor reads it back:
\* no restart or hibernation makes a deployer's session keyless.
THEOREM TokenSurvivesRestarts == Spec => []TokenIsDurable
<1>1. Init => TokenIsDurable
  BY SessionRelayAssumption DEF Init, TokenIsDurable
<1>2. TokenIsDurable /\ [Next]_vars => TokenIsDurable'
  <2> SUFFICES ASSUME TokenIsDurable, [Next]_vars
               PROVE  TokenIsDurable'
    OBVIOUS
  <2>1. CASE handleInit
    BY <2>1 DEF handleInit, TokenIsDurable
  <2>2. CASE handleTeardown \/ alarm
    BY <2>2 DEF handleTeardown, alarm, Cleanup, TokenIsDurable
  <2>3. CASE Hibernate \/ Restart
    BY <2>3 DEF Hibernate, Restart, Reconstruct, TokenIsDurable
  <2>4. CASE UNCHANGED <<stored, life, sessionToken>>
    BY <2>4 DEF TokenIsDurable
  <2>5. ASSUME NEW c \in Conns, NEW token \in BOOLEAN, handleWebSocketUpgrade(c, token)
        PROVE  UNCHANGED <<stored, life, sessionToken>>
    BY <2>5 DEF handleWebSocketUpgrade
  <2>6. ASSUME NEW c \in Conns, ObjectReads(c)
        PROVE  UNCHANGED <<stored, life, sessionToken>>
    BY <2>6 DEF ObjectReads, handleStatusMessage, handleMcpResponse, handleMcpStream,
                webSocketClose, memory
  <2>7. ASSUME NEW r \in Reqs,
               McpDispatch(r) \/ RequestTimeout(r) \/ \E token \in BOOLEAN : McpArrive(r, token)
        PROVE  UNCHANGED <<stored, life, sessionToken>>
    BY <2>7 DEF McpDispatch, RequestTimeout, McpArrive, memory
  <2>8. CASE Network \/ Peers \/ UNCHANGED vars
    <3>1. UNCHANGED <<stored, life, sessionToken>>
      BY <2>8 DEF Network, Peers, Break, Recycle, Dial, PeerReads, PeerSendsStatus,
                  PeerCloses, PeerResponds, PeerStreams, PeerSends, vars, memory
    <3>2. QED BY <3>1, <2>4
  <2>9. QED
    BY <2>1, <2>2, <2>3, <2>4, <2>5, <2>6, <2>7, <2>8 DEF Next, Object
<1>3. QED
  BY <1>1, <1>2, PTL DEF Spec

\* The object's open sockets are its browser's and those it forgot: every
\* handler that gives up a socket it knows closes it.
LEMMA OneBrowserStep ==
  ASSUME TypeOK, OneBrowser, [Next]_vars
  PROVE  OneBrowser'
<1>1. CASE handleTeardown \/ alarm
  <2>1. /\ server' = ServerClosed(browserSocket)
        /\ UNCHANGED <<browserSocket, forgotten>>
    BY <1>1 DEF handleTeardown, alarm, Cleanup, memory
  <2>2. QED
    BY <2>1 DEF ServerClosed, TypeOK, OneBrowser
<1>2. CASE handleInit
  BY <1>2 DEF handleInit, wires, OneBrowser
<1>3. CASE Hibernate
  BY <1>3 DEF Hibernate, wires, OneBrowser
<1>4. CASE Restart
  BY <1>4 DEF Restart, OneBrowser
<1>5. ASSUME NEW c \in Conns, NEW token \in BOOLEAN, handleWebSocketUpgrade(c, token)
      PROVE  OneBrowser'
  <2>1. CASE Authorized(token)
    <3>1. /\ server' = [ServerClosed(browserSocket) EXCEPT ![c] = "open"]
          /\ browserSocket' = c
          /\ UNCHANGED forgotten
      BY <1>5, <2>1 DEF handleWebSocketUpgrade
    <3>2. ASSUME NEW d \in Conns, server'[d] = "open"
          PROVE  d = c \/ d \in forgotten
      <4>1. CASE d # c
        <5>1. server'[d] = ServerClosed(browserSocket)[d]
          BY <3>1, <4>1, ServerClosedType DEF TypeOK
        <5>2. server[d] = "open" /\ d # browserSocket
          BY <3>2, <5>1, SessionRelayAssumption DEF ServerClosed, TypeOK
        <5>3. QED
          BY <5>2 DEF OneBrowser
      <4>2. QED BY <4>1
    <3>3. QED
      BY <3>1, <3>2 DEF OneBrowser
  <2>2. CASE ~Authorized(token)
    BY <1>5, <2>2 DEF handleWebSocketUpgrade, TypeOK, OneBrowser
  <2>3. QED BY <2>1, <2>2
<1>6. ASSUME NEW c \in Conns, ObjectReads(c)
      PROVE  OneBrowser'
  <2>1. CASE webSocketClose(c)
    BY <2>1 DEF webSocketClose, TypeOK, OneBrowser
  <2>2. CASE handleStatusMessage(c) \/ handleMcpResponse(c) \/ handleMcpStream(c)
    BY <2>2 DEF handleStatusMessage, handleMcpResponse, handleMcpStream, memory, OneBrowser
  <2>3. QED
    BY <1>6, <2>1, <2>2 DEF ObjectReads
<1>7. ASSUME NEW r \in Reqs,
             McpDispatch(r) \/ RequestTimeout(r) \/ \E token \in BOOLEAN : McpArrive(r, token)
      PROVE  OneBrowser'
  BY <1>7 DEF McpDispatch, RequestTimeout, McpArrive, memory, wires, OneBrowser
<1>8. CASE Network
  BY <1>8 DEF Network, Break, Recycle, memory, TypeOK, OneBrowser
<1>9. CASE Peers \/ UNCHANGED vars
  BY <1>9 DEF Peers, Dial, PeerReads, PeerSendsStatus, PeerCloses, PeerResponds,
              PeerStreams, PeerSends, vars, memory, wires, OneBrowser
<1>10. QED
  BY <1>1, <1>2, <1>3, <1>4, <1>5, <1>6, <1>7, <1>8, <1>9 DEF Next, Object

\* "One browser per session" (session-relay.ts:173) with its exception: of the
\* sockets that are open, all but the browser's are ones whose reference the
\* object lost when it hibernated, however many upgrades, closes and restarts
\* there have been.
THEOREM OnlyTheForgottenStayOpen == Spec => []OneBrowser
<1>1. Init => OneBrowser
  BY DEF Init, OneBrowser
<1>2. TypeOK /\ OneBrowser /\ [Next]_vars => OneBrowser'
  BY OneBrowserStep
<1>3. QED
  BY <1>1, <1>2, TypeCorrect, PTL DEF Spec

-----------------------------------------------------------------------------
(***************************************************************************)
(* The refinement.  A step of the object is, for each request, one of the  *)
(* steps RequestReply allows it; ReplyStep says so with the variables of   *)
(* SessionRelay.                                                           *)
(***************************************************************************)

Open(r) == phase[r] \in {"body", "waiting"}

ReplyStep(r) ==
  \/ UNCHANGED <<phase[r], parts[r], answer[r]>>
  \/ phase[r] = "new" /\ phase'[r] = "body" /\ UNCHANGED <<parts[r], answer[r]>>
  \/ phase[r] = "new" /\ phase'[r] = "done" /\ UNCHANGED parts[r] /\ answer'[r] \in Refusals
  \/ phase[r] = "body" /\ phase'[r] = "waiting" /\ UNCHANGED <<parts[r], answer[r]>>
  \/ phase[r] = "waiting" /\ UNCHANGED <<phase[r], answer[r]>> /\ parts'[r] = parts[r] + 1
  \/ Open(r) /\ phase'[r] = "done" /\ UNCHANGED parts[r] /\ answer'[r] \in Finals

LEMMA FailAllReplies ==
  ASSUME TypeOK, failAllPending, NEW r \in Reqs
  PROVE  ReplyStep(r)
BY DEF TypeOK, failAllPending, RejectAll, Waiting, Rejection, ToolsFallback, ReplyStep,
       Open, Finals

LEMMA AnswerReplies ==
  ASSUME TypeOK, NEW q \in Reqs, NEW a, Answer(q, a),
         \/ phase[q] = "new" /\ a \in Refusals
         \/ Open(q) /\ a \in Finals,
         NEW r \in Reqs
  PROVE  ReplyStep(r)
BY DEF TypeOK, Answer, ReplyStep

LEMMA NoReply ==
  ASSUME UNCHANGED client, NEW r \in Reqs
  PROVE  ReplyStep(r)
BY DEF client, ReplyStep

LEMMA ObjectReplies ==
  ASSUME TypeOK, Object, NEW r \in Reqs
  PROVE  ReplyStep(r)
<1>1. CASE handleInit \/ Hibernate
  BY <1>1, NoReply DEF handleInit, Hibernate
<1>2. CASE handleTeardown \/ alarm
  BY <1>2, FailAllReplies DEF handleTeardown, alarm, Cleanup
<1>3. CASE Restart
  BY <1>3 DEF Restart, TypeOK, ReplyStep, Open, Finals
<1>4. ASSUME NEW c \in Conns, NEW token \in BOOLEAN, handleWebSocketUpgrade(c, token)
      PROVE  ReplyStep(r)
  BY <1>4, FailAllReplies, NoReply DEF handleWebSocketUpgrade
<1>5. ASSUME NEW c \in Conns, ObjectReads(c)
      PROVE  ReplyStep(r)
  <2>1. CASE handleStatusMessage(c)
    BY <2>1, NoReply DEF handleStatusMessage
  <2>2. CASE handleMcpResponse(c)
    <3> DEFINE q == Head(up[c]).id
    <3>1. CASE q \in pendingRequests /\ phase[q] = "waiting"
      <4>1. q \in Reqs
        BY <3>1 DEF TypeOK
      <4>2. Answer(q, "result") /\ Open(q)
        BY <2>2, <3>1 DEF handleMcpResponse, Open
      <4>3. QED
        BY <4>1, <4>2, AnswerReplies DEF Finals
    <3>2. CASE ~(q \in pendingRequests /\ phase[q] = "waiting")
      BY <2>2, <3>2, NoReply DEF handleMcpResponse
    <3>3. QED BY <3>1, <3>2
  <2>3. CASE handleMcpStream(c)
    BY <2>3 DEF handleMcpStream, TypeOK, ReplyStep
  <2>4. CASE webSocketClose(c)
    BY <2>4, FailAllReplies, NoReply DEF webSocketClose
  <2>5. QED
    BY <1>5, <2>1, <2>2, <2>3, <2>4 DEF ObjectReads
<1>6. ASSUME NEW q \in Reqs, NEW token \in BOOLEAN, McpArrive(q, token)
      PROVE  ReplyStep(r)
  <2>1. CASE Authorized(token)
    BY <1>6, <2>1 DEF McpArrive, TypeOK, ReplyStep
  <2>2. CASE ~Authorized(token)
    BY <1>6, <2>2, AnswerReplies DEF McpArrive, Refusals
  <2>3. QED BY <2>1, <2>2
<1>7. ASSUME NEW q \in Reqs, McpDispatch(q)
      PROVE  ReplyStep(r)
  <2>1. Open(q)
    BY <1>7 DEF McpDispatch, Open
  <2>2. ASSUME NEW a \in Finals, AnswerLocally(q, a)
        PROVE  ReplyStep(r)
    BY <2>1, <2>2, AnswerReplies DEF AnswerLocally
  <2>3. CASE Forward(q)
    <3>1. CASE server[browserSocket] = "open"
      BY <1>7, <2>3, <3>1 DEF McpDispatch, Forward, TypeOK, ReplyStep
    <3>2. CASE server[browserSocket] # "open"
      <4>1. (IF kind[q] = "stream" THEN "exception" ELSE Rejection(q)) \in Finals
        BY DEF Rejection, ToolsFallback, Finals
      <4>2. QED
        BY <2>1, <2>3, <3>2, <4>1, AnswerReplies DEF Forward
    <3>3. QED BY <3>1, <3>2
  <2>4. QED
    BY <1>7, <2>2, <2>3 DEF McpDispatch, ToolsFallback, Finals
<1>8. ASSUME NEW q \in Reqs, RequestTimeout(q)
      PROVE  ReplyStep(r)
  BY <1>8 DEF RequestTimeout, RejectAll, Waiting, Rejection, ToolsFallback, TypeOK,
              ReplyStep, Open, Finals
<1>9. QED
  BY <1>1, <1>2, <1>3, <1>4, <1>5, <1>6, <1>7, <1>8 DEF Object

LEMMA ElsewhereReplies ==
  ASSUME Network \/ Peers, NEW r \in Reqs
  PROVE  ReplyStep(r)
<1>1. UNCHANGED client
  BY DEF Network, Peers, Break, Recycle, Dial, PeerReads, PeerSendsStatus, PeerCloses,
         PeerResponds, PeerStreams, PeerSends
<1>2. QED BY <1>1, NoReply

\* What a step of a request is under the refinement mapping.
LEMMA ReplyStepRefines ==
  ASSUME TypeOK, TypeOK', NEW r \in Reqs, ReplyStep(r)
  PROVE  Replies!Stays(r) \/ Replies!Accept(r) \/ Replies!Refuse(r)
           \/ Replies!Part(r) \/ Replies!Finish(r)
BY DEF TypeOK, ReplyStep, Open, Replies!Stays, Replies!Accept, Replies!Refuse,
       Replies!Part, Replies!Finish

LEMMA ReplyTypesNext == TypeOK' => Replies!TypeOK'
BY DEF TypeOK, Replies!TypeOK, Replies!Status

\* Each client of the session gets partial events and then exactly one final
\* answer, whatever the browsers, the network and the runtime do.
THEOREM RelayImplementsReplies == Spec => RepliesSpec
<1>1. Init => Replies!Init
  BY DEF Init, Replies!Init
<1>2. TypeOK /\ TypeOK' /\ [Next]_vars => [Replies!Next]_(Replies!vars)
  <2> SUFFICES ASSUME TypeOK, TypeOK', [Next]_vars
               PROVE  [Replies!Next]_(Replies!vars)
    OBVIOUS
  <2>1. CASE Next
    <3>1. \A r \in Reqs : ReplyStep(r)
      BY <2>1, ObjectReplies, ElsewhereReplies DEF Next
    <3>2. \A r \in Reqs : Replies!Stays(r) \/ Replies!Accept(r) \/ Replies!Refuse(r)
                            \/ Replies!Part(r) \/ Replies!Finish(r)
      BY <3>1, ReplyStepRefines
    <3>3. Replies!Next
      BY <3>2, ReplyTypesNext DEF Replies!Next
    <3>4. QED BY <3>3
  <2>2. CASE UNCHANGED vars
    BY <2>2 DEF vars, client, Replies!vars
  <2>3. QED BY <2>1, <2>2
<1>3. QED
  BY <1>1, <1>2, TypeCorrect, PTL DEF Spec, RepliesSpec, Replies!Spec

=============================================================================

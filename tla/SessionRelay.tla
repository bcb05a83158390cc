---------------------------- MODULE SessionRelay ----------------------------
(***************************************************************************)
(* The SessionRelay Durable Object (worker/src/session-relay.ts): one      *)
(* instance per session, holding the WebSocket of the browser sandbox and  *)
(* proxying the MCP requests of HTTP clients to it.                        *)
(*                                                                         *)
(* An action is one event the Workers runtime delivers to the object: a    *)
(* fetch, a WebSocket message or close, a timer, the alarm, a restart.     *)
(* Storage calls keep the object's input gate closed, so they do not split *)
(* a handler; request.json() does not, so an MCP request is two actions:   *)
(* its headers (McpArrive) and its body (McpDispatch).  Promise reactions  *)
(* run before the next event and belong to the event that settled them.    *)
(*                                                                         *)
(* The browser end of each connection is an arbitrary peer that follows    *)
(* the wire protocol; RelaySession puts RelayClient in its place.          *)
(***************************************************************************)
EXTENDS Naturals, Sequences, FiniteSets

CONSTANTS
  Conns,        \* WebSocket connections that can exist at one time
  NoConn,       \* the value null of browserSocket
  Reqs,         \* MCP requests of the clients
  Kinds,        \* the kinds of request the clients send
  Deployed,     \* TRUE: created by a deployer, with a token; FALSE: keyless
  Statuses,     \* the status messages the browsers send
  Backlogs,     \* how many frames may be in flight when a peer sends one: Nat
                \* is any number, {0, ..., n} bounds the model
  MaxParts      \* partial events of a streamed call are counted up to here

AllKinds == {"initialize", "list", "call", "stream"}

ASSUME SessionRelayAssumption ==
  /\ NoConn \notin Conns
  /\ Kinds \subseteq AllKinds
  /\ Deployed \in BOOLEAN
  /\ Statuses \subseteq [type : {"status"}, ready : BOOLEAN, tools : BOOLEAN]
  /\ Backlogs \subseteq Nat
  /\ MaxParts \in Nat

VARIABLES
  \* the object's memory
  browserSocket, browserReady, cachedToolList, sessionToken, pendingRequests,
  \* its storage: whether the token is persisted
  stored,
  \* what the Worker has done with the session
  life,
  \* the connections: both ends, and the frames in flight each way
  server, peer, up, down,
  \* the MCP requests, as their clients see them
  phase, kind, answer, parts,
  \* the requests a browser has received and not yet answered
  atBrowser,
  \* history: the connection each request was forwarded on, and the open
  \* connections whose reference the object lost when it hibernated
  sentOn, forgotten

memory == <<browserSocket, browserReady, cachedToolList, sessionToken>>
wires  == <<server, peer, up, down>>
client == <<phase, kind, answer, parts>>
vars   == <<memory, pendingRequests, stored, life, wires, client, atBrowser,
            sentOn, forgotten>>

-----------------------------------------------------------------------------
(* Frames and answers *)

Close      == [type |-> "close"]
Accept     == [type |-> "accept"]     \* the 101 response to an upgrade
Refuse     == [type |-> "refuse"]     \* the 401 response to an upgrade
Request(r) == [type |-> "mcp_request", id |-> r]

ResponseMsgs == [type : {"mcp_response"}, id : Reqs, tools : BOOLEAN]
StreamMsgs   == [type : {"mcp_stream"}, id : Reqs]

UpFrames   == Statuses \cup ResponseMsgs \cup StreamMsgs \cup {Close}
DownFrames == {Close, Accept, Refuse} \cup [type : {"mcp_request"}, id : Reqs]

Refusals == {"unauthorized"}
Finals   == {"result", "error", "exception", "notConnected", "cachedTools",
             "defaultTools", "greetConnected", "greetNotConnected", "dropped"}
NoAnswer == "none"

\* What a write adds to the frames in flight: on a connection that is broken
\* (or closed by this end) it is lost, without an error.
Sent(frames, m) ==
  IF frames # <<>> /\ frames[Len(frames)] = Close THEN frames ELSE Append(frames, m)

ServerStates == {"free", "open", "closing", "closed"}
PeerStates   == {"free", "dialing", "open", "closing", "closed"}

TypeOK ==
  /\ browserSocket \in Conns \cup {NoConn}
  /\ browserReady \in BOOLEAN
  /\ cachedToolList \in BOOLEAN
  /\ sessionToken \in BOOLEAN
  /\ pendingRequests \in SUBSET Reqs
  /\ stored \in BOOLEAN
  /\ life \in {"new", "live", "deleted"}
  /\ server \in [Conns -> ServerStates]
  /\ peer \in [Conns -> PeerStates]
  /\ up \in [Conns -> Seq(UpFrames)]
  /\ down \in [Conns -> Seq(DownFrames)]
  /\ phase \in [Reqs -> {"new", "body", "waiting", "done"}]
  /\ kind \in [Reqs -> AllKinds]
  /\ answer \in [Reqs -> Refusals \cup Finals \cup {NoAnswer}]
  /\ parts \in [Reqs -> Nat]
  /\ atBrowser \in SUBSET Reqs
  /\ sentOn \in [Reqs -> Conns \cup {NoConn}]
  /\ forgotten \in SUBSET Conns

Init ==
  /\ browserSocket = NoConn
  /\ browserReady = FALSE
  /\ cachedToolList = FALSE
  /\ sessionToken = FALSE
  /\ pendingRequests = {}
  /\ stored = FALSE
  /\ life = IF Deployed THEN "new" ELSE "live"
  /\ server = [c \in Conns |-> "free"]
  /\ peer = [c \in Conns |-> "free"]
  /\ up = [c \in Conns |-> <<>>]
  /\ down = [c \in Conns |-> <<>>]
  /\ phase = [r \in Reqs |-> "new"]
  /\ kind \in [Reqs -> Kinds]
  /\ answer = [r \in Reqs |-> NoAnswer]
  /\ parts = [r \in Reqs |-> 0]
  /\ atBrowser = {}
  /\ sentOn = [r \in Reqs |-> NoConn]
  /\ forgotten = {}

-----------------------------------------------------------------------------
(* Helpers of the object *)

Authorized(token) == sessionToken => token

Connected == browserSocket # NoConn /\ browserReady

Answer(r, a) ==
  /\ phase' = [phase EXCEPT ![r] = "done"]
  /\ answer' = [answer EXCEPT ![r] = a]
  /\ UNCHANGED <<kind, parts>>

\* tools/list never fails: without the browser it answers from the cache.
ToolsFallback == IF cachedToolList THEN "cachedTools" ELSE "defaultTools"

\* What the client of r is told when its promise is rejected.
Rejection(r) == IF kind[r] = "list" THEN ToolsFallback ELSE "error"

\* Rejecting a promise that was already settled does nothing.
Waiting(S) == {r \in S : phase[r] = "waiting"}

\* Mutant: a promise that was settled before is settled again.
RejectAll_Twice(S) ==
  /\ phase' = [r \in Reqs |-> IF r \in S THEN "done" ELSE phase[r]]
  /\ answer' = [r \in Reqs |-> IF r \in S THEN Rejection(r) ELSE answer[r]]
  /\ UNCHANGED <<kind, parts>>

RejectAll(S) ==
  /\ phase' = [r \in Reqs |-> IF r \in Waiting(S) THEN "done" ELSE phase[r]]
  /\ answer' = [r \in Reqs |-> IF r \in Waiting(S) THEN Rejection(r) ELSE answer[r]]
  /\ UNCHANGED <<kind, parts>>

\* Mutant: the map is cleared and nobody is told.
failAllPending_Silent ==
  /\ pendingRequests' = {}
  /\ UNCHANGED client

failAllPending ==
  /\ RejectAll(pendingRequests)
  /\ pendingRequests' = {}

\* close() on the object's end of c; on a socket that is not open it throws
\* or does nothing, and the code ignores that.
ServerClosed(c) ==
  IF c # NoConn /\ server[c] = "open"
  THEN [server EXCEPT ![c] = "closing"] ELSE server

DownClosed(c) ==
  IF c # NoConn /\ server[c] = "open"
  THEN [down EXCEPT ![c] = Append(@, Close)] ELSE down

-----------------------------------------------------------------------------
(* Session lifecycle *)

\* Mutant: the token stays in memory only.
handleInit_NotStored ==
  /\ life = "new"
  /\ life' = "live"
  /\ sessionToken' = TRUE
  /\ UNCHANGED <<browserSocket, browserReady, cachedToolList, pendingRequests,
                 stored, wires, client, atBrowser, sentOn, forgotten>>

\* Reached once, before anyone is told the session's random id.
handleInit ==
  /\ life = "new"
  /\ life' = "live"
  /\ sessionToken' = TRUE
  /\ stored' = TRUE
  /\ UNCHANGED <<browserSocket, browserReady, cachedToolList, pendingRequests,
                 wires, client, atBrowser, sentOn, forgotten>>

\* browserSocket, browserReady and sessionToken keep their values.
Cleanup ==
  /\ server' = ServerClosed(browserSocket)
  /\ down' = DownClosed(browserSocket)
  /\ failAllPending
  /\ stored' = FALSE
  /\ life' = "deleted"
  /\ UNCHANGED <<memory, peer, up, atBrowser, sentOn, forgotten>>

handleTeardown ==
  /\ life # "new"
  /\ Cleanup

\* The branch of the alarm that finds the session idle for its TTL of seven
\* days (SessionLifetime models the clock); a request lives a minute at most.
alarm ==
  /\ life # "new"
  /\ \A r \in Reqs : phase[r] \in {"new", "done"}
  /\ pendingRequests = {}
  /\ Cleanup

\* The constructor, on memory that is gone.
Reconstruct ==
  /\ browserSocket' = NoConn
  /\ browserReady' = FALSE
  /\ cachedToolList' = FALSE
  /\ sessionToken' = stored

\* Eviction from memory with the sockets left open, which acceptWebSocket and
\* the handlers below are for.  A request being handled or a timer that is set
\* (every pending request has one) prevents it.
Hibernate ==
  /\ life # "new"
  /\ pendingRequests = {}
  /\ \A r \in Reqs : phase[r] \in {"new", "done"}
  /\ Reconstruct
  /\ forgotten' = forgotten \cup {c \in Conns : server[c] = "open"}
  /\ UNCHANGED <<pendingRequests, stored, life, wires, client, atBrowser,
                 sentOn>>

\* A crash or a deployment: the sockets and the clients' connections are cut.
Restart ==
  /\ life # "new"
  /\ Reconstruct
  /\ pendingRequests' = {}
  /\ server' = [c \in Conns |-> IF server[c] = "free" THEN "free" ELSE "closed"]
  /\ up' = [c \in Conns |-> IF server[c] = "free" THEN up[c] ELSE <<>>]
  /\ down' = [c \in Conns |-> IF server[c] \in {"open", "closing"} THEN <<Close>> ELSE down[c]]
  /\ phase' = [r \in Reqs |-> IF phase[r] \in {"body", "waiting"} THEN "done" ELSE phase[r]]
  /\ answer' = [r \in Reqs |-> IF phase[r] \in {"body", "waiting"} THEN "dropped" ELSE answer[r]]
  /\ forgotten' = {}
  /\ UNCHANGED <<stored, life, peer, kind, parts, atBrowser, sentOn>>

-----------------------------------------------------------------------------
(* WebSocket events at the object *)

\* Mutants of the upgrade: it leaves the old socket open; it leaves the old
\* browser's requests pending; it keeps the readiness.
Upgraded(c, token) ==
  /\ peer[c] \in {"dialing", "closing"} /\ server[c] = "free"
  /\ Authorized(token)
  /\ browserSocket' = c
  /\ UNCHANGED <<cachedToolList, sessionToken, stored, life, peer, up,
                 atBrowser, sentOn, forgotten>>

handleWebSocketUpgrade_KeepsSocket(c, token) ==
  /\ Upgraded(c, token)
  /\ server' = [server EXCEPT ![c] = "open"]
  /\ down' = [down EXCEPT ![c] = <<Accept>>]
  /\ browserReady' = FALSE
  /\ failAllPending

handleWebSocketUpgrade_KeepsPending(c, token) ==
  /\ Upgraded(c, token)
  /\ server' = [ServerClosed(browserSocket) EXCEPT ![c] = "open"]
  /\ down' = [DownClosed(browserSocket) EXCEPT ![c] = <<Accept>>]
  /\ browserReady' = FALSE
  /\ UNCHANGED <<pendingRequests, client>>

\* GET /relay/ws: the newcomer takes the place of the present browser.
handleWebSocketUpgrade(c, token) ==
  /\ peer[c] \in {"dialing", "closing"} /\ server[c] = "free"
  /\ IF Authorized(token)
     THEN /\ server' = [ServerClosed(browserSocket) EXCEPT ![c] = "open"]
          /\ down' = [DownClosed(browserSocket) EXCEPT ![c] = <<Accept>>]
          /\ IF browserSocket # NoConn
             THEN failAllPending
             ELSE UNCHANGED <<pendingRequests, client>>
          /\ browserSocket' = c
          /\ browserReady' = FALSE
     ELSE /\ server' = [server EXCEPT ![c] = "closed"]
          /\ down' = [down EXCEPT ![c] = <<Refuse>>]
          /\ UNCHANGED <<browserSocket, browserReady, pendingRequests, client>>
  /\ UNCHANGED <<cachedToolList, sessionToken, stored, life, peer, up,
                 atBrowser, sentOn, forgotten>>

\* The next frame of c; the runtime delivers frames until the peer's close.
Receives(c, type) ==
  /\ server[c] \in {"open", "closing"}
  /\ up[c] # <<>>
  /\ Head(up[c]).type = type

\* A status message, from whichever socket it comes.
handleStatusMessage(c) ==
  /\ Receives(c, "status")
  /\ browserReady' = Head(up[c]).ready
  /\ cachedToolList' = (cachedToolList \/ Head(up[c]).tools)
  /\ up' = [up EXCEPT ![c] = Tail(@)]
  /\ UNCHANGED <<browserSocket, sessionToken, pendingRequests, stored, life,
                 server, peer, down, client, atBrowser, sentOn, forgotten>>

handleMcpResponse(c) ==
  /\ Receives(c, "mcp_response")
  /\ LET m == Head(up[c]) IN
     IF m.id \in pendingRequests
     THEN /\ pendingRequests' = pendingRequests \ {m.id}
          /\ IF phase[m.id] = "waiting"
             THEN /\ Answer(m.id, "result")
                  /\ cachedToolList' = (cachedToolList \/ (kind[m.id] = "list" /\ m.tools))
             ELSE UNCHANGED <<client, cachedToolList>>
     ELSE UNCHANGED <<pendingRequests, client, cachedToolList>>
  /\ up' = [up EXCEPT ![c] = Tail(@)]
  /\ UNCHANGED <<browserSocket, browserReady, sessionToken, stored, life,
                 server, peer, down, atBrowser, sentOn, forgotten>>

\* Only a streamed call has a writer for intermediate events.
handleMcpStream(c) ==
  /\ Receives(c, "mcp_stream")
  /\ LET r == Head(up[c]).id IN
     parts' = IF /\ r \in pendingRequests /\ phase[r] = "waiting"
                 /\ kind[r] = "stream" /\ parts[r] < MaxParts
              THEN [parts EXCEPT ![r] = @ + 1] ELSE parts
  /\ up' = [up EXCEPT ![c] = Tail(@)]
  /\ UNCHANGED <<memory, pendingRequests, stored, life, server, peer, down,
                 phase, kind, answer, atBrowser, sentOn, forgotten>>

\* Mutant: only a close the object did not ask for is acted on.
webSocketClose_OnlyUnasked(c) ==
  /\ Receives(c, "close")
  /\ IF c = browserSocket /\ server[c] = "open"
     THEN /\ browserSocket' = NoConn
          /\ browserReady' = FALSE
          /\ failAllPending
     ELSE UNCHANGED <<browserSocket, browserReady, pendingRequests, client>>
  /\ server' = [server EXCEPT ![c] = "closed"]
  /\ down' = DownClosed(c)
  /\ up' = [up EXCEPT ![c] = <<>>]
  /\ forgotten' = forgotten \ {c}
  /\ UNCHANGED <<cachedToolList, sessionToken, stored, life, peer, atBrowser,
                 sentOn>>

\* webSocketError does the same with another message.  The runtime answers
\* the peer's close frame if the object has not closed its end itself.
webSocketClose(c) ==
  /\ Receives(c, "close")
  /\ IF c = browserSocket
     THEN /\ browserSocket' = NoConn
          /\ browserReady' = FALSE
          /\ failAllPending
     ELSE UNCHANGED <<browserSocket, browserReady, pendingRequests, client>>
  /\ server' = [server EXCEPT ![c] = "closed"]
  /\ down' = DownClosed(c)
  /\ up' = [up EXCEPT ![c] = <<>>]
  /\ forgotten' = forgotten \ {c}
  /\ UNCHANGED <<cachedToolList, sessionToken, stored, life, peer, atBrowser,
                 sentOn>>

-----------------------------------------------------------------------------
(* MCP requests at the object *)

\* POST /mcp: the token is checked before the body is awaited ...
McpArrive(r, token) ==
  /\ phase[r] = "new"
  /\ life # "new"
  /\ IF Authorized(token)
     THEN phase' = [phase EXCEPT ![r] = "body"] /\ UNCHANGED <<kind, answer,
                                                               parts>>
     ELSE Answer(r, "unauthorized")
  /\ UNCHANGED <<memory, pendingRequests, stored, life, wires, atBrowser,
                 sentOn, forgotten>>

\* Mutant: the entry is filed under something that is not the request's id.
Forward_WrongKey(r) ==
  /\ pendingRequests' = pendingRequests \cup {browserSocket}
  /\ sentOn' = [sentOn EXCEPT ![r] = browserSocket]
  /\ down' = [down EXCEPT ![browserSocket] = Sent(@, Request(r))]
  /\ phase' = [phase EXCEPT ![r] = "waiting"]
  /\ UNCHANGED <<kind, answer, parts>>

\* send() on the browser's socket: it throws once the object has closed it.
\* Either way the entry and its timer have been set before.
Forward(r) ==
  /\ pendingRequests' = pendingRequests \cup {r}
  /\ sentOn' = [sentOn EXCEPT ![r] = browserSocket]
  /\ IF server[browserSocket] = "open"
     THEN /\ down' = [down EXCEPT ![browserSocket] = Sent(@, Request(r))]
          /\ phase' = [phase EXCEPT ![r] = "waiting"]
          /\ UNCHANGED <<kind, answer, parts>>
     ELSE /\ Answer(r, IF kind[r] = "stream" THEN "exception" ELSE Rejection(r))
          /\ UNCHANGED down

AnswerLocally(r, a) ==
  /\ Answer(r, a)
  /\ UNCHANGED <<pendingRequests, down, sentOn>>

\* ... and the body is acted on against whatever the session is by then, or
\* it cannot be read and request.json() throws out of the handler.
McpDispatch(r) ==
  /\ phase[r] = "body"
  /\ \/ /\ kind[r] = "initialize"
        /\ AnswerLocally(r, IF Connected THEN "greetConnected" ELSE "greetNotConnected")
     \/ /\ kind[r] # "initialize" /\ Connected
        /\ Forward(r)
     \/ /\ kind[r] = "list" /\ ~Connected
        /\ AnswerLocally(r, ToolsFallback)
     \/ /\ kind[r] \in {"call", "stream"} /\ ~Connected
        /\ AnswerLocally(r, "notConnected")
     \/ AnswerLocally(r, "exception")
  /\ UNCHANGED <<memory, stored, life, server, peer, up, atBrowser, forgotten>>

\* Mutant: the timer removes the entry without rejecting its promise.
RequestTimeout_Silent(r) ==
  /\ r \in pendingRequests
  /\ pendingRequests' = pendingRequests \ {r}
  /\ UNCHANGED <<memory, stored, life, wires, client, atBrowser, sentOn,
                 forgotten>>

\* The 60 s timer of a pending request.
RequestTimeout(r) ==
  /\ r \in pendingRequests
  /\ pendingRequests' = pendingRequests \ {r}
  /\ RejectAll({r})
  /\ UNCHANGED <<memory, stored, life, wires, atBrowser, sentOn, forgotten>>

-----------------------------------------------------------------------------
(* The peers and the network *)

Dial(c) ==
  /\ life # "new"
  /\ peer[c] = "free" /\ server[c] = "free"
  /\ peer' = [peer EXCEPT ![c] = "dialing"]
  /\ UNCHANGED <<memory, pendingRequests, stored, life, server, up, down,
                 client, atBrowser, sentOn, forgotten>>

\* The peer of c takes the next frame; a close frame is echoed by an open end.
PeerAfter(c) ==
  LET t == Head(down[c]).type IN
  CASE t = "accept" /\ peer[c] = "dialing" -> "open"
    [] t \in {"refuse", "close"} -> "closed"
    [] OTHER -> peer[c]

UpAfter(c) ==
  IF peer[c] = "open" /\ Head(down[c]) = Close
  THEN [up EXCEPT ![c] = Sent(@, Close)] ELSE up

PeerReads(c) ==
  /\ peer[c] \in {"dialing", "open", "closing"}
  /\ down[c] # <<>>
  /\ peer' = [peer EXCEPT ![c] = PeerAfter(c)]
  /\ down' = [down EXCEPT ![c] = Tail(@)]
  /\ LET f == Head(down[c]) IN
     /\ atBrowser' = IF f.type = "mcp_request" /\ peer[c] = "open"
                     THEN atBrowser \cup {f.id} ELSE atBrowser
     /\ \/ up' = UpAfter(c)
        \/ \E d \in Conns, m \in Statuses :  \* reacting to the accept
             /\ f = Accept
             /\ peer'[d] = "open"
             /\ Len(up[d]) \in Backlogs
             /\ up' = [up EXCEPT ![d] = Sent(@, m)]
  /\ UNCHANGED <<memory, pendingRequests, stored, life, server, client, sentOn,
                 forgotten>>

PeerSends(c, m) ==
  /\ peer[c] = "open"
  /\ Len(up[c]) \in Backlogs
  /\ up' = [up EXCEPT ![c] = Sent(@, m)]
  /\ UNCHANGED <<memory, pendingRequests, stored, life, server, peer, down,
                 client, sentOn, forgotten>>

PeerSendsStatus(c) ==
  /\ \E m \in Statuses : PeerSends(c, m)
  /\ UNCHANGED atBrowser

\* The answer to a request goes out on any open connection of the session,
\* or nowhere.
PeerResponds(r) ==
  /\ r \in atBrowser
  /\ atBrowser' = atBrowser \ {r}
  /\ \/ \E c \in Conns, tools \in BOOLEAN :
          /\ tools => kind[r] = "list"
          /\ PeerSends(c, [type |-> "mcp_response", id |-> r, tools |-> tools])
     \/ UNCHANGED <<memory, pendingRequests, stored, life, wires, client,
                    sentOn, forgotten>>

PeerStreams(c, r) ==
  /\ r \in atBrowser
  /\ PeerSends(c, [type |-> "mcp_stream", id |-> r])
  /\ UNCHANGED atBrowser

\* Also before it is open, when the upgrade is on its way.
PeerCloses(c) ==
  /\ peer[c] \in {"dialing", "open"}
  /\ peer' = [peer EXCEPT ![c] = "closing"]
  /\ up' = [up EXCEPT ![c] = Sent(@, Close)]
  /\ UNCHANGED <<memory, pendingRequests, stored, life, server, down, client,
                 atBrowser, sentOn, forgotten>>

\* The connection breaks: each end finds out in its own time and what was in
\* flight is lost.
Break(c) ==
  /\ server[c] \in {"open", "closing"}
  /\ peer[c] # "closed"
  /\ up' = [up EXCEPT ![c] = <<Close>>]
  /\ down' = [down EXCEPT ![c] = <<Close>>]
  /\ UNCHANGED <<memory, pendingRequests, stored, life, server, peer, client,
                 atBrowser, sentOn, forgotten>>

\* A connection both ends are done with may be used again.
Recycle(c) ==
  /\ peer[c] = "closed" /\ server[c] = "closed"
  /\ browserSocket # c
  /\ peer' = [peer EXCEPT ![c] = "free"]
  /\ server' = [server EXCEPT ![c] = "free"]
  /\ up' = [up EXCEPT ![c] = <<>>]
  /\ down' = [down EXCEPT ![c] = <<>>]
  /\ UNCHANGED <<memory, pendingRequests, stored, life, client, atBrowser,
                 sentOn, forgotten>>

-----------------------------------------------------------------------------

ObjectReads(c) ==
  \/ handleStatusMessage(c) \/ handleMcpResponse(c)
  \/ handleMcpStream(c) \/ webSocketClose(c)

Object ==
  \/ handleInit \/ handleTeardown \/ alarm \/ Hibernate \/ Restart
  \/ \E c \in Conns, token \in BOOLEAN : handleWebSocketUpgrade(c, token)
  \/ \E c \in Conns : ObjectReads(c)
  \/ \E r \in Reqs, token \in BOOLEAN : McpArrive(r, token)
  \/ \E r \in Reqs : McpDispatch(r) \/ RequestTimeout(r)

Network == \E c \in Conns : Break(c) \/ Recycle(c)

Peers ==
  \/ \E c \in Conns : Dial(c) \/ PeerReads(c) \/ PeerSendsStatus(c) \/ PeerCloses(c)
  \/ \E r \in Reqs : PeerResponds(r) \/ \E c \in Conns : PeerStreams(c, r)

Next == Object \/ Network \/ Peers

Spec == Init /\ [][Next]_vars

\* Bodies arrive, timers fire, and frames in flight are delivered by both
\* ends; nobody has to send, close, dial or restart anything.
Fairness ==
  /\ \A r \in Reqs : WF_vars(McpDispatch(r)) /\ WF_vars(RequestTimeout(r))
  /\ \A c \in Conns : WF_vars(ObjectReads(c)) /\ WF_vars(PeerReads(c))

FairSpec == Spec /\ Fairness

-----------------------------------------------------------------------------
(* Properties *)

\* A promise that a client waits on is always in pendingRequests, where a
\* timer and failAllPending can reach it; whatever removes an entry settles it.
EveryWaiterIsPending ==
  \A r \in Reqs : phase[r] = "waiting" => r \in pendingRequests

\* Every pending request was sent to the socket that is the session's browser
\* now: replacing or losing the browser fails the requests of the old one, so
\* no new browser is ever expected to answer them.
PendingFollowsSocket ==
  \A r \in pendingRequests : browserSocket # NoConn /\ sentOn[r] = browserSocket

\* "One browser per session" (session-relay.ts:173), as far as the code keeps
\* to it: replacement, teardown and expiry close the socket the object knows
\* as its browser, so any other socket that is open is one whose reference it
\* lost to hibernation, and that has stayed open since.
OneBrowser ==
  \A c \in Conns : server[c] = "open" => (browserSocket = c \/ c \in forgotten)

\* The token of a deployer's session survives any restart, until teardown or
\* expiry deletes it.
TokenIsDurable ==
  (Deployed /\ life = "live") => (stored /\ sessionToken)

\* Each client gets partial events and then exactly one final answer.
Replies == INSTANCE RequestReply WITH
  status <- [r \in Reqs |-> IF phase[r] \in {"body", "waiting"} THEN "open" ELSE phase[r]],
  final <- answer

RepliesSpec == Replies!Spec

\* No client waits for ever, whatever happens to the browser.
EveryRequestAnswered ==
  \A r \in Reqs : (phase[r] \in {"body", "waiting"}) ~> (phase[r] = "done")

\* A socket the object has closed stops being the session's browser, although
\* teardown and expiry leave the reference in place.
ClosedSocketIsForgotten ==
  \A c \in Conns :
    (browserSocket = c /\ server[c] = "closing") ~> (browserSocket # c)

=============================================================================

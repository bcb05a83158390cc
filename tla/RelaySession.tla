---------------------------- MODULE RelaySession ----------------------------
(***************************************************************************)
(* A session with the real browser side: RelayClient, the reconnecting     *)
(* WebSocket client of packages/edge-agent-session, in every tab that has  *)
(* the session open, driven by one of its two callers (EdgeAgentSandbox of *)
(* edge-agent-sdk, or frontend/src/main-tui.ts).  The object's actions are *)
(* those of SessionRelay; its arbitrary peers are replaced.                *)
(*                                                                         *)
(* A JavaScript event handler of the tab is one action.  The backoff delay *)
(* is some delay, so reconnectAttempts is left out.                        *)
(***************************************************************************)
EXTENDS SessionRelay

CONSTANTS
  Tabs,        \* browser tabs with the session open, one RelayClient each
  NoTab,       \* the owner of a connection nobody made
  App,         \* "sdk" or "tui": which caller drives the clients
  HasToken,    \* the clients were given the session's token
  MaxOpens,    \* bound on the calls of connect() in one tab
  MaxFaults    \* bound on broken connections, restarts and deletions

ASSUME RelaySessionAssumption ==
  /\ NoTab \notin Tabs
  /\ App \in {"sdk", "tui"}
  /\ HasToken \in BOOLEAN
  /\ MaxOpens \in Nat
  /\ MaxFaults \in Nat
  /\ \E m \in Statuses : m.ready

VARIABLES
  \* RelayClient, per tab
  ws, currentState, reconnectTimer, intentionalClose,
  \* the tab that made each connection, and that serves each request
  owner, servedBy,
  \* counters for the bounds
  opens, faults

tabVars == <<ws, currentState, reconnectTimer, intentionalClose, owner, servedBy, opens>>
sessionVars == <<vars, tabVars, faults>>

RelayState == {"disconnected", "connecting", "connected", "ready"}

SessionTypeOK ==
  /\ TypeOK
  /\ ws \in [Tabs -> Conns \cup {NoConn}]
  /\ currentState \in [Tabs -> RelayState]
  /\ reconnectTimer \in [Tabs -> BOOLEAN]
  /\ intentionalClose \in [Tabs -> BOOLEAN]
  /\ owner \in [Conns -> Tabs \cup {NoTab}]
  /\ servedBy \in [Reqs -> Tabs \cup {NoTab}]
  /\ opens \in [Tabs -> 0 .. MaxOpens]
  /\ faults \in 0 .. MaxFaults

SessionInit ==
  /\ Init
  /\ ws = [b \in Tabs |-> NoConn]
  /\ currentState = [b \in Tabs |-> "disconnected"]
  /\ reconnectTimer = [b \in Tabs |-> FALSE]
  /\ intentionalClose = [b \in Tabs |-> FALSE]
  /\ owner = [c \in Conns |-> NoTab]
  /\ servedBy = [r \in Reqs |-> NoTab]
  /\ opens = [b \in Tabs |-> 0]
  /\ faults = 0

-----------------------------------------------------------------------------
(* RelayClient *)

setState(b, s) == currentState' = [currentState EXCEPT ![b] = s]

\* Mutant: send() does not look at the state of the socket.
Output_Unchecked(b, ends, frames, m) ==
  IF ws[b] # NoConn THEN [frames EXCEPT ![ws[b]] = Sent(@, m)] ELSE frames

\* What send() leaves in flight: without an open socket it drops the message.
Output(b, ends, frames, m) ==
  IF ws[b] # NoConn /\ ends[ws[b]] = "open"
  THEN [frames EXCEPT ![ws[b]] = Sent(@, m)] ELSE frames

ReadyStatus == CHOOSE m \in Statuses : m.ready

\* new WebSocket(): the previous one, if any, is only forgotten.
doConnect(b, c) ==
  /\ Dial(c)
  /\ ws' = [ws EXCEPT ![b] = c]
  /\ owner' = [owner EXCEPT ![c] = b]

\* connect() by the application.  main-tui calls sendStatus right after it:
\* the socket is not open, so the message is dropped, and the state is 'ready'.
connect(b, c) ==
  /\ opens[b] < MaxOpens
  /\ opens[b] > 0 => intentionalClose[b]
  /\ opens' = [opens EXCEPT ![b] = @ + 1]
  /\ intentionalClose' = [intentionalClose EXCEPT ![b] = FALSE]
  /\ doConnect(b, c)
  /\ setState(b, IF App = "tui" THEN "ready" ELSE "connecting")
  /\ UNCHANGED <<reconnectTimer, servedBy, faults>>

disconnect(b) ==
  /\ opens[b] > 0 /\ ~intentionalClose[b]
  /\ intentionalClose' = [intentionalClose EXCEPT ![b] = TRUE]
  /\ reconnectTimer' = [reconnectTimer EXCEPT ![b] = FALSE]
  /\ ws' = [ws EXCEPT ![b] = NoConn]
  /\ setState(b, "disconnected")
  /\ IF ws[b] # NoConn /\ peer[ws[b]] \in {"dialing", "open"}
     THEN PeerCloses(ws[b]) ELSE UNCHANGED vars
  /\ UNCHANGED <<owner, servedBy, opens, faults>>

reconnect(b, c) ==
  /\ reconnectTimer[b]
  /\ reconnectTimer' = [reconnectTimer EXCEPT ![b] = FALSE]
  /\ doConnect(b, c)
  /\ setState(b, "connecting")
  /\ UNCHANGED <<intentionalClose, servedBy, opens, faults>>

\* The next frame at a tab's end of c.
Delivers(c, type) ==
  /\ owner[c] # NoTab
  /\ peer[c] \in {"dialing", "open", "closing"}
  /\ down[c] # <<>>
  /\ Head(down[c]).type = type
  /\ peer' = [peer EXCEPT ![c] = PeerAfter(c)]
  /\ down' = [down EXCEPT ![c] = Tail(@)]
  /\ UNCHANGED <<memory, pendingRequests, stored, life, server, client,
                 sentOn, forgotten>>

\* Mutant: nobody reacts to the state 'connected'.
onopen_Silent(c) ==
  /\ Delivers(c, "accept")
  /\ IF peer[c] = "dialing" THEN setState(owner[c], "connected") ELSE UNCHANGED currentState
  /\ UNCHANGED <<up, atBrowser, ws, reconnectTimer, intentionalClose, owner, servedBy, opens, faults>>

\* ws.onopen.  The sdk reacts to the state 'connected' by sending its status,
\* on the socket that is the client's own by now.
onopen(c) ==
  /\ Delivers(c, "accept")
  /\ LET b == owner[c]
         announces == App = "sdk" /\ currentState[b] # "connected"
     IN IF peer[c] = "dialing"
        THEN /\ setState(b, IF announces THEN "ready" ELSE "connected")
             /\ up' = IF announces THEN Output(b, peer', up, ReadyStatus) ELSE up
        ELSE UNCHANGED <<currentState, up>>
  /\ UNCHANGED <<atBrowser, ws, reconnectTimer, intentionalClose, owner, servedBy, opens, faults>>

\* ws.onmessage: the sandbox starts on the request, unless the socket is
\* closing.
onmessage(c) ==
  /\ Delivers(c, "mcp_request")
  /\ LET r == Head(down[c]).id IN
     IF peer[c] = "open"
     THEN /\ atBrowser' = atBrowser \cup {r}
          /\ servedBy' = [servedBy EXCEPT ![r] = owner[c]]
     ELSE UNCHANGED <<atBrowser, servedBy>>
  /\ UNCHANGED <<up, ws, currentState, reconnectTimer, intentionalClose, owner, opens, faults>>

\* Mutants of onclose, which retries when "retry" says so: after disconnect()
\* too; only if the socket had been open.
Closed(c, retry) ==
  /\ Delivers(c, "close") \/ Delivers(c, "refuse")
  /\ ws' = [ws EXCEPT ![owner[c]] = NoConn]
  /\ setState(owner[c], "disconnected")
  /\ reconnectTimer' = [reconnectTimer EXCEPT ![owner[c]] = @ \/ retry]
  /\ up' = UpAfter(c)
  /\ UNCHANGED <<atBrowser, intentionalClose, owner, servedBy, opens, faults>>

onclose_AlwaysRetries(c) == Closed(c, TRUE)
onclose_NoRetryOnFailure(c) ==
  Closed(c, ~intentionalClose[owner[c]] /\ peer[c] = "open")

\* ws.onclose, of whichever socket: it does not look whether that is this.ws.
onclose(c) ==
  /\ Delivers(c, "close") \/ Delivers(c, "refuse")
  /\ LET b == owner[c] IN
     /\ ws' = [ws EXCEPT ![b] = NoConn]
     /\ setState(b, "disconnected")
     /\ reconnectTimer' = [reconnectTimer EXCEPT ![b] = @ \/ ~intentionalClose[b]]
  /\ up' = UpAfter(c)
  /\ UNCHANGED <<atBrowser, intentionalClose, owner, servedBy, opens, faults>>

\* The sandbox is done with r; the answer goes out on the client's socket of
\* that moment.
sandboxDone(r) ==
  /\ r \in atBrowser
  /\ atBrowser' = atBrowser \ {r}
  /\ \E tools \in BOOLEAN :
       /\ tools => kind[r] = "list"
       /\ up' = Output(servedBy[r], peer, up,
                       [type |-> "mcp_response", id |-> r, tools |-> tools])
  /\ UNCHANGED <<memory, pendingRequests, stored, life, server, peer, down, client,
                 sentOn, forgotten, tabVars, faults>>

-----------------------------------------------------------------------------

TabReads(c) == onopen(c) \/ onmessage(c) \/ onclose(c)

\* The WebSocket object of a connection that is over is garbage once no
\* client refers to it.
Forget(c) ==
  /\ \A b \in Tabs : ws[b] # c
  /\ Recycle(c)
  /\ owner' = [owner EXCEPT ![c] = NoTab]
  /\ UNCHANGED <<ws, currentState, reconnectTimer, intentionalClose, servedBy, opens, faults>>

TabStep ==
  \/ \E b \in Tabs : disconnect(b) \/ \E c \in Conns : connect(b, c) \/ reconnect(b, c)
  \/ \E c \in Conns : TabReads(c) \/ Forget(c)
  \/ \E r \in Reqs : sandboxDone(r)

\* Steps of the object and of the network leave the tabs alone.
Elsewhere == UNCHANGED <<tabVars, faults>>

Upgrade(c) == handleWebSocketUpgrade(c, HasToken) /\ Elsewhere
Reads(c)   == ObjectReads(c) /\ Elsewhere
Arrive(r)  == (\E token \in BOOLEAN : McpArrive(r, token)) /\ Elsewhere
Dispatch(r) == McpDispatch(r) /\ Elsewhere
Expire(r)  == RequestTimeout(r) /\ Elsewhere

ObjectStep ==
  \/ handleInit /\ Elsewhere
  \/ Hibernate /\ Elsewhere
  \/ \E c \in Conns : Upgrade(c) \/ Reads(c)
  \/ \E r \in Reqs : Arrive(r) \/ Dispatch(r) \/ Expire(r)

Disturb == faults < MaxFaults /\ faults' = faults + 1 /\ UNCHANGED tabVars

Fault ==
  \/ handleTeardown /\ Disturb
  \/ alarm /\ Disturb
  \/ Restart /\ Disturb
  \/ \E c \in Conns : Break(c) /\ Disturb

SessionNext == TabStep \/ ObjectStep \/ Fault

SessionSpec == SessionInit /\ [][SessionNext]_sessionVars

\* Each tab opens the session once; timers fire and frames arrive.
SessionFairness ==
  /\ \A b \in Tabs :
       /\ WF_sessionVars(opens[b] = 0 /\ \E c \in Conns : connect(b, c))
       /\ WF_sessionVars(\E c \in Conns : reconnect(b, c))
  /\ \A c \in Conns :
       /\ WF_sessionVars(TabReads(c)) /\ WF_sessionVars(Forget(c))
       /\ WF_sessionVars(Upgrade(c)) /\ WF_sessionVars(Reads(c))

FairSessionSpec == SessionSpec /\ SessionFairness

-----------------------------------------------------------------------------
(* Properties *)

\* RelayClient is one of the peers SessionRelay allows, so every safety
\* property of SessionRelay holds of the whole session.
ObjectSpec == Spec

\* The tab that works on a pending request is the one whose socket is the
\* session's browser, so its answer is the answer that was asked for.
ServedByTheBrowser ==
  \A r \in pendingRequests \cap atBrowser :
    browserSocket # NoConn /\ owner[browserSocket] = servedBy[r]

\* A client has one connection that is not over, the one it knows: its
\* reconnection attempts never leave a second socket behind.
OneSocketPerClient ==
  \A c \in Conns : peer[c] \in {"dialing", "open"} => ws[owner[c]] = c

\* "Disconnect and stop reconnecting" (relay-client.ts:72): after disconnect()
\* the client stays away, whatever close events, timers and answers were on
\* their way, and no connection it made goes on.
DisconnectIsFinal ==
  \A b \in Tabs : intentionalClose[b] =>
    /\ ~reconnectTimer[b] /\ ws[b] = NoConn
    /\ \A c \in Conns : owner[c] = b => peer[c] \notin {"dialing", "open"}

\* A client that says 'ready' has told so to a socket that is open.
ReadyMeansOpen ==
  \A b \in Tabs : currentState[b] = "ready" =>
    ws[b] # NoConn /\ peer[ws[b]] = "open"

\* A client that wants a connection has one, is about to try, or is told
\* that the one it had is gone.
NeverGivesUp ==
  \A b \in Tabs : (opens[b] > 0 /\ ~intentionalClose[b]) =>
    reconnectTimer[b] \/ ws[b] # NoConn

\* What holds of every client at every moment: one socket, known to it while it
\* is not over; readiness that the other side can know of; a next attempt.
ClientInv == SessionTypeOK /\ OneSocketPerClient /\ ReadyMeansOpen /\ NeverGivesUp

\* A tab whose open connection the object forgot in hibernation: it gets no
\* close event, so it stays 'ready' and does not connect again, and the object
\* has no socket to forward to.
Stranded == \E b \in Tabs : ws[b] \in forgotten

\* Tabs that stay, each of which takes the place of the other whenever it
\* connects, for ever.
Rivals == \E a, b \in Tabs : a # b /\ ~intentionalClose[a] /\ ~intentionalClose[b]

\* When the faults are over and one tab stays, the object keeps a browser that
\* is ready, unless that tab is stranded.
Settles == <>[](Connected \/ Stranded \/ Rivals \/ \A b \in Tabs : intentionalClose[b])

=============================================================================

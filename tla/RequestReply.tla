---------------------------- MODULE RequestReply ----------------------------
(***************************************************************************)
(* What a session promises to its MCP clients, whatever happens to the     *)
(* browser behind it: a request that has been accepted is followed by any  *)
(* number of partial events (only a streamed call has some) and then by    *)
(* exactly one final answer, after which nothing more is said.  A request  *)
(* may also be refused at the door.  SessionRelay implements this.         *)
(***************************************************************************)
EXTENDS Naturals

CONSTANTS
  Reqs,      \* requests of the MCP clients
  Refusals,  \* final answers given to a request that is not accepted
  Finals,    \* final answers given to a request that was accepted
  NoAnswer   \* the absence of a final answer, distinct from those

VARIABLES
  status,    \* what the client knows of each request
  parts,     \* partial events received for each request
  final      \* final answer received for each request

vars == <<status, parts, final>>

Status == {"new", "open", "done"}

TypeOK ==
  /\ status \in [Reqs -> Status]
  /\ parts \in [Reqs -> Nat]
  /\ final \in [Reqs -> Refusals \cup Finals \cup {NoAnswer}]

Init ==
  /\ status = [r \in Reqs |-> "new"]
  /\ parts = [r \in Reqs |-> 0]
  /\ final = [r \in Reqs |-> NoAnswer]

-----------------------------------------------------------------------------

Stays(r) ==
  /\ status'[r] = status[r]
  /\ parts'[r] = parts[r]
  /\ final'[r] = final[r]

Accept(r) ==
  /\ status[r] = "new" /\ status'[r] = "open"
  /\ parts'[r] = parts[r]
  /\ final'[r] = final[r]

Refuse(r) ==
  /\ status[r] = "new" /\ status'[r] = "done"
  /\ parts'[r] = parts[r]
  /\ final'[r] \in Refusals

Part(r) ==
  /\ status[r] = "open" /\ status'[r] = "open"
  /\ parts'[r] = parts[r] + 1
  /\ final'[r] = final[r]

Finish(r) ==
  /\ status[r] = "open" /\ status'[r] = "done"
  /\ parts'[r] = parts[r]
  /\ final'[r] \in Finals

\* One event of the server may settle several requests (a lost browser
\* fails every call that waits for it), so each request takes its own step.
Next ==
  /\ \A r \in Reqs : Stays(r) \/ Accept(r) \/ Refuse(r) \/ Part(r) \/ Finish(r)
  /\ TypeOK'

Spec == Init /\ [][Next]_vars

\* No client waits for ever.
Live == \A r \in Reqs : (status[r] = "open") ~> (status[r] = "done")

=============================================================================

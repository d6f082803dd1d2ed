---------------------------- MODULE RaftClients ----------------------------
(***************************************************************************)
(* Raft with the clients that wait for an answer: the table Node::pending, *)
(* which maps a log index to the client to be answered when that index is  *)
(* applied.  A client is known by the entry that was appended for it, and  *)
(* by the node it asked.                                                   *)
(*                                                                         *)
(* A client that is redirected at once is never in the table; only what    *)
(* its request does to the others is modelled (Redirect).                  *)
(***************************************************************************)
EXTENDS Raft

VARIABLES
  pending,  \* the entries whose clients wait, at each node
  answers   \* history: the answers given to clients of the table

clientVars == <<pending, answers>>
servedVars == <<vars, clientVars>>

Answer ==
  [node : Node, entry : LogEntry, result : {"Applied", "NotLeader"},
   term : Nat]  \* the node's term when it answers

----------------------------------------------------------------------------
(* process_actions on the table                                            *)

AnswersTo(i, clients, result) ==
  {[node |-> i, entry |-> e, result |-> result, term |-> current_term'[i]] :
     e \in clients}

\* HashMap::insert: a client that waited at this index is dropped.
Park(table, entry) == {e \in table : e.index # entry.index} \cup {entry}

ResolvedIndices_OffByOne(i) == {commit_index'[i] + 1}

\* The index that the ApplyCommand actions of a turn look up.  Each of them
\* reads last_applied, which already has its value from after the turn.
ResolvedIndices(i) ==
  IF Len(applied'[i]) > Len(applied[i]) THEN {last_applied'[i]} ELSE {}

\* The ApplyCommand actions of a turn that began with `table'.
Resolve(i, table) ==
  LET done == {e \in table : e.index \in ResolvedIndices(i)}
  IN  /\ pending' = [pending EXCEPT ![i] = table \ done]
      /\ answers' = answers \cup AnswersTo(i, done, "Applied")

----------------------------------------------------------------------------
(* The turns of the node loop                                              *)

AcceptClient_ParksLate(i) ==
  /\ \E command \in Command : ClientRequest(i, command)
  /\ pending' = [pending EXCEPT ![i] = Park(@, log'[i][Len(log'[i])])]
  /\ UNCHANGED answers

\* handle_client at a leader: the client is parked before the actions of
\* the turn are processed.
AcceptClient(i) ==
  /\ \E command \in Command : ClientRequest(i, command)
  /\ Resolve(i, Park(pending[i], log'[i][Len(log'[i])]))

\* handle_client elsewhere: NotLeader drains the table.
Redirect(i) ==
  /\ role[i] # "Leader"
  /\ pending[i] # {}
  /\ UNCHANGED vars
  /\ pending' = [pending EXCEPT ![i] = {}]
  /\ answers' = answers \cup AnswersTo(i, pending[i], "NotLeader")

\* A message; some of the handlers apply commands.
ReceiveMessage(i) ==
  /\ \E m \in messages : HandleMessage(i, m)
  /\ Resolve(i, pending[i])

\* A timeout applies nothing.
Timeout(i) ==
  /\ ElectionTimeout(i) \/ HeartbeatTimeout(i) \/ IgnoreTimeout(i)
  /\ UNCHANGED clientVars

\* The channels of the waiting clients are closed by the crash.
RestartNode(i) ==
  /\ Restart(i)
  /\ pending' = [pending EXCEPT ![i] = {}]
  /\ UNCHANGED answers

----------------------------------------------------------------------------
ClientsInit ==
  /\ Init
  /\ pending = [i \in Node |-> {}]
  /\ answers = {}

ClientsNext ==
  \E i \in Node :
    AcceptClient(i) \/ Redirect(i) \/ ReceiveMessage(i) \/ Timeout(i)
      \/ RestartNode(i)

ClientsSpec == ClientsInit /\ [][ClientsNext]_servedVars

----------------------------------------------------------------------------
(* Properties                                                              *)

Applieds == {a \in answers : a.result = "Applied"}

HasEntry(l, entry) == entry.index \in DOMAIN l /\ l[entry.index] = entry

(***************************************************************************)
(* A client that a leader answers Applied, in the term in which it         *)
(* accepted the command, has its command in the storage of a quorum, and   *)
(* keeps it there through crashes and changes of leader (handle_client and *)
(* the ApplyCommand arm of process_actions on top of the commit rule).     *)
(* Stated until a success reply acknowledged a foreign suffix.             *)
(***************************************************************************)
AppliedIsDurable ==
  ~ stale_ack =>
    \A a \in Applieds :
      a.term = a.entry.term =>
        Cardinality({j \in Node : HasEntry(disk[j].log, a.entry)})
          >= Quorum(a.node)

(***************************************************************************)
(* A client that waits at a node in the term of its entry waits at the     *)
(* leader of that term, and the entry is in its log: no message, however   *)
(* late, and no timeout makes a leader forget in its own term whom it will *)
(* answer, so that NotLeader, which drains the table, never reaches a      *)
(* client whose entry the present leader is replicating (handle_client,    *)
(* step_down and the NotLeader arm of process_actions).                    *)
(***************************************************************************)
WaitingLed ==
  \A i \in Node : \A e \in pending[i] :
    e.term = current_term[i] => role[i] = "Leader" /\ HasEntry(log[i], e)

(***************************************************************************)
(* The comment on pending: "Maps log index -> pending client sender,       *)
(* resolved when that index is applied".  Whoever waits, waits for an      *)
(* index that is not applied yet.                                          *)
(***************************************************************************)
NoOneForgotten ==
  \A i \in Node : \A e \in pending[i] : e.index > last_applied[i]

(***************************************************************************)
(* The comment on ClientResponse::Applied: "Command was committed and      *)
(* applied to the state machine".  The client's entry stands at its index  *)
(* in the log of the node that answered, and stays there.  Stated until a  *)
(* success reply acknowledged a foreign suffix.                            *)
(***************************************************************************)
AppliedIsTrue ==
  ~ stale_ack => \A a \in Applieds : HasEntry(log[a.node], a.entry)
=============================================================================

---------------------------- MODULE NodeProcess ----------------------------
(***************************************************************************)
(* One node as a process: a turn of Node::run in its single steps, with    *)
(* the file that FilePersistence keeps, the metrics that other threads     *)
(* read, the simulator's key-value store, and a crash between any two      *)
(* steps.                                                                  *)
(*                                                                         *)
(* Raft's handlers appear by the Actions they return.  In all of them      *)
(* PersistState comes before the messages and the messages before the      *)
(* commands, so a turn is: save (if due), send each message of `outbox',   *)
(* apply up to last_applied, publish the metrics.  Timers are RaftTimers'. *)
(*                                                                         *)
(* The core's persistent state is its log and a count of its changes.  A   *)
(* message carries the count it relies on: a vote, a request for votes, an *)
(* acknowledgement or an AppendEntries that a restarted node has forgotten *)
(* would make the others believe something false.  A refusal relies on     *)
(* nothing.                                                                *)
(*                                                                         *)
(* As in RaftLog, <operator>_<fault> is a seeded fault for mutation runs.  *)
(***************************************************************************)
EXTENDS Integers, Sequences, FiniteSets

CONSTANTS
  Peer, Key, Value,
  MESSAGE_LOG_CAP,  \* 200 in the code
  Faults,           \* which calls of the file system may fail
  MaxVersion,       \* bound: changes of the persistent state
  MaxLogLen,        \* bound: length of the log
  MaxStarts         \* bound: starts of the process

ASSUME ProcessAssumption ==
  /\ IsFiniteSet(Peer)
  /\ MESSAGE_LOG_CAP \in Nat \ {0}
  /\ Faults \subseteq {"write", "rename"}
  /\ MaxVersion \in Nat /\ MaxLogLen \in Nat /\ MaxStarts \in Nat \ {0}

VARIABLES
  mem, last_applied,   \* Raft: persistent, and volatile.last_applied
  busy, save, outbox,  \* the turn: begun, how far its save is, what to send
  done, store,         \* how many commands were applied, and to what
  shown, message_log,  \* Metrics
  live, tmp,           \* the files <path> and <path>.tmp
  up, starts,          \* the process
  saved,               \* history: the count at the last call of save
  sent, failed,        \* history: all messages, and whether a save failed
  fed,                 \* history: the commands that were applied
  replaced             \* history: an applied entry has left the log

coreVars    == <<mem, last_applied, replaced>>
turnVars    == <<busy, save, outbox>>
machineVars == <<done, store, fed>>
metricVars  == <<shown, message_log>>
fileVars    == <<live, tmp>>
processVars == <<up, starts>>
historyVars == <<saved, sent, failed>>
vars == <<coreVars, turnVars, machineVars, metricVars, fileVars, processVars,
          historyVars>>

----------------------------------------------------------------------------
(* Types                                                                   *)

Command == [op : {"Set"}, key : Key, value : Value]
             \cup [op : {"Delete"}, key : Key]

PersistentState == [version : Nat, log : Seq(Command)]
Default == [version |-> 0, log |-> << >>]  \* PersistentState::default

\* Inner::new: metrics that were never updated.
Nothing == [version |-> 0, last_applied |-> 0, log_length |-> 0]

Message == [to : Peer, needs : Nat]

\* A file may hold a state only in part, while or after it was written.
File   == [exists : BOOLEAN, whole : BOOLEAN, state : PersistentState]
NoFile == [exists |-> FALSE, whole |-> TRUE, state |-> Default]

(***************************************************************************)
(* Every variable has its type, and the message log its cap.               *)
(***************************************************************************)
TypeOK ==
  /\ mem \in PersistentState /\ last_applied \in Nat
  /\ busy \in BOOLEAN
  /\ save \in {"none", "due", "writing", "written"}
  /\ outbox \subseteq Message
  /\ done \in Nat
  /\ DOMAIN store \subseteq Key /\ \A k \in DOMAIN store : store[k] \in Value
  /\ shown \in [version : Nat, last_applied : Nat, log_length : Nat]
  /\ message_log \in Seq(Message) /\ Len(message_log) <= MESSAGE_LOG_CAP
  /\ live \in File /\ tmp \in File
  /\ up \in BOOLEAN /\ starts \in Nat
  /\ saved \in Nat /\ sent \subseteq Message /\ failed \in BOOLEAN
  /\ fed \in Seq(Command) /\ replaced \in BOOLEAN

----------------------------------------------------------------------------
(* A turn begins: Raft::step changes the core at once, and returns the     *)
(* actions that are then carried out one by one.                           *)

\* A log that still has what was applied.
KeepsApplied(log) ==
  /\ last_applied <= Len(log)
  /\ \A i \in 1 .. last_applied : log[i] = mem.log[i]

Begin(s, saves, ms, upto) ==
  /\ up /\ ~ busy
  /\ mem' = s
  /\ last_applied' = upto
  /\ replaced' = (replaced \/ ~ KeepsApplied(s.log))
  /\ busy' = TRUE
  /\ save' = IF saves THEN "due" ELSE "none"
  /\ outbox' = ms
  /\ UNCHANGED <<machineVars, metricVars, fileVars, processVars, historyVars>>

Changed(log) == [version |-> mem.version + 1, log |-> log]

CanChange == mem.version < MaxVersion

\* Messages that hold as long as s is not forgotten, and ones that always do.
Promises(s, P) == {[to |-> p, needs |-> s.version] : p \in P}
Refusals(P)    == {[to |-> p, needs |-> 0] : p \in P}

\* handle_election_timeout, also with no peers; a leader ignores it.
ElectionTimeout ==
  /\ CanChange
  /\ LET s == Changed(mem.log) IN Begin(s, TRUE, Promises(s, Peer), last_applied)

GrantVote_Unsaved(p) ==
  \E s \in {mem, Changed(mem.log)} :
    /\ s.version <= MaxVersion
    /\ Begin(s, FALSE, Promises(s, {p}), last_applied)

\* handle_request_vote grants; a repeated vote changes nothing and is saved
\* again.
GrantVote(p) ==
  \E s \in {mem, Changed(mem.log)} :
    /\ s.version <= MaxVersion
    /\ Begin(s, TRUE, Promises(s, {p}), last_applied)

\* handle_request_vote or handle_append_entries refuses: a higher term is
\* adopted in memory and not saved.
Refuse(p) ==
  \E s \in {mem, Changed(mem.log)} :
    /\ s.version <= MaxVersion
    /\ Begin(s, FALSE, Refusals({p}), last_applied)

\* A response of a higher term: step_down, and no action at all.
StepDown ==
  /\ CanChange
  /\ Begin(Changed(mem.log), FALSE, {}, last_applied)

\* Entries that are new to the log; none in a heartbeat or a repetition.
NewEntries == UNION {[1 .. n -> Command] : n \in 0 .. MaxLogLen}

\* handle_append_entries accepts: new entries go to the end of the log or in
\* the place of a tail, and the leader's commit index lets more be applied.
\* The code does not ask whether the tail was applied, so neither is it asked
\* here; the log may then be shorter than last_applied, which stays.  It
\* saves always, and so counts as a change always.
AcceptAppend(p) ==
  /\ CanChange
  /\ \E kept \in 0 .. Len(mem.log), new \in NewEntries :
       LET log == SubSeq(mem.log, 1, kept) \o new
           s   == Changed(log)
       IN  /\ new = << >> => kept = Len(mem.log)
           /\ Len(log) <= MaxLogLen
           /\ \E upto \in {last_applied} \cup last_applied .. Len(log) :
                Begin(s, TRUE, Promises(s, {p}), upto)

\* handle_client_request of a leader, which commits at once when alone.
ClientRequest(c) ==
  /\ CanChange
  /\ Len(mem.log) < MaxLogLen
  /\ LET s == Changed(Append(mem.log, c))
     IN  Begin(s, TRUE, {}, IF Peer = {} THEN Len(s.log) ELSE last_applied)

\* handle_heartbeat_timeout of a leader.  Whatever has changed since it
\* began to stand was its own campaign or its clients', and was saved.
Heartbeat ==
  /\ saved = mem.version
  /\ Begin(mem, FALSE, Promises(mem, Peer), last_applied)

\* handle_append_entries_response: try_advance_commit_index.
CommitAdvance ==
  /\ Peer # {}
  /\ \E upto \in last_applied + 1 .. Len(mem.log) : Begin(mem, FALSE, {}, upto)

----------------------------------------------------------------------------
(* process_actions: PersistState.  An error is logged and the turn goes on.*)

\* fs::write creates or truncates the temporary file ...
SaveBegin ==
  /\ save = "due"
  /\ tmp' = [exists |-> TRUE, whole |-> FALSE, state |-> mem]
  /\ save' = "writing"
  /\ UNCHANGED <<coreVars, busy, outbox, machineVars, metricVars, live,
                 processVars, historyVars>>

\* ... and fills it.
SaveWritten ==
  /\ save = "writing"
  /\ tmp' = [tmp EXCEPT !.whole = TRUE]
  /\ save' = "written"
  /\ UNCHANGED <<coreVars, busy, outbox, machineVars, metricVars, live,
                 processVars, historyVars>>

SaveRename_TooSoon ==
  /\ save \in {"writing", "written"}
  /\ live' = tmp
  /\ tmp' = NoFile
  /\ save' = "none"
  /\ saved' = mem.version
  /\ UNCHANGED <<coreVars, busy, outbox, machineVars, metricVars, processVars,
                 sent, failed>>

\* fs::rename replaces the live file in one step.
SaveRename ==
  /\ save = "written"
  /\ live' = tmp
  /\ tmp' = NoFile
  /\ save' = "none"
  /\ saved' = mem.version
  /\ UNCHANGED <<coreVars, busy, outbox, machineVars, metricVars, processVars,
                 sent, failed>>

SaveFails ==
  /\ \/ "write" \in Faults /\ save \in {"due", "writing"}
     \/ "rename" \in Faults /\ save = "written"
  /\ save' = "none"
  /\ saved' = mem.version
  /\ failed' = TRUE
  /\ UNCHANGED <<coreVars, busy, outbox, machineVars, metricVars, fileVars,
                 processVars, sent>>

----------------------------------------------------------------------------
(* process_actions: Send and ApplyCommand; then update_metrics             *)

record_message_NoEviction(m) == message_log' = Append(message_log, m)

\* Metrics::record_message, a ring buffer.
record_message(m) ==
  message_log' = IF Len(message_log) >= MESSAGE_LOG_CAP
                 THEN Append(Tail(message_log), m)
                 ELSE Append(message_log, m)

\* The metrics log of Node; its label and time stamp are for display.
record_outgoing(m) == record_message(m)

Send_WithoutWaiting(m) ==
  /\ busy
  /\ m \in outbox
  /\ outbox' = outbox \ {m}
  /\ sent' = sent \cup {m}
  /\ record_outgoing(m)
  /\ UNCHANGED <<coreVars, busy, save, machineVars, shown, fileVars,
                 processVars, saved, failed>>

\* Action::Send: recorded, and handed to the transport.
Send(m) ==
  /\ busy /\ save = "none"
  /\ m \in outbox
  /\ outbox' = outbox \ {m}
  /\ sent' = sent \cup {m}
  /\ record_outgoing(m)
  /\ UNCHANGED <<coreVars, busy, save, machineVars, shown, fileVars,
                 processVars, saved, failed>>

apply_KeepsDeleted(s, c) ==
  IF c.op = "Set" THEN [k \in DOMAIN s \cup {c.key} |->
                          IF k = c.key THEN c.value ELSE s[k]]
  ELSE s

\* KeyValueStore::apply.
apply(s, c) ==
  IF c.op = "Set" THEN [k \in DOMAIN s \cup {c.key} |->
                          IF k = c.key THEN c.value ELSE s[k]]
  ELSE [k \in DOMAIN s \ {c.key} |-> s[k]]

ApplyCommand ==
  /\ busy /\ save = "none" /\ outbox = {}
  /\ done < last_applied
  /\ store' = apply(store, mem.log[done + 1])
  /\ done' = done + 1
  /\ fed' = Append(fed, mem.log[done + 1])
  /\ UNCHANGED <<coreVars, turnVars, metricVars, fileVars, processVars,
                 historyVars>>

\* Metrics::update, under one write lock.
update(s, upto) ==
  shown' = [version |-> s.version, last_applied |-> upto,
            log_length |-> Len(s.log)]

EndTurn_MetricsFirst ==
  \/ /\ busy /\ save = "none" /\ outbox = {} /\ done = last_applied
     /\ busy' = FALSE
     /\ UNCHANGED <<coreVars, save, outbox, machineVars, metricVars, fileVars,
                    processVars, historyVars>>
  \/ /\ busy /\ save = "none"
     /\ update(mem, last_applied)
     /\ UNCHANGED <<coreVars, turnVars, machineVars, message_log, fileVars,
                    processVars, historyVars>>

EndTurn ==
  /\ busy /\ save = "none" /\ outbox = {} /\ done = last_applied
  /\ busy' = FALSE
  /\ update(mem, last_applied)
  /\ UNCHANGED <<coreVars, save, outbox, machineVars, message_log, fileVars,
                 processVars, historyVars>>

----------------------------------------------------------------------------
(* Crash, and start                                                        *)

\* Only the files are left.
Crash ==
  /\ up /\ up' = FALSE
  /\ mem' = Default /\ last_applied' = 0 /\ replaced' = FALSE
  /\ busy' = FALSE /\ save' = "none" /\ outbox' = {}
  /\ done' = 0 /\ store' = << >> /\ fed' = << >>
  /\ shown' = Nothing /\ message_log' = << >>
  /\ saved' = 0
  /\ UNCHANGED <<fileVars, starts, sent, failed>>

\* FilePersistence::load, Node::new and the head of Node::run.  A file that
\* cannot be parsed is an error, and the node does not start.
Start ==
  /\ ~ up /\ starts < MaxStarts
  /\ live.whole
  /\ up' = TRUE /\ starts' = starts + 1
  /\ mem' = live.state
  /\ last_applied' = 0 /\ replaced' = FALSE
  /\ done' = 0 /\ store' = << >> /\ fed' = << >>
  /\ message_log' = << >> /\ update(live.state, 0)
  /\ saved' = live.state.version
  /\ UNCHANGED <<turnVars, fileVars, sent, failed>>

Init ==
  /\ mem = Default /\ last_applied = 0 /\ replaced = FALSE
  /\ busy = FALSE /\ save = "none" /\ outbox = {}
  /\ done = 0 /\ store = << >> /\ fed = << >>
  /\ shown = Nothing /\ message_log = << >>
  /\ live = NoFile /\ tmp = NoFile
  /\ up = FALSE /\ starts = 0
  /\ saved = 0 /\ sent = {} /\ failed = FALSE

Handle ==
  \/ ElectionTimeout \/ StepDown \/ Heartbeat \/ CommitAdvance
  \/ \E p \in Peer : GrantVote(p) \/ Refuse(p) \/ AcceptAppend(p)
  \/ \E c \in Command : ClientRequest(c)

Process ==
  \/ SaveBegin \/ SaveWritten \/ SaveRename \/ SaveFails
  \/ \E m \in outbox : Send(m)
  \/ ApplyCommand \/ EndTurn

Next == Handle \/ Process \/ Crash \/ Start

Spec == Init /\ [][Next]_vars

----------------------------------------------------------------------------
(* Properties                                                              *)

(***************************************************************************)
(* The live file is never one that load cannot parse: a node that crashes  *)
(* at any point of a save, or whose save fails half way, can start again   *)
(* (FilePersistence::save through a temporary file).                       *)
(***************************************************************************)
NeverCorrupt == live.whole

(***************************************************************************)
(* Every vote, request for votes, acknowledgement and AppendEntries that   *)
(* the node has sent is still backed by the state that a start would load, *)
(* at every moment and so after a crash at any moment, unless a save has   *)
(* failed: the order of PersistState and Send in every handler, and states *)
(* that are changed in memory and not saved.  Refusals rely on nothing.    *)
(***************************************************************************)
PromisesKept == ~ failed => \A m \in sent : m.needs <= live.state.version

(***************************************************************************)
(* The metrics never claim a command that the state machine has yet to     *)
(* apply, although the core counts it as applied when the turn begins      *)
(* (update_metrics after process_actions).                                 *)
(***************************************************************************)
ShownWasDone == up => shown.last_applied <= done

\* Among the first n commands: the positions that write key k, the last of
\* them, and what a store then holds.
Writes(log, n, k)    == {i \in 1 .. n : log[i].key = k}
LastWrite(log, n, k) ==
  CHOOSE i \in Writes(log, n, k) : \A j \in Writes(log, n, k) : j <= i
Kept(log, n) == {k \in Key : /\ Writes(log, n, k) # {}
                             /\ log[LastWrite(log, n, k)].op = "Set"}
StoreOf(log, n) == [k \in Kept(log, n) |-> log[LastWrite(log, n, k)].value]

(***************************************************************************)
(* The store holds, for every key, what the last command about it wrote    *)
(* that was applied since the start, and these commands are the beginning  *)
(* of the log, also after a restart that applies the log again and after   *)
(* its tail was replaced; unless an applied entry left the log, which      *)
(* handle_append_entries does not exclude and a foreign suffix that was    *)
(* acknowledged can bring about (KeyValueStore::apply and the ApplyCommand *)
(* arm of process_actions).                                                *)
(***************************************************************************)
StoreIsLastWrite ==
  up => /\ store = StoreOf(fed, done)
        /\ ~ replaced => fed = SubSeq(mem.log, 1, done)

\* The abstract node: its storage is the live file, and it owes what is to
\* be sent as soon as nothing is left to save.
Stable == INSTANCE StableStore
            WITH State   <- PersistentState,
                 Initial <- Default,
                 stored  <- live.state,
                 outbox  <- IF save = "none" THEN outbox ELSE {}

(***************************************************************************)
(* A turn in its single steps, with two files, keeps the promise of        *)
(* StableStore: nobody can tell it from one that stores in a single step   *)
(* and sends only then.                                                    *)
(***************************************************************************)
ImplementsStableStore == Stable!StoreSpec
=============================================================================

# raft-craft in TLA+

TLA+ modules, TLC configurations and TLAPS proofs for the Raft implementation
in this repository. `PROJECT.json` maps every definition to the lines it
translates and lists the runs, the seeded faults (mutants), the findings, the
hazards and the theorems; this file explains them.

    tlc -workers 2 -config Replication.cfg MCRaftClients   # any run of PROJECT.json
    tlapm RaftProofs.tla                                   # any *Proofs module

## 1. Inventory

| Part | State it keeps | Operations | Talks to |
|---|---|---|---|
| `raft-core` elections (`raft/election.rs`, `raft/vote.rs`) | role, known_leader, current_term, voted_for, the candidate's votes | election timeout, RequestVote, its reply, step_down, become_leader | returns `Action`s |
| `raft-core` replication (`raft/append_entries.rs`, `heartbeat.rs`, `client.rs`) | log, commit_index, last_applied, the leader's next_index and match_index | heartbeat timeout, AppendEntries, its reply, client request, commit, apply | returns `Action`s |
| `raft-core` dispatch (`raft/step.rs`, `protocol/`) | none | `step`, `handle_message` | the handlers |
| `raft-runtime` node loop (`node.rs`) | the core, the pending clients by log index | `run` (select over timers, messages, clients), `handle_client`, `process_actions` | all of the below |
| `raft-runtime` timers (`timer.rs`, `clock.rs`, `config.rs`) | one task handle per timer, a queue of 16 timer events | reset, cancel, fire | the node loop, through the queue |
| `raft-runtime` persistence (`persistence.rs`) | the stored `PersistentState` | save (write a temporary file, rename), load | the node loop |
| transport and state machine traits | the key-value map in the simulator | send, apply | the node loop |
| metrics (`metrics.rs`) | a copy of the node's scalars, the last 200 message labels | update, record, snapshot | the UI |
| `raft-simulator` network | live senders, partitions, drop rate, latency | register, deregister, partition, heal, deliver | the nodes' channels |
| `raft-simulator` cluster | a handle per node | kill, restart, isolate, unisolate, submit | nodes, network, clock |
| `raft-simulator` clock | the time, the speed, a heap of wakers | tick, sleep, poll, pause, resume | the timers, the network's latency |
| terminal UI | selection, text being typed | key decoding, drawing | the cluster |

The core is a deterministic function from (state, event) to (state, actions).
All concurrency is between nodes and between the tasks of one node: the loop,
the timers' tasks, the network's delayed deliveries and the clock. Inside a
turn the loop awaits nothing that lets another turn of the same node begin.

What is hard here, and what makes each part correct:

* elections: votes cross each other, arrive late or twice, and must survive
  crashes; correct when no term ever has two leaders;
* replication: messages are reordered and repeated while leaders change;
  correct when logs match, what is committed stays and state machines agree;
* persistence: the order of save and send, a crash in the middle of a save, and
  what happens when save fails;
* timers: a timeout that was queued before a reset; which timer runs in which
  role; correct when a cluster that can elect a leader eventually does;
* pending clients: a table by log index that outlives the leadership that
  filled it; correct when `Applied` means that this client's command was
  applied and no waiting client is forgotten;
* metrics and key-value store: read from other threads in the middle of a turn,
  rebuilt after a restart; correct when they claim only what was applied;
* simulator: a restart with empty storage; a task that ends after its successor
  began; the window between reading the simulated time and registering a waker;
* terminal UI: letters that are commands in one mode and text in another.

`PROJECT.json` lists each of these under `hazards`, with its line.

## 2. Plan

In this order; steps 1 to 11 are done.

1. `RaftLog`: the pure operations on logs, votes and match indices.
2. `MCRaftLog`: the same against the loops of the code; `RaftLoopProofs`.
3. `Raft`: the cluster; `MCRaft`.
4. `RaftLogProofs`, `RaftProofs` (types and elections).
5. `RaftTimers` (EXTENDS `Raft`): the two timers and their queue; which node
   can still start an election; progress under fairness of armed timers.
6. `RaftClients` (EXTENDS `Raft`): `pending`, `handle_client`, the `NotLeader`
   and `ApplyCommand` arms of `process_actions`; who is answered what.
7. `SimClock`, and `Simulator` (EXTENDS `SimClock`): poll against tick;
   registration, partitions, latency, channels, kill and restart.
8. `StableStore`, what a node promises of its storage, and `NodeProcess`, a
   turn in its single steps that is shown to implement it, with the file, the
   metrics and the key-value store; `NodeProcessProofs`.
9. `Console` (EXTENDS `Simulator`): the user's keys, the App, submitted
   commands; `ConsoleProofs`.
10. `RaftLedger`, the history that the safety of replication is argued with;
   `RaftReplicationProofs` (log matching) and `RaftSafetyProofs` (commitment).
11. `RuntimeProofs`: `RaftTimers` and `RaftClients`.
12. A heartbeat module with discrete time, for clients that keep postponing the
   broadcast.
13. An abstract replicated log (a committed sequence that only grows, learnt
   prefix by prefix) that `Raft` implements under the condition of
   `StateMachineSafety`, and a client's view of it for `RaftClients`.

## 3. Modules and the code

**RaftLog.** `last_log_index`, `log_matches`, `quorum`,
`candidate_log_up_to_date` are the methods of those names. `EntriesFrom`,
`PrevLogIndex`, `PrevLogTerm` are what `append_entries_for_peer` puts into a
message. `Reconcile`, `LastNewIndex`, `FollowerCommit` are the second half of
`handle_append_entries`; `Replicated`, `Committable`, `LeaderCommit` are
`try_advance_commit_index`; `CommandsToApply` is `apply_committed_entries`. As
in the code, an entry carries its index and lookups search for that field;
that the index is also the position is a property (`LogContiguous`), not an
assumption. No definition is recursive, so the proofs can use them all.

**MCRaftLog.** The loops of the code written as recursive functions of where
the loop stands (`ReconcileLoop`, `FilterLoop`, `CommitLoop`, `ApplyLoop`). The
initial states are all calls on logs up to the bound; there are no other states.

**Raft.** The variables are the fields of `Raft`, `PersistentState`,
`VolatileState`, `CandidateState` and `LeaderState`, each as a function of the
node; `disk` is what `load` would return, `messages` every message ever given
to the transport, `applied` what each state machine was fed. `None` candidate
state is a pair of empty sets, `None` leader state the values 1 and 0.

An action is one turn of `Node::run`: one event through `Raft::step` and all
resulting actions through `process_actions`. A handler with several outcomes
is several actions:

| Handler | Actions |
|---|---|
| `handle_election_timeout` | `ElectionTimeout` (`Campaign`, or `LeadAlone` without peers), `IgnoreTimeout` (leader) |
| `handle_request_vote` | `GrantVote`, `RejectVote` |
| `handle_vote_response` | `CountVote`, `WinElection`, `StepDownOnReply` |
| `handle_heartbeat_timeout` | `HeartbeatTimeout`, `IgnoreTimeout` (not leader) |
| `handle_append_entries` | `RejectStaleAppend`, `RejectMismatch`, `AcceptAppend` |
| `handle_append_entries_response` | `Backoff`, `Advance`, `StepDownOnReply` |
| `handle_client_request` | `ClientRequest` |
| crash, then `Node::new` with `load`'s result | `Restart` |

`PersistState` and `Send` are the arms of `process_actions`. Messages are
never removed from `messages`, so a message may arrive never, once or many
times and in any order; a full channel, a partition and a dead receiver are
losses. Timers may fire at any moment. A message the code ignores is a
stuttering step. The `NotLeader` answer to a client changes nothing here.

In every handler `PersistState` comes before the messages that depend on it,
so a crash inside a turn leaves storage and network as a crash after the turn
and the loss of some of its messages do; applied commands are volatile. That
is why `Restart` between turns is enough; `NodeProcess` does the finer steps
and shows it.

`SaveResults` says what `Persistence::save` may do: `{TRUE}` is
`FilePersistence` that works, `{FALSE}` is `NoPersistence`, `{TRUE, FALSE}` is
storage that may fail.

`stale_ack` is a history variable: it becomes TRUE when a follower answers
success although its log goes on, past what the message covered, with an entry
of another term. The code then reports that suffix as matched (finding 1), and
the safety of commitment is lost. The properties about committed entries are
stated for behaviours in which that has not happened; the run `stale_suffix`
shows that it can.

**RaftLedger.** No code: the definitions that the invariants of the proofs are
made of. A ledger `L` gives every term the log of its leader as far as it got.

**RaftTimers.** Adds `election_timer`, `heartbeat_timer` (is a task asleep, or
waiting for room in the queue?) and `timer_rx`, the queue of 16
(`TimerCapacity`). `reset` arms, `cancel` disarms, an expired timer puts its
event into the queue, where no reset reaches it any more; the loop takes the
first event. Each turn of `Raft` is joined with what its `Action`s do to the
timers: `Stand` (either reset), `ReceiveAndWait` (ResetElectionTimer),
`ReceiveAndLead`, `Broadcast`, `AcceptCommand` (ResetHeartbeatTimer),
`ReceiveOther` (none).
There is no clock: an armed timer may expire at any moment.

**RaftClients.** Adds `pending`, the clients that wait, each known by the entry
appended for it, and `answers`, the history of what they were told.
`AcceptClient` parks the client before it processes the turn's actions, as
`handle_client` does; `Resolve` is the ApplyCommand arm, which looks up the
final `last_applied` however many commands the turn applied; `Redirect` is a
request at a node that does not lead, which drains the table.

**SimClock.** The simulated clock. `tick` is `TickAdd` (the atomic add) and
`TickWake` (pop what is due, under the lock); `poll` is `PollRead` and
`PollRegister`: between the two halves the other thread may run. `tick` is
called by the automatic advance, which reads `paused` and the speed first
(`AutoAdvance`), and by the step key (`StepClock`). A task sleeps once. Times
past `MaxTime` count as `MaxTime`, where ticks go on.

**StableStore** and **NodeProcess.** `StableStore` is what `Raft` takes for
granted: storage goes from one whole state to a later one in one step, a crash
leaves it alone, and a turn whose save succeeded sends only what the stored
state backs. `NodeProcess` is one node in the steps of the code: the handler
changes the core at once (`Begin` and the eight actions that use it, each
named for what the handlers decide), then `FilePersistence::save` truncates the
temporary file (`SaveBegin`), fills it (`SaveWritten`) and renames it
(`SaveRename`), or fails at any of these (`SaveFails`: logged, the turn goes
on); then each message is recorded and sent (`Send`), each command applied
(`ApplyCommand`), and the metrics published (`EndTurn`). `Crash` may come
between any two and leaves the two files; `Start` is `load`, `Node::new` and
the head of `run`. The persistent state is the log and a `version`, the number
of changes; a message carries the version it relies on (`needs`), 0 for a
refusal. `AcceptAppend` may replace any tail of the log, an applied one too, as
`handle_append_entries` does: it compares terms and never looks at
`last_applied`. Finding 1 is how such a message can come about. `fed`, the
entries this process applied, and `replaced`, whether a handler has replaced one
of them, are history variables. What `Raft` guarantees is used in one place:
what a leader has in memory was saved (`Heartbeat`).

**Simulator.** Network and cluster around the clock. An incarnation is a node
and the number of its start, with its own channels of messages and commands.
`KillNode` asks the task to abort, `Dies` is the moment it obeys; `RestartNode`
may come before. `deliver` is `DeliverDrops`, `DeliverNow` or `DeliverLater`;
the last spawns a task (`flights`) that sleeps on the clock (`TakeOff`) and
puts the message into the channel cloned when it was sent (`Land`). Keys are
handled by one thread, never in the middle of its own tick (`UiFree`). What a
node does with a message is `Raft`'s business.

**Console.** The user. `decode` and its three modes turn a key into an action
and a new App, as in `input.rs`; typed text is its length. `ApplyToCluster`,
`ApplyToClock` and `ApplyToApp` are the arms of `apply`, `Press` one turn of
`event_loop` that reads a key. A run begins with any App that selecting and
typing can make (`ReachableApp`), since both leave everything else alone.

Operators named `<operator>_<fault>` are seeded faults for the mutation runs.

## 4. Runs

| Run | Instance | Shows |
|---|---|---|
| `raft_log` | logs up to 3 entries, 2 terms, 2 commands | closed forms equal loops; an accepted message copies the sender's log |
| `replication` | 3 nodes, 1 command, 2 terms, 2 entries, 1 crash, 12 messages, with clients | types, contiguous logs, one leader per term, votes survive crashes, the inductive invariant of elections, log matching, commitment on a stored quorum, monotone commit, append-only leaders, leader completeness, `Applied` is durable, who waits in the current term waits at its leader |
| `succession` | 3 nodes that store nothing and do not restart, 3 terms, 1 entry, 13 messages, with clients | one leader per term, leader completeness, agreement of state machines |
| `clients_alone` | 1 node, 3 terms, 3 entries, 2 crashes | in a single-node cluster nobody waits, `Applied` is true, a restart replays the log once |
| `timers` | 2 nodes, 2 terms, 1 entry, 1 crash, queue of 1, fair timers and replication | active roles keep their timer, someone can always stand, a stable leader replicates and commits |
| `node_process` | 1 peer, 2 keys, 2 changes of the persistent state, 2 entries, 2 starts, all file operations may fail | the file can always be loaded, promises are kept unless a save failed, metrics are true, the store is the last write of what was applied, `StableStore` is implemented |
| `console` | 2 nodes with 2 starts each, 2 messages, 2 delivery tasks, channels of 1, 3 keys after any typing | a delayed message meets no later incarnation, a living node is reachable, commands have keys, typing is harmless, no sleep is lost, a killed node falls silent |
| `stale_suffix` | 3 nodes, 2 terms, 1 entry | finding 1 |
| `deposed_leader` | 3 nodes, with timers | finding 2 |
| `batch_apply` | 3 nodes, 2 entries in one term, with clients | finding 3 |
| `wrong_client` | 3 nodes, 1 entry, 2 terms, with clients | finding 4 |
| `empty_value` | 2 nodes, 1 key after any typing | finding 5 |

Bounds. `MaxTerm` bounds elections, `MaxLogLen` client requests, `MaxRestarts`
crashes and `MaxMessages` the number of *different* messages in a behaviour;
each is a guard of the action it bounds. A node's election takes 2 requests
and up to 2 replies, one round of replication the same, so 12 to 13 messages hold
three contested elections, or an election, replication to one peer with
its acknowledgement, the announcement of the commit, and another leader's
election on top. Two terms are needed for a conflict between logs and three
for a committed entry to meet a second change of leader. One command is enough
in `replication`, where entries are told apart by index and term. The mutants show that
the bounds are not too small: each property is violated within them when the
definition it depends on is broken. Nodes and commands are symmetric: nothing
orders them. In `console`, `MaxKeys` bounds what the user does: three keys
hold latency, kill and restart around one message in flight, or a key, a value
and its submission; two tasks are needed for two sleeps that end at the same
moment; one unit of time and a step of two make a tick overshoot a deadline. In
`node_process` two changes and two starts hold a change that was saved, one
that was not, and what the restarted process makes of them; a cap of one
message makes the ring buffer evict at the second.

Findings. 1: `append_entries_response` acknowledges the follower's whole log
instead of what the message covered, against the comment on the leader's side.
The leader's match index then covers an entry the follower does not hold, and
commitment by counting is no longer a quorum of copies. 2: a leader that steps
down without granting a vote has its election timer cancelled and not
restarted; it stands again only after a message that resets it.
`SomeoneCanStand` shows that the cluster as a whole always has a running
election timer, but its owner may have a log too short to win. 3: the
ApplyCommand actions of one turn all look up the last index, so of two clients
answered in one turn the first waits for good. 4: the table of pending clients
outlives the leadership; the entry of another leader at the same index answers
the wrong client. `AppliedIsDurable` shows that answers given in the term of
the request are right. 5: Enter submits a SET whose value is empty
(`decode_entering_value` asks nothing of the buffer), against the comment on
`SubmitCommand`, "key + value both filled"; `CommandsHaveKeys` is what remains
true.

Disagreements with comments that have no run of their own. `process_actions`
logs an error of `save` and sends the reply that depended on it, although
`persistence.rs` says that save "must complete before the node sends any
response": `PromisesKept` and `StableStore` say so by their condition `failed`.
A refusing reply carries a term that `step_down` changed in memory only,
although `PersistentState` "must be saved to stable storage before responding
to RPCs"; `ElectionInv` and `PromisesKept` hold all the same, so no vote is lost
by it. `handle_client_request` says that `ResetHeartbeatTimer` triggers an
immediate broadcast, while it restarts the full interval; to show the delay a
model needs time (step 12 of the plan). `kill_node` says that messages in
flight from the node are dropped, while a delivery task that was spawned before
still delivers (`Land` asks nobody); `KilledFallsSilent` is what remains true.

Fairness. Safety properties use none. `TimersSpec` assumes that a heartbeat
task that is not aborted finishes and that the loop serves its timer queue
(tokio schedules every ready task and `select!` polls its branches in random
order), and that, as long as an AppendEntries or a reply would change something
at its receiver, one of them arrives: heartbeats repeat until acknowledged, so
a network that loses messages now and then satisfies it. Nothing is assumed of
votes, so no run claims that a leader is elected; with bounded terms that could
not be said, and finding 2 is a reason to doubt it. The run gives `MaxMessages`
a value that is never reached, since a blocked heartbeat would be a failure of
the bound and not of the code, and goes without symmetry. A queue of one event
instead of 16 makes it full more often: a task that waits for room and is
aborted there is one of the cases. Client requests are bounded by `MaxLogLen`,
so they cannot postpone a heartbeat for ever here. `ConsoleSpec` assumes that the
automatic advance goes on unless the clock is paused, that tasks that can run
do run, and that a node's loop serves its channels; keys are never owed.

Deadlock. In `Raft` a timer may fire in the wrong role at any moment
(`IgnoreTimeout`), so there is no deadlock to find. With timers the runs end
when the bound on terms is reached, the simulator rests when it is paused and
no key is left, and a process that has crashed for the last time stays down;
these are checked without deadlock detection.

## 5. Proofs

All theorems hold for every value of the constants: any finite cluster, any
number of terms, entries, crashes and messages.

**RaftLogProofs**: lemmas on the operators. `Reconcile` keeps a log
contiguous, `EntriesFrom` continues where `PrevLogIndex` ends, applied
commands are commands, `ReconcileResult`, `EntriesFromSlice` and
`CommandsToApplySlice` say what the three return entry by entry, and
`QuorumsIntersect`: two quorums share a node, for even clusters too. A search
stops at the least or greatest element of a set of positions; that there is one
(`LeastElement`, `GreatestElement`) follows from the library's theorem that the
order of the naturals is well-founded.

**RaftLoopProofs**: the closed forms of `RaftLog` are the loops of the code, for
logs of any length and any `MaxLen`, `MaxTerm` and `Command`. The induction
theorems of the library are out of the prover's reach, so the argument goes
without them. A recursive function is some solution of its equation. Each lemma
(`ReconcileIsLoop`, `EntriesFromIsLoop`, `LeaderCommitIsLoop`,
`CommandsToApplyIsLoop`) gives a function without recursion, shows that it
solves the equation, so that there is a solution at all, and that two solutions
agree, since otherwise there would be a first position where they do not
(`AgreeDownwards`, `AgreeUpwards`, from `LeastElement`). `LeaderCommitIsLoop`
and `CommandsToApplyIsLoop` need contiguous logs; `ReconcileIsLoop` holds of all
logs. `ReconcileCopies` adds that an accepted message between two logs that
match leaves the sender's log, or the receiver's when it is longer. The theorems
`ReconcileCorrect`, `MessageCorrect`, `CommitRuleCorrect` and `ApplyCorrect`
state the four properties of the run `raft_log`.

**RaftProofs**: `TypeInv == TypeOK /\ LogContiguous` is inductive; neither
part is by itself. What is sent has its type only if the log is contiguous
(`PrevLogTerm` looks an index up), and logs stay contiguous only because
messages are. `TypeSafety` and `LogsStayContiguous` follow, with failing saves
and restarts included.

In the second half `ElectionInv` is inductive on top of `TypeInv`, from
the assumption that saves succeed, in clusters of two or more. `ElectionSafety`
is not inductive: a leader says nothing about the votes that made it one.
The strengthening follows a vote from memory through storage to the network: storage is never ahead of
memory and agrees with it in the same term (`StorageBehind`), a vote on the
network is in storage until a later term is (`CastsStored`), so that a restart
forgets none of them; hence one vote per node and term (`CastOnce`), counted
votes were cast (`CountedWereCast`), and leaders and senders of AppendEntries
have a quorum of cast votes (`LeadersElected`). Two leaders of a term would
share a voter (`QuorumsIntersect`). The proof first shows that every action is
a step on votes of one of two kinds (`VoteStep`, `RestartStep`) and then that
each kind preserves each conjunct. `OneLeaderPerTerm` adds the single-node
cluster, where the leader is the only node.

The assumption on saves is needed: after a failed save a vote may be sent that
storage does not hold (`FailedTurn` of `StableStore`).

**RaftReplicationProofs**: `LogMatching` is about logs only, and is preserved
only because messages in flight, however old, are pieces of a leader's log too,
and because a leader that is gone can come back to no log of its term. So the
invariant speaks of the history: there is a ledger, one log per term, such that
each log (in memory, in storage) and each AppendEntries of a term is a piece of
it, entry by entry with everything before (`OnLedger`, `PieceOf`); a leader's
log is the ledger's log of its term; and a term that has entries had an elected
leader that will not stand in it again (`LedgerElected`). The ledger is no
variable of the model: `LedgerInvariant` states that one exists, and the
inductive step says which one comes next (`LedgerAfter`). Again every action
is first shown to be a `LogStep` (keep, extend or reconcile a log) or a
`LogRestart`, and each kind to preserve each conjunct. `LogsMatch` and
`LeadersAppendOnly` follow.

**RaftSafetyProofs**: the same ledger with `CommitInv`, as long as no reply
acknowledged a foreign suffix (`stale_ack`, finding 1: without that condition
the theorems are false of this code). A node is a *holder* of entry n of term
t if it was elected in t or acknowledged the entry to t's leader. An entry is
*chosen* if a quorum are holders, and *blocked* if a quorum has left the term,
in storage, without being holders; it cannot be both (`ChosenNotBlocked`), and
blocked it stays (`BlockedStays`): that is where crashes and late messages are
dealt with. The invariant says: a holder still has the entry, or the entry is
blocked (`HoldersHold`); every later term that has a leader has the entry, or
it is blocked (`LedgerComplete`); a candidate has the entries that its voters
hold, or they are blocked (`VotesAreSafe`, from `candidate_log_up_to_date`);
match indices were acknowledged; commit indices, in nodes and in messages,
reach no further than a chosen entry (`CommitsChosen`); state machines hold the
committed prefix (`AppliedFromLog`). The commit rule of
`try_advance_commit_index`, that only entries of the leader's own term count,
is needed where a commit index is shown to be chosen (`CommittableChosen`).
From `SafetyInvariant` follow `LeadersComplete`, `CommitsAreStored`,
`StateMachinesAgree` and, with the step lemma `TurnCommits`, `CommitsOnlyGrow`.
`CommitNeverRegresses` has the same condition: a leader that lost a committed
suffix would announce a commit index past the end of its own log.

A cluster of a single node exchanges no messages; these theorems are stated for
two nodes or more.

**NodeProcessProofs**: `ProcessInv` is inductive, for any peers, keys, values,
bounds and any set of failing operations. `NeverCorrupt` alone is not: the
rename is safe because the temporary file is whole once it is written, and
holds the state in memory. `PromisesKept` needs to know in addition that what
is waiting to be sent relies on a state that is saved or still due to be saved
in this turn, and that versions only grow. `Refinement` shows by the same
invariant that each step maps to a step of `StableStore` or to none: the
rename (or the failing save, or the handler when nothing is to be saved) is the
abstract turn, since only then the abstract outbox fills. `StoreCorrect` says
that the store holds the last write to every key among the entries this process
applied, and that these are the log's prefix unless a handler replaced one of
them. Nothing is assumed about the messages that arrive. The invariant behind it
(`WithinLog`) is that what a turn has still to apply continues where the last one
ended and stays within the log in memory, also when a shorter log takes the place
of a longer one; its step needs the greatest element of a set of positions.

**ConsoleProofs**: `ClusterInv` relates the registered channel, the latest
task and the channel that each message on its way has cloned. `NoStaleDelivery`
is not inductive, since it says nothing of the messages in flight (`Addressed`);
these are addressed rightly only because a registered channel is that of the
latest start (`AliveIsReachable`), and that needs that no task of a later
number runs (`NoneAhead`). `CommandInv` adds that a value is typed only for a
key that is there, so every submitted command has one, whatever was typed
before. `TypingHarmless` is an action property from the same invariant.

**RuntimeProofs**: both `TimersSpec` and `ClientsSpec` are shown to be `Spec` as
far as the variables of `Raft` go (`TimersImplementRaft`,
`ClientsImplementRaft`), so all that is proved of the core holds of them and can
be used in their proofs. As there, a turn is first shown to be a
step of one kind, a `TimersMove` or a `ClientsMove` of one node.

`RolesKeepTimers` (a leader has a heartbeat ahead of it, a candidate an
election) is inductive with the types of the timers, for all outcomes of saves
and any capacity of the queue: an armed timer, a task that waits for room and a
queued event are the three ways to be ahead. `ElectionsGoOn` needs a history. A
deposed leader rests without an election timer (finding 2), so the claim that
somebody can always stand speaks of all nodes at once. The invariant `WatchInv`
says that a resting node won an election later than any vote it gave to another
(`RestedAfterWin`), that whoever stands or leads voted for itself, and that
there was a last election. If all rested, the winner of the last election would
have got a vote from another node (a quorum is more than one), which would have
to have won a later one. It assumes that saves succeed, and two or more nodes.

`ClientInv` says that the entries a node's clients wait for or were answered for
are of terms it has stored and led, that it will not stand in such a term again,
and that whoever waits in the current term waits at its leader, which has the
entry (`ClientTerms`, `WaitingLed`). `ClientsWaitAtLeader` is the last part: a
client whose entry is of the node's current term was not left behind by a change
of leader, so the answers that go wrong (finding 4) are all to clients of older
terms. For `AnswersAreDurable` the
ledger of `RaftSafetyProofs` is carried along with what was answered
(`ServedLedger`): an entry whose client was told `Applied` in the entry's term is
chosen on the ledger, and stays it (`ChosenEntryStays`). A node without peers
exchanges no messages and answers each client in the turn that accepts it;
`AloneInv` says so, with the log in storage equal to the one in memory.
`AloneForgetsNoOne` and `AloneAnswersTruly` are what the comments on `pending`
and on `ClientResponse::Applied` say. They are restricted to that cluster since
findings 3 and 4 refute them in others. All of these assume that saves succeed.

Only model-checked: liveness (`StableLeaderCommits`, `StableLeaderReplicates`,
`SleepEnds`, `KilledFallsSilent`), which is out of the prover's reach, and the
behaviour of nodes that store nothing (`succession`): the theorems of elections
and replication assume that saves succeed.

## 6. Not modelled

Drawing (frames, widgets, labels, colours) only reads what others keep, and
Quit ends the program. JSON encoding is a lossless round trip of serde. A crash
is one of the process: what a file system keeps of unsynced writes after a loss
of power is not modelled, and `save` does not sync. Drop rates count in
steps; a rate that float arithmetic leaves a little off zero behaves as one
above zero. Delays of the node's timers are not modelled: an armed timer may
expire at any time. Overflow of the 64-bit counters is out of any run's reach.
The simulator is not composed with `Raft`: its losses and delays are behaviours
of `messages`, and its nodes without storage are `Raft` with
`SaveResults = {FALSE}`. That is safe while nobody restarts (`succession`); a
restarted node has forgotten its votes and its log, and no property is claimed
of it. `RaftClients` takes requests directly instead of from the client channel
of `Simulator`.

------------------------ MODULE RaftReplicationProofs ------------------------
(***************************************************************************)
(* Log matching, when saves succeed, for every cluster of two nodes or     *)
(* more, with any number of crashes and whatever the network loses,        *)
(* repeats or reorders.                                                    *)
(*                                                                         *)
(* The invariant is that a ledger exists with LedgerInv: a state predicate *)
(* of Raft, with no history variable.  As with the elections there are two *)
(* layers: LogStep says what a turn may do to logs and AppendEntries, and  *)
(* a LogStep takes a ledger to the next one.                               *)
(***************************************************************************)
EXTENDS RaftProofs, RaftLedger

Ledger == [Nat -> Seq(LogEntry)]

\* Leaders' logs only grow.
Grows(L, M) == \A t \in Nat : Agree(L[t], M[t], Len(L[t]))

----------------------------------------------------------------------------
(* Logs and the ledger                                                     *)

\* Agreement is symmetric, and the entries of common agreement carry over.
LEMMA AgreeTrans ==
  ASSUME NEW a \in Seq(LogEntry), NEW b \in Seq(LogEntry),
         NEW c \in Seq(LogEntry), NEW n \in Nat, NEW m \in Nat, NEW k \in Nat,
         Agree(a, b, n), Agree(b, c, m), k <= n, k <= m
  PROVE  Agree(a, c, k)
BY DEF Agree

LEMMA AgreeSym ==
  ASSUME NEW a, NEW b, NEW n, Agree(a, b, n)
  PROVE  Agree(b, a, n)
BY DEF Agree

\* Agreeing on n entries is agreeing on fewer.
LEMMA AgreeLess ==
  ASSUME NEW a \in Seq(LogEntry), NEW b \in Seq(LogEntry), NEW n \in Nat,
         NEW k \in Nat, Agree(a, b, n), k <= n
  PROVE  Agree(a, b, k)
BY DEF Agree

\* Agree is Holds, stated entry by entry.
LEMMA AgreeIsHolds ==
  ASSUME NEW a \in Seq(LogEntry), NEW b \in Seq(LogEntry), NEW n \in Nat,
         Agree(a, b, n)
  PROVE  SubSeq(a, 1, n) = SubSeq(b, 1, n) /\ Holds(a, b, n)
<1>1. /\ n <= Len(a) /\ n <= Len(b) /\ Len(a) \in Nat /\ Len(b) \in Nat
      /\ \A k \in 1 .. n : a[k] = b[k]
  BY DEF Agree
<1>2. SubSeq(a, 1, n) = [k \in 1 .. n |-> a[k]]
  BY <1>1
<1>3. SubSeq(b, 1, n) = [k \in 1 .. n |-> b[k]]
  BY <1>1
<1>4. SubSeq(a, 1, n) = SubSeq(b, 1, n)
  BY <1>1, <1>2, <1>3
<1> QED BY <1>1, <1>4 DEF Holds

(***************************************************************************)
(* Two logs on the ledger with an entry of the same index and term stand   *)
(* on the same prefix.                                                     *)
(***************************************************************************)
LEMMA SameTermAgree ==
  ASSUME NEW L \in Ledger, NEW l \in Seq(LogEntry), NEW r \in Seq(LogEntry),
         OnLedger(L, l), OnLedger(L, r),
         NEW n \in 1 .. Len(l), n <= Len(r), l[n].term = r[n].term
  PROVE  Agree(l, r, n)
<1>1. n \in DOMAIN l /\ n \in DOMAIN r /\ n \in Nat
  BY DEF LogEntry
<1>2. Agree(l, L[l[n].term], n) /\ Agree(r, L[l[n].term], n)
  BY <1>1 DEF OnLedger
<1> QED BY <1>1, <1>2 DEF Agree

\* What is on the ledger stays on it when the ledger grows.
LEMMA GrowthKeepsOnLedger ==
  ASSUME NEW L \in Ledger, NEW M \in Ledger, Grows(L, M),
         NEW l \in Seq(LogEntry), OnLedger(L, l)
  PROVE  OnLedger(M, l)
<1> SUFFICES ASSUME NEW k \in DOMAIN l PROVE Agree(l, M[l[k].term], k)
  BY DEF OnLedger
<1>1. l[k].term \in Nat /\ k \in Nat
  <2>1. l[k] \in LogEntry
    OBVIOUS
  <2> QED BY <2>1 DEF LogEntry, LogEntryOf
<1> DEFINE t == l[k].term
<1>2. Agree(l, L[t], k) /\ Agree(L[t], M[t], Len(L[t]))
  BY <1>1 DEF OnLedger, Grows
<1>3. L[t] \in Seq(LogEntry) /\ M[t] \in Seq(LogEntry)
  BY <1>1 DEF Ledger
<1> HIDE DEF t
<1>4. k <= Len(L[t]) /\ Len(L[t]) \in Nat
  BY <1>2, <1>3 DEF Agree
<1>5. Agree(L[t], M[t], k)
  BY <1>1, <1>2, <1>3, <1>4, AgreeLess
<1>6. Agree(l, M[t], k)
  BY <1>1, <1>2, <1>3, <1>5, AgreeTrans
<1> QED BY <1>6 DEF t

\* A piece of a log is a piece of the longer log.
LEMMA GrowthKeepsPieces ==
  ASSUME NEW l \in Seq(LogEntry), NEW r \in Seq(LogEntry), Agree(l, r, Len(l)),
         NEW m \in AppendEntries, PieceOf(m, l)
  PROVE  PieceOf(m, r)
<1>1. m.prev_log_index \in Nat /\ m.entries \in Seq(LogEntry)
  BY DEF AppendEntries
<1>2. \A k \in 1 .. Len(l) : r[k] = l[k]
  BY DEF Agree
<1>3. m.prev_log_index + Len(m.entries) <= Len(r)
  BY <1>1 DEF Agree, PieceOf
<1>4. ASSUME NEW k \in DOMAIN m.entries
      PROVE  m.entries[k] = r[m.prev_log_index + k]
  <2>1. m.prev_log_index + k \in 1 .. Len(l)
    BY <1>1 DEF PieceOf
  <2> QED BY <2>1, <1>2 DEF PieceOf
<1>5. m.prev_log_index > 0 => m.prev_log_term = r[m.prev_log_index].term
  <2> SUFFICES ASSUME m.prev_log_index > 0
               PROVE  m.prev_log_term = r[m.prev_log_index].term
    OBVIOUS
  <2>1. m.prev_log_index \in 1 .. Len(l)
    BY <1>1 DEF PieceOf
  <2> QED BY <2>1, <1>2 DEF PieceOf
<1> QED BY <1>3, <1>4, <1>5 DEF PieceOf

(***************************************************************************)
(* last_new_index is where the message's piece of the leader's log ends.   *)
(***************************************************************************)
LEMMA LastNewIs ==
  ASSUME NEW prev \in Nat, NEW entries \in Seq(LogEntry),
         Contiguous(entries, prev)
  PROVE  LastNewIndex(prev, entries) = prev + Len(entries)
<1>1. CASE entries = << >>
  BY <1>1 DEF LastNewIndex
<1>2. CASE entries # << >>
  <2>1. Len(entries) \in DOMAIN entries
    BY <1>2
  <2> QED BY <1>2, <2>1 DEF LastNewIndex, Contiguous
<1> QED BY <1>1, <1>2

(***************************************************************************)
(* What a follower's log becomes when it accepts a message of a leader     *)
(* whose log is r: it agrees with r as far as the message reaches, it      *)
(* keeps whatever it already shared with r, and it is cut only to that     *)
(* reach.                                                                  *)
(***************************************************************************)
LEMMA AcceptedLog ==
  ASSUME NEW L \in Ledger, NEW l \in Seq(LogEntry), Contiguous(l, 0),
         OnLedger(L, l), NEW u \in Nat, TermsUpTo(l, u),
         NEW r \in Seq(LogEntry), OnLedger(L, r),
         NEW m \in AppendEntries, Contiguous(m.entries, m.prev_log_index),
         PastTheEnd(m) \/ PieceOf(m, r),
         log_matches(l, m.prev_log_index, m.prev_log_term),
         NEW R, R = Reconcile(l, m.entries),
         NEW n, n = m.prev_log_index + Len(m.entries)
  PROVE  /\ R \in Seq(LogEntry)
         /\ PieceOf(m, r)
         /\ n \in Nat
         /\ Agree(R, r, n)
         /\ \A k \in Nat : Agree(l, r, k) => Agree(R, l, k)
         /\ R = l \/ Len(R) = n
<1> DEFINE p == m.prev_log_index
           e == m.entries
<1>1. /\ p \in Nat /\ e \in Seq(LogEntry) /\ Len(e) \in Nat /\ n = p + Len(e)
      /\ Len(l) \in Nat /\ Len(r) \in Nat
  BY DEF AppendEntries
<1>2. p = 0 \/ (p \in 1 .. Len(l) /\ l[p].term = m.prev_log_term)
  <2>1. \A k \in DOMAIN l : l[k].index = k /\ k \in 1 .. Len(l)
    BY DEF Contiguous
  <2>2. CASE p # 0
    <3>1. PICK k \in DOMAIN l : l[k].index = p /\ l[k].term = m.prev_log_term
      BY <2>2 DEF log_matches
    <3>2. k = p /\ k \in 1 .. Len(l)
      BY <3>1, <2>1
    <3> QED BY <3>1, <3>2
  <2> QED BY <2>2
<1>3. PieceOf(m, r)
  <2>1. \A k \in 1 .. Len(l) : l[k].term # 0
    BY DEF TermsUpTo
  <2> QED BY <1>1, <1>2, <2>1 DEF PastTheEnd
<1>4. /\ n <= Len(r) /\ n \in Nat
      /\ \A k \in 1 .. Len(e) : e[k] = r[p + k]
      /\ p > 0 => l[p].term = r[p].term
  BY <1>1, <1>2, <1>3 DEF PieceOf
<1> HIDE DEF p, e
\* The entry before the message is the leader's, and so is all before it.
<1>5. Agree(l, r, p)
  <2>1. CASE p = 0
    BY <2>1, <1>1 DEF Agree
  <2>2. CASE p # 0
    <3>1. p \in 1 .. Len(l) /\ p <= Len(r) /\ l[p].term = r[p].term
      BY <2>2, <1>1, <1>2, <1>4
    <3> QED BY <3>1, SameTermAgree
  <2> QED BY <2>1, <2>2
\* The same at every entry of the message the log has with the right term.
<1>6. ASSUME NEW a \in 1 .. Len(e), p + a <= Len(l),
             l[p + a].term = e[a].term
      PROVE  Agree(l, r, p + a)
  <2>1. p + a \in 1 .. Len(l) /\ p + a <= Len(r) /\ l[p + a].term = r[p + a].term
    BY <1>1, <1>4, <1>6
  <2> QED BY <2>1, SameTermAgree
<1>7. R \in Seq(LogEntry)
  BY <1>1, MatchedPrevExists, ReconcileResult DEF LogEntry, p, e
<1>8. CASE R = l /\ p + Len(e) <= Len(l)
           /\ \A a \in 1 .. Len(e) : l[p + a].term = e[a].term
  <2>1. Agree(l, r, n)
    <3>1. CASE Len(e) = 0
      BY <3>1, <1>1, <1>5
    <3>2. CASE Len(e) # 0
      <4>1. Len(e) \in 1 .. Len(e)
        BY <3>2, <1>1
      <4> QED BY <4>1, <1>1, <1>6, <1>8
    <3> QED BY <3>1, <3>2
  <2>2. \A k \in Nat : Agree(l, r, k) => Agree(R, l, k)
    BY <1>8 DEF Agree
  <2> QED BY <1>3, <1>4, <1>7, <1>8, <2>1, <2>2
<1>9. ASSUME NEW first \in 1 .. Len(e), Spliced(l, e, p, first, R)
      PROVE  /\ Agree(R, r, n)
             /\ \A k \in Nat : Agree(l, r, k) => Agree(R, l, k)
             /\ Len(R) = n
  <2>1. /\ p + first - 1 <= Len(l) /\ p + first - 1 \in Nat
        /\ \A a \in 1 .. first - 1 : l[p + a].term = e[a].term
        /\ p + first <= Len(l) => l[p + first].term # e[first].term
        /\ Len(R) = n
        /\ \A k \in 1 .. p + first - 1 : R[k] = l[k]
        /\ \A k \in p + first .. n : R[k] = e[k - p]
    BY <1>1, <1>9, SMTT(30) DEF Spliced
  <2>2. Agree(l, r, p + first - 1)
    <3>1. CASE first = 1
      BY <3>1, <1>1, <1>5
    <3>2. CASE first # 1
      <4>1. /\ first - 1 \in 1 .. Len(e) /\ first - 1 \in 1 .. first - 1
            /\ p + (first - 1) = p + first - 1
        BY <3>2, <1>1
      <4> QED BY <4>1, <2>1, <1>6
    <3> QED BY <3>1, <3>2
  <2>3. ASSUME NEW k \in 1 .. n PROVE R[k] = r[k]
    <3>1. CASE k \in 1 .. p + first - 1
      BY <3>1, <2>1, <2>2 DEF Agree
    <3>2. CASE k \in p + first .. n
      <4>1. k - p \in 1 .. Len(e) /\ p + (k - p) = k
        BY <3>2, <1>1
      <4> QED BY <3>2, <4>1, <2>1, <1>4
    <3> QED BY <3>1, <3>2, <1>1
  <2>4. Agree(R, r, n)
    BY <2>1, <2>3, <1>4 DEF Agree
  <2>5. ASSUME NEW k \in Nat, Agree(l, r, k) PROVE Agree(R, l, k)
    <3>1. k <= Len(l) /\ \A j \in 1 .. k : l[j] = r[j]
      BY <2>5 DEF Agree
    <3>2. k < p + first
      <4> SUFFICES ASSUME p + first <= k PROVE FALSE
        BY <1>1
      <4>1. p + first \in 1 .. k /\ p + first <= Len(l)
        BY <3>1, <1>1
      <4>2. l[p + first] = r[p + first] /\ r[p + first] = e[first]
        BY <4>1, <3>1, <1>4
      <4> QED BY <4>1, <4>2, <2>1
    <3>3. k <= n
      BY <3>2, <1>1
    <3>4. ASSUME NEW j \in 1 .. k PROVE R[j] = l[j]
      <4>1. j \in 1 .. n
        BY <3>3, <1>1
      <4> QED BY <4>1, <3>1, <2>3
    <3> QED BY <3>1, <3>3, <3>4, <2>1 DEF Agree
  <2> QED BY <2>1, <2>4, <2>5
<1>10. \/ R = l /\ p + Len(e) <= Len(l)
            /\ \A a \in 1 .. Len(e) : l[p + a].term = e[a].term
       \/ \E first \in 1 .. Len(e) : Spliced(l, e, p, first, R)
  <2>1. p <= Len(l)
    BY <1>1, <1>2
  <2> QED BY <1>1, <2>1, ReconcileResult DEF LogEntry, p, e
<1> QED BY <1>3, <1>4, <1>7, <1>8, <1>9, <1>10

----------------------------------------------------------------------------
(* What a turn may do to logs and AppendEntries                            *)

\* Term, vote and log are in storage.
AllSaved(i) == Saved(i) /\ disk'[i].log = log'[i]

\* The log is left alone.
KeepsLog(i) == log'[i] = log[i] /\ (disk'[i] = disk[i] \/ AllSaved(i))

\* A leader appends an entry of its term.
ExtendsLog(i) ==
  /\ role[i] = "Leader" /\ role'[i] = "Leader"
  /\ current_term'[i] = current_term[i]
  /\ messages' = messages
  /\ AllSaved(i)
  /\ \E entry \in LogEntry :
       /\ entry.term = current_term[i] /\ entry.index = Len(log[i]) + 1
       /\ log'[i] = Append(log[i], entry)

\* A node accepts AppendEntries.
AcceptsLog(i, m) ==
  /\ m \in Appends /\ m.to = i
  /\ current_term'[i] = m.term
  /\ current_term[i] <= m.term
  /\ role'[i] = "Leader" => role[i] = "Leader" /\ current_term[i] = m.term
  /\ role'[i] # "Candidate"
  /\ log_matches(log[i], m.prev_log_index, m.prev_log_term)
  /\ log'[i] = Reconcile(log[i], m.entries)
  /\ Appends' = Appends
  /\ AllSaved(i)

\* One stands for election in a new term only, and stores it.
Standing(i) ==
  /\ role'[i] = "Candidate" =>
       \/ role[i] = "Candidate" /\ current_term'[i] = current_term[i]
       \/ current_term'[i] > current_term[i]
  /\ role'[i] # "Follower" =>
       \/ Saved(i) /\ current_term'[i] > current_term[i]
       \/ role[i] # "Follower" /\ current_term'[i] = current_term[i]

\* AppendEntries are made of the sender's log, which the turn leaves alone.
AppendsSent(i) ==
  \A m \in Appends' \ Appends :
    /\ role[i] = "Leader" /\ log'[i] = log[i]
    /\ \E p \in Peers(i) : m = AppendEntriesFor(i, p)

LogStep(i) ==
  /\ VoteStep(i)
  /\ \A j \in Node \ {i} : log'[j] = log[j]
  /\ KeepsLog(i) \/ ExtendsLog(i) \/ \E m \in Appends : AcceptsLog(i, m)
  /\ Standing(i)
  /\ AppendsSent(i)

\* A crash brings back the stored log.
LogRestart(i) ==
  /\ RestartStep(i)
  /\ \A j \in Node \ {i} : log'[j] = log[j]
  /\ log'[i] = disk[i].log

\* With saves that succeed, PersistState stores the log as well.
LEMMA PersistSavesAll ==
  ASSUME SavesSucceed, TypeOK, NEW i \in Node, PersistState(i)
  PROVE  AllSaved(i)
<1> DEFINE saved == [current_term |-> current_term'[i],
                     voted_for |-> voted_for'[i], log |-> log'[i]]
<1>1. disk' = [disk EXCEPT ![i] = saved]
  BY DEF PersistState, SavesSucceed
<1>2. saved.log = log'[i]
  OBVIOUS
<1>3. disk'[i] = saved
  <2> HIDE DEF saved
  <2> QED BY <1>1 DEF TypeOK
<1> HIDE DEF saved
<1> QED BY <1>2, <1>3, PersistSaves DEF AllSaved

\* A turn that leaves the log alone and sends no AppendEntries.
LEMMA QuietLogStep ==
  ASSUME NEW i \in Node, VoteStep(i), log' = log, Appends' = Appends,
         disk'[i] = disk[i] \/ AllSaved(i), Standing(i)
  PROVE  LogStep(i)
BY DEF LogStep, KeepsLog, AppendsSent

\* Elections leave the log alone: the turns of a candidate.
LEMMA CandidateLogStep ==
  ASSUME SavesSucceed, TypeOK, NEW i \in Node,
         \/ Campaign(i)
         \/ \E m \in messages : CountVote(i, m) \/ WinElection(i, m)
  PROVE  LogStep(i)
<1>1. CASE Campaign(i)
  <2>1. log' = log /\ current_term'[i] > current_term[i]
    BY <1>1 DEF Campaign, BecomeCandidate, TypeOK
  <2>2. AllSaved(i)
    BY <1>1, PersistSavesAll DEF Campaign
  <2>3. Standing(i)
    BY <2>1, <2>2 DEF Standing, AllSaved
  <2>4. Appends' = Appends
    <3>1. messages' = messages \cup
            {VoteRequest(i, p, current_term[i] + 1) : p \in Peers(i)}
      BY <1>1 DEF Campaign, Send
    <3>2. \A p \in Peers(i) :
            VoteRequest(i, p, current_term[i] + 1).type # "AppendEntries"
      BY DEF VoteRequest
    <3> QED BY <3>1, <3>2 DEF Appends
  <2> QED BY <1>1, <2>1, <2>2, <2>3, <2>4, QuietLogStep, CampaignVoteStep
<1>2. ASSUME NEW m \in messages, CountVote(i, m) \/ WinElection(i, m)
      PROVE  LogStep(i)
  <2>1. UNCHANGED <<log, current_term, disk, messages>> /\ role[i] = "Candidate"
    BY <1>2 DEF CountVote, WinElection, persistentVars, CountsVote
  <2>2. Standing(i) /\ Appends' = Appends
    BY <2>1 DEF Standing, Appends
  <2> QED BY <1>2, <2>1, <2>2, QuietLogStep, CountVoteStep, WinElectionStep
<1> QED BY <1>1, <1>2

\* A reply is no AppendEntries.
LEMMA RepliesAreNotAppends ==
  ASSUME NEW i \in Node, NEW p, NEW b \in BOOLEAN,
         \/ messages' = messages \cup {vote_response(i, p, b)}
         \/ messages' = messages \cup {append_entries_response(i, p, b)}
  PROVE  Appends' = Appends
<1>1. /\ vote_response(i, p, b).type # "AppendEntries"
      /\ append_entries_response(i, p, b).type # "AppendEntries"
  BY DEF vote_response, append_entries_response
<1> QED BY <1>1 DEF Appends

\* The turns of a voter, and stepping down.
LEMMA VoterLogStep ==
  ASSUME SavesSucceed, TypeOK, NEW i \in Node, NEW m \in messages,
         RejectVote(i, m) \/ GrantVote(i, m) \/ StepDownOnReply(i, m)
  PROVE  LogStep(i)
<1>1. log' = log
  BY DEF RejectVote, GrantVote, StepDownOnReply
<1>2. \/ role'[i] = "Follower"
      \/ role'[i] = role[i] /\ current_term'[i] = current_term[i]
  BY EnterTermVotes
     DEF RejectVote, GrantVote, StepDownOnReply, StepDownIfNewer, step_down
<1>3. Standing(i)
  BY <1>2 DEF Standing
<1>4. disk'[i] = disk[i] \/ AllSaved(i)
  BY PersistSavesAll DEF RejectVote, GrantVote, StepDownOnReply
<1>5. Appends' = Appends
  <2>1. CASE RejectVote(i, m)
    BY <2>1, RepliesAreNotAppends DEF RejectVote, Send
  <2>2. CASE GrantVote(i, m)
    BY <2>2, RepliesAreNotAppends DEF GrantVote, Send
  <2>3. CASE StepDownOnReply(i, m)
    BY <2>3 DEF StepDownOnReply, Appends
  <2> QED BY <2>1, <2>2, <2>3
<1> QED BY <1>1, <1>3, <1>4, <1>5, QuietLogStep, RejectVoteStep, GrantVoteStep,
           StepDownOnReplyVoteStep

\* The turns of a leader that leave its log alone.
LEMMA LeaderLogStep ==
  ASSUME TypeOK, NEW i \in Node,
         \/ HeartbeatTimeout(i)
         \/ \E m \in messages : Backoff(i, m) \/ Advance(i, m)
  PROVE  LogStep(i)
<1>1. CASE HeartbeatTimeout(i)
  <2>1. UNCHANGED <<log, current_term, role, disk>> /\ role[i] = "Leader"
    BY <1>1 DEF HeartbeatTimeout, nodeVars, persistentVars
  <2>2. Standing(i) /\ KeepsLog(i)
    BY <2>1 DEF Standing, KeepsLog
  <2>3. messages' = messages \cup {AppendEntriesFor(i, p) : p \in Peers(i)}
    BY <1>1 DEF HeartbeatTimeout, Send
  <2>4. AppendsSent(i)
    BY <2>1, <2>3 DEF AppendsSent, Appends
  <2> QED BY <1>1, <2>1, <2>2, <2>4, HeartbeatStep DEF LogStep
<1>2. ASSUME NEW m \in messages, Backoff(i, m) \/ Advance(i, m)
      PROVE  LogStep(i)
  <2>1. UNCHANGED <<log, current_term, role, disk, messages>>
    BY <1>2 DEF Backoff, Advance, persistentVars
  <2>2. Standing(i) /\ Appends' = Appends
    BY <2>1 DEF Standing, Appends
  <2> QED BY <1>2, <2>1, <2>2, QuietLogStep, AppendReplyStep
<1> QED BY <1>1, <1>2

\* A client request extends the leader's log.
LEMMA ClientLogStep ==
  ASSUME SavesSucceed, TypeInv, NEW i \in Node, NEW command \in Command,
         ClientRequest(i, command)
  PROVE  LogStep(i)
<1> DEFINE entry == [term |-> current_term[i],
                     index |-> last_log_index(log[i]) + 1,
                     command |-> command]
<1>1. TypeOK /\ log[i] \in Seq(LogEntry) /\ Contiguous(log[i], 0)
  BY DEF TypeInv, TypeOK, LogContiguous
<1>2. last_log_index(log[i]) = Len(log[i]) /\ Len(log[i]) \in Nat
  BY <1>1, LastEntry DEF LogEntry
<1>3. /\ entry \in LogEntry
      /\ entry.term = current_term[i] /\ entry.index = Len(log[i]) + 1
  BY <1>1, <1>2 DEF LogEntry, LogEntryOf, TypeOK
<1>4. log' = [log EXCEPT ![i] = Append(@, entry)] /\ role[i] = "Leader"
  BY DEF ClientRequest
<1> HIDE DEF entry
<1>5. /\ log'[i] = Append(log[i], entry)
      /\ \A j \in Node \ {i} : log'[j] = log[j]
  BY <1>1, <1>4 DEF TypeOK
<1>6. UNCHANGED <<role, current_term, messages>>
  BY DEF ClientRequest
<1>7. AllSaved(i)
  BY <1>1, PersistSavesAll DEF ClientRequest
<1>8. ExtendsLog(i)
  BY <1>3, <1>4, <1>5, <1>6, <1>7 DEF ExtendsLog
<1>9. Standing(i) /\ AppendsSent(i)
  BY <1>6 DEF Standing, AppendsSent, Appends
<1> QED BY <1>1, <1>5, <1>8, <1>9, ClientRequestStep DEF LogStep

\* How following a leader's term changes the role.
LEMMA FollowTermStanding ==
  ASSUME TypeOK, NEW i \in Node, NEW term \in Nat, term >= current_term[i],
         FollowTerm(i, term)
  PROVE  /\ current_term'[i] = term
         /\ role'[i] # "Candidate"
         /\ role'[i] = "Leader" => role[i] = "Leader" /\ current_term[i] = term
         /\ Standing(i)
<1>1. CASE term > current_term[i]
  <2>1. current_term'[i] = term /\ role'[i] = "Follower"
    BY <1>1, EnterTermVotes DEF FollowTerm
  <2> QED BY <2>1 DEF Standing
<1>2. CASE ~ (term > current_term[i])
  <2>1. current_term' = current_term /\ current_term[i] = term
    BY <1>2 DEF FollowTerm, TypeOK
  <2>2. /\ role'[i] # "Candidate"
        /\ role'[i] \in {"Follower", role[i]}
    BY <1>2 DEF FollowTerm, TypeOK
  <2> QED BY <2>1, <2>2 DEF Standing, TypeOK, Role
<1> QED BY <1>1, <1>2

\* handle_append_entries, refused and accepted.
LEMMA FollowerLogStep ==
  ASSUME SavesSucceed, TypeInv, NEW i \in Node, NEW m \in messages,
         \/ RejectStaleAppend(i, m)
         \/ RejectMismatch(i, m)
         \/ AcceptAppend(i, m)
  PROVE  LogStep(i)
<1>1. TypeOK /\ m.term \in Nat /\ current_term[i] \in Nat /\ VoteStep(i)
  BY MessageKinds, HandleAppendStep DEF TypeInv, TypeOK
<1>2. Appends' = Appends
  <2>1. \E b \in BOOLEAN :
          messages' = messages \cup {append_entries_response(i, m.from, b)}
    BY DEF RejectStaleAppend, RejectMismatch, AcceptAppend, Send
  <2> QED BY <2>1, RepliesAreNotAppends
<1>3. CASE RejectStaleAppend(i, m)
  <2>1. UNCHANGED <<log, role, current_term, disk>>
    BY <1>3 DEF RejectStaleAppend, nodeVars, persistentVars
  <2>2. Standing(i)
    BY <2>1 DEF Standing
  <2> QED BY <1>1, <1>2, <2>1, <2>2, QuietLogStep
<1>4. CASE RejectMismatch(i, m)
  <2>1. UNCHANGED <<log, disk>>
    BY <1>4 DEF RejectMismatch
  <2>2. Standing(i)
    BY <1>1, <1>4, FollowTermStanding DEF RejectMismatch, StaleLeader
  <2> QED BY <1>1, <1>2, <2>1, <2>2, QuietLogStep
<1>5. CASE AcceptAppend(i, m)
  <2>1. m \in Appends /\ m.to = i /\ current_term[i] <= m.term
    BY <1>1, <1>5 DEF AcceptAppend, StaleLeader, Appends
  <2>2. /\ current_term'[i] = m.term
        /\ role'[i] # "Candidate"
        /\ role'[i] = "Leader" => role[i] = "Leader" /\ current_term[i] = m.term
        /\ Standing(i)
    BY <1>1, <1>5, <2>1, FollowTermStanding DEF AcceptAppend
  <2>3. AllSaved(i)
    BY <1>1, <1>5, PersistSavesAll DEF AcceptAppend
  <2>4. /\ log'[i] = Reconcile(log[i], m.entries)
        /\ \A j \in Node \ {i} : log'[j] = log[j]
    BY <1>1, <1>5 DEF AcceptAppend, TypeOK
  <2>5. log_matches(log[i], m.prev_log_index, m.prev_log_term)
    BY <1>5 DEF AcceptAppend
  <2>6. AcceptsLog(i, m)
    BY <1>2, <2>1, <2>2, <2>3, <2>4, <2>5 DEF AcceptsLog
  <2> QED BY <1>1, <1>2, <2>1, <2>2, <2>4, <2>6 DEF LogStep, AppendsSent
<1> QED BY <1>3, <1>4, <1>5

\* restore brings back the stored log.
LEMMA RestartIsLogRestart ==
  ASSUME TypeOK, NEW i \in Node, Restart(i)
  PROVE  LogRestart(i)
BY RestartIsRestartStep DEF LogRestart, Restart, TypeOK

(***************************************************************************)
(* In a cluster of two nodes or more, every step is a LogStep, a restart   *)
(* or nothing.                                                             *)
(***************************************************************************)
LEMMA NextIsLogStep ==
  ASSUME SavesSucceed, \A i \in Node : Peers(i) # {}, TypeInv, Next
  PROVE  \/ UNCHANGED vars
         \/ \E i \in Node : LogStep(i) \/ LogRestart(i)
<1>1. PICK i \in Node : Step(i)
  BY DEF Next
<1>2. TypeOK
  BY DEF TypeInv
<1>3. CASE ElectionTimeout(i)
  BY <1>2, <1>3, CandidateLogStep DEF ElectionTimeout
<1>4. CASE HeartbeatTimeout(i)
  BY <1>2, <1>4, LeaderLogStep
<1>5. CASE IgnoreTimeout(i)
  BY <1>5 DEF IgnoreTimeout
<1>6. CASE \E command \in Command : ClientRequest(i, command)
  BY <1>6, ClientLogStep
<1>7. ASSUME NEW m \in messages, HandleMessage(i, m) PROVE LogStep(i)
  BY <1>2, <1>7, VoterLogStep, CandidateLogStep, FollowerLogStep, LeaderLogStep
     DEF HandleMessage
<1>8. CASE Restart(i)
  BY <1>2, <1>8, RestartIsLogRestart
<1> QED BY <1>1, <1>3, <1>4, <1>5, <1>6, <1>7, <1>8 DEF Step

----------------------------------------------------------------------------
(* A turn takes a ledger to the next one.                                  *)

\* The term in storage never falls.
LEMMA StoredTermGrows ==
  ASSUME TypeOK, TypeOK', StorageBehind, NEW i \in Node,
         VoteStep(i) \/ RestartStep(i)
  PROVE  \A j \in Node : disk[j].current_term <= disk'[j].current_term
<1> SUFFICES ASSUME NEW j \in Node
             PROVE  disk[j].current_term <= disk'[j].current_term
  OBVIOUS
<1>1. /\ current_term[j] \in Nat /\ current_term'[j] \in Nat
      /\ disk[j].current_term \in Nat
      /\ disk[j].current_term <= current_term[j]
  BY DEF TypeOK, PersistentState, StorageBehind
<1>2. CASE RestartStep(i) \/ j # i
  BY <1>1, <1>2 DEF RestartStep, VoteStep, OthersKeep
<1>3. CASE VoteStep(i) /\ j = i
  BY <1>1, <1>3 DEF VoteStep, Storage, TermAndVote, Saved
<1> QED BY <1>2, <1>3

\* Whoever completes a quorum of votes was elected, in a term without entries.
LEMMA NewLeaderFindsNothing ==
  ASSUME TypeOK, ElectionInv, NEW L \in Ledger, LedgerInv(L),
         NEW i \in Node, VoteStep(i), role[i] # "Leader", role'[i] = "Leader"
  PROVE  /\ role[i] = "Candidate" /\ current_term'[i] = current_term[i]
         /\ Elected(i, current_term[i])
         /\ L[current_term[i]] = << >>
<1> USE DEF ElectionInv
<1>1. role[i] = "Candidate" /\ current_term'[i] = current_term[i]
      /\ current_term[i] \in Nat
  BY DEF VoteStep, Leadership, TypeOK
<1>2. Elected(i, current_term[i])
  <2>1. PICK Q \in SUBSET Node :
          /\ Cardinality(Q) >= Quorum(i)
          /\ \A v \in Q : v \in votes_granted[i] \/ Cast(v, i, current_term[i])
    BY DEF VoteStep, Leadership
  <2>2. \A v \in Q : Cast(v, i, current_term[i])
    BY <1>1, <2>1 DEF CountedWereCast
  <2> QED BY <2>1, <2>2 DEF Elected
<1>3. L[current_term[i]] = << >>
  <2> SUFFICES ASSUME L[current_term[i]] # << >> PROVE FALSE
    OBVIOUS
  <2>1. PICK c \in Node :
          /\ Elected(c, current_term[i])
          /\ current_term[c] = current_term[i] => role[c] # "Candidate"
    BY <1>1 DEF LedgerInv, LedgerElected, Ledger
  <2>2. c = i
    BY <1>2, <2>1, ElectedOnce
  <2> QED BY <1>1, <2>1, <2>2
<1> QED BY <1>1, <1>2, <1>3

(***************************************************************************)
(* What a turn does to the log of a node that leads at its end: it has     *)
(* just been elected in a term without entries; or it was leader and keeps *)
(* or extends its log.  It accepts nothing: a message of its own term      *)
(* would be its own, and it sends itself none.                             *)
(***************************************************************************)
LEMMA LeaderTurn ==
  ASSUME TypeOK, ElectionInv, NEW L \in Ledger, LedgerInv(L),
         NEW i \in Node, LogStep(i), role'[i] = "Leader"
  PROVE  /\ current_term'[i] = current_term[i]
         /\ \/ /\ role[i] = "Candidate" /\ Elected(i, current_term[i])
               /\ L[current_term[i]] = << >> /\ KeepsLog(i)
            \/ /\ role[i] = "Leader" /\ L[current_term[i]] = log[i]
               /\ KeepsLog(i) \/ ExtendsLog(i)
<1>1. VoteStep(i)
  BY DEF LogStep
<1>2. CASE role[i] # "Leader"
  <2>1. /\ role[i] = "Candidate" /\ current_term'[i] = current_term[i]
        /\ Elected(i, current_term[i])
        /\ L[current_term[i]] = << >>
    BY <1>1, <1>2, NewLeaderFindsNothing
  <2>2. KeepsLog(i)
    BY <1>2 DEF LogStep, ExtendsLog, AcceptsLog
  <2> QED BY <2>1, <2>2
<1>3. CASE role[i] = "Leader"
  <2>1. current_term'[i] = current_term[i]
    BY <1>1 DEF VoteStep, Leadership
  <2>2. L[current_term[i]] = log[i]
    BY <1>3 DEF LedgerInv, LeadersOnLedger
  <2>3. ASSUME NEW m \in Appends, AcceptsLog(i, m) PROVE FALSE
    <3>1. m.to = i /\ m.term = current_term[i] /\ m.from # m.to
      BY <2>1, <2>3 DEF AcceptsLog, LedgerInv, AppendsOnLedger
    <3>2. m.from \in Node /\ Elected(m.from, m.term) /\ Elected(i, m.term)
      BY <1>3, <3>1, MessageKinds
         DEF ElectionInv, LeadersElected, Appends, TypeOK
    <3> QED BY <3>1, <3>2, ElectedOnce DEF ElectionInv
  <2> QED BY <1>3, <2>1, <2>2, <2>3 DEF LogStep
<1> QED BY <1>2, <1>3

\* The ledger grows with the log of a node that leads.
LEMMA LedgerGrows ==
  ASSUME TypeInv, TypeInv', ElectionInv, NEW L \in Ledger, LedgerInv(L),
         NEW i \in Node, LogStep(i), NEW M, M = LedgerAfter(L, i)
  PROVE  /\ M \in Ledger
         /\ Grows(L, M)
         /\ role'[i] = "Leader" => M[current_term'[i]] = log'[i]
         /\ \A t \in Nat : M[t] # L[t] =>
              t = current_term[i] /\ current_term'[i] = t /\ role'[i] = "Leader"
<1>1. /\ TypeOK /\ log[i] \in Seq(LogEntry) /\ log'[i] \in Seq(LogEntry)
      /\ current_term'[i] \in Nat /\ \A t \in Nat : L[t] \in Seq(LogEntry)
  BY DEF TypeInv, TypeOK, Ledger
<1>2. \A l \in Seq(LogEntry) : Agree(l, l, Len(l))
  BY DEF Agree
<1>3. CASE role'[i] # "Leader"
  <2>1. M = L
    BY <1>3 DEF LedgerAfter
  <2> QED BY <1>1, <1>2, <1>3, <2>1 DEF Grows
<1>4. CASE role'[i] = "Leader"
  <2>1. M = [L EXCEPT ![current_term'[i]] = log'[i]]
    BY <1>4 DEF LedgerAfter
  <2>2. /\ M \in Ledger /\ M[current_term'[i]] = log'[i]
        /\ \A t \in Nat : t # current_term'[i] => M[t] = L[t]
    BY <1>1, <2>1 DEF Ledger
  <2>3. current_term'[i] = current_term[i]
    BY <1>1, <1>4, LeaderTurn
  <2>4. Agree(L[current_term[i]], log'[i], Len(L[current_term[i]]))
    <3>1. CASE role[i] = "Candidate" /\ L[current_term[i]] = << >>
      BY <1>1, <3>1 DEF Agree
    <3>2. CASE L[current_term[i]] = log[i] /\ log'[i] = log[i]
      BY <1>1, <1>2, <3>2
    <3>3. CASE L[current_term[i]] = log[i] /\ ExtendsLog(i)
      <4>1. PICK entry \in LogEntry : log'[i] = Append(log[i], entry)
        BY <3>3 DEF ExtendsLog
      <4>2. Len(log'[i]) = Len(log[i]) + 1
            /\ \A k \in 1 .. Len(log[i]) : log'[i][k] = log[i][k]
        BY <1>1, <4>1
      <4> QED BY <1>1, <3>3, <4>2 DEF Agree
    <3> QED BY <1>1, <1>4, <3>1, <3>2, <3>3, LeaderTurn DEF KeepsLog
  <2> QED BY <1>1, <1>2, <1>4, <2>2, <2>3, <2>4 DEF Grows
<1> QED BY <1>3, <1>4

\* Candidates and leaders keep their term in storage.
LEMMA LogStepKeepsActive ==
  ASSUME TypeOK, TypeOK', ActiveStored, NEW i \in Node, LogStep(i)
  PROVE  ActiveStored'
<1> SUFFICES ASSUME NEW j \in Node, role'[j] # "Follower"
             PROVE  /\ disk'[j].current_term = current_term'[j]
                    /\ current_term'[j] >= 1
  BY DEF ActiveStored
<1>1. current_term[j] \in Nat /\ current_term'[j] \in Nat
  BY DEF TypeOK
<1>2. CASE j # i
  BY <1>2 DEF LogStep, VoteStep, OthersKeep, ActiveStored
<1>3. CASE j = i
  <2>1. \/ Saved(i) /\ current_term'[i] > current_term[i]
        \/ role[i] # "Follower" /\ current_term'[i] = current_term[i]
    BY <1>3 DEF LogStep, Standing
  <2>2. Saved(i) \/ disk'[i] = disk[i]
    BY DEF LogStep, VoteStep, Storage
  <2> QED BY <1>1, <1>3, <2>1, <2>2 DEF Saved, ActiveStored
<1> QED BY <1>2, <1>3

(***************************************************************************)
(* A log that accepted a message is on the ledger, and its terms reach up  *)
(* to the message's.                                                       *)
(***************************************************************************)
LEMMA AcceptedOnLedger ==
  ASSUME TypeInv, NEW L \in Ledger, LedgerInv(L), StorageBehind,
         NEW i \in Node, NEW m \in Appends, AcceptsLog(i, m),
         NEW n, n = m.prev_log_index + Len(m.entries)
  PROVE  /\ log'[i] \in Seq(LogEntry) /\ L[m.term] \in Seq(LogEntry)
         /\ OnLedger(L, log'[i])
         /\ TermsUpTo(log'[i], m.term)
         /\ n \in Nat /\ PieceOf(m, L[m.term])
         /\ Agree(log'[i], L[m.term], n)
         /\ \A k \in Nat : Agree(log[i], L[m.term], k) => Agree(log'[i], log[i], k)
         /\ log'[i] = log[i] \/ Len(log'[i]) = n
<1> DEFINE r == L[m.term]
<1>1. m \in AppendEntries /\ m.term \in Nat /\ m \in messages
  BY MessageKinds DEF Appends, TypeInv, TypeOK
<1>2. /\ log[i] \in Seq(LogEntry) /\ Contiguous(log[i], 0)
      /\ Contiguous(m.entries, m.prev_log_index)
      /\ current_term[i] \in Nat /\ disk[i].current_term \in Nat
  BY DEF TypeInv, TypeOK, PersistentState, LogContiguous
<1>3. r \in Seq(LogEntry) /\ OnLedger(L, r) /\ TermsUpTo(r, m.term)
  BY <1>1 DEF Ledger, LedgerInv, LedgerWellFormed
<1>4. /\ OnLedger(L, log[i]) /\ TermsUpTo(log[i], disk[i].current_term)
      /\ PastTheEnd(m) \/ PieceOf(m, r)
  BY DEF LedgerInv, LogsOnLedger, AppendsOnLedger
<1>5. /\ log_matches(log[i], m.prev_log_index, m.prev_log_term)
      /\ log'[i] = Reconcile(log[i], m.entries)
      /\ disk[i].current_term <= m.term
  BY <1>1, <1>2 DEF AcceptsLog, StorageBehind
<1> HIDE DEF r
<1>6. /\ log'[i] \in Seq(LogEntry)
      /\ n \in Nat /\ PieceOf(m, r)
      /\ Agree(log'[i], r, n)
      /\ \A k \in Nat : Agree(log[i], r, k) => Agree(log'[i], log[i], k)
      /\ log'[i] = log[i] \/ Len(log'[i]) = n
  BY <1>1, <1>2, <1>3, <1>4, <1>5, AcceptedLog
<1>7. CASE log'[i] = log[i]
  <2>1. TermsUpTo(log[i], m.term)
    BY <1>1, <1>2, <1>4, <1>5 DEF TermsUpTo
  <2> QED BY <1>3, <1>4, <1>6, <1>7, <2>1 DEF r
<1>8. CASE log'[i] # log[i]
  <2>1. /\ DOMAIN log'[i] = 1 .. n /\ n <= Len(r) /\ DOMAIN r = 1 .. Len(r)
        /\ \A k \in 1 .. n : log'[i][k] = r[k] /\ k \in 1 .. Len(r)
    BY <1>3, <1>6, <1>8 DEF Agree
  <2>2. TermsUpTo(log'[i], m.term)
    BY <1>3, <2>1 DEF TermsUpTo
  <2>3. OnLedger(L, log'[i])
    <3> SUFFICES ASSUME NEW k \in 1 .. n
                 PROVE  Agree(log'[i], L[log'[i][k].term], k)
      BY <2>1 DEF OnLedger
    <3>1. Agree(r, L[r[k].term], k)
      BY <1>3, <2>1 DEF OnLedger
    <3>2. \A j \in 1 .. k : log'[i][j] = r[j]
      BY <1>6, <2>1
    <3>3. k <= Len(log'[i]) /\ log'[i][k] = r[k]
      BY <1>6, <1>8, <2>1
    <3> QED BY <3>1, <3>2, <3>3 DEF Agree
  <2> QED BY <1>3, <1>6, <2>2, <2>3 DEF r
<1> QED BY <1>7, <1>8

\* Every node's log stays on the ledger and in storage.
LEMMA LogStepKeepsLogs ==
  ASSUME TypeInv, TypeInv', ElectionInv, NEW L \in Ledger, LedgerInv(L),
         NEW i \in Node, LogStep(i), NEW M, M = LedgerAfter(L, i)
  PROVE  LogsOnLedger(M)'
<1> SUFFICES ASSUME NEW j \in Node
             PROVE  /\ disk'[j].log = log'[j]
                    /\ TermsUpTo(log'[j], disk'[j].current_term)
                    /\ OnLedger(M, log'[j])
  BY DEF LogsOnLedger
<1>1. /\ TypeOK /\ TypeOK' /\ StorageBehind /\ VoteStep(i)
      /\ log[j] \in Seq(LogEntry) /\ log'[j] \in Seq(LogEntry)
      /\ disk[j].current_term \in Nat /\ disk'[j].current_term \in Nat
      /\ current_term[j] \in Nat
  BY DEF TypeInv, TypeOK, PersistentState, ElectionInv, LogStep
<1>2. disk[j].current_term <= disk'[j].current_term
  BY <1>1, StoredTermGrows
<1>3. /\ disk[j].log = log[j]
      /\ TermsUpTo(log[j], disk[j].current_term)
      /\ OnLedger(L, log[j])
  BY DEF LedgerInv, LogsOnLedger
<1>4. M \in Ledger /\ Grows(L, M)
  BY LedgerGrows
<1>5. OnLedger(M, log[j]) /\ TermsUpTo(log[j], disk'[j].current_term)
  <2>1. TermsUpTo(log[j], disk'[j].current_term)
    BY <1>1, <1>2, <1>3 DEF TermsUpTo
  <2> QED BY <1>1, <1>3, <1>4, <2>1, GrowthKeepsOnLedger
<1>6. CASE j # i
  <2>1. log'[j] = log[j] /\ disk'[j] = disk[j]
    BY <1>6 DEF LogStep, VoteStep, OthersKeep
  <2> QED BY <1>3, <1>5, <2>1
<1>7. CASE j = i /\ KeepsLog(i)
  <2>1. log'[j] = log[j] /\ disk'[j].log = log'[j]
    BY <1>3, <1>7 DEF KeepsLog, AllSaved
  <2> QED BY <1>5, <2>1
<1>8. CASE j = i /\ ExtendsLog(i)
  <2>1. PICK entry \in LogEntry : entry.term = current_term[i]
                                  /\ log'[i] = Append(log[i], entry)
    BY <1>8 DEF ExtendsLog
  <2>2. /\ Len(log'[i]) = Len(log[i]) + 1 /\ Len(log[i]) \in Nat
        /\ \A k \in 1 .. Len(log[i]) : log'[i][k] = log[i][k]
        /\ log'[i][Len(log[i]) + 1] = entry
        /\ DOMAIN log[i] = 1 .. Len(log[i])
        /\ DOMAIN log'[i] = 1 .. Len(log[i]) + 1
    BY <1>1, <1>8, <2>1
  <2>3. /\ disk'[i].log = log'[i] /\ role'[i] = "Leader"
        /\ disk'[i].current_term = current_term[i] /\ current_term[i] >= 1
        /\ current_term'[i] = current_term[i]
    BY <1>8 DEF ExtendsLog, AllSaved, Saved, LedgerInv, ActiveStored
  <2>4. M[current_term[i]] = log'[i]
    BY <2>3, LedgerGrows
  <2>5. TermsUpTo(log'[i], disk'[i].current_term)
    BY <1>1, <1>5, <1>8, <2>1, <2>2, <2>3 DEF TermsUpTo
  <2>6. OnLedger(M, log'[i])
    <3> SUFFICES ASSUME NEW k \in 1 .. Len(log[i]) + 1
                 PROVE  Agree(log'[i], M[log'[i][k].term], k)
      BY <2>2 DEF OnLedger
    <3>1. CASE k = Len(log[i]) + 1
      <4>1. log'[i][k].term = current_term[i] /\ k <= Len(log'[i])
        BY <2>1, <2>2, <3>1
      <4> QED BY <2>4, <4>1 DEF Agree
    <3>2. CASE k \in 1 .. Len(log[i])
      <4>1. Agree(log[i], M[log[i][k].term], k) /\ log'[i][k] = log[i][k]
        BY <1>5, <1>8, <2>2, <3>2 DEF OnLedger
      <4> QED BY <2>2, <3>2, <4>1 DEF Agree
    <3> QED BY <2>2, <3>1, <3>2
  <2> QED BY <1>8, <2>3, <2>5, <2>6
<1>9. CASE j = i /\ \E m \in Appends : AcceptsLog(i, m)
  <2>1. PICK m \in Appends : AcceptsLog(i, m)
    BY <1>9
  <2>2. OnLedger(L, log'[i]) /\ TermsUpTo(log'[i], m.term)
    BY <1>1, <2>1, AcceptedOnLedger
  <2>3. OnLedger(M, log'[i])
    BY <1>1, <1>4, <1>9, <2>2, GrowthKeepsOnLedger
  <2>4. disk'[i].log = log'[i] /\ disk'[i].current_term = m.term
    BY <2>1 DEF AcceptsLog, AllSaved, Saved
  <2> QED BY <1>9, <2>2, <2>3, <2>4
<1> QED BY <1>6, <1>7, <1>8, <1>9 DEF LogStep

\* The ledger stays well-formed, and a leader's log is its term's.
LEMMA LogStepKeepsLedger ==
  ASSUME TypeInv, TypeInv', ElectionInv, ElectionInv',
         NEW L \in Ledger, LedgerInv(L),
         NEW i \in Node, LogStep(i), NEW M, M = LedgerAfter(L, i)
  PROVE  LedgerWellFormed(M) /\ LeadersOnLedger(M)'
<1>1. /\ M \in Ledger /\ Grows(L, M)
      /\ role'[i] = "Leader" => M[current_term'[i]] = log'[i]
      /\ \A t \in Nat : M[t] # L[t] =>
           t = current_term[i] /\ current_term'[i] = t /\ role'[i] = "Leader"
  BY LedgerGrows
<1>2. TypeOK /\ TypeOK' /\ \A j \in Node : current_term'[j] \in Nat
  BY DEF TypeInv, TypeOK
<1>3. LedgerWellFormed(M)
  <2> SUFFICES ASSUME NEW t \in Nat
               PROVE  Contiguous(M[t], 0) /\ TermsUpTo(M[t], t) /\ OnLedger(M, M[t])
    BY <1>1 DEF LedgerWellFormed, Ledger
  <2>1. CASE M[t] = L[t]
    <3>1. /\ Contiguous(L[t], 0) /\ TermsUpTo(L[t], t) /\ OnLedger(L, L[t])
          /\ L[t] \in Seq(LogEntry)
      BY DEF LedgerInv, LedgerWellFormed, Ledger
    <3> QED BY <1>1, <2>1, <3>1, GrowthKeepsOnLedger
  <2>2. CASE M[t] # L[t]
    <3>1. t = current_term'[i] /\ role'[i] = "Leader" /\ M[t] = log'[i]
      BY <1>1, <2>2
    <3>2. disk'[i].current_term = t
      BY <1>2, <3>1, LogStepKeepsActive DEF LedgerInv, ActiveStored
    <3>3. TermsUpTo(log'[i], disk'[i].current_term) /\ OnLedger(M, log'[i])
      BY LogStepKeepsLogs DEF LogsOnLedger
    <3>4. Contiguous(log'[i], 0)
      BY DEF TypeInv, LogContiguous
    <3> QED BY <3>1, <3>2, <3>3, <3>4
  <2> QED BY <2>1, <2>2
<1>4. LeadersOnLedger(M)'
  <2> SUFFICES ASSUME NEW j \in Node, role'[j] = "Leader"
               PROVE  log'[j] = M[current_term'[j]]
    BY DEF LeadersOnLedger
  <2>1. CASE j = i
    BY <1>1, <2>1
  <2>2. CASE j # i
    <3>1. /\ role[j] = "Leader" /\ current_term'[j] = current_term[j]
          /\ log'[j] = log[j] /\ log[j] = L[current_term[j]]
      BY <2>2 DEF LogStep, VoteStep, OthersKeep, LedgerInv, LeadersOnLedger
    <3>2. ASSUME M[current_term'[j]] # L[current_term'[j]] PROVE FALSE
      <4>1. current_term[j] = current_term[i] /\ role'[i] = "Leader"
        BY <1>1, <1>2, <3>1, <3>2
      <4>2. Elected(i, current_term[i]) /\ Elected(j, current_term[j])
        BY <1>2, <3>1, <4>1, LeaderTurn DEF ElectionInv, LeadersElected
      <4> QED BY <2>2, <4>1, <4>2, ElectedOnce DEF ElectionInv
    <3> QED BY <3>1, <3>2
  <2> QED BY <2>1, <2>2
<1> QED BY <1>3, <1>4

\* What a leader sends is a piece of its log.
LEMMA SentPiece ==
  ASSUME TypeInv, NEW i \in Node, NEW p \in Peers(i),
         NEW m, m = AppendEntriesFor(i, p)
  PROVE  /\ m.from = i /\ m.to = p /\ m.term = current_term[i]
         /\ m.leader_commit = commit_index[i]
         /\ \/ PastTheEnd(m)
            \/ /\ PieceOf(m, log[i])
               /\ m.prev_log_index + Len(m.entries) = Len(log[i])
<1> DEFINE next == next_index[i][p]
           e == EntriesFrom(log[i], next)
<1>1. /\ log[i] \in Seq(LogEntry) /\ Contiguous(log[i], 0)
      /\ next \in Nat \ {0} /\ p \in Node /\ Len(log[i]) \in Nat
  BY DEF TypeInv, TypeOK, LogContiguous, Peers
<1>2. /\ m.from = i /\ m.to = p /\ m.term = current_term[i]
      /\ m.leader_commit = commit_index[i]
      /\ m.prev_log_index = PrevLogIndex(next)
      /\ m.prev_log_term = PrevLogTerm(log[i], next)
      /\ m.entries = e
  BY DEF AppendEntriesFor
<1> HIDE DEF next
<1>3. /\ PrevLogIndex(next) = next - 1
      /\ next - 1 <= Len(log[i]) =>
           /\ next - 1 + Len(e) = Len(log[i])
           /\ \A k \in DOMAIN e : e[k] = log[i][next - 1 + k]
           /\ next - 1 > 0 =>
                PrevLogTerm(log[i], next) = log[i][next - 1].term
      /\ next - 1 > Len(log[i]) =>
           next - 1 > 0 /\ e = << >> /\ PrevLogTerm(log[i], next) = 0
  BY <1>1, EntriesFromSlice DEF LogEntry
<1> HIDE DEF e
<1>4. CASE next - 1 <= Len(log[i])
  BY <1>1, <1>2, <1>3, <1>4 DEF PieceOf
<1>5. CASE next - 1 > Len(log[i])
  BY <1>2, <1>3, <1>5 DEF PastTheEnd
<1> QED BY <1>1, <1>4, <1>5

\* AppendEntries, old and new, are pieces of the ledger.
LEMMA LogStepKeepsAppends ==
  ASSUME TypeInv, TypeInv', ElectionInv, NEW L \in Ledger, LedgerInv(L),
         NEW i \in Node, LogStep(i), NEW M, M = LedgerAfter(L, i)
  PROVE  AppendsOnLedger(M)'
<1> SUFFICES ASSUME NEW m \in Appends'
             PROVE  m.from # m.to /\ (PastTheEnd(m) \/ PieceOf(m, M[m.term]))
  BY DEF AppendsOnLedger
<1>1. m \in AppendEntries /\ m.term \in Nat
  BY MessageKinds DEF Appends, TypeInv, TypeOK
<1>2. /\ M \in Ledger /\ Agree(L[m.term], M[m.term], Len(L[m.term]))
      /\ L[m.term] \in Seq(LogEntry) /\ M[m.term] \in Seq(LogEntry)
  <2>1. M \in Ledger /\ Grows(L, M)
    BY LedgerGrows
  <2> QED BY <1>1, <2>1 DEF Grows, Ledger
<1>3. m.from # m.to /\ (PastTheEnd(m) \/ PieceOf(m, L[m.term]))
  <2>1. CASE m \in Appends
    BY <2>1 DEF LedgerInv, AppendsOnLedger
  <2>2. CASE m \notin Appends
    <3>1. role[i] = "Leader" /\ \E p \in Peers(i) : m = AppendEntriesFor(i, p)
      BY <2>2 DEF LogStep, AppendsSent
    <3>2. PICK p \in Peers(i) : m = AppendEntriesFor(i, p)
      BY <3>1
    <3>3. /\ m.from = i /\ m.to = p /\ m.term = current_term[i]
          /\ PastTheEnd(m) \/ PieceOf(m, log[i])
      BY <3>2, SentPiece
    <3>4. log[i] = L[m.term] /\ i # p
      BY <3>1, <3>3 DEF LedgerInv, LeadersOnLedger, Peers
    <3> QED BY <3>3, <3>4
  <2> QED BY <2>1, <2>2
<1> QED BY <1>1, <1>2, <1>3, GrowthKeepsPieces

\* Whoever created the entries of a term stays elected and out of that race.
LEMMA LogStepKeepsElected ==
  ASSUME TypeInv, TypeInv', ElectionInv, ElectionInv',
         NEW L \in Ledger, LedgerInv(L),
         NEW i \in Node, LogStep(i), NEW M, M = LedgerAfter(L, i)
  PROVE  LedgerElected(M)'
<1>1. /\ TypeOK /\ TypeOK' /\ VoteStep(i) /\ StorageBehind /\ M \in Ledger
  BY LedgerGrows DEF TypeInv, ElectionInv, LogStep
<1>2. /\ \A j \in Node : disk[j].current_term <= disk'[j].current_term
      /\ \A j \in Node : /\ disk[j].current_term \in Nat
                         /\ disk'[j].current_term \in Nat
                         /\ current_term[j] \in Nat /\ current_term'[j] \in Nat
                         /\ disk[j].current_term <= current_term[j]
  BY <1>1, StoredTermGrows DEF TypeOK, PersistentState, StorageBehind
<1> SUFFICES ASSUME NEW t \in Nat, M[t] # << >>
             PROVE  \E c \in Node :
                      /\ Elected(c, t)'
                      /\ disk'[c].current_term >= t
                      /\ current_term'[c] = t => role'[c] # "Candidate"
  BY <1>1 DEF LedgerElected, Ledger
<1>3. CASE L[t] # << >>
  <2>1. PICK c \in Node :
          /\ Elected(c, t)
          /\ disk[c].current_term >= t
          /\ current_term[c] = t => role[c] # "Candidate"
    BY <1>3 DEF LedgerInv, LedgerElected, Ledger
  <2>2. Elected(c, t)'
    BY <1>1, <2>1, ElectedStays DEF VoteStep
  <2>3. disk'[c].current_term >= t
    BY <1>2, <2>1
  <2>4. current_term'[c] = t => role'[c] # "Candidate"
    <3>1. CASE c # i
      BY <2>1, <3>1 DEF LogStep, VoteStep, OthersKeep
    <3>2. CASE c = i
      BY <1>2, <2>1, <3>2 DEF LogStep, Standing
    <3> QED BY <3>1, <3>2
  <2> QED BY <2>2, <2>3, <2>4
<1>4. CASE L[t] = << >>
  <2>1. t = current_term'[i] /\ role'[i] = "Leader"
    BY <1>4, LedgerGrows
  <2>2. Elected(i, t)'
    <3>1. Elected(i, current_term[i]) /\ current_term[i] = t
      BY <1>1, <2>1, LeaderTurn DEF ElectionInv, LeadersElected
    <3> QED BY <1>1, <3>1, ElectedStays DEF VoteStep
  <2>3. disk'[i].current_term = t
    BY <1>1, <2>1, LogStepKeepsActive DEF LedgerInv, ActiveStored
  <2> QED BY <1>2, <2>1, <2>2, <2>3
<1> QED BY <1>3, <1>4

\* A turn takes a ledger to a ledger.
LEMMA LogStepKeepsLedgerInv ==
  ASSUME TypeInv, TypeInv', ElectionInv, ElectionInv',
         NEW L \in Ledger, LedgerInv(L),
         NEW i \in Node, LogStep(i), NEW M, M = LedgerAfter(L, i)
  PROVE  M \in Ledger /\ LedgerInv(M)'
<1>1. M \in Ledger
  BY LedgerGrows
<1>2. LedgerWellFormed(M) /\ LeadersOnLedger(M)'
  BY LogStepKeepsLedger
<1>3. LogsOnLedger(M)'
  BY LogStepKeepsLogs
<1>4. ActiveStored'
  BY LogStepKeepsActive DEF TypeInv, LedgerInv
<1>5. AppendsOnLedger(M)'
  BY LogStepKeepsAppends
<1>6. LedgerElected(M)'
  BY LogStepKeepsElected
<1> QED BY <1>1, <1>2, <1>3, <1>4, <1>5, <1>6 DEF LedgerInv

\* A restart brings back the log that was in memory: the ledger stays.
LEMMA RestartKeepsLedgerInv ==
  ASSUME TypeInv, TypeInv', ElectionInv, NEW L \in Ledger, LedgerInv(L),
         NEW i \in Node, LogRestart(i)
  PROVE  LedgerInv(L)'
<1> USE DEF LedgerInv
<1>1. /\ RestartStep(i) /\ disk' = disk /\ messages' = messages
      /\ \A j \in Node : log'[j] = log[j]
  BY DEF LogRestart, RestartStep, LogsOnLedger
<1>2. LogsOnLedger(L)'
  BY <1>1 DEF LogsOnLedger
<1>3. \A j \in Node : role'[j] # "Follower" =>
        j # i /\ role'[j] = role[j] /\ current_term'[j] = current_term[j]
  BY <1>1 DEF RestartStep, OthersKeep
<1>4. ActiveStored' /\ LeadersOnLedger(L)'
  BY <1>1, <1>3 DEF ActiveStored, LeadersOnLedger
<1>5. AppendsOnLedger(L)'
  BY <1>1 DEF AppendsOnLedger, Appends
<1>6. LedgerElected(L)'
  <2> SUFFICES ASSUME NEW t \in DOMAIN L, L[t] # << >>
               PROVE  \E c \in Node :
                        /\ Elected(c, t)'
                        /\ disk'[c].current_term >= t
                        /\ current_term'[c] = t => role'[c] # "Candidate"
    BY DEF LedgerElected
  <2>1. PICK c \in Node :
          /\ Elected(c, t)
          /\ disk[c].current_term >= t
          /\ current_term[c] = t => role[c] # "Candidate"
    BY DEF LedgerElected
  <2>2. Sends(i)
    BY <1>1 DEF Sends
  <2>3. Elected(c, t)'
    BY <2>1, <2>2, ElectedStays
  <2> QED BY <1>1, <1>3, <2>1, <2>3
<1> QED BY <1>2, <1>4, <1>5, <1>6

----------------------------------------------------------------------------
(* The theorems                                                            *)

\* There is a ledger: the inductive invariant of log replication.
LedgerExists == \E L \in Ledger : LedgerInv(L)

\* At first nobody has an entry.
LEMMA InitLedgerExists == Init => LedgerExists
<1> SUFFICES ASSUME Init PROVE LedgerExists
  OBVIOUS
<1> DEFINE L == [t \in Nat |-> << >>]
<1>1. L \in Ledger /\ \A t \in Nat : L[t] = << >> /\ DOMAIN L = Nat
  BY DEF Ledger
<1> HIDE DEF L
<1>2. \A l : l = << >> => /\ Contiguous(l, 0) /\ OnLedger(L, l)
                          /\ \A t : TermsUpTo(l, t)
  BY DEF Contiguous, OnLedger, TermsUpTo
<1>3. LedgerWellFormed(L) /\ LedgerElected(L)
  BY <1>1, <1>2 DEF LedgerWellFormed, LedgerElected
<1>4. LogsOnLedger(L)
  BY <1>2 DEF Init, LogsOnLedger
<1>5. ActiveStored /\ LeadersOnLedger(L) /\ AppendsOnLedger(L)
  BY DEF Init, ActiveStored, LeadersOnLedger, AppendsOnLedger, Appends
<1> QED BY <1>1, <1>3, <1>4, <1>5 DEF LedgerExists, LedgerInv

\* The inductive step.
LEMMA NextLedgerExists ==
  ASSUME SavesSucceed, \A i \in Node : Peers(i) # {}
  PROVE  TypeInv /\ ElectionInv /\ LedgerExists /\ [Next]_vars => LedgerExists'
<1> SUFFICES ASSUME TypeInv, ElectionInv, LedgerExists, [Next]_vars
             PROVE  LedgerExists'
  OBVIOUS
<1>1. TypeInv' /\ ElectionInv'
  BY NextTypeInv, NextElectionInv
<1>2. PICK L \in Ledger : LedgerInv(L)
  BY DEF LedgerExists
<1>3. CASE UNCHANGED vars
  <2>1. LedgerInv(L)'
    BY <1>2, <1>3, SMTT(60)
       DEF vars, nodeVars, persistentVars, LedgerInv, LedgerWellFormed,
           LogsOnLedger, ActiveStored, LeadersOnLedger, AppendsOnLedger,
           LedgerElected, Elected, Cast, CastBy, Appends
  <2> QED BY <2>1 DEF LedgerExists
<1>4. ASSUME NEW i \in Node, LogStep(i) PROVE LedgerExists'
  <2>1. PICK M : M = LedgerAfter(L, i)
    OBVIOUS
  <2>2. M \in Ledger /\ LedgerInv(M)'
    BY <1>1, <1>2, <1>4, <2>1, LogStepKeepsLedgerInv
  <2> QED BY <2>2 DEF LedgerExists
<1>5. ASSUME NEW i \in Node, LogRestart(i) PROVE LedgerExists'
  <2>1. LedgerInv(L)'
    BY <1>1, <1>2, <1>5, RestartKeepsLedgerInv
  <2> QED BY <2>1 DEF LedgerExists
<1> QED BY <1>3, <1>4, <1>5, NextIsLogStep

(***************************************************************************)
(* In every state of a cluster with peers, there is a ledger that every    *)
(* log, in memory and in storage, and every AppendEntries is a piece of.   *)
(***************************************************************************)
THEOREM LedgerInvariant ==
  ASSUME SavesSucceed, \A i \in Node : Peers(i) # {}
  PROVE  Spec => []LedgerExists
<1>1. Init => LedgerExists
  BY InitLedgerExists
<1>2. TypeInv /\ ElectionInv /\ LedgerExists /\ [Next]_vars => LedgerExists'
  BY NextLedgerExists
<1> QED BY <1>1, <1>2, TypeCorrect, ElectionInvariant, PTL DEF Spec

\* Logs on one ledger match.
LEMMA LedgerMatches ==
  ASSUME TypeOK, LedgerExists
  PROVE  LogMatching
<1>1. PICK L \in Ledger : LedgerInv(L)
  BY DEF LedgerExists
<1>2. \A l \in Logs : l \in Seq(LogEntry) /\ OnLedger(L, l)
  BY <1>1 DEF Logs, LedgerInv, LogsOnLedger, TypeOK
<1> SUFFICES ASSUME NEW l1 \in Logs, NEW l2 \in Logs,
                    NEW k \in DOMAIN l1 \cap DOMAIN l2,
                    l1[k].term = l2[k].term
             PROVE  SubSeq(l1, 1, k) = SubSeq(l2, 1, k)
  BY DEF LogMatching
<1>3. k \in 1 .. Len(l1) /\ k <= Len(l2) /\ k \in Nat
  BY <1>2
<1>4. Agree(l1, l2, k)
  BY <1>2, <1>3, SameTermAgree
<1> QED BY <1>2, <1>3, <1>4, AgreeIsHolds

(***************************************************************************)
(* Log matching: entries with the same index and term stand on the same    *)
(* prefix, in any two logs in memory or storage, across crashes and        *)
(* whatever the network loses, repeats or reorders.                        *)
(***************************************************************************)
THEOREM LogsMatch ==
  ASSUME SavesSucceed, \A i \in Node : Peers(i) # {}
  PROVE  Spec => []LogMatching
<1>1. TypeInv /\ LedgerExists => LogMatching
  BY LedgerMatches DEF TypeInv
<1> QED BY <1>1, TypeCorrect, LedgerInvariant, PTL

(***************************************************************************)
(* A leader's log is never cut: what it accepts in its own term would have *)
(* to come from itself.                                                    *)
(***************************************************************************)
THEOREM LeadersAppendOnly ==
  ASSUME SavesSucceed, \A i \in Node : Peers(i) # {}
  PROVE  Spec => LeaderAppendOnly
<1> DEFINE Extended(i) == role[i] = "Leader" /\ role'[i] = "Leader"
                          => Holds(log[i], log'[i], Len(log[i]))
<1>1. TypeInv /\ TypeInv' /\ ElectionInv /\ LedgerExists /\ [Next]_vars
      => [\A i \in Node : Extended(i)]_vars
  <2> SUFFICES ASSUME TypeInv, TypeInv', ElectionInv, LedgerExists,
                      [Next]_vars, NEW i \in Node, ~ (UNCHANGED vars),
                      role[i] = "Leader", role'[i] = "Leader"
               PROVE  Holds(log[i], log'[i], Len(log[i]))
    OBVIOUS
  <2>1. PICK L \in Ledger : LedgerInv(L)
    BY DEF LedgerExists
  <2>2. /\ TypeOK /\ log[i] \in Seq(LogEntry) /\ log'[i] \in Seq(LogEntry)
        /\ Len(log[i]) \in Nat
    BY DEF TypeInv, TypeOK
  <2>3. \/ log'[i] = log[i]
        \/ \E entry \in LogEntry : log'[i] = Append(log[i], entry)
    <3>1. PICK j \in Node : LogStep(j) \/ LogRestart(j)
      BY NextIsLogStep
    <3>2. CASE i # j
      BY <3>1, <3>2 DEF LogStep, LogRestart
    <3>3. CASE i = j
      <4>1. LogStep(i)
        BY <3>1, <3>3 DEF LogRestart, RestartStep
      <4>2. KeepsLog(i) \/ ExtendsLog(i)
        BY <2>1, <2>2, <4>1, LeaderTurn
      <4> QED BY <4>2 DEF KeepsLog, ExtendsLog
    <3> QED BY <3>2, <3>3
  <2>4. Agree(log[i], log'[i], Len(log[i]))
    <3>1. CASE log'[i] = log[i]
      BY <2>2, <3>1 DEF Agree
    <3>2. CASE \E entry \in LogEntry : log'[i] = Append(log[i], entry)
      <4>1. PICK entry \in LogEntry : log'[i] = Append(log[i], entry)
        BY <3>2
      <4>2. Len(log'[i]) = Len(log[i]) + 1
            /\ \A k \in 1 .. Len(log[i]) : log'[i][k] = log[i][k]
        BY <2>2, <4>1
      <4> QED BY <2>2, <4>2 DEF Agree
    <3> QED BY <2>3, <3>1, <3>2
  <2> QED BY <2>2, <2>4, AgreeIsHolds
<1> QED BY <1>1, TypeCorrect, ElectionInvariant, LedgerInvariant, PTL
        DEF Spec, LeaderAppendOnly
=============================================================================

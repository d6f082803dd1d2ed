------------------------------ MODULE MCRaftLog ------------------------------
(***************************************************************************)
(* The definitions of RaftLog against the loops they stand for, on every   *)
(* log up to MaxLen entries and MaxTerm terms.  A case is one call: a      *)
(* receiver's log `mine', a sender's log `theirs' from which the message   *)
(* is cut at `next', a commit index and two peers' match indices.  The     *)
(* state never changes; the initial states are the cases.                  *)
(***************************************************************************)
EXTENDS RaftLog

CONSTANTS MaxLen, MaxTerm, Command

ASSUME CaseAssumption == MaxLen \in Nat /\ MaxTerm \in Nat

VARIABLE case

\* The logs the program can hold: indices 1, 2, ... and terms that never
\* decrease.
LogOf(terms, commands) ==
  [k \in DOMAIN terms |->
     [term |-> terms[k], index |-> k, command |-> commands[k]]]

LogsOfLength(n) ==
  {LogOf(terms, commands) :
     terms \in {t \in [1 .. n -> 1 .. MaxTerm] :
                  \A k \in 1 .. n - 1 : t[k] <= t[k + 1]},
     commands \in [1 .. n -> Command]}

AllLogs == UNION {LogsOfLength(n) : n \in 0 .. MaxLen}

\* Two logs of one cluster: LogMatching holds between them.
Compatible(l1, l2) ==
  \A k \in DOMAIN l1 \cap DOMAIN l2 :
    l1[k].term = l2[k].term => SubSeq(l1, 1, k) = SubSeq(l2, 1, k)

Init ==
  \E mine \in AllLogs, theirs \in AllLogs :
    /\ Compatible(mine, theirs)
    /\ \E next \in 1 .. Len(theirs) + 1, commit \in 0 .. Len(mine),
          match \in [{"p", "q"} -> 0 .. MaxLen] :
         case = [mine |-> mine, theirs |-> theirs, next |-> next,
                 commit |-> commit, match |-> match]

Next == UNCHANGED case

Spec == Init /\ [][Next]_case

----------------------------------------------------------------------------
(* The loops of the code, each as a function of where the loop stands      *)

\* handle_append_entries: `for (i, new_entry) in msg.entries.iter()'.
ReconcileLoop(l, entries) ==
  LET from[i \in 1 .. Len(entries) + 1] ==
        IF i > Len(entries)
        THEN l
        ELSE IF ~ HasIndex(l, entries[i].index)
        THEN l \o SubSeq(entries, i, Len(entries))
        ELSE IF l[Position(l, entries[i].index)].term # entries[i].term
        THEN SubSeq(l, 1, Position(l, entries[i].index) - 1)
               \o SubSeq(entries, i, Len(entries))
        ELSE from[i + 1]
  IN  from[1]

\* append_entries_for_peer: `log.iter().filter(|e| e.index >= next_index)'.
FilterLoop(l, next) ==
  LET upto[k \in 0 .. Len(l)] ==
        IF k = 0
        THEN << >>
        ELSE IF l[k].index >= next
        THEN Append(upto[k - 1], l[k])
        ELSE upto[k - 1]
  IN  upto[Len(l)]

\* try_advance_commit_index: `for entry in log.iter().rev()'.
CommitLoop(l, term, commit, match, peers) ==
  LET down[k \in 0 .. Len(l)] ==
        IF k = 0
        THEN commit
        ELSE IF l[k].index <= commit
        THEN commit
        ELSE IF l[k].term # term
        THEN down[k - 1]
        ELSE IF 1 + Cardinality({p \in peers : match[p] >= l[k].index})
                  >= quorum(Cardinality(peers))
        THEN l[k].index
        ELSE down[k - 1]
  IN  down[Len(l)]

\* apply_committed_entries: `while last_applied < commit_index'.
ApplyLoop(l, applied, commit) ==
  LET from[done \in Nat] ==
        IF done >= commit
        THEN << >>
        ELSE (IF HasIndex(l, done + 1)
              THEN <<l[Position(l, done + 1)].command>>
              ELSE << >>) \o from[done + 1]
  IN  from[applied]

----------------------------------------------------------------------------
(* Properties                                                              *)

Prev    == PrevLogIndex(case.next)
Entries == EntriesFrom(case.theirs, case.next)
Accepted == log_matches(case.mine, Prev, PrevLogTerm(case.theirs, case.next))

(***************************************************************************)
(* The reconciliation of handle_append_entries, in one formula, is its     *)
(* loop; and after a message the consistency check let through, the        *)
(* receiver's log begins with the sender's whole log, and goes on only     *)
(* where it has nothing that contradicts it.                               *)
(***************************************************************************)
ReconcileCopiesSender ==
  LET result == Reconcile(case.mine, Entries)
  IN  /\ result = ReconcileLoop(case.mine, Entries)
      /\ Accepted =>
           /\ SubSeq(result, 1, Len(case.theirs)) = case.theirs
           /\ result \in {case.theirs, case.mine}

(***************************************************************************)
(* The slice append_entries_for_peer collects with a filter, put after the *)
(* entry that prev_log_info names, is the sender's log again.              *)
(***************************************************************************)
MessageCarriesRest ==
  /\ Entries = FilterLoop(case.theirs, case.next)
  /\ SubSeq(case.theirs, 1, Prev) \o Entries = case.theirs
  /\ LastNewIndex(Prev, Entries) = last_log_index(case.theirs)

(***************************************************************************)
(* try_advance_commit_index walks the log downwards and stops at the first *)
(* entry of the leader's own term that a quorum holds; the set definition  *)
(* finds the same index, in every term the leader may be in.               *)
(***************************************************************************)
CommitRuleIsLoop ==
  \A term \in 1 .. MaxTerm :
    LeaderCommit(case.mine, term, case.commit, case.match, {"p", "q"})
      = CommitLoop(case.mine, term, case.commit, case.match, {"p", "q"})

(***************************************************************************)
(* apply_committed_entries hands over the commands of (last_applied,       *)
(* commit_index] in order, each once, also when the commit index is past   *)
(* the end of the log.                                                     *)
(***************************************************************************)
ApplyIsLoop ==
  \A commit \in 0 .. MaxLen :
    CommandsToApply(case.mine, case.commit, commit)
      = ApplyLoop(case.mine, case.commit, commit)
=============================================================================

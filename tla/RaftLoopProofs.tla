--------------------------- MODULE RaftLoopProofs ---------------------------
(***************************************************************************)
(* The definitions of RaftLog are the loops they stand for, for logs and   *)
(* messages of any length.                                                 *)
(*                                                                         *)
(* A loop is a recursive function, that is, some solution of the equation  *)
(* that relates its value at a position to the one at the next.  Each      *)
(* proof writes down a function without recursion, checks that it solves   *)
(* the equation (so there is a solution), and shows that two solutions     *)
(* agree: otherwise they would disagree somewhere for the first time.      *)
(***************************************************************************)
EXTENDS MCRaftLog, RaftLogProofs

Agree(f, g, n) == \A i \in 0 .. n : f[i] = g[i]

\* f and g agree at n, and at a position whenever they agree one above it.
AgreeFromTop(f, g, n) ==
  f[n] = g[n] /\ \A i \in 0 .. n - 1 : f[i + 1] = g[i + 1] => f[i] = g[i]

\* f and g agree at 0, and at a position whenever they agree one below it.
AgreeFromZero(f, g, n) ==
  f[0] = g[0] /\ \A i \in 1 .. n : f[i - 1] = g[i - 1] => f[i] = g[i]

(***************************************************************************)
(* Two functions that agree at a position whenever they agree at the next  *)
(* one up agree everywhere.                                                *)
(***************************************************************************)
LEMMA AgreeDownwards ==
  ASSUME NEW n \in Nat, NEW f, NEW g, AgreeFromTop(f, g, n)
  PROVE  Agree(f, g, n)
<1> USE DEF Agree, AgreeFromTop
<1> DEFINE T == {i \in 0 .. n : f[n - i] # g[n - i]}
<1>1. SUFFICES ASSUME T # {} PROVE FALSE
  <2>1. ASSUME NEW i \in 0 .. n PROVE n - i \in 0 .. n /\ n - (n - i) = i
    OBVIOUS
  <2> QED BY <2>1
<1>2. PICK t \in T : \A s \in T : t <= s
  <2>1. T \subseteq Nat
    OBVIOUS
  <2> HIDE DEF T
  <2> QED BY <1>1, <2>1, LeastElement
<1>3. t \in 0 .. n /\ f[n - t] # g[n - t]
  OBVIOUS
<1>4. t # 0
  BY <1>3
<1>5. /\ t - 1 \in 0 .. n /\ n - (t - 1) = n - t + 1 /\ n - t \in 0 .. n - 1
      /\ ~ (t <= t - 1)
  BY <1>3, <1>4
<1>6. f[n - t + 1] = g[n - t + 1]
  <2>1. t - 1 \notin T
    <3> HIDE DEF T
    <3> QED BY <1>2, <1>5
  <2> QED BY <1>5, <2>1
<1> QED BY <1>3, <1>5, <1>6

(***************************************************************************)
(* The same from the bottom up.                                            *)
(***************************************************************************)
LEMMA AgreeUpwards ==
  ASSUME NEW n \in Nat, NEW f, NEW g, AgreeFromZero(f, g, n)
  PROVE  Agree(f, g, n)
<1> USE DEF Agree, AgreeFromZero
<1> DEFINE T == {i \in 0 .. n : f[i] # g[i]}
<1>1. SUFFICES ASSUME T # {} PROVE FALSE
  OBVIOUS
<1>2. PICK t \in T : \A s \in T : t <= s
  <2>1. T \subseteq Nat
    OBVIOUS
  <2> HIDE DEF T
  <2> QED BY <1>1, <2>1, LeastElement
<1>3. t \in 0 .. n /\ f[t] # g[t] /\ t # 0
  OBVIOUS
<1>4. t - 1 \in 0 .. n /\ t \in 1 .. n /\ ~ (t <= t - 1)
  BY <1>3
<1>5. f[t - 1] = g[t - 1]
  <2>1. t - 1 \notin T
    <3> HIDE DEF T
    <3> QED BY <1>2, <1>4
  <2> QED BY <1>4, <2>1
<1> QED BY <1>3, <1>4, <1>5

(***************************************************************************)
(* Reconcile is the loop of handle_append_entries.                         *)
(***************************************************************************)
LEMMA ReconcileIsLoop ==
  ASSUME NEW C, NEW l \in Seq(LogEntryOf(C)), NEW entries \in Seq(LogEntryOf(C))
  PROVE  Reconcile(l, entries) = ReconcileLoop(l, entries)
<1> DEFINE n == Len(entries)
           here(i) == entries[i].index
           spliced(i) == (IF HasIndex(l, here(i))
                          THEN SubSeq(l, 1, Position(l, here(i)) - 1)
                          ELSE l) \o SubSeq(entries, i, n)
           body(f) == [i \in 1 .. n + 1 |->
             IF i > n
             THEN l
             ELSE IF ~ HasIndex(l, here(i))
             THEN l \o SubSeq(entries, i, n)
             ELSE IF l[Position(l, here(i))].term # entries[i].term
             THEN SubSeq(l, 1, Position(l, here(i)) - 1) \o SubSeq(entries, i, n)
             ELSE f[i + 1]]
           stops(i) == {k \in i .. n : StopsAt(l, entries, k)}
           first(S) == CHOOSE k \in S : \A j \in S : k <= j
           g == [i \in 1 .. n + 1 |->
                   IF stops(i) = {} THEN l ELSE spliced(first(stops(i)))]
<1>0. n \in Nat /\ DOMAIN entries = 1 .. n
  OBVIOUS
<1>1. g = body(g)
  <2> SUFFICES ASSUME NEW i \in 1 .. n + 1 PROVE g[i] = body(g)[i]
    OBVIOUS
  <2>1. CASE i > n
    <3>1. stops(i) = {}
      BY <1>0, <2>1
    <3> QED BY <2>1, <3>1
  <2>2. CASE i <= n /\ StopsAt(l, entries, i)
    <3>1. i \in stops(i) /\ \A k \in stops(i) : k \in Nat /\ i <= k
      BY <1>0, <2>2
    <3>2. first(stops(i)) = i
      <4> DEFINE S == stops(i)
      <4>1. i \in S /\ \A k \in S : k \in Nat /\ i <= k
        BY <3>1
      <4> HIDE DEF S
      <4>2. \A k \in S : (\A j \in S : k <= j) => k = i
        BY <1>0, <4>1
      <4>3. first(S) = i
        BY <4>1, <4>2
      <4> QED BY <4>3 DEF S
    <3>3. g[i] = spliced(i)
      BY <3>1, <3>2
    <3>4. body(g)[i] = spliced(i)
      <4> HIDE DEF g
      <4>1. CASE ~ HasIndex(l, here(i))
        BY <1>0, <2>2, <4>1
      <4>2. CASE HasIndex(l, here(i))
        <5>1. l[Position(l, here(i))].term # entries[i].term
          BY <2>2, <4>2 DEF StopsAt
        <5>2. ~ (i > n)
          BY <1>0, <2>2
        <5>3. spliced(i) = SubSeq(l, 1, Position(l, here(i)) - 1)
                             \o SubSeq(entries, i, n)
          BY <4>2, Zenon
        <5>4. body(g)[i] = SubSeq(l, 1, Position(l, here(i)) - 1)
                             \o SubSeq(entries, i, n)
          BY <4>2, <5>1, <5>2, Zenon
        <5> QED BY <5>3, <5>4, Zenon
      <4> QED BY <4>1, <4>2
    <3> HIDE DEF g, body, spliced
    <3> QED BY <3>3, <3>4
  <2>3. CASE i <= n /\ ~ StopsAt(l, entries, i)
    <3>1. stops(i) = stops(i + 1) /\ i + 1 \in 1 .. n + 1
      BY <1>0, <2>3
    <3>2. g[i] = g[i + 1]
      <4> HIDE DEF stops, spliced
      <4> QED BY <3>1
    <3>3. body(g)[i] = g[i + 1]
      <4> HIDE DEF g
      <4> QED BY <1>0, <2>3 DEF StopsAt
    <3> QED BY <3>2, <3>3
  <2> HIDE DEF g, body
  <2>4. i > n \/ i <= n
    BY <1>0
  <2> QED BY <2>1, <2>2, <2>3, <2>4
<1>2. PICK f : f = body(f) /\ ReconcileLoop(l, entries) = f[1]
  <2> HIDE DEF g
  <2> QED BY <1>1 DEF ReconcileLoop
<1>3. f[1] = g[1]
  <2>1. ASSUME NEW i \in 0 .. n, f[i + 1] = g[i + 1], i # 0
        PROVE  f[i] = g[i]
    <3>1. i \in 1 .. n + 1 /\ i + 1 \in 1 .. n + 1 /\ i <= n
      BY <1>0, <2>1
    <3>2. body(f)[i] = body(g)[i]
      <4> HIDE DEF g
      <4> QED BY <2>1, <3>1
    <3> HIDE DEF g, body
    <3> QED BY <1>1, <1>2, <3>2
  <2>2. f[n + 1] = g[n + 1]
    <3>1. n + 1 \in 1 .. n + 1 /\ n + 1 > n
      BY <1>0
    <3>2. body(f)[n + 1] = l /\ body(g)[n + 1] = l
      <4> HIDE DEF g
      <4> QED BY <3>1
    <3> HIDE DEF g, body
    <3> QED BY <1>1, <1>2, <3>2
  <2> HIDE DEF n, g, body
  <2>3. \A i \in 1 .. n + 1 : f[i] = g[i]
    <3> DEFINE F == [i \in 0 .. n |-> f[i + 1]]
               G == [i \in 0 .. n |-> g[i + 1]]
    <3>1. F[n] = G[n]
      BY <1>0, <2>2
    <3>2. ASSUME NEW i \in 0 .. n - 1, F[i + 1] = G[i + 1]
          PROVE  F[i] = G[i]
      <4>1. i + 1 \in 0 .. n /\ i \in 0 .. n /\ i + 1 # 0
        BY <1>0
      <4>2. f[i + 1 + 1] = g[i + 1 + 1]
        BY <3>2, <4>1
      <4> QED BY <2>1, <4>1, <4>2
    <3>3. \A i \in 0 .. n : F[i] = G[i]
      <4> HIDE DEF F, G
      <4>1. AgreeFromTop(F, G, n)
        BY <3>1, <3>2 DEF AgreeFromTop
      <4> QED BY <1>0, <4>1, AgreeDownwards DEF Agree
    <3> SUFFICES ASSUME NEW i \in 1 .. n + 1 PROVE f[i] = g[i]
      OBVIOUS
    <3>4. i - 1 \in 0 .. n /\ i - 1 + 1 = i
      BY <1>0
    <3> QED BY <3>3, <3>4
  <2> QED BY <1>0, <2>3
<1>4. g[1] = Reconcile(l, entries)
  <2>1. stops(1) = {i \in DOMAIN entries : StopsAt(l, entries, i)}
    BY <1>0
  <2>2. g[1] = IF stops(1) = {} THEN l ELSE spliced(first(stops(1)))
    BY <1>0
  <2> DEFINE S == {i \in DOMAIN entries : StopsAt(l, entries, i)}
  <2>3. Reconcile(l, entries) = IF S = {} THEN l ELSE spliced(first(S))
    BY DEF Reconcile
  <2>4. stops(1) = S
    BY <2>1
  <2> HIDE DEF S, stops, g, spliced
  <2> QED BY <2>2, <2>3, <2>4
<1> QED BY <1>2, <1>3, <1>4

(***************************************************************************)
(* EntriesFrom is the filter of append_entries_for_peer.                   *)
(***************************************************************************)
LEMMA EntriesFromIsLoop ==
  ASSUME NEW C, NEW l \in Seq(LogEntryOf(C)), Contiguous(l, 0),
         NEW next \in Nat \ {0}
  PROVE  EntriesFrom(l, next) = FilterLoop(l, next)
<1> DEFINE n == Len(l)
           body(f) == [k \in 0 .. n |->
             IF k = 0
             THEN << >>
             ELSE IF l[k].index >= next
             THEN Append(f[k - 1], l[k])
             ELSE f[k - 1]]
           g == [k \in 0 .. n |-> SubSeq(l, next, k)]
<1>0. n \in Nat /\ \A k \in 1 .. n : l[k].index = k /\ l[k] \in LogEntryOf(C)
  BY DEF Contiguous
<1>1. g = body(g)
  <2> SUFFICES ASSUME NEW k \in 0 .. n PROVE g[k] = body(g)[k]
    OBVIOUS
  <2>1. CASE k = 0
    <3>1. g[k] = << >>
      BY <2>1, SubSeqEmpty
    <3> QED BY <2>1, <3>1
  <2>2. CASE k # 0 /\ k >= next
    <3>1. next \in 1 .. n /\ k \in next .. n /\ k - 1 \in 0 .. n /\ k \in 1 .. n
      BY <1>0, <2>2
    <3>2. SubSeq(l, next, k) = SubSeq(l, next, k - 1) \o <<l[k]>>
      BY <3>1, SubSeqRecursiveSecond
    <3>3. SubSeq(l, next, k - 1) \in Seq(LogEntryOf(C))
      BY <1>0, <3>1, SubSeqProperties
    <3>4. SubSeq(l, next, k) = Append(SubSeq(l, next, k - 1), l[k])
      BY <1>0, <3>1, <3>2, <3>3, AppendIsConcat
    <3>5. body(g)[k] = Append(g[k - 1], l[k])
      <4> HIDE DEF g
      <4> QED BY <1>0, <2>2, <3>1
    <3> HIDE DEF body
    <3> QED BY <3>1, <3>4, <3>5
  <2>3. CASE k # 0 /\ k < next
    <3>1. k - 1 \in 0 .. n /\ k - 1 < next /\ k \in 1 .. n /\ ~ (k >= next)
      BY <1>0, <2>3
    <3>2. g[k] = << >> /\ g[k - 1] = << >>
      BY <2>3, <3>1, SubSeqEmpty
    <3>3. body(g)[k] = g[k - 1]
      <4> HIDE DEF g
      <4> QED BY <1>0, <2>3, <3>1
    <3> HIDE DEF g, body
    <3> QED BY <3>2, <3>3
  <2> HIDE DEF g, body
  <2> QED BY <1>0, <2>1, <2>2, <2>3
<1>2. PICK f : f = body(f) /\ FilterLoop(l, next) = f[n]
  <2> HIDE DEF g
  <2> QED BY <1>1 DEF FilterLoop
<1>3. f[n] = g[n]
  <2>1. f[0] = g[0]
    <3>1. body(f)[0] = << >> /\ body(g)[0] = << >>
      <4> HIDE DEF g
      <4> QED BY <1>0
    <3> HIDE DEF g, body
    <3> QED BY <1>1, <1>2, <3>1
  <2>2. ASSUME NEW k \in 1 .. n, f[k - 1] = g[k - 1] PROVE f[k] = g[k]
    <3>1. body(f)[k] = body(g)[k]
      <4> HIDE DEF g
      <4> QED BY <1>0, <2>2
    <3> HIDE DEF g, body
    <3> QED BY <1>1, <1>2, <3>1
  <2> HIDE DEF n, g, body
  <2>3. \A k \in 0 .. n : f[k] = g[k]
    <3>1. n \in Nat
      BY <1>0
    <3>2. AgreeFromZero(f, g, n)
      BY <2>1, <2>2 DEF AgreeFromZero
    <3> QED BY <3>1, <3>2, AgreeUpwards DEF Agree
  <2> QED BY <1>0, <2>3
<1>4. g[n] = EntriesFrom(l, next)
  BY <1>0, EntriesFromRest
<1> QED BY <1>2, <1>3, <1>4

(***************************************************************************)
(* LeaderCommit is the loop of try_advance_commit_index.                   *)
(***************************************************************************)
LEMMA LeaderCommitIsLoop ==
  ASSUME NEW C, NEW l \in Seq(LogEntryOf(C)), Contiguous(l, 0),
         NEW term, NEW commit \in Nat, NEW match, NEW peers
  PROVE  LeaderCommit(l, term, commit, match, peers)
           = CommitLoop(l, term, commit, match, peers)
<1> DEFINE n == Len(l)
           held(k) == 1 + Cardinality({p \in peers : match[p] >= l[k].index})
                        >= quorum(Cardinality(peers))
           body(f) == [k \in 0 .. n |->
             IF k = 0
             THEN commit
             ELSE IF l[k].index <= commit
             THEN commit
             ELSE IF l[k].term # term
             THEN f[k - 1]
             ELSE IF held(k)
             THEN l[k].index
             ELSE f[k - 1]]
           may(k) == {j \in 1 .. k : l[j].index > commit /\ l[j].term = term
                                       /\ held(j)}
           last(S) == CHOOSE k \in S : \A j \in S : j <= k
           g == [k \in 0 .. n |->
                   IF may(k) = {} THEN commit ELSE l[last(may(k))].index]
<1>0. n \in Nat /\ DOMAIN l = 1 .. n /\ \A k \in 1 .. n : l[k].index = k
  BY DEF Contiguous
<1> HIDE DEF held
<1>1. g = body(g)
  <2> SUFFICES ASSUME NEW k \in 0 .. n PROVE g[k] = body(g)[k]
    OBVIOUS
  <2>1. CASE k = 0
    <3>1. may(k) = {}
      BY <2>1
    <3> QED BY <2>1, <3>1
  <2>2. CASE k # 0 /\ k <= commit
    <3>1. k \in 1 .. n /\ l[k].index <= commit
      BY <1>0, <2>2
    <3>2. may(k) = {}
      <4>1. ASSUME NEW j \in 1 .. k PROVE ~ (l[j].index > commit)
        <5>1. j \in 1 .. n /\ j <= commit
          BY <1>0, <2>2
        <5> QED BY <1>0, <5>1
      <4> QED BY <4>1
    <3>3. body(g)[k] = commit
      <4> HIDE DEF g
      <4> QED BY <2>2, <3>1
    <3> HIDE DEF body, may
    <3> QED BY <3>2, <3>3
  <2>3. CASE k > commit /\ l[k].term = term /\ held(k)
    <3>1. k \in 1 .. n /\ l[k].index = k /\ ~ (k <= commit) /\ k # 0
      BY <1>0, <2>3
    <3>2. k \in may(k) /\ \A j \in may(k) : j \in Nat /\ j <= k
      BY <1>0, <2>3, <3>1
    <3>3. last(may(k)) = k
      <4> DEFINE S == may(k)
      <4>1. k \in S /\ (\A j \in S : j \in Nat /\ j <= k) /\ k \in Nat
        BY <3>2
      <4> HIDE DEF S
      <4>2. \A j \in S : (\A i \in S : i <= j) => j = k
        BY <4>1
      <4>3. last(S) = k
        BY <4>1, <4>2
      <4> QED BY <4>3 DEF S
    <3>4. g[k] = l[k].index
      <4>1. may(k) # {}
        BY <3>2
      <4> HIDE DEF may, last
      <4> QED BY <3>3, <4>1
    <3>5. body(g)[k] = l[k].index
      <4> HIDE DEF g
      <4> QED BY <2>3, <3>1
    <3> HIDE DEF g, body
    <3> QED BY <3>4, <3>5
  <2>4. CASE k > commit /\ ~ (l[k].term = term /\ held(k))
    <3>1. /\ k \in 1 .. n /\ l[k].index = k /\ ~ (k <= commit) /\ k # 0
          /\ k - 1 \in 0 .. n
      BY <1>0, <2>4
    <3>2. may(k) = may(k - 1)
      BY <2>4, <3>1
    <3>3. g[k] = g[k - 1]
      <4> HIDE DEF may, last
      <4> QED BY <3>1, <3>2
    <3>4. body(g)[k] = g[k - 1]
      <4> HIDE DEF g
      <4> QED BY <2>4, <3>1
    <3> HIDE DEF g, body
    <3> QED BY <3>3, <3>4
  <2> HIDE DEF g, body
  <2>5. k = 0 \/ (k # 0 /\ k <= commit) \/ k > commit
    BY <1>0
  <2> QED BY <2>1, <2>2, <2>3, <2>4, <2>5
<1>2. PICK f : f = body(f) /\ CommitLoop(l, term, commit, match, peers) = f[n]
  <2> HIDE DEF g
  <2> QED BY <1>1 DEF CommitLoop, held
<1>3. f[n] = g[n]
  <2>1. f[0] = g[0]
    <3>1. body(f)[0] = commit /\ body(g)[0] = commit
      <4> HIDE DEF g
      <4> QED BY <1>0
    <3> HIDE DEF g, body
    <3> QED BY <1>1, <1>2, <3>1
  <2>2. ASSUME NEW k \in 1 .. n, f[k - 1] = g[k - 1] PROVE f[k] = g[k]
    <3>1. body(f)[k] = body(g)[k]
      <4> HIDE DEF g
      <4> QED BY <1>0, <2>2
    <3> HIDE DEF g, body
    <3> QED BY <1>1, <1>2, <3>1
  <2> HIDE DEF n, g, body
  <2>3. \A k \in 0 .. n : f[k] = g[k]
    <3>1. n \in Nat
      BY <1>0
    <3>2. AgreeFromZero(f, g, n)
      BY <2>1, <2>2 DEF AgreeFromZero
    <3> QED BY <3>1, <3>2, AgreeUpwards DEF Agree
  <2> QED BY <1>0, <2>3
<1>4. g[n] = LeaderCommit(l, term, commit, match, peers)
  <2> DEFINE S == Committable(l, term, commit, match, peers)
  <2>1. may(n) = S
    BY <1>0 DEF Committable, Replicated, held
  <2>2. g[n] = IF may(n) = {} THEN commit ELSE l[last(may(n))].index
    BY <1>0
  <2>3. LeaderCommit(l, term, commit, match, peers)
          = IF S = {} THEN commit ELSE l[last(S)].index
    BY DEF LeaderCommit
  <2> HIDE DEF S, may, g, last
  <2> QED BY <2>1, <2>2, <2>3
<1> QED BY <1>2, <1>3, <1>4

\* The last index apply_committed_entries finds an entry for.
Reach(l, commit) == IF commit <= Len(l) THEN commit ELSE Len(l)

\* s holds the commands of l after `done', up to `top'.
Hands(s, l, done, top) ==
  /\ done >= top => s = << >>
  /\ done <= top =>
       /\ Len(s) = top - done
       /\ \A k \in 1 .. top - done : s[k] = l[done + k].command

(***************************************************************************)
(* What CommandsToApply returns when the commit index may be past the end  *)
(* of the log, or behind what is applied already.                          *)
(***************************************************************************)
LEMMA CommandsUpTo ==
  ASSUME NEW C, NEW l \in Seq(LogEntryOf(C)), Contiguous(l, 0),
         NEW done \in Nat, NEW commit \in Nat
  PROVE  /\ CommandsToApply(l, done, commit) \in Seq(C)
         /\ Hands(CommandsToApply(l, done, commit), l, done, Reach(l, commit))
<1>0. PICK top \in Nat : top = Reach(l, commit)
  BY DEF Reach
<1>9. PICK s : s = CommandsToApply(l, done, commit)
  OBVIOUS
<1>1. last_log_index(l) = Len(l) /\ Len(l) \in Nat
  BY LastEntry
<1>2. s = [k \in 1 .. (top - done) |-> l[Position(l, done + k)].command]
  BY <1>0, <1>9, <1>1 DEF CommandsToApply, Reach
<1>3. s \in Seq(C)
  BY <1>9, CommandsToApplyType
<1>4. ASSUME done >= top PROVE s = << >>
  <2>1. 1 .. (top - done) = {}
    BY <1>4
  <2>2. DOMAIN s = {}
    BY <1>2, <2>1
  <2>3. Len(s) = 0
    BY <1>3, <2>2
  <2> QED BY <1>3, <2>3, EmptySeq
<1>5. ASSUME done <= top
      PROVE  /\ Len(s) = top - done
             /\ \A k \in 1 .. top - done : s[k] = l[done + k].command
  <2>1. DOMAIN s = 1 .. (top - done) /\ top - done \in Nat
    BY <1>2, <1>5
  <2>2. Len(s) = top - done
    BY <1>3, <2>1, LenProperties
  <2>3. ASSUME NEW k \in 1 .. top - done
        PROVE  s[k] = l[done + k].command
    <3>1. done + k \in 1 .. Len(l) /\ done + k \in Nat
      BY <1>0, <1>1, <1>5 DEF Reach
    <3>2. Position(l, done + k) = done + k
      BY <3>1, SearchByIndex
    <3> QED BY <1>2, <3>2
  <2> QED BY <2>2, <2>3
<1>6. Hands(s, l, done, top)
  BY <1>4, <1>5 DEF Hands
<1> QED BY <1>0, <1>3, <1>6, <1>9

(***************************************************************************)
(* CommandsToApply is the loop of apply_committed_entries.                 *)
(***************************************************************************)
LEMMA CommandsToApplyIsLoop ==
  ASSUME NEW C, NEW l \in Seq(LogEntryOf(C)), Contiguous(l, 0),
         NEW applied \in Nat, NEW commit \in Nat
  PROVE  CommandsToApply(l, applied, commit) = ApplyLoop(l, applied, commit)
<1> DEFINE now(d) == IF HasIndex(l, d + 1)
                     THEN <<l[Position(l, d + 1)].command>>
                     ELSE << >>
           body(f) == [d \in Nat |->
                         IF d >= commit THEN << >> ELSE now(d) \o f[d + 1]]
           g == [d \in Nat |-> CommandsToApply(l, d, commit)]
<1>0. PICK top \in Nat : top = Reach(l, commit)
  BY DEF Reach
<1>1. /\ Len(l) \in Nat /\ top <= commit /\ top <= Len(l)
      /\ top = commit \/ top = Len(l)
  BY <1>0 DEF Reach
<1>2. g = body(g)
  <2> SUFFICES ASSUME NEW d \in Nat PROVE g[d] = body(g)[d]
    OBVIOUS
  <2>1. PICK s : s = CommandsToApply(l, d, commit)
    OBVIOUS
  <2>2. PICK t : t = CommandsToApply(l, d + 1, commit)
    OBVIOUS
  <2>3. g[d] = s /\ g[d + 1] = t
    BY <2>1, <2>2
  <2>4. /\ s \in Seq(C)
        /\ d >= top => s = << >>
        /\ d <= top => /\ Len(s) = top - d
                       /\ \A k \in 1 .. top - d : s[k] = l[d + k].command
    <3>1. s \in Seq(C) /\ Hands(s, l, d, top)
      BY <1>0, <2>1, CommandsUpTo
    <3> QED BY <3>1 DEF Hands
  <2>5. /\ t \in Seq(C)
        /\ d + 1 >= top => t = << >>
        /\ d + 1 <= top =>
             /\ Len(t) = top - (d + 1)
             /\ \A k \in 1 .. top - (d + 1) : t[k] = l[d + 1 + k].command
    <3>1. d + 1 \in Nat
      OBVIOUS
    <3>2. t \in Seq(C) /\ Hands(t, l, d + 1, top)
      BY <1>0, <2>2, <3>1, CommandsUpTo
    <3> QED BY <3>2 DEF Hands
  <2>6. CASE d >= commit
    <3>1. s = << >>
      BY <1>1, <2>4, <2>6
    <3>2. body(g)[d] = << >>
      <4> HIDE DEF g, now
      <4> QED BY <2>6
    <3> HIDE DEF g, body
    <3> QED BY <2>3, <3>1, <3>2
  <2>7. CASE d < commit /\ d >= Len(l)
    <3>1. s = << >> /\ t = << >>
      BY <1>1, <2>4, <2>5, <2>7
    <3>2. now(d) = << >>
      <4>1. ~ HasIndex(l, d + 1)
        BY <1>1, <2>7, SearchByIndex
      <4> QED BY <4>1
    <3>3. body(g)[d] = now(d) \o g[d + 1]
      <4> HIDE DEF g, now
      <4> QED BY <2>7
    <3> HIDE DEF g, body, now
    <3>4. body(g)[d] = << >> \o << >>
      BY <2>3, <3>1, <3>2, <3>3
    <3>5. << >> \o << >> = << >>
      OBVIOUS
    <3> QED BY <2>3, <3>1, <3>4, <3>5
  <2>8. CASE d < commit /\ d < Len(l)
    <3>1. d + 1 <= top /\ d <= top /\ d + 1 \in 1 .. Len(l)
      BY <1>1, <2>8
    <3> DEFINE c == l[d + 1].command
    <3>2. now(d) = <<c>>
      <4>1. HasIndex(l, d + 1) /\ Position(l, d + 1) = d + 1
        BY <3>1, SearchByIndex
      <4> QED BY <4>1
    <3>3. body(g)[d] = now(d) \o g[d + 1]
      <4>1. ~ (d >= commit)
        BY <2>8
      <4> HIDE DEF g, now
      <4> QED BY <4>1
    <3>4. c \in C
      <4>1. l[d + 1] \in LogEntryOf(C)
        BY <3>1
      <4> QED BY <4>1 DEF LogEntryOf
    <3>5. s = <<c>> \o t
      <4> HIDE DEF c
      <4>1. /\ <<c>> \in Seq(C) /\ Len(<<c>>) = 1 /\ <<c>>[1] = c
        BY <3>4
      <4>2. /\ <<c>> \o t \in Seq(C) /\ Len(<<c>> \o t) = 1 + Len(t)
            /\ \A k \in 1 .. 1 + Len(t) :
                 (<<c>> \o t)[k] = IF k <= 1 THEN <<c>>[k] ELSE t[k - 1]
        BY <2>5, <4>1, ConcatProperties
      <4>3. Len(<<c>> \o t) = Len(s) /\ Len(s) = top - d
        BY <2>4, <2>5, <3>1, <4>2
      <4>4. ASSUME NEW k \in 1 .. Len(s) PROVE s[k] = (<<c>> \o t)[k]
        <5>1. CASE k = 1
          <6>1. s[1] = l[d + 1].command
            BY <2>4, <3>1, <4>3
          <6>2. (<<c>> \o t)[1] = c
            BY <2>5, <4>1, <4>2
          <6> QED BY <5>1, <6>1, <6>2 DEF c
        <5>2. CASE k # 1
          <6>1. /\ k - 1 \in 1 .. top - (d + 1) /\ d + 1 + (k - 1) = d + k
                /\ k \in 1 .. top - d /\ k \in 1 .. 1 + Len(t) /\ ~ (k <= 1)
            BY <2>5, <3>1, <4>3, <5>2
          <6>2. t[k - 1] = l[d + k].command /\ s[k] = l[d + k].command
            BY <2>4, <2>5, <3>1, <6>1
          <6> QED BY <4>2, <6>1, <6>2
        <5> QED BY <5>1, <5>2
      <4> QED BY <2>4, <4>2, <4>3, <4>4, SeqEqual
    <3> HIDE DEF g, body, now, c
    <3> QED BY <2>3, <3>2, <3>3, <3>5
  <2> HIDE DEF g, body, now
  <2>9. \/ d >= commit
        \/ d < commit /\ d >= Len(l)
        \/ d < commit /\ d < Len(l)
    BY <1>1
  <2> QED BY <2>6, <2>7, <2>8, <2>9
<1>3. PICK f : f = body(f) /\ ApplyLoop(l, applied, commit) = f[applied]
  <2> HIDE DEF g
  <2> QED BY <1>2 DEF ApplyLoop
<1>4. ASSUME NEW d \in Nat, d >= commit PROVE f[d] = g[d]
  <2>1. body(f)[d] = << >> /\ body(g)[d] = << >>
    <3> HIDE DEF g, now
    <3> QED BY <1>4
  <2> HIDE DEF g, body
  <2> QED BY <1>2, <1>3, <2>1
<1>5. ASSUME NEW d \in 0 .. commit - 1, f[d + 1] = g[d + 1] PROVE f[d] = g[d]
  <2>1. body(f)[d] = body(g)[d]
    <3> HIDE DEF g, now
    <3> QED BY <1>5
  <2> HIDE DEF g, body
  <2> QED BY <1>2, <1>3, <2>1
<1>6. f[applied] = g[applied]
  <2> HIDE DEF g, body
  <2>1. f[commit] = g[commit]
    BY <1>4
  <2>2. AgreeFromTop(f, g, commit)
    BY <1>5, <2>1 DEF AgreeFromTop
  <2>3. \A d \in 0 .. commit : f[d] = g[d]
    BY <2>2, AgreeDownwards DEF Agree
  <2>4. applied >= commit \/ applied \in 0 .. commit
    OBVIOUS
  <2> QED BY <1>4, <2>3, <2>4
<1> QED BY <1>3, <1>6

----------------------------------------------------------------------------
(* A message between two logs of one cluster                               *)

(***************************************************************************)
(* Logs that agree on the term of an entry agree up to it.                 *)
(***************************************************************************)
LEMMA CompatiblePrefix ==
  ASSUME NEW C, NEW l1 \in Seq(LogEntryOf(C)), NEW l2 \in Seq(LogEntryOf(C)),
         Compatible(l1, l2), NEW k \in 1 .. Len(l1), k \in 1 .. Len(l2),
         l1[k].term = l2[k].term
  PROVE  \A j \in 1 .. k : l1[j] = l2[j]
<1>1. SubSeq(l1, 1, k) = SubSeq(l2, 1, k)
  <2>1. k \in DOMAIN l1 \cap DOMAIN l2
    OBVIOUS
  <2> QED BY <2>1 DEF Compatible
<1>2. ASSUME NEW l \in Seq(LogEntryOf(C)), k <= Len(l)
      PROVE  \A j \in 1 .. k : SubSeq(l, 1, k)[j] = l[j]
  <2>1. \A i \in 1 .. k : l[i] \in LogEntryOf(C)
    BY <1>2
  <2>2. \A i \in 1 .. k - 1 + 1 : SubSeq(l, 1, k)[i] = l[1 + i - 1]
    BY <2>1, SubSeqProperties
  <2>3. \A j \in 1 .. k : j \in 1 .. k - 1 + 1 /\ 1 + j - 1 = j
    OBVIOUS
  <2> QED BY <2>2, <2>3
<1>3. k <= Len(l1) /\ k <= Len(l2)
  OBVIOUS
<1>4. /\ \A j \in 1 .. k : SubSeq(l1, 1, k)[j] = l1[j]
      /\ \A j \in 1 .. k : SubSeq(l2, 1, k)[j] = l2[j]
  BY <1>2, <1>3
<1> QED BY <1>1, <1>4

(***************************************************************************)
(* A message that passes the consistency check turns the receiver's log    *)
(* into the sender's, or leaves it, when it begins with the sender's.      *)
(***************************************************************************)
LEMMA ReconcileCopies ==
  ASSUME NEW C, NEW mine \in Seq(LogEntryOf(C)), Contiguous(mine, 0),
         NEW theirs \in Seq(LogEntryOf(C)), Contiguous(theirs, 0),
         Compatible(mine, theirs), NEW next \in 1 .. Len(theirs) + 1,
         log_matches(mine, PrevLogIndex(next), PrevLogTerm(theirs, next)),
         NEW R, R = Reconcile(mine, EntriesFrom(theirs, next))
  PROVE  SubSeq(R, 1, Len(theirs)) = theirs /\ R \in {theirs, mine}
<1>1. PICK e, prev, n : /\ e = EntriesFrom(theirs, next)
                        /\ prev = next - 1 /\ n = Len(theirs)
  OBVIOUS
<1>2. /\ prev \in Nat /\ n \in Nat /\ prev <= n /\ next \in Nat \ {0}
      /\ next - 1 <= Len(theirs)
  BY <1>1
<1>3. /\ PrevLogIndex(next) = prev /\ prev + Len(e) = n
      /\ \A k \in DOMAIN e : e[k] = theirs[prev + k]
      /\ prev > 0 => PrevLogTerm(theirs, next) = theirs[prev].term
  <2>1. /\ PrevLogIndex(next) = next - 1 /\ next - 1 + Len(e) = Len(theirs)
        /\ \A k \in DOMAIN e : e[k] = theirs[next - 1 + k]
        /\ next - 1 > 0 => PrevLogTerm(theirs, next) = theirs[next - 1].term
    BY <1>1, <1>2, EntriesFromSlice, SMTT(40)
  <2> QED BY <1>1, <2>1
<1>4. e \in Seq(LogEntryOf(C)) /\ Contiguous(e, prev)
  BY <1>1, <1>2, <1>3, EntriesFromContinue
<1>5. /\ Len(e) \in Nat /\ DOMAIN e = 1 .. Len(e) /\ Len(mine) \in Nat
      /\ DOMAIN mine = 1 .. Len(mine)
      /\ \A k \in 1 .. Len(mine) : mine[k].index = k
  BY <1>4 DEF Contiguous
<1>6. prev <= Len(mine) /\ \A j \in 1 .. prev : mine[j] = theirs[j]
  <2>1. CASE prev = 0
    BY <1>5, <2>1
  <2>2. CASE prev # 0
    <3>1. PICK k \in 1 .. Len(mine) :
            mine[k].index = prev /\ mine[k].term = theirs[prev].term
      BY <1>2, <1>3, <1>5, <2>2 DEF log_matches
    <3>2. k = prev /\ prev \in 1 .. Len(theirs)
      BY <1>1, <1>2, <1>5, <2>2, <3>1
    <3> QED BY <3>1, <3>2, CompatiblePrefix
  <2> QED BY <2>1, <2>2
<1>7. ASSUME NEW a \in 0 .. Len(e), prev + a <= Len(mine),
             \A b \in 1 .. a : mine[prev + b].term = e[b].term
      PROVE  \A j \in 1 .. prev + a : mine[j] = theirs[j]
  <2>1. CASE a = 0
    BY <1>2, <1>6, <2>1
  <2>2. CASE a # 0
    <3>1. /\ a \in 1 .. Len(e) /\ prev + a \in 1 .. Len(mine)
          /\ prev + a \in 1 .. Len(theirs)
      BY <1>1, <1>2, <1>3, <1>5, <1>7, <2>2
    <3>2. mine[prev + a].term = theirs[prev + a].term
      <4>1. a \in 1 .. a /\ e[a] = theirs[prev + a]
        BY <1>3, <1>5, <3>1
      <4> QED BY <1>7, <4>1
    <3> QED BY <3>1, <3>2, CompatiblePrefix
  <2> QED BY <2>1, <2>2
<1>8. SubSeq(theirs, 1, n) = theirs
  BY <1>1, SubSeqFull
<1>9. /\ R \in Seq(LogEntryOf(C))
      /\ \/ /\ R = mine /\ prev + Len(e) <= Len(mine)
            /\ \A a \in 1 .. Len(e) : mine[prev + a].term = e[a].term
         \/ \E first \in 1 .. Len(e) : Spliced(mine, e, prev, first, R)
  BY <1>1, <1>2, <1>4, <1>6, ReconcileResult
<1>10. CASE /\ R = mine /\ prev + Len(e) <= Len(mine)
            /\ \A a \in 1 .. Len(e) : mine[prev + a].term = e[a].term
  <2>1. \A j \in 1 .. n : mine[j] = theirs[j]
    <3>1. Len(e) \in 0 .. Len(e)
      BY <1>5
    <3> QED BY <1>3, <1>7, <1>10, <3>1
  <2>2. /\ SubSeq(mine, 1, n) \in Seq(LogEntryOf(C))
        /\ Len(SubSeq(mine, 1, n)) = n
        /\ \A j \in 1 .. n : SubSeq(mine, 1, n)[j] = mine[j]
    <3>1. \A i \in 1 .. n : mine[i] \in LogEntryOf(C)
      BY <1>2, <1>3, <1>5, <1>10
    <3>2. /\ SubSeq(mine, 1, n) \in Seq(LogEntryOf(C))
          /\ Len(SubSeq(mine, 1, n)) = IF 1 <= n THEN n - 1 + 1 ELSE 0
          /\ \A i \in 1 .. n - 1 + 1 : SubSeq(mine, 1, n)[i] = mine[1 + i - 1]
      BY <1>2, <3>1, SubSeqProperties
    <3>3. /\ n = IF 1 <= n THEN n - 1 + 1 ELSE 0
          /\ \A i \in 1 .. n : i \in 1 .. n - 1 + 1 /\ 1 + i - 1 = i
      BY <1>2
    <3> QED BY <3>2, <3>3
  <2>3. SubSeq(mine, 1, n) = theirs
    BY <1>1, <2>1, <2>2, SeqEqual
  <2> QED BY <1>1, <1>10, <2>3
<1>11. ASSUME NEW first \in 1 .. Len(e), Spliced(mine, e, prev, first, R)
       PROVE  R = theirs
  <2>1. /\ first - 1 \in 0 .. Len(e) /\ prev + (first - 1) = prev + first - 1
        /\ prev + first - 1 <= Len(mine)
        /\ \A b \in 1 .. first - 1 : mine[prev + b].term = e[b].term
        /\ Len(R) = prev + Len(e)
        /\ \A k \in 1 .. prev + first - 1 : R[k] = mine[k]
        /\ \A k \in prev + first .. prev + Len(e) : R[k] = e[k - prev]
    BY <1>2, <1>5, <1>11 DEF Spliced
  <2>2. \A j \in 1 .. prev + first - 1 : mine[j] = theirs[j]
    BY <1>7, <2>1
  <2>3. ASSUME NEW k \in 1 .. n PROVE R[k] = theirs[k]
    <3>1. CASE k \in 1 .. prev + first - 1
      BY <2>1, <2>2, <3>1
    <3>2. CASE k \in prev + first .. prev + Len(e)
      <4>1. k - prev \in 1 .. Len(e) /\ prev + (k - prev) = k
        BY <1>2, <1>5, <3>2
      <4>2. e[k - prev] = theirs[k]
        BY <1>3, <1>5, <4>1
      <4> QED BY <2>1, <3>2, <4>2
    <3>3. k \in 1 .. prev + first - 1 \/ k \in prev + first .. prev + Len(e)
      BY <1>2, <1>3, <1>5
    <3> QED BY <3>1, <3>2, <3>3
  <2> QED BY <1>1, <1>3, <1>9, <2>1, <2>3, SeqEqual
<1> QED BY <1>1, <1>8, <1>9, <1>10, <1>11

----------------------------------------------------------------------------
(* The cases                                                               *)

\* What the proofs use of a case.
CaseInv ==
  /\ case.mine \in Seq(LogEntryOf(Command)) /\ Contiguous(case.mine, 0)
  /\ case.theirs \in Seq(LogEntryOf(Command)) /\ Contiguous(case.theirs, 0)
  /\ Compatible(case.mine, case.theirs)
  /\ case.next \in 1 .. Len(case.theirs) + 1
  /\ case.commit \in Nat

(***************************************************************************)
(* The logs of the cases are contiguous.                                   *)
(***************************************************************************)
LEMMA CaseLogs ==
  ASSUME NEW l \in AllLogs
  PROVE  l \in Seq(LogEntryOf(Command)) /\ Contiguous(l, 0)
<1>1. PICK n \in Nat : l \in LogsOfLength(n)
  BY DEF AllLogs
<1>2. PICK terms \in [1 .. n -> 1 .. MaxTerm],
           commands \in [1 .. n -> Command] : l = LogOf(terms, commands)
  BY <1>1 DEF LogsOfLength
<1>3. l = [k \in 1 .. n |->
             [term |-> terms[k], index |-> k, command |-> commands[k]]]
  BY <1>2 DEF LogOf
<1>4. \A k \in 1 .. n : l[k] \in LogEntryOf(Command) /\ l[k].index = k
  BY <1>2, <1>3, CaseAssumption DEF LogEntryOf
<1>5. l \in [1 .. n -> LogEntryOf(Command)]
  BY <1>3, <1>4
<1> QED BY <1>4, <1>5, IsASeq DEF Contiguous

(***************************************************************************)
(* Every case has what the proofs use.                                     *)
(***************************************************************************)
LEMMA CaseInvariant == Spec => []CaseInv
<1>1. Init => CaseInv
  BY CaseLogs DEF Init, CaseInv
<1>2. CaseInv /\ [Next]_case => CaseInv'
  BY DEF CaseInv, Next
<1> QED BY <1>1, <1>2, PTL DEF Spec

(***************************************************************************)
(* For logs of any length: Reconcile is the loop of handle_append_entries, *)
(* and what it leaves of an accepted message begins with the sender's log. *)
(***************************************************************************)
THEOREM ReconcileCorrect == Spec => []ReconcileCopiesSender
<1>1. CaseInv => ReconcileCopiesSender
  <2> SUFFICES ASSUME CaseInv PROVE ReconcileCopiesSender
    OBVIOUS
  <2>1. case.next \in Nat \ {0}
    BY DEF CaseInv
  <2>2. Entries \in Seq(LogEntryOf(Command))
    BY <2>1, EntriesFromContinue DEF CaseInv, Entries
  <2>3. Reconcile(case.mine, Entries) = ReconcileLoop(case.mine, Entries)
    BY <2>2, ReconcileIsLoop DEF CaseInv
  <2>4. ASSUME Accepted, NEW R, R = Reconcile(case.mine, Entries)
        PROVE  /\ SubSeq(R, 1, Len(case.theirs)) = case.theirs
               /\ R \in {case.theirs, case.mine}
    BY <2>4, ReconcileCopies DEF CaseInv, Accepted, Prev, Entries
  <2> QED BY <2>3, <2>4 DEF ReconcileCopiesSender
<1> QED BY <1>1, CaseInvariant, PTL

(***************************************************************************)
(* For logs of any length: the message of append_entries_for_peer is what  *)
(* the filter collects, and completes the log up to prev_log_index.        *)
(***************************************************************************)
THEOREM MessageCorrect == Spec => []MessageCarriesRest
<1>1. CaseInv => MessageCarriesRest
  <2> SUFFICES ASSUME CaseInv PROVE MessageCarriesRest
    OBVIOUS
  <2>1. PICK l, next : l = case.theirs /\ next = case.next
    OBVIOUS
  <2>2. /\ l \in Seq(LogEntryOf(Command)) /\ Contiguous(l, 0)
        /\ next \in 1 .. Len(l) + 1 /\ next \in Nat \ {0} /\ Len(l) \in Nat
    BY <2>1 DEF CaseInv
  <2>3. EntriesFrom(l, next) = FilterLoop(l, next)
    BY <2>2, EntriesFromIsLoop
  <2>4. EntriesFrom(l, next) = SubSeq(l, next, Len(l))
    BY <2>2, EntriesFromRest
  <2>5. PrevLogIndex(next) = next - 1
    BY <2>2 DEF PrevLogIndex
  <2>6. SubSeq(l, 1, next - 1) \o SubSeq(l, next, Len(l)) = l
    <3>1. /\ 1 \in 1 .. Len(l) + 1 /\ next - 1 \in 1 - 1 .. Len(l)
          /\ Len(l) \in next - 1 .. Len(l) /\ next - 1 + 1 = next
      BY <2>2
    <3>2. SubSeq(l, 1, next - 1) \o SubSeq(l, next - 1 + 1, Len(l))
            = SubSeq(l, 1, Len(l))
      BY <2>2, <3>1, ConcatAdjacentSubSeq
    <3>3. SubSeq(l, 1, Len(l)) = l
      BY <2>2, SubSeqFull
    <3> QED BY <3>1, <3>2, <3>3
  <2>7. LastNewIndex(next - 1, EntriesFrom(l, next)) = last_log_index(l)
    <3>1. PICK e : e = EntriesFrom(l, next)
      OBVIOUS
    <3>2. /\ e \in Seq(LogEntryOf(Command)) /\ Contiguous(e, next - 1)
          /\ next - 1 + Len(e) = Len(l) /\ last_log_index(l) = Len(l)
      <4>1. e \in Seq(LogEntryOf(Command)) /\ Contiguous(e, next - 1)
        BY <2>2, <2>5, <3>1, EntriesFromContinue
      <4>2. next - 1 <= Len(l)
        BY <2>2
      <4>3. next - 1 + Len(e) = Len(l)
        BY <2>2, <3>1, <4>2, EntriesFromSlice
      <4> QED BY <2>2, <4>1, <4>3, LastEntry
    <3>3. CASE e = << >>
      BY <2>2, <3>1, <3>2, <3>3 DEF LastNewIndex
    <3>4. CASE e # << >>
      <4>1. Len(e) \in DOMAIN e
        BY <3>2, <3>4
      <4>2. e[Len(e)].index = next - 1 + Len(e)
        BY <3>2, <4>1 DEF Contiguous
      <4> QED BY <3>1, <3>2, <3>4, <4>2 DEF LastNewIndex
    <3> QED BY <3>3, <3>4
  <2> QED BY <2>1, <2>3, <2>4, <2>5, <2>6, <2>7
          DEF MessageCarriesRest, Entries, Prev
<1> QED BY <1>1, CaseInvariant, PTL

(***************************************************************************)
(* For logs of any length: LeaderCommit is the loop of                     *)
(* try_advance_commit_index.                                               *)
(***************************************************************************)
THEOREM CommitRuleCorrect == Spec => []CommitRuleIsLoop
<1>1. CaseInv => CommitRuleIsLoop
  BY LeaderCommitIsLoop DEF CaseInv, CommitRuleIsLoop
<1> QED BY <1>1, CaseInvariant, PTL

(***************************************************************************)
(* For logs of any length, and any commit index: CommandsToApply is the    *)
(* loop of apply_committed_entries.                                        *)
(***************************************************************************)
THEOREM ApplyCorrect == Spec => []ApplyIsLoop
<1>1. CaseInv => ApplyIsLoop
  <2> SUFFICES ASSUME CaseInv, NEW commit \in 0 .. MaxLen
               PROVE  CommandsToApply(case.mine, case.commit, commit)
                        = ApplyLoop(case.mine, case.commit, commit)
    BY DEF ApplyIsLoop
  <2>1. commit \in Nat
    BY CaseAssumption
  <2> QED BY <2>1, CommandsToApplyIsLoop DEF CaseInv
<1> QED BY <1>1, CaseInvariant, PTL
=============================================================================

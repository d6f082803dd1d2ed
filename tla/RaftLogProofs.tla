---------------------------- MODULE RaftLogProofs ----------------------------
(***************************************************************************)
(* What the operators of RaftLog return on contiguous logs, for logs and   *)
(* messages of any length.                                                 *)
(***************************************************************************)
EXTENDS RaftLog, TLAPS, SequenceTheorems, FiniteSetTheorems,
        WellFoundedInduction, NaturalsInduction

----------------------------------------------------------------------------
(* Where a search through a log stops                                      *)

(***************************************************************************)
(* A nonempty set of naturals has a least element, so the CHOOSE that      *)
(* stands for a loop's first hit denotes it.                               *)
(***************************************************************************)
LEMMA LeastElement ==
  ASSUME NEW T, T \subseteq Nat, T # {}
  PROVE  \E x \in T : \A y \in T : x <= y
<1>1. PICK R : /\ IsWellFoundedOn(R, Nat)
               /\ \A a, b \in Nat : a < b => <<a, b>> \in R
  <2>1. IsWellFoundedOn(OpToRel(<, Nat), Nat)
    BY NatLessThanWellFounded
  <2>2. \A a, b \in Nat : a < b => <<a, b>> \in OpToRel(<, Nat)
    BY DEF OpToRel
  <2> QED BY <2>1, <2>2, Zenon
<1>2. PICK x \in T : \A y \in T : ~ (<<y, x>> \in R)
  <2>1. IsWellFoundedOn(R, Nat)
    BY <1>1, Zenon
  <2>2. \E x \in T : \A y \in T : ~ (<<y, x>> \in R)
    BY <2>1, WFMin, ZenonT(60)
  <2> QED BY <2>2, Zenon
<1>3. ASSUME NEW y \in T PROVE x <= y
  <2>1. x \in Nat /\ y \in Nat
    OBVIOUS
  <2>2. ~ (y < x)
    BY <1>1, <1>2, <2>1, Zenon
  <2> QED BY <2>1, <2>2
<1> QED BY <1>3

(***************************************************************************)
(* A nonempty set of positions has a greatest element: the entry at which  *)
(* the downward loop of try_advance_commit_index stops.                    *)
(***************************************************************************)
LEMMA GreatestElement ==
  ASSUME NEW n \in Nat, NEW T, T \subseteq 1 .. n, T # {}
  PROVE  \E x \in T : \A y \in T : y <= x
<1> DEFINE U == {u \in Nat : n - u \in T}
<1>1. U \subseteq Nat /\ U # {}
  <2>1. PICK t \in T : TRUE
    OBVIOUS
  <2>2. n - t \in Nat /\ n - (n - t) = t
    OBVIOUS
  <2> QED BY <2>2
<1>2. PICK u \in U : \A v \in U : u <= v
  <2> HIDE DEF U
  <2> QED BY <1>1, LeastElement
<1>3. ASSUME NEW y \in T PROVE y <= n - u
  <2>1. n - y \in Nat /\ n - (n - y) = y /\ y \in Nat /\ u \in Nat
    OBVIOUS
  <2>2. n - y \in U
    BY <2>1
  <2>3. u <= n - y
    BY <1>2, <2>2
  <2> HIDE DEF U
  <2> QED BY <2>1, <2>3
<1> QED BY <1>2, <1>3

----------------------------------------------------------------------------
(* The operators                                                           *)

(***************************************************************************)
(* last_log_index and last_log_term are naturals, and on a contiguous log  *)
(* the index is the length.                                                *)
(***************************************************************************)
LEMMA LastEntry ==
  ASSUME NEW C, NEW l \in Seq(LogEntryOf(C))
  PROVE  /\ last_log_index(l) \in Nat
         /\ last_log_term(l) \in Nat
         /\ Contiguous(l, 0) => last_log_index(l) = Len(l)
<1>1. CASE l = << >>
  BY <1>1 DEF last_log_index, last_log_term
<1>2. CASE l # << >>
  <2>1. Len(l) \in 1 .. Len(l) /\ DOMAIN l = 1 .. Len(l)
    BY <1>2
  <2>2. l[Len(l)] \in LogEntryOf(C)
    BY <2>1
  <2> QED BY <1>2, <2>1, <2>2
          DEF last_log_index, last_log_term, LogEntryOf, Contiguous
<1> QED BY <1>1, <1>2

(***************************************************************************)
(* Searching a contiguous log by index finds the position of that number.  *)
(***************************************************************************)
LEMMA SearchByIndex ==
  ASSUME NEW C, NEW l \in Seq(LogEntryOf(C)), Contiguous(l, 0),
         NEW index \in Nat
  PROVE  /\ HasIndex(l, index) <=> index \in 1 .. Len(l)
         /\ index \in 1 .. Len(l) => Position(l, index) = index
<1>1. DOMAIN l = 1 .. Len(l) /\ \A k \in 1 .. Len(l) : l[k].index = k
  BY DEF Contiguous
<1>2. HasIndex(l, index) <=> index \in 1 .. Len(l)
  BY <1>1 DEF HasIndex
<1>3. ASSUME index \in 1 .. Len(l)
      PROVE  Position(l, index) = index
  BY <1>1, <1>3 DEF Position
<1> QED BY <1>2, <1>3

(***************************************************************************)
(* The filter of append_entries_for_peer takes the rest of a contiguous    *)
(* log from next_index on; nothing, when next_index is past its end.       *)
(***************************************************************************)
LEMMA EntriesFromRest ==
  ASSUME NEW C, NEW l \in Seq(LogEntryOf(C)), Contiguous(l, 0),
         NEW next \in Nat \ {0}
  PROVE  EntriesFrom(l, next) = SubSeq(l, next, Len(l))
<1> DEFINE reached == {k \in DOMAIN l : l[k].index >= next}
<1>1. /\ DOMAIN l = 1 .. Len(l) /\ Len(l) \in Nat
      /\ \A k \in 1 .. Len(l) : l[k].index = k
  BY DEF Contiguous
<1>2. reached = next .. Len(l)
  BY <1>1
<1>3. CASE next > Len(l)
  <2>1. reached = {}
    BY <1>1, <1>2, <1>3
  <2>2. EntriesFrom(l, next) = << >>
    BY <2>1 DEF EntriesFrom
  <2> QED BY <1>1, <1>3, <2>2, SubSeqEmpty
<1>4. CASE next <= Len(l)
  <2>1. (CHOOSE k \in reached : \A j \in reached : k <= j) = next
    BY <1>1, <1>2, <1>4
  <2>2. reached # {}
    BY <1>1, <1>2, <1>4
  <2> QED BY <2>1, <2>2, Zenon DEF EntriesFrom
<1> QED BY <1>1, <1>3, <1>4

(***************************************************************************)
(* The slice append_entries_for_peer sends is a log that goes on after     *)
(* prev_log_index, also when next_index is past the end of the log.        *)
(***************************************************************************)
LEMMA EntriesFromContinue ==
  ASSUME NEW C, NEW l \in Seq(LogEntryOf(C)), Contiguous(l, 0),
         NEW next \in Nat \ {0}
  PROVE  /\ EntriesFrom(l, next) \in Seq(LogEntryOf(C))
         /\ Contiguous(EntriesFrom(l, next), PrevLogIndex(next))
         /\ PrevLogIndex(next) \in Nat
         /\ PrevLogTerm(l, next) \in Nat
<1>1. /\ DOMAIN l = 1 .. Len(l) /\ Len(l) \in Nat
      /\ \A k \in 1 .. Len(l) : l[k].index = k /\ l[k] \in LogEntryOf(C)
  BY DEF Contiguous
<1>2. PrevLogIndex(next) = next - 1 /\ PrevLogIndex(next) \in Nat
  BY DEF PrevLogIndex
<1>3. PrevLogTerm(l, next) \in Nat
  <2>1. CASE next > 1 /\ HasIndex(l, next - 1)
    <3>1. next - 1 \in 1 .. Len(l) /\ Position(l, next - 1) = next - 1
      BY <2>1, SearchByIndex
    <3> QED BY <2>1, <3>1, <1>1 DEF PrevLogTerm, LogEntryOf
  <2>2. CASE ~ (next > 1 /\ HasIndex(l, next - 1))
    BY <2>2 DEF PrevLogTerm
  <2> QED BY <2>1, <2>2
<1>4. CASE next > Len(l)
  <2>1. EntriesFrom(l, next) = << >>
    BY <1>1, <1>4, EntriesFromRest, SubSeqEmpty
  <2> QED BY <2>1, <1>2, <1>3 DEF Contiguous
<1>5. CASE next <= Len(l)
  <2>2. EntriesFrom(l, next) = SubSeq(l, next, Len(l))
    BY EntriesFromRest
  <2>3. /\ SubSeq(l, next, Len(l)) \in Seq(LogEntryOf(C))
        /\ Len(SubSeq(l, next, Len(l))) = Len(l) - next + 1
        /\ \A k \in 1 .. Len(l) - next + 1 :
             SubSeq(l, next, Len(l))[k] = l[next + k - 1]
    BY <1>1, <1>5, SubSeqProperties
  <2>4. Contiguous(SubSeq(l, next, Len(l)), next - 1)
    BY <1>1, <1>5, <2>3 DEF Contiguous
  <2> QED BY <2>2, <2>3, <2>4, <1>2, <1>3
<1> QED BY <1>1, <1>4, <1>5

(***************************************************************************)
(* What append_entries_for_peer puts into a message: the rest of the log   *)
(* after prev_log_index, with the term of the entry there; or, when        *)
(* next_index is past the log, no entries and the term 0, which no entry   *)
(* has.                                                                    *)
(***************************************************************************)
LEMMA EntriesFromSlice ==
  ASSUME NEW C, NEW l \in Seq(LogEntryOf(C)), Contiguous(l, 0),
         NEW next \in Nat \ {0}, NEW e, e = EntriesFrom(l, next)
  PROVE  /\ PrevLogIndex(next) = next - 1
         /\ next - 1 <= Len(l) =>
              /\ next - 1 + Len(e) = Len(l)
              /\ \A k \in DOMAIN e : e[k] = l[next - 1 + k]
              /\ next - 1 > 0 => PrevLogTerm(l, next) = l[next - 1].term
         /\ next - 1 > Len(l) =>
              next - 1 > 0 /\ e = << >> /\ PrevLogTerm(l, next) = 0
<1>1. /\ DOMAIN l = 1 .. Len(l) /\ Len(l) \in Nat
      /\ \A k \in 1 .. Len(l) : l[k].index = k /\ l[k] \in LogEntryOf(C)
  BY DEF Contiguous
<1>2. PrevLogIndex(next) = next - 1 /\ next - 1 \in Nat
  BY DEF PrevLogIndex
<1>3. CASE next > Len(l)
  <2>2. e = << >>
    BY <1>1, <1>3, EntriesFromRest, SubSeqEmpty
  <2>3. next - 1 > Len(l) => PrevLogTerm(l, next) = 0
    BY <1>1, <1>2, SearchByIndex DEF PrevLogTerm
  <2>4. next - 1 <= Len(l) /\ next - 1 > 0 =>
          PrevLogTerm(l, next) = l[next - 1].term
    BY <1>1, <1>2, SearchByIndex DEF PrevLogTerm
  <2> QED BY <1>1, <1>2, <1>3, <2>2, <2>3, <2>4
<1>4. CASE next <= Len(l)
  <2>2. e = SubSeq(l, next, Len(l))
    BY EntriesFromRest
  <2>3. /\ e \in Seq(LogEntryOf(C))
        /\ Len(e) = Len(l) - next + 1
        /\ \A k \in 1 .. Len(l) - next + 1 : e[k] = l[next + k - 1]
    BY <1>1, <1>4, <2>2, SubSeqProperties
  <2>4. /\ next - 1 + Len(e) = Len(l)
        /\ \A k \in DOMAIN e : e[k] = l[next - 1 + k]
    <3>1. next - 1 + Len(e) = Len(l)
      BY <1>1, <1>4, <2>3
    <3>2. ASSUME NEW k \in DOMAIN e PROVE e[k] = l[next - 1 + k]
      <4>1. k \in 1 .. Len(l) - next + 1 /\ next + k - 1 = next - 1 + k
        BY <2>3
      <4> QED BY <4>1, <2>3
    <3> QED BY <3>1, <3>2
  <2>5. next - 1 > 0 => PrevLogTerm(l, next) = l[next - 1].term
    BY <1>1, <1>2, <1>4, SearchByIndex DEF PrevLogTerm
  <2> QED BY <1>1, <1>2, <1>4, <2>4, <2>5
<1> QED BY <1>1, <1>3, <1>4

(***************************************************************************)
(* The consistency check lets a message through only if its prev_log_index *)
(* lies within the receiver's log.                                         *)
(***************************************************************************)
LEMMA MatchedPrevExists ==
  ASSUME NEW C, NEW l \in Seq(LogEntryOf(C)), Contiguous(l, 0),
         NEW prev \in Nat, NEW term, log_matches(l, prev, term)
  PROVE  prev <= Len(l)
BY DEF log_matches, Contiguous

\* R is the log l up to the entry `first' of a message, which l does not have
\* or has with another term, and the message from there on.
Spliced(l, entries, prev, first, R) ==
  /\ prev + first - 1 <= Len(l)
  /\ \A a \in 1 .. first - 1 : l[prev + a].term = entries[a].term
  /\ prev + first <= Len(l) => l[prev + first].term # entries[first].term
  /\ Len(R) = prev + Len(entries)
  /\ \A k \in 1 .. prev + first - 1 : R[k] = l[k]
  /\ \A k \in prev + first .. prev + Len(entries) : R[k] = entries[k - prev]

(***************************************************************************)
(* What the reconciliation loop leaves of a contiguous log and an accepted *)
(* message: the log as it was, when it has every entry of the message; or  *)
(* the log up to the first entry that is missing or conflicts, and the     *)
(* rest of the message from there on.                                      *)
(***************************************************************************)
LEMMA ReconcileResult ==
  ASSUME NEW C, NEW l \in Seq(LogEntryOf(C)), Contiguous(l, 0),
         NEW entries \in Seq(LogEntryOf(C)), NEW prev \in Nat,
         Contiguous(entries, prev), prev <= Len(l),
         NEW R, R = Reconcile(l, entries)
  PROVE  /\ R \in Seq(LogEntryOf(C))
         /\ \/ /\ R = l
               /\ prev + Len(entries) <= Len(l)
               /\ \A a \in 1 .. Len(entries) :
                    l[prev + a].term = entries[a].term
            \/ \E first \in 1 .. Len(entries) : Spliced(l, entries, prev, first, R)
<1> DEFINE stops == {i \in DOMAIN entries : StopsAt(l, entries, i)}
           first == CHOOSE i \in stops : \A j \in stops : i <= j
           index == entries[first].index
           kept  == IF HasIndex(l, index)
                    THEN SubSeq(l, 1, Position(l, index) - 1)
                    ELSE l
           rest  == SubSeq(entries, first, Len(entries))
<1>1. /\ DOMAIN l = 1 .. Len(l) /\ Len(l) \in Nat
      /\ \A k \in 1 .. Len(l) : l[k].index = k /\ l[k] \in LogEntryOf(C)
  BY DEF Contiguous
<1>2. /\ DOMAIN entries = 1 .. Len(entries) /\ Len(entries) \in Nat
      /\ \A k \in 1 .. Len(entries) :
           entries[k].index = prev + k /\ entries[k] \in LogEntryOf(C)
  BY DEF Contiguous
<1>9. ASSUME NEW a \in 1 .. Len(entries), a \notin stops
      PROVE  prev + a <= Len(l) /\ l[prev + a].term = entries[a].term
  <2>1. HasIndex(l, prev + a) /\ l[Position(l, prev + a)].term = entries[a].term
    BY <1>2, <1>9 DEF StopsAt
  <2> QED BY <2>1, SearchByIndex
<1>3. CASE stops = {}
  <2>1. R = l
    BY <1>3 DEF Reconcile
  <2>2. \A a \in 1 .. Len(entries) :
          prev + a <= Len(l) /\ l[prev + a].term = entries[a].term
    BY <1>3, <1>9
  <2>3. prev + Len(entries) <= Len(l)
    BY <2>2, <1>1, <1>2
  <2> QED BY <2>1, <2>2, <2>3
<1>4. CASE stops # {}
  <2>1. first \in stops /\ \A j \in stops : first <= j
    <3>1. stops \subseteq Nat
      BY <1>2
    <3>2. \E i \in stops : \A j \in stops : i <= j
      <4> HIDE DEF stops
      <4> QED BY <3>1, <1>4, LeastElement
    <3> HIDE DEF stops
    <3> QED BY <3>2
  <2>2. first \in 1 .. Len(entries) /\ index = prev + first
    BY <2>1, <1>2
  <2> HIDE DEF first
  <2>3. /\ kept \in Seq(LogEntryOf(C))
        /\ Len(kept) = prev + first - 1
        /\ \A k \in 1 .. Len(kept) : kept[k] = l[k]
        /\ Len(kept) <= Len(l)
    <3>1. CASE index \in 1 .. Len(l)
      <4>1. kept = SubSeq(l, 1, prev + first - 1)
        BY <3>1, <2>2, SearchByIndex
      <4>2. prev + first - 1 \in 0 .. Len(l)
        BY <3>1, <2>2, SMTT(60)
      <4>3. /\ SubSeq(l, 1, prev + first - 1) \in Seq(LogEntryOf(C))
            /\ Len(SubSeq(l, 1, prev + first - 1)) = prev + first - 1
            /\ \A k \in 1 .. prev + first - 1 :
                 SubSeq(l, 1, prev + first - 1)[k] = l[k]
        BY <4>2, <1>1, SubSeqProperties
      <4> HIDE DEF kept
      <4> QED BY <4>1, <4>2, <4>3
    <3>2. CASE index \notin 1 .. Len(l)
      <4>1. ~ HasIndex(l, index)
        BY <3>2, <2>2, SearchByIndex
      <4>2. prev + first - 1 <= Len(l)
        <5>1. CASE first = 1
          BY <5>1
        <5>2. CASE first # 1
          <6>1. first - 1 \in 1 .. Len(entries) /\ first - 1 \notin stops
            BY <5>2, <2>1, <2>2, SMTT(60)
          <6>2. HasIndex(l, entries[first - 1].index)
            BY <6>1, <1>2 DEF StopsAt
          <6>3. entries[first - 1].index = prev + first - 1
            BY <6>1, <1>2
          <6> QED BY <6>2, <6>3, <2>2, SearchByIndex
        <5> QED BY <5>1, <5>2
      <4>3. kept = l /\ Len(l) = prev + first - 1
        BY <4>1, <4>2, <3>2, <2>2, <1>1
      <4> HIDE DEF kept
      <4> QED BY <4>3, <1>1
    <3> QED BY <3>1, <3>2
  <2>4. /\ rest \in Seq(LogEntryOf(C))
        /\ Len(rest) = Len(entries) - first + 1
        /\ \A k \in 1 .. Len(rest) : rest[k] = entries[first + k - 1]
    BY <1>2, <2>2, SubSeqProperties, SMTT(60)
  <2>5. Reconcile(l, entries) = kept \o rest
    BY <1>4 DEF Reconcile, first
  <2> HIDE DEF kept, rest
  <2>6. /\ kept \o rest \in Seq(LogEntryOf(C))
        /\ Len(kept \o rest) = Len(kept) + Len(rest)
        /\ \A k \in 1 .. Len(kept) + Len(rest) :
             (kept \o rest)[k] =
               IF k <= Len(kept) THEN kept[k] ELSE rest[k - Len(kept)]
    BY <2>3, <2>4, ConcatProperties, ZenonT(60)
  <2>7. \A a \in 1 .. first - 1 : l[prev + a].term = entries[a].term
    <3> SUFFICES ASSUME NEW a \in 1 .. first - 1
                 PROVE  l[prev + a].term = entries[a].term
      OBVIOUS
    <3>1. a \in 1 .. Len(entries) /\ a \notin stops
      <4>1. a \in 1 .. Len(entries) /\ ~ (first <= a)
        BY <2>2, <1>2
      <4> HIDE DEF stops
      <4> QED BY <4>1, <2>1
    <3> HIDE DEF stops
    <3> QED BY <3>1, <1>9
  <2>8. prev + first <= Len(l) => l[prev + first].term # entries[first].term
    <3> SUFFICES ASSUME prev + first <= Len(l)
                 PROVE  l[prev + first].term # entries[first].term
      OBVIOUS
    <3>1. prev + first \in 1 .. Len(l) /\ prev + first \in Nat
      BY <2>2, <1>1, <1>2
    <3>2. HasIndex(l, prev + first) /\ Position(l, prev + first) = prev + first
      BY <3>1, SearchByIndex
    <3>3. StopsAt(l, entries, first)
      BY <2>1
    <3> HIDE DEF stops
    <3> QED BY <2>2, <3>2, <3>3 DEF StopsAt
  <2>9. /\ R \in Seq(LogEntryOf(C))
        /\ Len(R) = prev + Len(entries)
        /\ \A k \in 1 .. prev + first - 1 : R[k] = l[k]
        /\ \A k \in prev + first .. prev + Len(entries) :
             R[k] = entries[k - prev]
    <3>1. R = kept \o rest
      BY <2>5
    <3> HIDE DEF stops
    <3>2. Len(R) = prev + Len(entries) /\ R \in Seq(LogEntryOf(C))
      BY <3>1, <2>6, <2>3, <2>4, <1>2, <2>2
    <3>3. ASSUME NEW k \in 1 .. prev + first - 1 PROVE R[k] = l[k]
      <4>1. k \in 1 .. Len(kept) /\ k \in 1 .. Len(kept) + Len(rest)
            /\ k <= Len(kept)
        BY <2>3, <2>4, <1>2, <2>2
      <4> QED BY <4>1, <3>1, <2>6, <2>3
    <3>4. ASSUME NEW k \in prev + first .. prev + Len(entries)
          PROVE  R[k] = entries[k - prev]
      <4>1. /\ k \in 1 .. Len(kept) + Len(rest)
            /\ ~ (k <= Len(kept))
            /\ k - Len(kept) \in 1 .. Len(rest)
            /\ first + (k - Len(kept)) - 1 = k - prev
        BY <2>3, <2>4, <1>2, <2>2
      <4>2. R[k] = rest[k - Len(kept)]
        BY <4>1, <3>1, <2>6
      <4>3. rest[k - Len(kept)] = entries[first + (k - Len(kept)) - 1]
        BY <4>1, <2>4
      <4> QED BY <4>1, <4>2, <4>3
    <3> QED BY <3>2, <3>3, <3>4
  <2>10. prev + first - 1 <= Len(l)
    BY <2>3
  <2> HIDE DEF stops
  <2>11. Spliced(l, entries, prev, first, R)
    BY <2>7, <2>8, <2>9, <2>10 DEF Spliced
  <2> QED BY <2>2, <2>9, <2>11
<1> HIDE DEF stops
<1> QED BY <1>3, <1>4

(***************************************************************************)
(* Reconciling an accepted message with a contiguous log gives one.        *)
(***************************************************************************)
LEMMA ReconcileContiguous ==
  ASSUME NEW C, NEW l \in Seq(LogEntryOf(C)), Contiguous(l, 0),
         NEW entries \in Seq(LogEntryOf(C)), NEW prev \in Nat,
         Contiguous(entries, prev), prev <= Len(l)
  PROVE  /\ Reconcile(l, entries) \in Seq(LogEntryOf(C))
         /\ Contiguous(Reconcile(l, entries), 0)
<1>0. PICK R : R = Reconcile(l, entries)
  OBVIOUS
<1>1. /\ \A k \in 1 .. Len(l) : l[k].index = k
      /\ \A k \in 1 .. Len(entries) : entries[k].index = prev + k
      /\ Len(l) \in Nat /\ Len(entries) \in Nat
  BY DEF Contiguous
<1>2. R \in Seq(LogEntryOf(C))
  BY <1>0, ReconcileResult
<1>3. CASE R = l
  BY <1>0, <1>3
<1>4. ASSUME NEW first \in 1 .. Len(entries), Spliced(l, entries, prev, first, R)
      PROVE  Contiguous(R, 0)
  <2>0. /\ prev + first - 1 <= Len(l)
        /\ Len(R) = prev + Len(entries)
        /\ \A k \in 1 .. prev + first - 1 : R[k] = l[k]
        /\ \A k \in prev + first .. prev + Len(entries) : R[k] = entries[k - prev]
    BY <1>4 DEF Spliced
  <2> SUFFICES ASSUME NEW k \in 1 .. Len(R) PROVE R[k].index = k
    BY <1>2 DEF Contiguous
  <2>1. CASE k \in 1 .. prev + first - 1
    <3>1. k \in 1 .. Len(l)
      BY <2>1, <1>1, <2>0
    <3> QED BY <3>1, <2>1, <1>1, <2>0
  <2>2. CASE k \in prev + first .. prev + Len(entries)
    <3>1. k - prev \in 1 .. Len(entries) /\ prev + (k - prev) = k
      BY <2>2, <1>1
    <3> QED BY <3>1, <2>2, <1>1, <2>0
  <2> QED BY <2>1, <2>2, <1>1, <2>0
<1> QED BY <1>0, <1>2, <1>3, <1>4, ReconcileResult

(***************************************************************************)
(* apply_committed_entries hands commands over, and nothing else: no index *)
(* up to the end of a contiguous log is missing.                           *)
(***************************************************************************)
LEMMA CommandsToApplyType ==
  ASSUME NEW C, NEW l \in Seq(LogEntryOf(C)), Contiguous(l, 0),
         NEW applied \in Nat, NEW commit \in Nat
  PROVE  CommandsToApply(l, applied, commit) \in Seq(C)
<1> DEFINE top == IF commit <= last_log_index(l)
                  THEN commit ELSE last_log_index(l)
           n == IF top >= applied THEN top - applied ELSE 0
           cmd(k) == l[Position(l, applied + k)].command
<1>1. last_log_index(l) = Len(l) /\ Len(l) \in Nat
  BY LastEntry
<1>2. top \in 0 .. Len(l) /\ n \in Nat /\ 1 .. (top - applied) = 1 .. n
  BY <1>1
<1>3. ASSUME NEW k \in 1 .. n PROVE cmd(k) \in C
  <2>1. applied + k \in 1 .. Len(l) /\ applied + k \in Nat
    BY <1>2
  <2>2. Position(l, applied + k) = applied + k
    BY <2>1, SearchByIndex
  <2>3. l[applied + k] \in LogEntryOf(C)
    BY <2>1
  <2> QED BY <2>2, <2>3 DEF LogEntryOf
<1>4. [k \in 1 .. n |-> cmd(k)] \in Seq(C)
  <2> HIDE DEF n, cmd
  <2>1. [k \in 1 .. n |-> cmd(k)] \in [1 .. n -> C]
    BY <1>3
  <2> QED BY <1>2, <2>1
<1> QED BY <1>2, <1>4 DEF CommandsToApply

(***************************************************************************)
(* The commit rules return an index.                                       *)
(***************************************************************************)
LEMMA CommitIndexType ==
  ASSUME NEW C, NEW l \in Seq(LogEntryOf(C)), NEW commit \in Nat
  PROVE  /\ \A term, match, peers :
              LeaderCommit(l, term, commit, match, peers) \in Nat
         /\ \A prev \in Nat, leaderCommit \in Nat :
              \A entries \in Seq(LogEntryOf(C)) :
                FollowerCommit(commit, leaderCommit,
                               LastNewIndex(prev, entries)) \in Nat
<1>1. ASSUME NEW term, NEW match, NEW peers
      PROVE  LeaderCommit(l, term, commit, match, peers) \in Nat
  <2> DEFINE ks == Committable(l, term, commit, match, peers)
  <2>1. ks \subseteq 1 .. Len(l) /\ Len(l) \in Nat
    BY DEF Committable
  <2>2. CASE ks = {}
    BY <2>2 DEF LeaderCommit
  <2>3. CASE ks # {}
    <3>1. \E k \in ks : \A j \in ks : j <= k
      <4> HIDE DEF ks
      <4> QED BY <2>1, <2>3, GreatestElement
    <3>2. (CHOOSE k \in ks : \A j \in ks : j <= k) \in 1 .. Len(l)
      <4> HIDE DEF ks
      <4> QED BY <2>1, <3>1
    <3>3. ASSUME NEW k \in 1 .. Len(l) PROVE l[k].index \in Nat
      <4>1. l[k] \in LogEntryOf(C)
        OBVIOUS
      <4> QED BY <4>1 DEF LogEntryOf
    <3> QED BY <2>3, <3>2, <3>3 DEF LeaderCommit
  <2> QED BY <2>2, <2>3
<1>2. ASSUME NEW prev \in Nat, NEW leaderCommit \in Nat,
             NEW entries \in Seq(LogEntryOf(C))
      PROVE  FollowerCommit(commit, leaderCommit,
                            LastNewIndex(prev, entries)) \in Nat
  <2>1. LastNewIndex(prev, entries) \in Nat
    <3>1. CASE entries = << >>
      BY <3>1 DEF LastNewIndex
    <3>2. CASE entries # << >>
      <4>1. entries[Len(entries)] \in LogEntryOf(C)
        BY <3>2
      <4> QED BY <3>2, <4>1 DEF LastNewIndex, LogEntryOf
    <3> QED BY <3>1, <3>2
  <2> QED BY <2>1 DEF FollowerCommit
<1> QED BY <1>1, <1>2

(***************************************************************************)
(* apply_committed_entries up to an index the log has: the commands after  *)
(* the ones applied, none left out and in order.                           *)
(***************************************************************************)
LEMMA CommandsToApplySlice ==
  ASSUME NEW C, NEW l \in Seq(LogEntryOf(C)), Contiguous(l, 0),
         NEW from \in Nat, NEW commit \in Nat, from <= commit, commit <= Len(l)
  PROVE  /\ Len(CommandsToApply(l, from, commit)) = commit - from
         /\ \A k \in 1 .. commit - from :
              CommandsToApply(l, from, commit)[k] = l[from + k].command
<1>1. last_log_index(l) = Len(l) /\ Len(l) \in Nat
  BY LastEntry
<1>2. CommandsToApply(l, from, commit)
        = [k \in 1 .. (commit - from) |-> l[Position(l, from + k)].command]
  BY <1>1 DEF CommandsToApply
<1>3. ASSUME NEW k \in 1 .. commit - from
      PROVE  CommandsToApply(l, from, commit)[k] = l[from + k].command
  <2>1. from + k \in 1 .. Len(l) /\ from + k \in Nat
    BY <1>1
  <2>2. Position(l, from + k) = from + k
    BY <2>1, SearchByIndex
  <2> QED BY <1>2, <2>2
<1>4. CommandsToApply(l, from, commit) \in Seq(C)
  BY CommandsToApplyType
<1>5. Len(CommandsToApply(l, from, commit)) = commit - from
  <2>1. PICK c \in Seq(C) : c = CommandsToApply(l, from, commit)
    BY <1>4
  <2>2. DOMAIN c = 1 .. commit - from /\ DOMAIN c = 1 .. Len(c)
    BY <1>2, <2>1
  <2> QED BY <2>1, <2>2
<1> QED BY <1>3, <1>5

(***************************************************************************)
(* try_advance_commit_index keeps the commit index or moves it to an entry *)
(* it may commit.                                                          *)
(***************************************************************************)
LEMMA LeaderCommitIs ==
  ASSUME NEW C, NEW l \in Seq(LogEntryOf(C)), Contiguous(l, 0),
         NEW commit \in Nat, NEW term, NEW match, NEW peers,
         NEW c, c = LeaderCommit(l, term, commit, match, peers)
  PROVE  \/ c = commit
         \/ /\ c \in 1 .. Len(l) /\ c > commit /\ l[c].term = term
            /\ Replicated(match, peers, c) >= quorum(Cardinality(peers))
<1> DEFINE ks == Committable(l, term, commit, match, peers)
<1>1. ks \subseteq 1 .. Len(l) /\ Len(l) \in Nat
  BY DEF Committable
<1>2. CASE ks = {}
  BY <1>2 DEF LeaderCommit
<1>3. CASE ks # {}
  <2>1. PICK k : k = CHOOSE y \in ks : \A j \in ks : j <= y
    OBVIOUS
  <2>2. k \in ks
    <3>1. \E x \in ks : \A j \in ks : j <= x
      <4> HIDE DEF ks
      <4> QED BY <1>1, <1>3, GreatestElement
    <3> HIDE DEF ks
    <3> QED BY <2>1, <3>1
  <2>3. c = l[k].index
    BY <1>3, <2>1 DEF LeaderCommit
  <2>4. l[k].index = k
    <3>1. k \in DOMAIN l
      BY <1>1, <2>2
    <3> QED BY <3>1 DEF Contiguous
  <2> QED BY <1>1, <2>2, <2>3, <2>4 DEF Committable
<1> QED BY <1>2, <1>3

(***************************************************************************)
(* Two sets of Raft::quorum nodes share a node, in a cluster of any size:  *)
(* peers.len().div_ceil(2) + 1 is a majority of peers and self.            *)
(***************************************************************************)
THEOREM QuorumsIntersect ==
  ASSUME NEW N, IsFiniteSet(N), NEW i \in N, NEW j \in N,
         NEW Q \in SUBSET N, NEW R \in SUBSET N,
         Cardinality(Q) >= quorum(Cardinality(N \ {i})),
         Cardinality(R) >= quorum(Cardinality(N \ {j}))
  PROVE  Q \cap R # {}
<1>1. Cardinality(N) \in Nat /\ Cardinality(Q) \in Nat /\ Cardinality(R) \in Nat
  BY FS_CardinalityType, FS_Subset
<1>2. /\ Cardinality(N \ {i}) = Cardinality(N) - 1
      /\ Cardinality(N \ {j}) = Cardinality(N) - 1
  BY FS_RemoveElement
<1>3. \A n \in Int : 2 * quorum(n - 1) > n
  BY DEF quorum
<1>4. Cardinality(Q) + Cardinality(R) > Cardinality(N)
  <2> DEFINE q == quorum(Cardinality(N) - 1)
  <2>1. q \in Int /\ 2 * q > Cardinality(N)
    BY <1>1, <1>3 DEF quorum
  <2>2. Cardinality(Q) >= q /\ Cardinality(R) >= q
    BY <1>2
  <2> HIDE DEF q
  <2> QED BY <1>1, <2>1, <2>2
<1> QED BY <1>4, FS_MajoritiesIntersect
=============================================================================

------------------------- MODULE NodeProcessProofs -------------------------
(***************************************************************************)
(* What NodeProcess promises, for any peers, keys and values, logs of any  *)
(* length and a crash or a failing save at any step.                       *)
(***************************************************************************)
EXTENDS NodeProcess, RaftLogProofs

----------------------------------------------------------------------------
(* The inductive invariant                                                 *)

\* A turn applies no more than there is.  Between turns nothing is left to
\* apply, so that a log which has become shorter than last_applied is harmless;
\* it does so only when an applied entry was replaced, which takes a peer.
WithinLog ==
  /\ Len(fed) = done
  /\ done <= last_applied
  /\ ~ busy => done = last_applied
  /\ done < last_applied => last_applied <= Len(mem.log)
  /\ ~ replaced => last_applied <= Len(mem.log)
  /\ Peer = {} => ~ replaced

\* What a save has left in the files, and when one may be under way.
SaveInv ==
  /\ live.whole
  /\ save = "written" => tmp.whole
  /\ save \in {"writing", "written"} => tmp.state = mem
  /\ save # "none" \/ outbox # {} => up /\ busy
  /\ up => live.state.version <= mem.version

\* Messages are backed by memory while a save is due, and by the live file
\* once it is over.
Backed ==
  /\ \A m \in outbox : m.needs <= mem.version
  /\ ~ failed =>
       /\ \A m \in sent : m.needs <= live.state.version
       /\ save = "none" => \A m \in outbox : m.needs <= live.state.version
       /\ save = "none" /\ up => saved <= live.state.version

ProcessInv == TypeOK /\ WithinLog /\ SaveInv /\ Backed

----------------------------------------------------------------------------
(* What the handlers have in common                                        *)

\* A handler goes to state s with as much or more applied, as far as s has
\* it, and speaks of what s holds; without a save, of what was saved before.
\* Without peers it keeps what was applied.
Keeps(s, saves, ms, upto) ==
  /\ s \in PersistentState /\ saves \in BOOLEAN
  /\ ms \subseteq Message /\ upto \in Nat
  /\ s.version >= mem.version
  /\ last_applied <= upto
  /\ last_applied < upto => upto <= Len(s.log)
  /\ Peer = {} => KeepsApplied(s.log)
  /\ \A m \in ms : m.needs <= s.version
  /\ ~ saves => \A m \in ms : m.needs <= saved

(***************************************************************************)
(* Every handler of Raft::step is such a beginning of a turn: none applies *)
(* an entry that the log does not have, and those that do not return       *)
(* PersistState send only refusals and what was saved before.              *)
(***************************************************************************)
LEMMA HandlersKeep ==
  ASSUME TypeOK, WithinLog, Handle
  PROVE  \E s, saves, ms, upto :
           Begin(s, saves, ms, upto) /\ Keeps(s, saves, ms, upto)
<1> DEFINE Goal == \E s, saves, ms, upto :
                     Begin(s, saves, ms, upto) /\ Keeps(s, saves, ms, upto)
<1>1. /\ mem \in PersistentState /\ last_applied \in Nat /\ saved \in Nat
      /\ mem.version \in Nat /\ mem.log \in Seq(Command)
      /\ Peer = {} => last_applied <= Len(mem.log)
  BY DEF TypeOK, WithinLog, PersistentState
<1>2. ASSUME NEW s, s \in {mem, Changed(mem.log)}
      PROVE  /\ s \in PersistentState /\ s.version >= mem.version
             /\ s.version \in Nat /\ s.log = mem.log
  BY <1>1, <1>2 DEF Changed, PersistentState
<1>3. ASSUME NEW s \in PersistentState, NEW P, P \subseteq Peer
      PROVE  /\ Promises(s, P) \subseteq Message
             /\ \A m \in Promises(s, P) : m.needs = s.version
             /\ Refusals(P) \subseteq Message
             /\ \A m \in Refusals(P) : m.needs = 0
  <2>1. s.version \in Nat
    BY <1>3 DEF PersistentState
  <2> QED BY <1>3, <2>1 DEF Promises, Refusals, Message
<1>4. ASSUME NEW s, s.log = mem.log
      PROVE  /\ TRUE \in BOOLEAN /\ FALSE \in BOOLEAN
             /\ last_applied <= last_applied /\ ~ (last_applied < last_applied)
             /\ Peer = {} => KeepsApplied(s.log)
  BY <1>1, <1>4 DEF KeepsApplied
<1>5. CASE ElectionTimeout
  <2> DEFINE s == Changed(mem.log)
  <2>1. Begin(s, TRUE, Promises(s, Peer), last_applied)
    BY <1>5 DEF ElectionTimeout
  <2>2. /\ s \in PersistentState /\ s.version >= mem.version
        /\ s.version \in Nat /\ s.log = mem.log
    BY <1>2
  <2> HIDE DEF s
  <2>3. /\ Promises(s, Peer) \subseteq Message
        /\ \A m \in Promises(s, Peer) : m.needs <= s.version
    BY <2>2, <1>3
  <2>4. Keeps(s, TRUE, Promises(s, Peer), last_applied)
    BY <1>1, <1>4, <2>2, <2>3, Zenon DEF Keeps
  <2> QED BY <2>1, <2>4, Zenon
<1>6. CASE StepDown
  <2>1. Begin(Changed(mem.log), FALSE, {}, last_applied)
    BY <1>6 DEF StepDown
  <2>2. Keeps(Changed(mem.log), FALSE, {}, last_applied)
    BY <1>1, <1>2, <1>4 DEF Keeps
  <2> QED BY <2>1, <2>2, Zenon
<1>7. CASE Heartbeat
  <2>1. /\ saved = mem.version
        /\ Begin(mem, FALSE, Promises(mem, Peer), last_applied)
    BY <1>7 DEF Heartbeat
  <2>2. /\ Promises(mem, Peer) \subseteq Message
        /\ \A m \in Promises(mem, Peer) : m.needs <= mem.version
    BY <1>1, <1>3
  <2>3. Keeps(mem, FALSE, Promises(mem, Peer), last_applied)
    BY <1>1, <1>4, <2>1, <2>2 DEF Keeps
  <2> QED BY <2>1, <2>3, Zenon
<1>8. CASE CommitAdvance
  <2>1. PICK upto \in last_applied + 1 .. Len(mem.log) :
          Begin(mem, FALSE, {}, upto)
    BY <1>8 DEF CommitAdvance
  <2>2. upto \in Nat /\ last_applied <= upto /\ upto <= Len(mem.log)
    BY <1>1, <2>1
  <2>3. Keeps(mem, FALSE, {}, upto)
    BY <1>1, <1>4, <2>2 DEF Keeps
  <2> QED BY <2>1, <2>3, Zenon
<1>9. ASSUME NEW p \in Peer, GrantVote(p) PROVE Goal
  <2>1. PICK s \in {mem, Changed(mem.log)} :
          Begin(s, TRUE, Promises(s, {p}), last_applied)
    BY <1>9 DEF GrantVote
  <2>2. /\ s \in PersistentState /\ s.version >= mem.version
        /\ s.version \in Nat /\ s.log = mem.log
    BY <1>2
  <2>3. /\ Promises(s, {p}) \subseteq Message
        /\ \A m \in Promises(s, {p}) : m.needs <= s.version
    BY <2>2, <1>3
  <2>4. Keeps(s, TRUE, Promises(s, {p}), last_applied)
    BY <1>1, <1>4, <2>2, <2>3, Zenon DEF Keeps
  <2> QED BY <2>1, <2>4, Zenon
<1>10. ASSUME NEW p \in Peer, Refuse(p) PROVE Goal
  <2>1. PICK s \in {mem, Changed(mem.log)} :
          Begin(s, FALSE, Refusals({p}), last_applied)
    BY <1>10 DEF Refuse
  <2>2. /\ s \in PersistentState /\ s.version >= mem.version
        /\ s.version \in Nat /\ s.log = mem.log
    BY <1>2
  <2>3. /\ Refusals({p}) \subseteq Message
        /\ \A m \in Refusals({p}) : m.needs <= s.version /\ m.needs <= saved
    BY <2>2, <1>1, <1>3
  <2>4. Keeps(s, FALSE, Refusals({p}), last_applied)
    BY <1>1, <1>4, <2>2, <2>3, Zenon DEF Keeps
  <2> QED BY <2>1, <2>4, Zenon
<1>11. ASSUME NEW p \in Peer, AcceptAppend(p) PROVE Goal
  <2>1. PICK kept \in 0 .. Len(mem.log),
             new \in NewEntries :
          LET log == SubSeq(mem.log, 1, kept) \o new
              s   == Changed(log)
          IN  /\ new = << >> => kept = Len(mem.log)
              /\ Len(log) <= MaxLogLen
              /\ \E upto \in {last_applied} \cup last_applied .. Len(log) :
                   Begin(s, TRUE, Promises(s, {p}), upto)
    BY <1>11, Zenon DEF AcceptAppend
  <2> DEFINE log == SubSeq(mem.log, 1, kept) \o new
             s   == Changed(log)
  <2>2. kept \in Nat /\ kept <= Len(mem.log)
    BY <1>1
  <2>3. new \in Seq(Command)
    <3>1. PICK n \in 0 .. MaxLogLen : new \in [1 .. n -> Command]
      BY DEF NewEntries
    <3>2. n \in Nat
      BY <3>1, ProcessAssumption
    <3> QED BY <3>1, <3>2
  <2>4. SubSeq(mem.log, 1, kept) \in Seq(Command)
    BY <1>1, <2>2
  <2>5. log \in Seq(Command)
    BY <2>3, <2>4
  <2>6. PICK upto \in {last_applied} \cup last_applied .. Len(log) :
          Begin(s, TRUE, Promises(s, {p}), upto)
    BY <2>1
  <2> HIDE DEF log
  <2>7. /\ s \in PersistentState /\ s.version >= mem.version
        /\ s.version \in Nat /\ s.log = log
    BY <1>1, <2>5 DEF Changed, PersistentState
  <2>8. /\ upto \in Nat /\ last_applied <= upto
        /\ last_applied < upto => upto <= Len(log)
    BY <1>1, <2>5, <2>6
  <2> HIDE DEF s
  <2>9. /\ Promises(s, {p}) \subseteq Message
        /\ \A m \in Promises(s, {p}) : m.needs <= s.version
    BY <1>3, <2>7
  <2>10. Peer # {}
    OBVIOUS
  <2>11. Keeps(s, TRUE, Promises(s, {p}), upto)
    BY <2>7, <2>8, <2>9, <2>10 DEF Keeps
  <2> QED BY <2>6, <2>11, Zenon
<1>12. ASSUME NEW c \in Command, ClientRequest(c) PROVE Goal
  <2> DEFINE log  == Append(mem.log, c)
             s    == Changed(log)
             upto == IF Peer = {} THEN Len(s.log) ELSE last_applied
  <2>1. Begin(s, TRUE, {}, upto)
    BY <1>12 DEF ClientRequest
  <2>2. /\ log \in Seq(Command) /\ Len(log) = Len(mem.log) + 1
        /\ \A i \in 1 .. Len(mem.log) : log[i] = mem.log[i]
    BY <1>1
  <2> HIDE DEF log
  <2>3. /\ s \in PersistentState /\ s.version >= mem.version /\ s.log = log
    BY <1>1, <2>2 DEF Changed, PersistentState
  <2>4. /\ upto \in Nat /\ last_applied <= upto
        /\ last_applied < upto => upto <= Len(s.log)
    BY <1>1, <2>2, <2>3
  <2>5. Peer = {} => KeepsApplied(s.log)
    BY <1>1, <2>2, <2>3 DEF KeepsApplied
  <2> HIDE DEF s, upto
  <2>6. Keeps(s, TRUE, {}, upto)
    BY <2>3, <2>4, <2>5 DEF Keeps
  <2> QED BY <2>1, <2>6, Zenon
<1> QED
  BY <1>5, <1>6, <1>7, <1>8, <1>9, <1>10, <1>11, <1>12 DEF Handle

----------------------------------------------------------------------------
(* Types                                                                   *)

(***************************************************************************)
(* The ring buffer of Metrics keeps its capacity.                          *)
(***************************************************************************)
LEMMA RingBuffer ==
  ASSUME message_log \in Seq(Message), Len(message_log) <= MESSAGE_LOG_CAP,
         NEW m \in Message, record_message(m)
  PROVE  message_log' \in Seq(Message) /\ Len(message_log') <= MESSAGE_LOG_CAP
<1>1. MESSAGE_LOG_CAP \in Nat /\ MESSAGE_LOG_CAP > 0
  BY ProcessAssumption
<1>2. CASE Len(message_log) >= MESSAGE_LOG_CAP
  <2>1. message_log # << >> /\ Len(message_log) \in Nat
    BY <1>1, <1>2
  <2>2. /\ Tail(message_log) \in Seq(Message)
        /\ Len(Tail(message_log)) = Len(message_log) - 1
    BY <2>1
  <2>3. message_log' = Append(Tail(message_log), m)
    BY <1>2 DEF record_message
  <2> QED BY <1>1, <2>1, <2>2, <2>3
<1>3. CASE ~ (Len(message_log) >= MESSAGE_LOG_CAP)
  <2>1. message_log' = Append(message_log, m)
    BY <1>3 DEF record_message
  <2> QED BY <1>1, <1>3, <2>1
<1> QED BY <1>2, <1>3

(***************************************************************************)
(* KeyValueStore::apply keeps a store of keys and values.                  *)
(***************************************************************************)
LEMMA ApplyType ==
  ASSUME NEW c \in Command, NEW s,
         DOMAIN s \subseteq Key, \A k \in DOMAIN s : s[k] \in Value
  PROVE  /\ DOMAIN apply(s, c) \subseteq Key
         /\ \A k \in DOMAIN apply(s, c) : apply(s, c)[k] \in Value
<1>1. CASE c.op = "Set"
  <2>1. c.key \in Key /\ c.value \in Value
    BY <1>1 DEF Command
  <2> QED BY <1>1, <2>1 DEF apply
<1>2. CASE c.op # "Set"
  BY <1>2 DEF apply
<1> QED BY <1>1, <1>2

(***************************************************************************)
(* The command that ApplyCommand applies is there.                         *)
(***************************************************************************)
LEMMA NextCommand ==
  ASSUME TypeOK, WithinLog, done < last_applied
  PROVE  done + 1 \in 1 .. Len(mem.log) /\ mem.log[done + 1] \in Command
<1>1. /\ mem.log \in Seq(Command) /\ Len(mem.log) \in Nat
      /\ done \in Nat /\ last_applied \in Nat
  BY DEF TypeOK, PersistentState
<1>2. done + 1 \in 1 .. Len(mem.log)
  BY <1>1 DEF WithinLog
<1> QED BY <1>1, <1>2

----------------------------------------------------------------------------
(* The invariant holds                                                     *)

\* A process that has just loaded its storage, with or without a file.
LEMMA InvInit ==
  Init => ProcessInv
<1> SUFFICES ASSUME Init PROVE ProcessInv
  OBVIOUS
<1>1. Default \in PersistentState /\ Default.version = 0 /\ Len(Default.log) = 0
  BY DEF Default, PersistentState
<1>2. NoFile \in File /\ NoFile.whole /\ NoFile.state = Default
  BY <1>1 DEF NoFile, File
<1>3. TypeOK
  <2>1. /\ DOMAIN store \subseteq Key /\ \A k \in DOMAIN store : store[k] \in Value
    BY DEF Init
  <2>2. message_log \in Seq(Message) /\ Len(message_log) <= MESSAGE_LOG_CAP
    BY ProcessAssumption DEF Init
  <2>3. shown \in [version : Nat, last_applied : Nat, log_length : Nat]
    BY DEF Init, Nothing
  <2>4. fed \in Seq(Command)
    BY DEF Init
  <2>5. replaced \in BOOLEAN
    BY Zenon DEF Init
  <2> QED BY <1>1, <1>2, <2>1, <2>2, <2>3, <2>4, <2>5 DEF Init, TypeOK
<1>4. WithinLog
  BY <1>1 DEF Init, WithinLog
<1>5. SaveInv
  BY <1>2 DEF Init, SaveInv
<1>6. Backed
  BY DEF Init, Backed
<1> QED BY <1>3, <1>4, <1>5, <1>6 DEF ProcessInv

\* handle computes the actions of a turn and touches neither file nor peers.
LEMMA InvHandle ==
  ASSUME ProcessInv, Handle
  PROVE  ProcessInv'
<1> USE DEF ProcessInv
<1>1. PICK s, saves, ms, upto :
        Begin(s, saves, ms, upto) /\ Keeps(s, saves, ms, upto)
  BY HandlersKeep, Zenon
<1>2. /\ up /\ ~ busy /\ mem' = s /\ last_applied' = upto /\ busy' = TRUE
      /\ replaced' = (replaced \/ ~ KeepsApplied(s.log))
      /\ save' = IF saves THEN "due" ELSE "none"
      /\ outbox' = ms
      /\ UNCHANGED <<machineVars, metricVars, fileVars, processVars, historyVars>>
  BY <1>1, Zenon DEF Begin
<1>3. /\ s \in PersistentState /\ saves \in BOOLEAN /\ ms \subseteq Message
      /\ upto \in Nat /\ s.version >= mem.version
      /\ last_applied <= upto /\ (last_applied < upto => upto <= Len(s.log))
      /\ Peer = {} => KeepsApplied(s.log)
      /\ \A m \in ms : m.needs <= s.version
      /\ ~ saves => \A m \in ms : m.needs <= saved
  BY <1>1, Zenon DEF Keeps
<1>4. /\ s.version \in Nat /\ mem.version \in Nat /\ live.state.version \in Nat
      /\ saved \in Nat /\ done \in Nat /\ last_applied \in Nat
      /\ \A m \in ms : m.needs \in Nat
  BY <1>3 DEF TypeOK, PersistentState, File, Message
<1>5. TypeOK'
  BY <1>2, <1>3
     DEF TypeOK, machineVars, metricVars, fileVars, processVars, historyVars
<1>6. WithinLog'
  <2>1. Len(s.log) \in Nat
    BY <1>3 DEF PersistentState
  <2>2. done = last_applied /\ done' = done /\ fed' = fed
    BY <1>2 DEF WithinLog, machineVars
  <2>3. ASSUME ~ replaced' PROVE last_applied' <= Len(mem'.log)
    <3>1. KeepsApplied(s.log)
      BY <1>2, <2>3
    <3>2. last_applied <= Len(s.log)
      BY <3>1 DEF KeepsApplied
    <3> QED BY <1>2, <1>3, <1>4, <2>1, <3>2
  <2>4. Peer = {} => ~ replaced'
    BY <1>2, <1>3 DEF WithinLog
  <2> QED BY <1>2, <1>3, <1>4, <2>1, <2>2, <2>3, <2>4 DEF WithinLog
<1>7. SaveInv'
  BY <1>2, <1>3, <1>4 DEF SaveInv, TypeOK, fileVars, processVars
<1>8. Backed'
  <2>1. ~ failed => saved <= live.state.version
    BY <1>2 DEF Backed, SaveInv
  <2>2. ~ saves /\ ~ failed => \A m \in ms : m.needs <= live.state.version
    BY <1>3, <1>4, <2>1
  <2> QED BY <1>2, <1>3, <2>1, <2>2 DEF Backed, SaveInv, fileVars, processVars, historyVars
<1> QED BY <1>5, <1>6, <1>7, <1>8

\* process_actions: saving, sending, applying and the metrics.
LEMMA InvProcess ==
  ASSUME ProcessInv, Process
  PROVE  ProcessInv'
<1> USE DEF ProcessInv, coreVars, turnVars, machineVars, metricVars, fileVars,
            processVars, historyVars
<1>1. CASE SaveBegin
  <2>1. TypeOK'
    BY <1>1 DEF SaveBegin, TypeOK, File
  <2>2. WithinLog' /\ SaveInv' /\ Backed'
    BY <1>1 DEF SaveBegin, WithinLog, SaveInv, Backed
  <2> QED BY <2>1, <2>2
<1>2. CASE SaveWritten
  <2>1. tmp' \in File /\ tmp'.whole /\ tmp'.state = tmp.state
    BY <1>2 DEF SaveWritten, TypeOK, File
  <2>2. TypeOK'
    BY <1>2, <2>1 DEF SaveWritten, TypeOK
  <2>3. WithinLog' /\ SaveInv' /\ Backed'
    BY <1>2, <2>1 DEF SaveWritten, WithinLog, SaveInv, Backed
  <2> QED BY <2>2, <2>3
<1>3. CASE SaveRename
  <2>1. live' = tmp /\ tmp.whole /\ tmp.state = mem /\ NoFile \in File
    BY <1>3 DEF SaveRename, SaveInv, NoFile, File, Default, PersistentState
  <2>2. /\ mem.version \in Nat /\ live.state.version \in Nat
        /\ live.state.version <= mem.version
        /\ \A m \in sent : m.needs \in Nat
    BY <1>3 DEF SaveRename, TypeOK, SaveInv, PersistentState, File, Message
  <2>3. TypeOK'
    BY <1>3, <2>1, <2>2 DEF SaveRename, TypeOK
  <2>4. WithinLog' /\ SaveInv'
    BY <1>3, <2>1, <2>2 DEF SaveRename, WithinLog, SaveInv
  <2>5. Backed'
    BY <1>3, <2>1, <2>2 DEF SaveRename, SaveInv, Backed
  <2> QED BY <2>3, <2>4, <2>5
<1>4. CASE SaveFails
  <2>1. TypeOK'
    BY <1>4 DEF SaveFails, TypeOK, PersistentState
  <2>2. WithinLog' /\ SaveInv' /\ Backed'
    BY <1>4 DEF SaveFails, WithinLog, SaveInv, Backed
  <2> QED BY <2>1, <2>2
<1>5. ASSUME NEW m \in outbox, Send(m) PROVE ProcessInv'
  <2>1. /\ busy /\ save = "none" /\ outbox' = outbox \ {m}
        /\ sent' = sent \cup {m} /\ record_message(m)
        /\ UNCHANGED <<coreVars, busy, save, machineVars, shown, fileVars,
                       processVars, saved, failed>>
    BY <1>5 DEF Send, record_outgoing
  <2>2. m \in Message
    BY DEF TypeOK
  <2>3. message_log' \in Seq(Message) /\ Len(message_log') <= MESSAGE_LOG_CAP
    BY <2>1, <2>2, RingBuffer DEF TypeOK
  <2>4. TypeOK'
    BY <2>1, <2>2, <2>3 DEF TypeOK
  <2>5. WithinLog' /\ SaveInv' /\ Backed'
    BY <2>1 DEF WithinLog, SaveInv, Backed
  <2> QED BY <2>4, <2>5
<1>6. CASE ApplyCommand
  <2>1. mem.log[done + 1] \in Command
    BY <1>6, NextCommand DEF ApplyCommand
  <2>2. /\ DOMAIN store' \subseteq Key
        /\ \A k \in DOMAIN store' : store'[k] \in Value
    BY <1>6, <2>1, ApplyType DEF ApplyCommand, TypeOK
  <2>3. /\ done' \in Nat /\ fed' \in Seq(Command)
        /\ Len(fed') = Len(fed) + 1
    BY <1>6, <2>1 DEF ApplyCommand, TypeOK
  <2>4. TypeOK'
    BY <1>6, <2>2, <2>3 DEF ApplyCommand, TypeOK
  <2>5. WithinLog'
    BY <1>6, <2>3 DEF ApplyCommand, WithinLog, TypeOK
  <2>6. SaveInv' /\ Backed'
    BY <1>6 DEF ApplyCommand, SaveInv, Backed
  <2> QED BY <2>4, <2>5, <2>6
<1>7. CASE EndTurn
  <2>1. shown' \in [version : Nat, last_applied : Nat, log_length : Nat]
    <3>1. mem.version \in Nat /\ last_applied \in Nat /\ Len(mem.log) \in Nat
      BY DEF TypeOK, PersistentState
    <3> QED BY <1>7, <3>1 DEF EndTurn, update
  <2>2. TypeOK'
    BY <1>7, <2>1 DEF EndTurn, TypeOK
  <2>3. WithinLog' /\ SaveInv' /\ Backed'
    BY <1>7 DEF EndTurn, WithinLog, SaveInv, Backed
  <2> QED BY <2>2, <2>3
<1> QED BY <1>1, <1>2, <1>3, <1>4, <1>5, <1>6, <1>7 DEF Process

\* A crash forgets the memory, and load_or_create rebuilds it from the file.
LEMMA InvCrashStart ==
  ASSUME ProcessInv, Crash \/ Start
  PROVE  ProcessInv'
<1> USE DEF ProcessInv, coreVars, turnVars, machineVars, metricVars, fileVars,
            processVars, historyVars
<1>1. Default \in PersistentState /\ Default.version = 0 /\ Len(Default.log) = 0
  BY DEF Default, PersistentState
<1>2. /\ DOMAIN << >> \subseteq Key /\ \A k \in DOMAIN << >> : << >>[k] \in Value
      /\ << >> \in Seq(Message) /\ Len(<< >>) <= MESSAGE_LOG_CAP
      /\ << >> \in Seq(Command) /\ Len(<< >>) = 0
  BY ProcessAssumption
<1>3. CASE Crash
  <2>1. shown' \in [version : Nat, last_applied : Nat, log_length : Nat]
    BY <1>3 DEF Crash, Nothing
  <2>2. TypeOK'
    BY <1>1, <1>2, <1>3, <2>1 DEF Crash, TypeOK
  <2>3. WithinLog'
    BY <1>1, <1>2, <1>3 DEF Crash, WithinLog
  <2>4. SaveInv' /\ Backed'
    BY <1>3 DEF Crash, SaveInv, Backed
  <2> QED BY <2>2, <2>3, <2>4
<1>4. CASE Start
  <2>1. /\ live.state \in PersistentState /\ live.state.version \in Nat
        /\ Len(live.state.log) \in Nat
    BY DEF TypeOK, File, PersistentState
  <2>2. shown' \in [version : Nat, last_applied : Nat, log_length : Nat]
    BY <1>4, <2>1 DEF Start, update
  <2>3. TypeOK'
    <3>1. fed' = << >> /\ replaced' = FALSE /\ last_applied' = 0 /\ done' = 0
      BY <1>4 DEF Start
    <3>2. /\ mem' = live.state /\ store' = << >> /\ message_log' = << >>
          /\ up' = TRUE /\ starts' = starts + 1
          /\ saved' = live.state.version
          /\ UNCHANGED <<busy, save, outbox, live, tmp, sent, failed>>
      BY <1>4 DEF Start
    <3>3. /\ DOMAIN store' \subseteq Key
          /\ \A k \in DOMAIN store' : store'[k] \in Value
      BY <1>2, <3>2, Zenon
    <3>4. message_log' \in Seq(Message) /\ Len(message_log') <= MESSAGE_LOG_CAP
      BY <1>2, <3>2
    <3>5. fed' \in Seq(Command)
      BY <1>2, <3>1, Zenon
    <3>6. replaced' \in BOOLEAN /\ up' \in BOOLEAN
      BY <3>1, <3>2, Zenon
    <3>7. last_applied' \in Nat /\ done' \in Nat /\ starts' \in Nat
      BY <3>1, <3>2 DEF TypeOK
    <3> QED BY <2>1, <2>2, <3>2, <3>3, <3>4, <3>5, <3>6, <3>7 DEF TypeOK
  <2>4. WithinLog'
    BY <1>2, <1>4, <2>1 DEF Start, WithinLog
  <2>5. SaveInv'
    BY <1>4, <2>1 DEF Start, SaveInv
  <2>6. Backed'
    <3>1. outbox = {} /\ save = "none"
      BY <1>4 DEF Start, SaveInv
    <3> QED BY <1>4, <2>1, <3>1 DEF Start, Backed
  <2> QED BY <2>3, <2>4, <2>5, <2>6
<1> QED BY <1>3, <1>4

\* Every step of the process keeps the invariant.
LEMMA InvStep ==
  ProcessInv /\ [Next]_vars => ProcessInv'
<1> SUFFICES ASSUME ProcessInv, [Next]_vars PROVE ProcessInv'
  OBVIOUS
<1>1. CASE Next
  BY <1>1, InvHandle, InvProcess, InvCrashStart DEF Next
<1>2. CASE UNCHANGED vars
  BY <1>2 DEF ProcessInv, TypeOK, WithinLog, SaveInv, Backed, vars, coreVars,
              turnVars, machineVars, metricVars, fileVars, processVars, historyVars
<1> QED BY <1>1, <1>2

(***************************************************************************)
(* The parts of ProcessInv hold in every reachable state, and with them    *)
(* the types of all variables, the capacity of the message log included.   *)
(***************************************************************************)
THEOREM TypeCorrect ==
  Spec => []TypeOK
<1>1. ProcessInv => TypeOK
  BY DEF ProcessInv
<1> QED BY InvInit, InvStep, <1>1, PTL DEF Spec

\* The inductive invariant holds at every moment of the process.
THEOREM InvHolds ==
  Spec => []ProcessInv
BY InvInit, InvStep, PTL DEF Spec

(***************************************************************************)
(* A node can always start again: no crash and no failing call leaves a    *)
(* live file that load cannot parse (FilePersistence::save).               *)
(***************************************************************************)
THEOREM StartsAgain ==
  Spec => []NeverCorrupt
<1>1. ProcessInv => NeverCorrupt
  BY DEF ProcessInv, SaveInv, NeverCorrupt
<1> QED BY InvHolds, <1>1, PTL

(***************************************************************************)
(* Unless a save has failed, all that the node ever sent is true of what   *)
(* it would load (the order of PersistState and Send in every handler).    *)
(***************************************************************************)
THEOREM KeepsPromises ==
  Spec => []PromisesKept
<1>1. ProcessInv => PromisesKept
  BY DEF ProcessInv, Backed, PromisesKept
<1> QED BY InvHolds, <1>1, PTL

----------------------------------------------------------------------------
(* The refinement                                                          *)

(***************************************************************************)
(* A step of the turn is a step of StableStore or changes nothing of it.   *)
(***************************************************************************)
LEMMA StoreStep ==
  ProcessInv /\ ProcessInv' /\ [Next]_vars
    => [Stable!StoreNext]_(Stable!storeVars)
<1> DEFINE owed == IF save = "none" THEN outbox ELSE {}
<1> SUFFICES ASSUME ProcessInv, ProcessInv', [Next]_vars
             PROVE  Stable!StoreNext \/ UNCHANGED Stable!storeVars
  OBVIOUS
<1> USE DEF ProcessInv, coreVars, turnVars, machineVars, metricVars, fileVars,
            processVars, historyVars
<1>1. ASSUME live' = live, owed' = owed, sent' = sent, failed' = failed
      PROVE  UNCHANGED Stable!storeVars
  BY <1>1 DEF Stable!storeVars
<1>2. CASE Handle
  <2>1. PICK s, saves, ms, upto :
          Begin(s, saves, ms, upto) /\ Keeps(s, saves, ms, upto)
    BY <1>2, HandlersKeep, Zenon
  <2>2. /\ ~ busy /\ save' = (IF saves THEN "due" ELSE "none") /\ outbox' = ms
        /\ live' = live /\ sent' = sent /\ failed' = failed
    BY <2>1 DEF Begin
  <2>3. owed = {} /\ saves \in BOOLEAN
    BY <2>1, <2>2 DEF SaveInv, Keeps
  <2>4. CASE saves
    <3>1. owed' = {}
      BY <2>2, <2>4
    <3> QED BY <1>1, <2>2, <2>3, <3>1
  <2>5. CASE ~ saves
    <3>1. save' = "none" /\ owed' = outbox'
      BY <2>2, <2>5
    <3>2. outbox' \subseteq Message /\ live'.state \in PersistentState
      BY DEF TypeOK, File
    <3>3. failed \/ \A m \in owed' : m.needs <= live'.state.version
      BY <2>2, <3>1 DEF Backed
    <3>4. live'.state.version >= live.state.version
      <4>1. live.state.version \in Nat
        BY DEF TypeOK, File, PersistentState
      <4> QED BY <2>2, <4>1
    <3>5. Stable!Turn
      BY <2>2, <2>3, <3>1, <3>2, <3>3, <3>4 DEF Stable!Turn
    <3> QED BY <3>5 DEF Stable!StoreNext
  <2> QED BY <2>3, <2>4, <2>5
<1>3. CASE SaveBegin \/ SaveWritten
  <2>1. owed = {} /\ owed' = {} /\ live' = live /\ sent' = sent /\ failed' = failed
    BY <1>3 DEF SaveBegin, SaveWritten
  <2> QED BY <1>1, <2>1
<1>4. CASE SaveRename
  <2>1. /\ owed = {} /\ save' = "none" /\ owed' = outbox'
        /\ sent' = sent /\ failed' = failed
    BY <1>4 DEF SaveRename
  <2>2. /\ live'.state = mem /\ mem.version >= live.state.version
    BY <1>4 DEF SaveRename, SaveInv, TypeOK, File, PersistentState
  <2>3. outbox' \subseteq Message /\ live'.state \in PersistentState
    BY DEF TypeOK, File
  <2>4. failed \/ \A m \in owed' : m.needs <= live'.state.version
    BY <2>1 DEF Backed
  <2>5. Stable!Turn
    BY <2>1, <2>2, <2>3, <2>4 DEF Stable!Turn
  <2> QED BY <2>5 DEF Stable!StoreNext
<1>5. CASE SaveFails
  <2>1. /\ owed = {} /\ owed' = outbox' /\ live' = live
        /\ sent' = sent /\ failed' = TRUE
    BY <1>5 DEF SaveFails
  <2>2. outbox' \subseteq Message
    BY DEF TypeOK
  <2>3. Stable!FailedTurn
    BY <2>1, <2>2 DEF Stable!FailedTurn
  <2> QED BY <2>3 DEF Stable!StoreNext
<1>6. ASSUME NEW m \in outbox, Send(m)
      PROVE  Stable!StoreNext
  <2>1. /\ m \in owed /\ owed' = owed \ {m} /\ sent' = sent \cup {m}
        /\ live' = live /\ failed' = failed
    BY <1>6 DEF Send
  <2>2. Stable!Transmit(m)
    BY <2>1 DEF Stable!Transmit
  <2> QED BY <2>1, <2>2 DEF Stable!StoreNext
<1>7. CASE ApplyCommand \/ EndTurn \/ Start \/ UNCHANGED vars
  <2>1. owed' = owed /\ live' = live /\ sent' = sent /\ failed' = failed
    BY <1>7 DEF ApplyCommand, EndTurn, Start, vars
  <2> QED BY <1>1, <2>1
<1>8. CASE Crash
  <2>1. owed' = {} /\ live' = live /\ sent' = sent /\ failed' = failed
    BY <1>8 DEF Crash
  <2>2. Stable!Crash
    BY <2>1 DEF Stable!Crash
  <2> QED BY <2>2 DEF Stable!StoreNext
<1> QED
  BY <1>2, <1>3, <1>4, <1>5, <1>6, <1>7, <1>8, Zenon DEF Next, Process

(***************************************************************************)
(* A turn in its single steps, a crash between any two of them included,   *)
(* looks from outside like StableStore.                                    *)
(***************************************************************************)
THEOREM Refinement ==
  Spec => ImplementsStableStore
<1>1. Init => Stable!StoreInit
  BY DEF Init, NoFile, Stable!StoreInit
<1> QED
  BY InvHolds, StoreStep, <1>1, PTL DEF Spec, ImplementsStableStore, Stable!StoreSpec

----------------------------------------------------------------------------
(* The state machine and the metrics                                       *)

(***************************************************************************)
(* A store depends on the applied commands only.                           *)
(***************************************************************************)
LEMMA StoreOfPrefix ==
  ASSUME NEW l1, NEW l2, NEW n \in Nat, \A i \in 1 .. n : l1[i] = l2[i]
  PROVE  StoreOf(l1, n) = StoreOf(l2, n)
<1>1. ASSUME NEW k PROVE Writes(l1, n, k) = Writes(l2, n, k)
  BY DEF Writes
<1>2. ASSUME NEW k PROVE LastWrite(l1, n, k) = LastWrite(l2, n, k)
  BY <1>1 DEF LastWrite
<1>3. ASSUME NEW k, Writes(l1, n, k) # {}
      PROVE  l1[LastWrite(l1, n, k)] = l2[LastWrite(l2, n, k)]
  <2>1. Writes(l1, n, k) \subseteq 1 .. n
    BY DEF Writes
  <2>2. \E x \in Writes(l1, n, k) : \A y \in Writes(l1, n, k) : y <= x
    BY <1>3, <2>1, GreatestElement
  <2>3. LastWrite(l1, n, k) \in 1 .. n
    BY <2>1, <2>2 DEF LastWrite
  <2> QED BY <1>2, <2>3
<1>4. Kept(l1, n) = Kept(l2, n)
  BY <1>1, <1>3 DEF Kept
<1>5. \A k \in Kept(l1, n) :
        l1[LastWrite(l1, n, k)] = l2[LastWrite(l2, n, k)]
  BY <1>3 DEF Kept
<1> QED BY <1>4, <1>5 DEF StoreOf

(***************************************************************************)
(* Applying the next command to the store of the first n gives the store   *)
(* of the first n + 1 (KeyValueStore::apply, Set and Delete).              *)
(***************************************************************************)
LEMMA StoreOfNext ==
  ASSUME NEW log, NEW n \in Nat, log[n + 1] \in Command
  PROVE  apply(StoreOf(log, n), log[n + 1]) = StoreOf(log, n + 1)
<1> DEFINE c == log[n + 1]
<1>1. c.key \in Key /\ (c.op = "Set" => c.value \in Value)
  BY DEF Command
<1>2. /\ Writes(log, n + 1, c.key) # {}
      /\ LastWrite(log, n + 1, c.key) = n + 1
  <2>1. n + 1 \in Writes(log, n + 1, c.key)
    BY DEF Writes
  <2>2. \A j \in Writes(log, n + 1, c.key) : j \in Nat /\ j <= n + 1
    BY DEF Writes
  <2> QED BY <2>1, <2>2 DEF LastWrite
<1>3. ASSUME NEW k, k # c.key
      PROVE  /\ Writes(log, n + 1, k) = Writes(log, n, k)
             /\ LastWrite(log, n + 1, k) = LastWrite(log, n, k)
  <2>1. Writes(log, n + 1, k) = Writes(log, n, k)
    BY <1>3 DEF Writes
  <2> QED BY <2>1 DEF LastWrite
<1> HIDE DEF c
<1>4. \A k \in Key : k # c.key => (k \in Kept(log, n + 1) <=> k \in Kept(log, n))
  BY <1>3 DEF Kept
<1>5. c.key \in Kept(log, n + 1) <=> c.op = "Set"
  BY <1>1, <1>2 DEF Kept, c
<1>6. Kept(log, n) \subseteq Key /\ Kept(log, n + 1) \subseteq Key
  BY DEF Kept
<1>7. CASE c.op = "Set"
  <2>1. Kept(log, n + 1) = Kept(log, n) \cup {c.key}
    BY <1>1, <1>4, <1>5, <1>6, <1>7
  <2>2. \A k \in Kept(log, n + 1) :
          log[LastWrite(log, n + 1, k)].value =
            IF k = c.key THEN c.value ELSE log[LastWrite(log, n, k)].value
    BY <1>2, <1>3 DEF c
  <2>3. \A k \in Kept(log, n + 1) :
          k # c.key => StoreOf(log, n)[k] = log[LastWrite(log, n, k)].value
    BY <2>1 DEF StoreOf
  <2>4. DOMAIN StoreOf(log, n) = Kept(log, n)
    BY DEF StoreOf
  <2>5. apply(StoreOf(log, n), c) =
          [k \in Kept(log, n) \cup {c.key} |->
             IF k = c.key THEN c.value ELSE StoreOf(log, n)[k]]
    BY <1>7, <2>4 DEF apply
  <2> QED BY <2>1, <2>2, <2>3, <2>5 DEF StoreOf, c
<1>8. CASE c.op # "Set"
  <2>1. Kept(log, n + 1) = Kept(log, n) \ {c.key}
    BY <1>4, <1>5, <1>6, <1>8
  <2>2. \A k \in Kept(log, n + 1) :
          log[LastWrite(log, n + 1, k)].value = StoreOf(log, n)[k]
    BY <1>3, <2>1 DEF StoreOf
  <2>3. DOMAIN StoreOf(log, n) = Kept(log, n)
    BY DEF StoreOf
  <2>4. apply(StoreOf(log, n), c) =
          [k \in Kept(log, n) \ {c.key} |-> StoreOf(log, n)[k]]
    BY <1>8, <2>3 DEF apply
  <2> QED BY <2>1, <2>2, <2>4 DEF StoreOf, c
<1> QED BY <1>7, <1>8 DEF c

(***************************************************************************)
(* Nothing applied, nothing stored.                                        *)
(***************************************************************************)
LEMMA StoreOfNone ==
  ASSUME NEW log
  PROVE  StoreOf(log, 0) = << >>
<1>1. Kept(log, 0) = {}
  BY DEF Kept, Writes
<1> QED BY <1>1 DEF StoreOf

(***************************************************************************)
(* The beginning of a log, taken from two logs that agree so far, and one  *)
(* command longer.                                                         *)
(***************************************************************************)
LEMMA Beginnings ==
  ASSUME NEW l1 \in Seq(Command), NEW l2 \in Seq(Command), NEW n \in Nat,
         n <= Len(l1), n <= Len(l2)
  PROVE  /\ (\A i \in 1 .. n : l1[i] = l2[i])
              => SubSeq(l1, 1, n) = SubSeq(l2, 1, n)
         /\ n + 1 <= Len(l1)
              => Append(SubSeq(l1, 1, n), l1[n + 1]) = SubSeq(l1, 1, n + 1)
<1>1. /\ SubSeq(l1, 1, n) \in Seq(Command) /\ Len(SubSeq(l1, 1, n)) = n
      /\ \A i \in 1 .. n : SubSeq(l1, 1, n)[i] = l1[i]
  OBVIOUS
<1>2. /\ SubSeq(l2, 1, n) \in Seq(Command) /\ Len(SubSeq(l2, 1, n)) = n
      /\ \A i \in 1 .. n : SubSeq(l2, 1, n)[i] = l2[i]
  OBVIOUS
<1>3. ASSUME \A i \in 1 .. n : l1[i] = l2[i]
      PROVE  SubSeq(l1, 1, n) = SubSeq(l2, 1, n)
  BY <1>1, <1>2, <1>3, SeqEqual
<1>4. ASSUME n + 1 <= Len(l1)
      PROVE  Append(SubSeq(l1, 1, n), l1[n + 1]) = SubSeq(l1, 1, n + 1)
  <2>1. l1[n + 1] \in Command
    BY <1>4
  <2> DEFINE longer == Append(SubSeq(l1, 1, n), l1[n + 1])
  <2>2. /\ longer \in Seq(Command) /\ Len(longer) = n + 1
        /\ \A i \in 1 .. n + 1 : longer[i] = l1[i]
    BY <1>1, <2>1
  <2>3. /\ SubSeq(l1, 1, n + 1) \in Seq(Command)
        /\ Len(SubSeq(l1, 1, n + 1)) = n + 1
        /\ \A i \in 1 .. n + 1 : SubSeq(l1, 1, n + 1)[i] = l1[i]
    BY <1>4
  <2> QED BY <2>2, <2>3, SeqEqual
<1> QED BY <1>3, <1>4

(***************************************************************************)
(* The store is always what the commands applied since the start wrote     *)
(* last, and these are the beginning of the log unless an applied entry    *)
(* has left it; no assumption on what a leader may replace is made.        *)
(***************************************************************************)
THEOREM StoreCorrect ==
  Spec => []StoreIsLastWrite
<1>1. Init => StoreIsLastWrite
  BY DEF Init, StoreIsLastWrite
<1>2. ProcessInv /\ StoreIsLastWrite /\ [Next]_vars => StoreIsLastWrite'
  <2> SUFFICES ASSUME ProcessInv, StoreIsLastWrite, [Next]_vars, up'
               PROVE  /\ store' = StoreOf(fed', done')
                      /\ ~ replaced' => fed' = SubSeq(mem'.log, 1, done')
    BY DEF StoreIsLastWrite
  <2> USE DEF ProcessInv, coreVars, turnVars, machineVars, metricVars, fileVars,
              processVars, historyVars
  <2>1. CASE Handle
    <3>1. PICK s, saves, ms, upto :
            Begin(s, saves, ms, upto) /\ Keeps(s, saves, ms, upto)
      BY <2>1, HandlersKeep, Zenon
    <3>2. /\ up /\ mem' = s /\ done' = done /\ store' = store /\ fed' = fed
          /\ replaced' = (replaced \/ ~ KeepsApplied(s.log))
      BY <3>1 DEF Begin
    <3>3. /\ done \in Nat /\ last_applied \in Nat /\ done <= last_applied
          /\ mem.log \in Seq(Command) /\ s.log \in Seq(Command)
      BY <3>1 DEF TypeOK, WithinLog, Keeps, PersistentState
    <3>4. ASSUME ~ replaced' PROVE fed = SubSeq(s.log, 1, done)
      <4>1. ~ replaced /\ KeepsApplied(s.log)
        BY <3>2, <3>4
      <4>2. /\ done <= Len(mem.log) /\ done <= Len(s.log)
            /\ \A i \in 1 .. done : s.log[i] = mem.log[i]
        BY <3>3, <4>1 DEF KeepsApplied, WithinLog
      <4>3. SubSeq(s.log, 1, done) = SubSeq(mem.log, 1, done)
        BY <3>3, <4>2, Beginnings
      <4> QED BY <3>2, <4>1, <4>3 DEF StoreIsLastWrite
    <3> QED BY <3>2, <3>4 DEF StoreIsLastWrite
  <2>2. CASE ApplyCommand
    <3> DEFINE c == mem.log[done + 1]
    <3>1. /\ done \in Nat /\ c \in Command /\ done + 1 \in 1 .. Len(mem.log)
          /\ fed \in Seq(Command) /\ Len(fed) = done /\ mem.log \in Seq(Command)
      BY <2>2, NextCommand DEF ApplyCommand, TypeOK, WithinLog, PersistentState
    <3>2. /\ store' = apply(store, c) /\ fed' = Append(fed, c)
          /\ done' = done + 1 /\ mem' = mem /\ replaced' = replaced /\ up
      <4>1. up
        BY <2>2 DEF ApplyCommand
      <4> QED BY <2>2, <4>1 DEF ApplyCommand
    <3> HIDE DEF c
    <3>3. fed'[done + 1] = c /\ \A i \in 1 .. done : fed[i] = fed'[i]
      BY <3>1, <3>2
    <3>4. StoreOf(fed, done) = StoreOf(fed', done)
      BY <3>1, <3>3, StoreOfPrefix
    <3>5. apply(StoreOf(fed', done), fed'[done + 1]) = StoreOf(fed', done + 1)
      BY <3>1, <3>3, StoreOfNext
    <3>6. ~ replaced => Append(fed, c) = SubSeq(mem.log, 1, done + 1)
      <4>1. done <= Len(mem.log) /\ done + 1 <= Len(mem.log)
        BY <3>1
      <4>2. Append(SubSeq(mem.log, 1, done), c) = SubSeq(mem.log, 1, done + 1)
        BY <3>1, <4>1, Beginnings DEF c
      <4> QED BY <3>2, <4>2 DEF StoreIsLastWrite
    <3> QED BY <3>2, <3>3, <3>4, <3>5, <3>6 DEF StoreIsLastWrite
  <2>3. CASE Start
    <3>1. live.state.log \in Seq(Command)
      BY DEF TypeOK, File, PersistentState
    <3>2. SubSeq(live.state.log, 1, 0) = << >>
      BY <3>1
    <3> QED BY <2>3, <3>2, StoreOfNone DEF Start
  <2>4. CASE Crash
    BY <2>4 DEF Crash
  <2>5. CASE (Process /\ ~ ApplyCommand) \/ UNCHANGED vars
    <3>1. /\ mem' = mem /\ done' = done /\ store' = store /\ up' = up
          /\ fed' = fed /\ replaced' = replaced
      BY <2>5 DEF Process, SaveBegin, SaveWritten, SaveRename, SaveFails, Send,
                  EndTurn, vars
    <3> QED BY <3>1 DEF StoreIsLastWrite
  <2> QED BY <2>1, <2>2, <2>3, <2>4, <2>5 DEF Next
<1> QED BY InvHolds, <1>1, <1>2, PTL DEF Spec

(***************************************************************************)
(* The metrics never run ahead of the state machine.                       *)
(***************************************************************************)
THEOREM MetricsCorrect ==
  Spec => []ShownWasDone
<1>1. Init => ShownWasDone
  BY DEF Init, ShownWasDone
<1>2. ProcessInv /\ ShownWasDone /\ [Next]_vars => ShownWasDone'
  <2> SUFFICES ASSUME ProcessInv, ShownWasDone, [Next]_vars, up'
               PROVE  shown'.last_applied <= done'
    BY DEF ShownWasDone
  <2> USE DEF ProcessInv, coreVars, turnVars, machineVars, metricVars, fileVars,
              processVars, historyVars
  <2>1. done \in Nat /\ shown.last_applied \in Nat
    BY DEF TypeOK
  <2>2. CASE Handle
    <3>1. PICK s, saves, ms, upto : Begin(s, saves, ms, upto)
      BY <2>2, HandlersKeep, Zenon
    <3> QED BY <3>1 DEF Begin, ShownWasDone
  <2>3. CASE ApplyCommand
    BY <2>1, <2>3 DEF ApplyCommand, ShownWasDone
  <2>4. CASE EndTurn
    BY <2>1, <2>4 DEF EndTurn, update
  <2>5. CASE Start
    BY <2>5 DEF Start, update
  <2>6. CASE Crash
    BY <2>6 DEF Crash
  <2>7. CASE (Process /\ ~ ApplyCommand /\ ~ EndTurn) \/ UNCHANGED vars
    <3>1. shown' = shown /\ done' = done /\ up' = up
      BY <2>7 DEF Process, SaveBegin, SaveWritten, SaveRename, SaveFails, Send, vars
    <3> QED BY <3>1 DEF ShownWasDone
  <2> QED BY <2>2, <2>3, <2>4, <2>5, <2>6, <2>7 DEF Next
<1> QED BY InvHolds, <1>1, <1>2, PTL DEF Spec
=============================================================================

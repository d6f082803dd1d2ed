---------------------------- MODULE StableStore ----------------------------
(***************************************************************************)
(* What a node promises to the others, and all that Raft assumes of its    *)
(* storage: stable storage goes from one whole state to a later one in one *)
(* step, a crash leaves it alone, and no message leaves the node that      *)
(* speaks of a state later than the stored one, unless a save has failed.  *)
(*                                                                         *)
(* A state is a record with a field `version', a message one with a field  *)
(* `needs': the version that must be stored for the message to be true     *)
(* after a crash.                                                          *)
(***************************************************************************)
EXTENDS Naturals

CONSTANTS State, Message, Initial

VARIABLES
  stored,  \* what the node finds when it starts again
  outbox,  \* what the current turn has still to send
  sent,    \* everything sent so far
  failed   \* a save has failed

storeVars == <<stored, outbox, sent, failed>>

StoreInit ==
  /\ stored = Initial
  /\ outbox = {}
  /\ sent = {}
  /\ failed = FALSE

\* A turn stores a later state, or leaves the state as it is, and owes
\* messages that the stored state backs.
Turn ==
  /\ outbox = {}
  /\ stored' \in State /\ stored'.version >= stored.version
  /\ outbox' \subseteq Message
  /\ failed \/ \A m \in outbox' : m.needs <= stored'.version
  /\ UNCHANGED <<sent, failed>>

\* A turn whose save fails owes them all the same.
FailedTurn ==
  /\ outbox = {}
  /\ outbox' \subseteq Message
  /\ failed' = TRUE
  /\ UNCHANGED <<stored, sent>>

Transmit(m) ==
  /\ m \in outbox
  /\ outbox' = outbox \ {m}
  /\ sent' = sent \cup {m}
  /\ UNCHANGED <<stored, failed>>

Crash ==
  /\ outbox' = {}
  /\ UNCHANGED <<stored, sent, failed>>

StoreNext == Turn \/ FailedTurn \/ (\E m \in outbox : Transmit(m)) \/ Crash

StoreSpec == StoreInit /\ [][StoreNext]_storeVars
=============================================================================

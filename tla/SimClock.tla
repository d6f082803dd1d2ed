------------------------------ MODULE SimClock ------------------------------
(***************************************************************************)
(* The simulator's clock: time passes only in tick, and a sleeping task is *)
(* woken by the tick that reaches its deadline.  Ticks and polls run on    *)
(* different threads.  Both touch the time without a lock and the heap of  *)
(* wakers with one, so each is two steps here: tick adds and then wakes,   *)
(* poll reads and then registers.                                          *)
(*                                                                         *)
(* A task sleeps once, as the tasks that the network and the timers spawn  *)
(* do.  Times and deadlines past MaxTime count as MaxTime: ticks go on     *)
(* there, and a deadline at MaxTime is reached as any other.               *)
(*                                                                         *)
(* As in RaftLog, <operator>_<fault> is a seeded fault for mutation runs.  *)
(***************************************************************************)
EXTENDS Integers, FiniteSets

CONSTANTS
  Task,     \* the tasks that may be spawned
  MaxTime,  \* bound: later times count as this one
  MaxStep   \* the largest step of the automatic advance

ASSUME ClockAssumption == MaxTime \in Nat /\ MaxStep \in Nat \ {0}

VARIABLES
  now,     \* now_us
  paused,
  step,    \* step_us
  wakers,  \* the heap, as a set of entries [deadline, task]
  sleep,   \* of each task: where its SimSleep is, and its deadline
  ticker   \* of each thread that calls tick: how far the call is

clockVars == <<now, paused, step, wakers, sleep, ticker>>

Ticker == {"auto", "ui"}  \* spawn_auto_advance, and the key for one step

----------------------------------------------------------------------------
(* tick                                                                    *)

\* One round of spawn_auto_advance reads paused and step ...
AutoAdvance ==
  /\ ticker["auto"].at = "idle"
  /\ ~ paused
  /\ ticker' = [ticker EXCEPT !["auto"] = [at |-> "adding", time |-> step]]
  /\ UNCHANGED <<now, paused, step, wakers, sleep>>

\* ... and the step key calls tick, paused or not.
StepClock ==
  /\ ticker["ui"].at = "idle"
  /\ ticker' = [ticker EXCEPT !["ui"] = [at |-> "adding", time |-> 1]]
  /\ UNCHANGED <<now, paused, step, wakers, sleep>>

Later(time) == IF now + time <= MaxTime THEN now + time ELSE MaxTime

\* tick: fetch_add.  `time' is new_now from here on.
TickAdd(k) ==
  /\ ticker[k].at = "adding"
  /\ now' = Later(ticker[k].time)
  /\ ticker' = [ticker EXCEPT ![k] = [at |-> "waking", time |-> now']]
  /\ UNCHANGED <<paused, step, wakers, sleep>>

\* The heap is ordered by deadline, so popping until an entry is not due
\* pops these.
Due(time) == {e \in wakers : e.deadline <= time}

\* tick: pop and wake every entry that is due, under the lock.
TickWake(k) ==
  LET due == Due(ticker[k].time)
  IN  /\ ticker[k].at = "waking"
      /\ wakers' = wakers \ due
      /\ sleep' = [t \in Task |->
                     IF \E e \in due : e.task = t
                     THEN [sleep[t] EXCEPT !.at = "polled"]
                     ELSE sleep[t]]
      /\ ticker' = [ticker EXCEPT ![k] = [at |-> "idle", time |-> 0]]
      /\ UNCHANGED <<now, paused, step>>

----------------------------------------------------------------------------
(* SimSleep, in a task of its own                                          *)

\* tokio::spawn of the async block in Network::deliver.
Spawn(t) ==
  /\ sleep[t].at = "none"
  /\ sleep' = [sleep EXCEPT ![t].at = "spawned"]
  /\ UNCHANGED <<now, paused, step, wakers, ticker>>

\* The task runs for the first time and calls Clock::sleep.
Sleep(t, duration) ==
  /\ sleep[t].at = "spawned"
  /\ sleep' = [sleep EXCEPT ![t] = [at       |-> "polled",
                                   deadline |-> Later(duration)]]
  /\ UNCHANGED <<now, paused, step, wakers, ticker>>

\* poll: compare the time with the deadline ...
PollRead(t) ==
  /\ sleep[t].at = "polled"
  /\ sleep' = [sleep EXCEPT ![t].at =
                 IF now >= sleep[t].deadline THEN "over" ELSE "registering"]
  /\ UNCHANGED <<now, paused, step, wakers, ticker>>

register_waker_OnePerDeadline(t) ==
  wakers' = {e \in wakers : e.deadline # sleep[t].deadline}
              \cup {[deadline |-> sleep[t].deadline, task |-> t]}

\* Entries compare by deadline only, but a heap keeps equal ones.
register_waker(t) ==
  wakers' = wakers \cup {[deadline |-> sleep[t].deadline, task |-> t]}

\* ... and, when it is not reached, register.  The time may have moved on
\* in between, and the tick that moved it may have emptied the heap.
PollRegister(t) ==
  /\ sleep[t].at = "registering"
  /\ register_waker(t)
  /\ sleep' = [sleep EXCEPT ![t].at = "pending"]
  /\ UNCHANGED <<now, paused, step, ticker>>

----------------------------------------------------------------------------
(* The keys that control the clock.  They are handled on the thread of the *)
(* step key, never in the middle of its tick.                              *)

UiFree == ticker["ui"].at = "idle"

TogglePause ==
  /\ UiFree
  /\ paused' = ~ paused
  /\ UNCHANGED <<now, step, wakers, sleep, ticker>>

\* set_speed_us clamps to [1, MaxStep].
SetSpeed(s) ==
  /\ UiFree
  /\ step' = IF s < 1 THEN 1 ELSE IF s > MaxStep THEN MaxStep ELSE s
  /\ UNCHANGED <<now, paused, wakers, sleep, ticker>>

----------------------------------------------------------------------------
ClockInit ==
  /\ now = 0
  /\ paused = FALSE
  /\ step = MaxStep
  /\ wakers = {}
  /\ sleep = [t \in Task |-> [at |-> "none", deadline |-> 0]]
  /\ ticker = [k \in Ticker |-> [at |-> "idle", time |-> 0]]

ClockRuns ==
  \/ AutoAdvance
  \/ \E k \in Ticker : TickAdd(k) \/ TickWake(k)
  \/ \E t \in Task : PollRead(t) \/ PollRegister(t)

\* The advance goes on while the clock is not paused, a call of tick that
\* has begun ends, and a task that was woken runs.
ClockFairness ==
  /\ WF_clockVars(AutoAdvance)
  /\ \A k \in Ticker : WF_clockVars(TickAdd(k)) /\ WF_clockVars(TickWake(k))
  /\ \A t \in Task : WF_clockVars(PollRead(t)) /\ WF_clockVars(PollRegister(t))

----------------------------------------------------------------------------
(***************************************************************************)
(* A sleep whose deadline has passed ends, unless the clock is paused:     *)
(* also one that registers its waker only after the tick that should have  *)
(* woken it (SimSleep::poll against SimulatedClock::tick), and also with   *)
(* another sleep of the same deadline.                                     *)
(***************************************************************************)
SleepEnds ==
  \A t \in Task :
    sleep[t].at \in {"polled", "registering", "pending"}
      /\ sleep[t].deadline <= now
    ~> sleep[t].at = "over" \/ paused
=============================================================================

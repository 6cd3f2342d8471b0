----------------------------- MODULE TaskExecutor -----------------------------
(***************************************************************************)
(* What COMMON/thread promises to the CHANNEL server, without its locks,    *)
(* condition variables and threads: a pool of lanes, each a FIFO of tasks   *)
(* run one at a time.  A task is accepted once or rejected, an accepted     *)
(* task is run once, and all tasks of one key share one lane, so the tasks  *)
(* of one session (SubmitByKey(m_sessionId, ...)) run in order and never    *)
(* two at once.                                                             *)
(***************************************************************************)
EXTENDS Naturals, Sequences

CONSTANTS
  Task,      \* the tasks that are ever submitted
  NoTask,    \* "this lane runs nothing"
  PoolSize,  \* number of lanes
  Keyed,     \* the tasks submitted with a key
  Key        \* the key of each of them

VARIABLES
  open,      \* open[w]: lane w accepts tasks
  pending,   \* pending[w]: accepted and not begun, oldest first
  active,    \* active[w]: the task lane w is running
  outcome    \* outcome[t]: "new", "accepted", "rejected" or "finished"

vars == <<open, pending, active, outcome>>

Lane == 0 .. (PoolSize - 1)

LaneOf(t) == IF t \in Keyed THEN {Key[t] % PoolSize} ELSE Lane

Init ==
  /\ open = [w \in Lane |-> FALSE]
  /\ pending = [w \in Lane |-> <<>>]
  /\ active = [w \in Lane |-> NoTask]
  /\ outcome = [t \in Task |-> "new"]

Open(w) ==
  /\ ~open[w]
  /\ open' = [open EXCEPT ![w] = TRUE]
  /\ UNCHANGED <<pending, active, outcome>>

Close(w) ==
  /\ open[w]
  /\ open' = [open EXCEPT ![w] = FALSE]
  /\ UNCHANGED <<pending, active, outcome>>

Accept(t, w) ==
  /\ outcome[t] = "new"
  /\ open[w]
  /\ w \in LaneOf(t)
  /\ pending' = [pending EXCEPT ![w] = Append(@, t)]
  /\ outcome' = [outcome EXCEPT ![t] = "accepted"]
  /\ UNCHANGED <<open, active>>

\* A closed lane, or one that is not open yet, rejects in silence.
Reject(t, w) ==
  /\ outcome[t] = "new"
  /\ ~open[w]
  /\ w \in LaneOf(t)
  /\ outcome' = [outcome EXCEPT ![t] = "rejected"]
  /\ UNCHANGED <<open, pending, active>>

Begin(w) ==
  /\ active[w] = NoTask
  /\ pending[w] # <<>>
  /\ active' = [active EXCEPT ![w] = Head(pending[w])]
  /\ pending' = [pending EXCEPT ![w] = Tail(@)]
  /\ UNCHANGED <<open, outcome>>

Finish(w) ==
  /\ active[w] # NoTask
  /\ outcome[active[w]] = "accepted"
  /\ outcome' = [outcome EXCEPT ![active[w]] = "finished"]
  /\ active' = [active EXCEPT ![w] = NoTask]
  /\ UNCHANGED <<open, pending>>

Next ==
  \/ \E w \in Lane : Open(w) \/ Close(w) \/ Begin(w) \/ Finish(w)
  \/ \E t \in Task, w \in Lane : Accept(t, w) \/ Reject(t, w)

Spec == Init /\ [][Next]_vars
===============================================================================

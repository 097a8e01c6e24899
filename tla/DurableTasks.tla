----------------------------- MODULE DurableTasks -----------------------------
(***************************************************************************)
(* What a service of durable tasks promises: a task that was accepted is   *)
(* never forgotten, is settled once for each time it was asked for, and is *)
(* found again after a restart with the outcome that was seen, unless it   *)
(* is in doubt.  A fault, and nothing else, puts a task in doubt; not even *)
(* then does one succeed that has not, or come back after its deletion.    *)
(***************************************************************************)

CONSTANTS
  Task,         \* everything the service may be asked for
  Outcome,      \* how a task may end
  Success,      \* the outcomes that have brought something
  Repeatable,   \* those after which a task may be asked for again
  Deletable,    \* those after which it may be deleted
  FaultsHappen  \* whether a write may fail or be cut short

VARIABLES
  up,       \* whether the service can be asked
  phase,    \* what is shown of each task
  doubtful  \* the tasks a fault has put in doubt

durable == <<up, phase, doubtful>>

Init ==
  /\ up = TRUE
  /\ phase = [t \in Task |-> "none"]
  /\ doubtful = {}

-----------------------------------------------------------------------------
\* What is written of a task may put it in doubt, or end that.
Write(t) ==
  \/ doubtful' \in {doubtful, doubtful \ {t}}
  \/ FaultsHappen /\ doubtful' = doubtful \cup {t}

\* A task that the service serves goes on from one of some phases to another.
Turn(t, from, to) ==
  /\ up
  /\ phase[t] \in from
  /\ \E next \in to : phase' = [phase EXCEPT ![t] = next]
  /\ Write(t)
  /\ UNCHANGED up

Accept(t) == Turn(t, {"none"}, {"pending"})
Settle(t) == Turn(t, {"pending"}, Outcome)
Repeat(t) == Turn(t, Repeatable, {"pending"})
Delete(t) == Turn(t, Deletable, {"deleted"})

\* Something is written that changes nothing one can see.
Keep(t) == up /\ Write(t) /\ UNCHANGED <<up, phase>>

-----------------------------------------------------------------------------
\* The service ends, in whatever it does.
Close ==
  /\ up
  /\ up' = FALSE
  /\ UNCHANGED <<phase, doubtful>>

\* What a restart may find of a task.  One that was not settled may have been, since.
Found(t) ==
  CASE phase[t] = "deleted" -> {"deleted"}
    [] phase[t] = "pending" -> {"pending"} \cup Outcome
    [] phase[t] = "none"    -> {"none"} \cup IF t \in doubtful
                                             THEN {"pending"} \cup (Outcome \ Success) ELSE {}
    [] OTHER                -> {phase[t]} \cup
                               IF t \in doubtful
                               THEN {"pending"} \cup (Outcome \ Success)
                                      \cup IF phase[t] \in Deletable THEN {"deleted"} ELSE {}
                               ELSE {}

Open ==
  /\ ~up
  /\ up' = TRUE
  /\ \A t \in Task : phase'[t] \in Found(t)
  /\ DOMAIN phase' = Task
  /\ doubtful' \subseteq doubtful

-----------------------------------------------------------------------------
Next ==
  \/ \E t \in Task : Accept(t) \/ Settle(t) \/ Repeat(t) \/ Delete(t) \/ Keep(t)
  \/ Close
  \/ Open

Spec == Init /\ [][Next]_durable
=============================================================================

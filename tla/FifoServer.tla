------------------------------ MODULE FifoServer ------------------------------
(***************************************************************************)
(* What the operation actor promises its callers: a first-in first-out     *)
(* server with Slots places that never lets a place stand empty while a    *)
(* job waits, refuses a job only when every place and the waiting room are *)
(* full, lets a waiting job leave, and settles each job once.              *)
(***************************************************************************)
EXTENDS Naturals, FiniteSets, Queues

CONSTANTS
  Job,    \* everything that can be asked of the server
  Slots,  \* jobs served at a time
  Room    \* jobs that may wait

VARIABLES
  waiting,  \* jobs in the order they arrived
  serving,  \* jobs in a place
  settled   \* jobs that are over, however they ended

jobs == <<waiting, serving, settled>>

Init ==
  /\ waiting = <<>>
  /\ serving = {}
  /\ settled = {}

\* A job is served at once, waits, or is refused and never seen.
Arrive(j) ==
  /\ j \notin Range(waiting) \cup serving \cup settled
  /\ \/ /\ Cardinality(serving) < Slots
        /\ serving' = serving \cup {j}
        /\ UNCHANGED waiting
     \/ /\ Cardinality(serving) = Slots
        /\ Len(waiting) < Room
        /\ waiting' = Append(waiting, j)
        /\ UNCHANGED serving
  /\ UNCHANGED settled

\* A waiting job gives up.
Leave(j) ==
  /\ j \in Range(waiting)
  /\ waiting' = Without(waiting, j)
  /\ settled' = settled \cup {j}
  /\ UNCHANGED serving

\* A served job ends and hands its place to the first one waiting.
Depart(j) ==
  /\ j \in serving
  /\ serving' = (serving \ {j}) \cup First(waiting)
  /\ waiting' = Rest(waiting)
  /\ settled' = settled \cup {j}

Next == \E j \in Job : Arrive(j) \/ Leave(j) \/ Depart(j)

Spec == Init /\ [][Next]_jobs
=============================================================================

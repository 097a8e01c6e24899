------------------------- MODULE ImageDownloadService -------------------------
(***************************************************************************)
(* The durable image download tasks: ImageDownloadService of               *)
(* image_download.rs, through restarts of the Core.                        *)
(*                                                                         *)
(* A task lives in a map behind a mutex and in a task.json file.  Requests *)
(* act under the mutex; the worker of a task works on a copy of its own,   *)
(* writes the file before the map, and shares the map with a second task   *)
(* that applies progress.  The mutex is held across the writes of start,   *)
(* retry and delete, which are single steps here; a worker's file write,   *)
(* token removal and map update are separate steps wherever somebody can   *)
(* look in between.                                                        *)
(*                                                                         *)
(* After a crash the map keeps its last value, to be compared with what    *)
(* the next open() reads; nobody can look at it while the Core is closed.  *)
(***************************************************************************)
EXTENDS Naturals, FiniteSets

CONSTANTS
  Task,                 \* task identifiers, each used once
  MaxActive,            \* ImageDownloadConfig.max_active
  MaxQueued,            \* ImageDownloadConfig.max_queued
  MaxRevision,          \* bound: revisions at which retries and progress end
  TerminalSaveMayFail,  \* whether the ignored write of a terminal state may fail
  RequestsMayBeDropped  \* whether a request's future may be dropped half way

ASSUME ImageDownloadAssumption ==
  /\ IsFiniteSet(Task)
  /\ MaxActive \in Nat \ {0}
  /\ MaxQueued \in Nat \ {0}
  /\ MaxRevision \in Nat
  /\ TerminalSaveMayFail \in BOOLEAN
  /\ RequestsMayBeDropped \in BOOLEAN

VARIABLES
  core,      \* whether the Core is open, stopping or closed
  tasks,     \* the tasks map: state and revision of each snapshot
  disk,      \* the task.json files
  token,     \* the cancellations map
  request,   \* tasks whose start or retry is between its insert and schedule()
  worker,    \* where the run() of each task is
  holder,    \* tasks whose worker holds a permit
  copy,      \* the snapshot each worker is about to publish
  unsaved,   \* the snapshot consume_progress is about to write, if any
  stranded,  \* tasks whose request was dropped before it scheduled them
  unwritten  \* tasks whose file a fault has kept from agreeing with the map, or
             \* that are queued again because of it

store  == <<tasks, disk>>
faults == <<stranded, unwritten>>
vars == <<core, store, token, request, worker, holder, copy, unsaved, faults>>

Terminal == {"Completed", "Failed", "Cancelled"}   \* a fetch also returns one of these
Live     == {"Queued", "Running"}
Snapshot(st, rev) == [state |-> st, revision |-> rev]
Absent  == Snapshot("absent", 0)
Deleted == Snapshot("deleted", 0)

In(map, S) == {t \in Task : map[t].state \in S}

\* A worker's token is a child of the shutdown token.
IsCancelled(t) == token[t] = "cancelled" \/ core = "stopping"

Serving == core \in {"open", "stopping"}

Init ==
  /\ core = "open"
  /\ tasks = [t \in Task |-> Absent]
  /\ disk = [t \in Task |-> Absent]
  /\ token = [t \in Task |-> "none"]
  /\ request = {}
  /\ worker = [t \in Task |-> "none"]
  /\ holder = {}
  /\ copy = [t \in Task |-> Absent]
  /\ unsaved = [t \in Task |-> Absent]
  /\ stranded = {}
  /\ unwritten = {}

-----------------------------------------------------------------------------
(* Requests.  The handle reaches the service whether or not the Core is     *)
(* stopping.                                                               *)

At(t, place) == worker' = [worker EXCEPT ![t] = place]
Save(t, snapshot) == disk' = [disk EXCEPT ![t] = snapshot]
Show(t, snapshot) == tasks' = [tasks EXCEPT ![t] = snapshot]

(* A definition named Faulty... is its namesake with a slip one could make in   *)
(* the code.  Nothing uses it but the check that a property notices the slip.  *)

\* One task too many is admitted.
FaultyAdmitted == Cardinality(In(tasks, Live)) <= MaxActive + MaxQueued

\* The limit start_task() and retry() check under the mutex.
Admitted == Cardinality(In(tasks, Live)) < MaxActive + MaxQueued

\* The task is written and inserted; nothing remains if the write fails.
Enter(t, rev) ==
  /\ Admitted
  /\ Save(t, Snapshot("Queued", rev))
  /\ Show(t, Snapshot("Queued", rev))
  /\ request' = request \cup {t}
  /\ unwritten' = unwritten \ {t}
  /\ UNCHANGED <<core, token, worker, holder, copy, unsaved, stranded>>

Fresh(t) == tasks[t] = Absent /\ disk[t] = Absent

\* Retry and delete fail on a task whose directory is gone.
Settled(t) == tasks[t].state \in Terminal /\ disk[t] # Deleted

Start(t) ==
  /\ Serving
  /\ Fresh(t)
  /\ Enter(t, 1)

Retry(t) ==
  /\ Serving
  /\ Settled(t)
  /\ tasks[t].revision < MaxRevision
  /\ Enter(t, tasks[t].revision + 1)

\* schedule(), once the event of the request has been sent.
Schedule(t) ==
  /\ Serving
  /\ t \in request
  /\ request' = request \ {t}
  /\ token' = [token EXCEPT ![t] = "live"]
  /\ At(t, "waiting")
  /\ UNCHANGED <<core, store, holder, copy, unsaved, faults>>

\* The HTTP client goes away while the request awaits the event channel: the
\* handler's future is dropped there and schedule() is never reached.
DropRequest(t) ==
  /\ RequestsMayBeDropped
  /\ Serving
  /\ t \in request
  /\ request' = request \ {t}
  /\ stranded' = stranded \cup {t}
  /\ UNCHANGED <<core, store, token, worker, holder, copy, unsaved, unwritten>>

\* cancel() finds the token of the task, or is not allowed.
Cancel(t) ==
  /\ Serving
  /\ token[t] # "none"
  /\ token' = [token EXCEPT ![t] = "cancelled"]
  /\ UNCHANGED <<core, store, request, worker, holder, copy, unsaved, faults>>

\* A running task is deleted under its worker.
FaultyDelete(t) ==
  /\ Serving
  /\ tasks[t].state \in Terminal \cup {"Running"}
  /\ Save(t, Deleted)
  /\ Show(t, Deleted)
  /\ unwritten' = unwritten \ {t}
  /\ UNCHANGED <<core, token, request, worker, holder, copy, unsaved, stranded>>

\* delete() of a settled task removes its directory, then its entry.
Delete(t) ==
  /\ Serving
  /\ Settled(t)
  /\ Save(t, Deleted)
  /\ Show(t, Deleted)
  /\ unwritten' = unwritten \ {t}
  /\ UNCHANGED <<core, token, request, worker, holder, copy, unsaved, stranded>>

\* The handler's future is dropped while start, retry or delete awaits the file
\* system.  What it has asked for is done all the same, and the map not changed.
DropWrite(t) ==
  /\ RequestsMayBeDropped
  /\ Serving
  /\ \/ Fresh(t) /\ Admitted /\ Save(t, Snapshot("Queued", 1))
     \/ /\ Settled(t) /\ Admitted
        /\ tasks[t].revision < MaxRevision
        /\ Save(t, Snapshot("Queued", tasks[t].revision + 1))
     \/ Settled(t) /\ Save(t, Deleted)
  /\ unwritten' = unwritten \cup {t}
  /\ UNCHANGED <<core, tasks, token, request, worker, holder, copy, unsaved, stranded>>

-----------------------------------------------------------------------------
(* The worker of a task: run(). *)

\* A worker that will not fetch any more writes its terminal snapshot, ignoring a
\* failure, and keeps it until it has given back its token.
Settle(t, snapshot) ==
  /\ At(t, "settling")
  /\ copy' = [copy EXCEPT ![t] = snapshot]
  /\ \/ /\ Save(t, snapshot)
        /\ UNCHANGED unwritten
     \/ /\ TerminalSaveMayFail
        /\ unwritten' = unwritten \cup {t}
        /\ UNCHANGED disk
  /\ UNCHANGED <<core, tasks, token, request, unsaved, stranded>>

\* finish_cancelled(): the select sees the cancellation before a permit.
GiveUp(t) ==
  /\ Serving
  /\ worker[t] = "waiting"
  /\ IsCancelled(t)
  /\ Settle(t, Snapshot("Cancelled", tasks[t].revision + 1))
  /\ UNCHANGED holder

\* The semaphore of max_active permits; it is held until run() returns.
Acquire(t) ==
  /\ worker[t] = "waiting"
  /\ Cardinality(holder) < MaxActive
  /\ holder' = holder \cup {t}

\* The task is written as running, then shown as running.
Run(t) ==
  /\ Serving
  /\ Acquire(t)
  /\ LET running == Snapshot("Running", tasks[t].revision + 1)
     IN  Save(t, running) /\ Show(t, running)
  /\ At(t, "fetching")
  /\ UNCHANGED <<core, token, request, copy, unsaved, faults>>

\* finish_failed(): the write of the running state fails and is not ignored.
RunFails(t) ==
  /\ Serving
  /\ Acquire(t)
  /\ Settle(t, Snapshot("Failed", tasks[t].revision + 2))

\* consume_progress() takes a report and applies it under the mutex, then may
\* have to write what it has applied; reports left in the channel outlive the fetch.
Progress(t) ==
  /\ Serving
  /\ worker[t] \in {"fetching"} \cup Terminal
  /\ unsaved[t] = Absent
  /\ tasks[t].revision < MaxRevision
  /\ LET applied == [tasks[t] EXCEPT !.revision = @ + 1]
     IN  /\ Show(t, applied)
         /\ \/ unsaved' = [unsaved EXCEPT ![t] = applied]
            \/ UNCHANGED unsaved
  /\ UNCHANGED <<core, disk, token, request, worker, holder, copy, faults>>

\* The throttled write of progress; its failure only makes the next one due.
SaveProgress(t) ==
  /\ Serving
  /\ unsaved[t] # Absent
  /\ Save(t, unsaved[t]) \/ UNCHANGED disk
  /\ unsaved' = [unsaved EXCEPT ![t] = Absent]
  /\ UNCHANGED <<core, tasks, token, request, worker, holder, copy, faults>>

\* fetch_and_publish() returns.  It may be cancelled through a transfer shared
\* with another caller although its own token is not.
Fetch(t) ==
  /\ Serving
  /\ worker[t] = "fetching"
  /\ \E r \in Terminal : At(t, r)
  /\ UNCHANGED <<core, store, token, request, holder, copy, unsaved, faults>>

\* A failed fetch leaves the state as it was.
FaultyVerdict(t) == IF worker[t] = "Failed" THEN tasks[t].state ELSE worker[t]

\* Whether the fetch was stopped is decided when run() looks at its token.
Verdict(t) ==
  IF worker[t] = "Failed" /\ IsCancelled(t) THEN "Cancelled" ELSE worker[t]

\* The progress task is not joined.
FaultyConclude(t) ==
  /\ Serving
  /\ worker[t] \in Terminal
  /\ Settle(t, Snapshot(Verdict(t), tasks[t].revision + 1))
  /\ UNCHANGED holder

\* The progress task has been joined: the worker takes the snapshot from the
\* map, with all progress applied, and settles it.
Conclude(t) ==
  /\ Serving
  /\ worker[t] \in Terminal
  /\ unsaved[t] = Absent
  /\ Settle(t, Snapshot(Verdict(t), tasks[t].revision + 1))
  /\ UNCHANGED holder

\* The token stays in the map.
FaultyRelease(t) ==
  /\ Serving
  /\ worker[t] = "settling"
  /\ At(t, "released")
  /\ UNCHANGED <<core, store, token, request, holder, copy, unsaved, faults>>

\* cancellations.remove(), before anyone can see the terminal state.
Release(t) ==
  /\ Serving
  /\ worker[t] = "settling"
  /\ token' = [token EXCEPT ![t] = "none"]
  /\ At(t, "released")
  /\ UNCHANGED <<core, store, request, holder, copy, unsaved, faults>>

\* tasks.insert() of the terminal snapshot, after which the worker only sends
\* its event; the permit goes with it.
Publish(t) ==
  /\ Serving
  /\ worker[t] = "released"
  /\ Show(t, copy[t])
  /\ copy' = [copy EXCEPT ![t] = Absent]
  /\ At(t, "none")
  /\ holder' = holder \ {t}
  /\ unwritten' = IF disk[t] = copy[t] THEN unwritten \ {t} ELSE unwritten
  /\ UNCHANGED <<core, disk, token, request, unsaved, stranded>>

-----------------------------------------------------------------------------
(* The life of the Core. *)

\* shutdown() cancels the token every worker's token is a child of.
BeginShutdown ==
  /\ core = "open"
  /\ core' = "stopping"
  /\ UNCHANGED <<store, token, request, worker, holder, copy, unsaved, faults>>

\* The process ends, at any point: a crash, a shutdown whose workers have all
\* given back their tokens, or one whose deadline has passed.
Close ==
  /\ Serving
  /\ core' = "closed"
  /\ token' = [t \in Task |-> "none"]
  /\ request' = {}
  /\ worker' = [t \in Task |-> "none"]
  /\ holder' = {}
  /\ copy' = [t \in Task |-> Absent]
  /\ unsaved' = [t \in Task |-> Absent]
  /\ stranded' = {}
  /\ UNCHANGED <<store, unwritten>>

\* open(): what was running has failed, what was queued is scheduled again.
Open ==
  /\ core = "closed"
  /\ core' = "open"
  /\ LET read == [t \in Task |->
                    IF disk[t].state = "Running"
                    THEN Snapshot("Failed", disk[t].revision + 1)
                    ELSE disk[t]]
         queued == In(read, {"Queued"})
     IN  /\ tasks' = read
         /\ disk' = read
         /\ token' = [t \in Task |-> IF t \in queued THEN "live" ELSE "none"]
         /\ worker' = [t \in Task |-> IF t \in queued THEN "waiting" ELSE "none"]
         /\ unwritten' = unwritten \cap queued
  /\ UNCHANGED <<request, holder, copy, unsaved, stranded>>

-----------------------------------------------------------------------------
Request(t) ==
  Start(t) \/ Retry(t) \/ Schedule(t) \/ Cancel(t) \/ Delete(t)
    \/ DropRequest(t) \/ DropWrite(t)

Work(t) ==
  GiveUp(t) \/ Run(t) \/ RunFails(t) \/ Progress(t) \/ SaveProgress(t)
    \/ Fetch(t) \/ Conclude(t) \/ Release(t) \/ Publish(t)

Next ==
  \/ \E t \in Task : Request(t) \/ Work(t)
  \/ BeginShutdown
  \/ Close
  \/ Open

Spec == Init /\ [][Next]_vars
-----------------------------------------------------------------------------
(* Properties. *)

SnapshotOf(S) == [state : S, revision : Nat]

\* The shape of the service's data and of the files.
TypeOK ==
  /\ core \in {"open", "stopping", "closed"}
  /\ tasks \in [Task -> SnapshotOf(Live \cup Terminal \cup {"absent", "deleted"})]
  /\ disk \in [Task -> SnapshotOf(Live \cup Terminal \cup {"absent", "deleted"})]
  /\ token \in [Task -> {"none", "live", "cancelled"}]
  /\ request \in SUBSET Task
  /\ worker \in [Task -> {"none", "waiting", "fetching", "settling", "released"}
                           \cup Terminal]
  /\ holder \in SUBSET Task
  /\ copy \in [Task -> SnapshotOf(Terminal \cup {"absent"})]
  /\ unsaved \in [Task -> SnapshotOf({"Running", "absent"})]
  /\ stranded \in SUBSET Task
  /\ unwritten \in SUBSET Task

\* The limits of image_downloads hold for the tasks admitted and for those shown as
\* running, also when a restart has brought back what was queued.  Only a task whose
\* file a fault has kept from agreeing with the map may come back on top of them.
LimitsRespected ==
  Serving =>
    /\ Cardinality(In(tasks, Live) \ unwritten) <= MaxActive + MaxQueued
    /\ Cardinality(In(tasks, {"Running"})) <= MaxActive

\* A task is queued or running exactly as long as one request or one worker will
\* settle it, or a dropped request has stranded it; and as long as the worker works,
\* its token is there for cancel() and shutdown(): a retry never meets the last
\* worker, nor loses its token to it.
LiveTaskIsBacked ==
  Serving =>
    \A t \in Task :
      /\ tasks[t].state \in Live <=> t \in request \cup stranded \/ worker[t] # "none"
      /\ ~(t \in request \cup stranded /\ worker[t] # "none")
      /\ token[t] # "none" <=> worker[t] \notin {"none", "released"}

\* FVCORE.md:277 has terminal snapshots always persisted: what a client has seen
\* settled is what a restart brings back, unless a write failed unnoticed or went on
\* when its request was gone.
SettledIsDurable ==
  \A t \in Task \ unwritten : tasks[t].state \in Terminal => disk[t] = tasks[t]

\* A shutdown that finds the cancellations empty leaves no file that says running:
\* each worker has saved its recovery point before its token goes.
RecoveryPointSaved ==
  Serving =>
    \A t \in Task \ unwritten : token[t] = "none" => disk[t].state # "Running"

\* While the Core runs, each change of a snapshot has a higher revision, although
\* two tasks write it and one of them works on a copy.
RevisionGrows ==
  [][\A t \in Task :
       Serving /\ tasks'[t] # tasks[t] /\ tasks'[t] # Deleted
         => tasks'[t].revision > tasks[t].revision]_vars

\* A deleted task does not come back: no request, worker, late progress or restart
\* writes a file or an entry for it again.
DeletedStaysDeleted ==
  [][\A t \in Task :
       disk[t] = Deleted => disk'[t] = Deleted /\ tasks'[t] \in {Deleted, tasks[t]}]_vars

\* Snapshots only move forward: neither a copy nor a late write nor a request brings back
\* an earlier revision or a deleted task.
SnapshotsMoveForward == RevisionGrows /\ DeletedStaysDeleted

\* The files show what a restart has to know: what was settled, and what was running.
FilesAreCurrent == SettledIsDurable /\ RecoveryPointSaved

\* What a client is shown of a task.
Phase(t) ==
  CASE tasks[t].state = "absent" -> "none"
    [] tasks[t].state \in Live   -> "pending"
    [] OTHER                     -> tasks[t].state

\* The image downloads are durable tasks: whatever the worker, its progress task, requests
\* dropped half way and restarts do to the map and the file, no accepted task is forgotten,
\* settled without having been asked for, or found after a restart with another outcome
\* than it had, unless the write of its file was lost.
Durable == INSTANCE DurableTasks WITH
  Outcome <- Terminal, Success <- {"Completed"}, Repeatable <- Terminal,
  Deletable <- Terminal, FaultsHappen <- TerminalSaveMayFail \/ RequestsMayBeDropped,
  up <- Serving, phase <- [t \in Task |-> Phase(t)], doubtful <- unwritten

ImplementsDurableTasks == Durable!Spec

\* FVCORE.md:278 has queued tasks go on waiting after a restart: a waiting worker
\* gives up only because a client has cancelled its task.
QueuedOutlivesShutdown ==
  [][\A t \in Task :
       worker[t] = "waiting" /\ worker'[t] = "settling" /\ copy'[t].state = "Cancelled"
         => token[t] = "cancelled"]_vars
=============================================================================

---------------------------- MODULE ArchiveService ----------------------------
(***************************************************************************)
(* The durable EH Archive tasks: ArchiveService of archive.rs, through     *)
(* restarts of the Core.  Submitting a task may cost the account; what is  *)
(* bought is a signed URL, which makes a failed download retryable without *)
(* paying again.                                                           *)
(*                                                                         *)
(* A task lives in a map behind a mutex and in a task.json file.  Handlers *)
(* and workers change the map and write the file while they hold the       *)
(* mutex, so each of these is one step; some write the file only after the *)
(* map has changed and ignore, or return, a failure.  Sending the event of *)
(* a settled task and removing its token come later, without the mutex.    *)
(*                                                                         *)
(* After a crash the map keeps its last value, to be compared with what    *)
(* the next open() reads; nobody can look at it while the Core is closed.  *)
(* A retry that finds the URL expired changes nothing and is not shown.    *)
(***************************************************************************)
EXTENDS Naturals, FiniteSets

CONSTANTS
  Task,                 \* task identifiers, each used once
  MaxRevision,          \* bound: revisions at which retries and progress end
  MaxReports,           \* bound: the revision at which failed consumptions end
  MaxRestarts,          \* bound: how often the Core is opened again
  SavesMayFail,         \* whether writing a task.json may fail
  RequestsMayBeDropped  \* whether a request's future may be dropped half way

ASSUME ArchiveAssumption ==
  /\ MaxRevision \in Nat
  /\ MaxReports \in Nat
  /\ MaxRestarts \in Nat
  /\ SavesMayFail \in BOOLEAN
  /\ RequestsMayBeDropped \in BOOLEAN

VARIABLES
  core,       \* whether the Core is open, stopping or closed
  restarts,   \* how often it has been opened again
  tasks,      \* the tasks map
  disk,       \* the task.json files
  token,      \* the cancellations map: no token, that of the worker, or that
              \* of an earlier worker that has still to remove it
  stopped,    \* tasks whose worker's own token is cancelled
  request,    \* what the start or retry of a task is about to spawn
  worker,     \* where the worker of each task is
  slot,       \* the tasks holding the permit of download_slot
  leaving,    \* revisions settled but not yet announced by the worker
  announced,  \* the latest revision of each task sent to the event hub
  charged,    \* how often the submission of a task has reached the server
  stranded,   \* tasks that a fault or a restart has left with nobody to settle
  silenced    \* tasks a change of which a fault has kept from the event hub

life    == <<core, restarts>>
store   == <<tasks, disk>>
running == <<worker, slot>>
faults  == <<stranded, silenced>>
vars == <<life, store, token, stopped, request, running, leaving, announced, charged,
          faults>>

Live     == {"Submitting", "Ready", "Downloading"}
Terminal == {"Completed", "Consumed", "Failed", "Cancelled", "CostUnknown"}
Returned == {"Completed", "Failed", "Cancelled"}   \* by a transfer

\* A task's state, revision, whether its signed URL is known and whether its
\* snapshot has a final path.
Snapshot(st, rev, url, path) ==
  [state |-> st, revision |-> rev, url |-> url, path |-> path]
Absent == Snapshot("absent", 0, FALSE, FALSE)

Init ==
  /\ core = "open"
  /\ restarts = 0
  /\ tasks = [t \in Task |-> Absent]
  /\ disk = [t \in Task |-> Absent]
  /\ token = [t \in Task |-> "none"]
  /\ stopped = {}
  /\ request = [t \in Task |-> "none"]
  /\ worker = [t \in Task |-> "none"]
  /\ slot = {}
  /\ leaving = [t \in Task |-> {}]
  /\ announced = [t \in Task |-> 0]
  /\ charged = [t \in Task |-> 0]
  /\ stranded = {}
  /\ silenced = {}

-----------------------------------------------------------------------------
(* What the handlers are made of. *)

Serving == core \in {"open", "stopping"}
IsCancelled(t) == t \in stopped \/ core = "stopping"

\* transition(): the state changes and the revision grows.
Moved(t, st) == Snapshot(st, tasks[t].revision + 1, tasks[t].url, tasks[t].path)

Save(t, snapshot) == disk' = [disk EXCEPT ![t] = snapshot]
Show(t, snapshot) == tasks' = [tasks EXCEPT ![t] = snapshot]

\* let _ = persist(..): the file is written, or the failure goes unnoticed.
TrySave(t, snapshot) == Save(t, snapshot) \/ (SavesMayFail /\ UNCHANGED disk)

\* publish(): the event hub is told; a reader ignores older revisions.
Announce(t, rev) ==
  announced' = [announced EXCEPT ![t] = IF @ < rev THEN rev ELSE @]

At(t, place) == worker' = [worker EXCEPT ![t] = place]

(* A definition named Faulty... is its namesake with a slip one could make in   *)
(* the code.  Nothing uses it but the check that a property notices the slip.  *)

\* What a worker settles is not announced.
FaultySettle(t, snapshot) ==
  /\ Show(t, snapshot)
  /\ TrySave(t, snapshot)
  /\ At(t, "none")
  /\ token' = [token EXCEPT ![t] = "none"]
  /\ UNCHANGED <<life, stopped, request, leaving, announced, charged, faults>>

\* A worker settles its task; its event and the removal of its token come later,
\* and until then what it leaves in the cancellations map is of no use.
Settle(t, snapshot) ==
  /\ Show(t, snapshot)
  /\ TrySave(t, snapshot)
  /\ At(t, "none")
  /\ leaving' = [leaving EXCEPT ![t] = @ \cup {snapshot.revision}]
  /\ token' = [token EXCEPT ![t] = IF @ = "current" THEN "stale" ELSE @]
  /\ UNCHANGED <<life, stopped, request, announced, charged, faults>>

-----------------------------------------------------------------------------
(* Requests. *)

\* start(): the task is durable before its paid submission is spawned.
Start(t) ==
  /\ Serving
  /\ tasks[t] = Absent /\ disk[t] = Absent
  /\ LET submitting == Snapshot("Submitting", 1, FALSE, FALSE)
     IN  Save(t, submitting) /\ Show(t, submitting)
  /\ request' = [request EXCEPT ![t] = "submitting"]
  /\ Announce(t, 1)
  /\ UNCHANGED <<life, token, stopped, running, leaving, charged, faults>>

\* The handler's future is dropped while it writes the file, which is written all the
\* same: only the next open() finds the task.
DropStart(t) ==
  /\ RequestsMayBeDropped
  /\ Serving
  /\ tasks[t] = Absent /\ disk[t] = Absent
  /\ Save(t, Snapshot("Submitting", 1, FALSE, FALSE))
  /\ UNCHANGED <<life, tasks, token, stopped, request, running, leaving, announced,
                 charged, faults>>

\* A settled task is submitted again, whether or not its URL is known.
FaultyRetry(t) ==
  /\ Serving
  /\ tasks[t].state \in {"Failed", "Cancelled", "CostUnknown"}
  /\ tasks[t].revision < MaxRevision
  /\ LET submitting == Moved(t, "Submitting")
     IN  Show(t, submitting) /\ Save(t, submitting) /\ Announce(t, submitting.revision)
  /\ request' = [request EXCEPT ![t] = "submitting"]
  /\ UNCHANGED <<life, token, stopped, running, leaving, charged, faults>>

\* retry(): a settled task whose URL is known is ready for the slot again.  The
\* map has changed before the write, and a failed write ends the request there.
Retry(t) ==
  /\ Serving
  /\ tasks[t].state \in {"Failed", "Cancelled"}
  /\ tasks[t].url
  /\ tasks[t].revision < MaxRevision
  /\ LET ready == Moved(t, "Ready")
     IN  /\ Show(t, ready)
         /\ \/ /\ Save(t, ready)
               /\ request' = [request EXCEPT ![t] = "waiting"]
               /\ Announce(t, ready.revision)
               /\ UNCHANGED stranded
            \/ /\ SavesMayFail
               /\ stranded' = stranded \cup {t}
               /\ UNCHANGED <<disk, request, announced>>
  /\ UNCHANGED <<life, token, stopped, running, leaving, charged, silenced>>

\* The token of the new worker replaces whatever the map holds, and it starts.
Spawn(t) ==
  /\ Serving
  /\ request[t] # "none"
  /\ At(t, request[t])
  /\ request' = [request EXCEPT ![t] = "none"]
  /\ token' = [token EXCEPT ![t] = "current"]
  /\ stopped' = stopped \ {t}
  /\ UNCHANGED <<life, store, slot, leaving, announced, charged, faults>>

\* The HTTP client goes away and the handler's future is dropped before it spawns.
DropRequest(t) ==
  /\ RequestsMayBeDropped
  /\ Serving
  /\ request[t] # "none"
  /\ request' = [request EXCEPT ![t] = "none"]
  /\ stranded' = stranded \cup {t}
  /\ UNCHANGED <<life, store, token, stopped, running, leaving, announced, charged,
                 silenced>>

\* cancel() of a token that is still the worker's; one left by an earlier worker
\* is cancelled without effect.
Cancel(t) ==
  /\ Serving
  /\ token[t] = "current"
  /\ stopped' = stopped \cup {t}
  /\ UNCHANGED <<life, store, token, request, running, leaving, announced, charged,
                 faults>>

-----------------------------------------------------------------------------
(* run_submission() *)

\* The paid request reaches the server.
Submit(t) ==
  /\ Serving
  /\ worker[t] = "submitting"
  /\ At(t, "charged")
  /\ charged' = [charged EXCEPT ![t] = @ + 1]
  /\ UNCHANGED <<life, store, token, stopped, request, slot, leaving, announced, faults>>

\* The signed URL arrives and is saved: the same worker goes on to the download.
Bought(t) ==
  /\ Serving
  /\ worker[t] = "charged"
  /\ LET ready == [Moved(t, "Ready") EXCEPT !.url = TRUE]
     IN  Show(t, ready) /\ Save(t, ready) /\ Announce(t, ready.revision)
  /\ At(t, "waiting")
  /\ UNCHANGED <<life, token, stopped, request, slot, leaving, charged, faults>>

\* The signed URL arrives but cannot be saved.  This settles the task and removes
\* its token at once, and sends no event.
BoughtButNotSaved(t) ==
  /\ SavesMayFail
  /\ Serving
  /\ worker[t] = "charged"
  /\ LET unknown == Snapshot("CostUnknown", tasks[t].revision + 2, TRUE, tasks[t].path)
     IN  Show(t, unknown) /\ TrySave(t, unknown)
  /\ At(t, "none")
  /\ token' = [token EXCEPT ![t] = "none"]
  /\ silenced' = silenced \cup {t}
  /\ UNCHANGED <<life, stopped, request, slot, leaving, announced, charged, stranded>>

\* The worker ends without settling the task.
FaultyNotBought(t) ==
  /\ Serving
  /\ worker[t] \in {"submitting", "charged"}
  /\ At(t, "none")
  /\ token' = [token EXCEPT ![t] = "none"]
  /\ UNCHANGED <<life, store, stopped, request, slot, leaving, announced, charged,
                 faults>>

\* The submission fails, or is cancelled, before or after it reached the server.
NotBought(t) ==
  /\ Serving
  /\ worker[t] \in {"submitting", "charged"}
  /\ Settle(t, Moved(t, "CostUnknown"))
  /\ UNCHANGED slot

-----------------------------------------------------------------------------
(* run_download() *)

\* finish_cancelled(): the select prefers the cancellation to the permit.
GiveUp(t) ==
  /\ Serving
  /\ worker[t] = "waiting"
  /\ IsCancelled(t)
  /\ Settle(t, Moved(t, "Cancelled"))
  /\ UNCHANGED slot

\* The worker shows what it does and how far it is.
Downloading(t) ==
  LET downloading == Moved(t, "Downloading")
  IN  /\ Show(t, downloading)
      /\ TrySave(t, downloading)
      /\ Announce(t, downloading.revision)
      /\ UNCHANGED <<life, token, stopped, request, leaving, charged, faults>>

\* Nobody waits for the slot.
FaultyDownload(t) ==
  /\ Serving
  /\ worker[t] = "waiting"
  /\ ~IsCancelled(t)
  /\ slot' = slot \cup {t}
  /\ At(t, "downloading")
  /\ Downloading(t)

\* The worker gets the slot.
Download(t) ==
  /\ Serving
  /\ worker[t] = "waiting"
  /\ ~IsCancelled(t)
  /\ slot = {}
  /\ slot' = {t}
  /\ At(t, "downloading")
  /\ Downloading(t)

\* save_progress(): a tick of the interval while the transfer goes on.
Progress(t) ==
  /\ Serving
  /\ worker[t] = "downloading"
  /\ tasks[t].revision < MaxRevision
  /\ Downloading(t)
  /\ UNCHANGED running

\* The slot is not given back.
FaultyEndTransfer(t) ==
  /\ Serving
  /\ worker[t] = "downloading"
  /\ \E r \in Returned :
       /\ r = "Cancelled" => IsCancelled(t)
       /\ At(t, r)
  /\ UNCHANGED <<life, store, token, stopped, request, slot, leaving, announced, charged,
                 faults>>

\* download_to() returns, and the slot goes to the next worker before anyone can
\* see that this task is over.
EndTransfer(t) ==
  /\ Serving
  /\ worker[t] = "downloading"
  /\ \E r \in Returned :
       /\ r = "Cancelled" => IsCancelled(t)
       /\ At(t, r)
  /\ slot' = slot \ {t}
  /\ UNCHANGED <<life, store, token, stopped, request, leaving, announced, charged,
                 faults>>

\* The part file becomes the ZIP, which may fail, and the task is settled.
Finalize(t) ==
  /\ Serving
  /\ worker[t] \in Returned
  /\ \/ /\ worker[t] = "Completed"
        /\ Settle(t, [Moved(t, "Completed") EXCEPT !.path = TRUE])
     \/ /\ worker[t] = "Completed"
        /\ Settle(t, Moved(t, "Failed"))
     \/ /\ worker[t] # "Completed"
        /\ Settle(t, Moved(t, worker[t]))
  /\ UNCHANGED slot

\* A worker sends the event of what it has settled and removes the token it finds
\* in the map, which by now may be that of the next worker.
Leave(t) ==
  /\ Serving
  /\ \E rev \in leaving[t] :
       /\ leaving' = [leaving EXCEPT ![t] = @ \ {rev}]
       /\ Announce(t, rev)
  /\ token' = [token EXCEPT ![t] = "none"]
  /\ UNCHANGED <<life, store, stopped, request, running, charged, faults>>

-----------------------------------------------------------------------------
(* What LocalGalleryService reports back. *)

\* The map and then the file change; the event is sent only if the write succeeds
\* and nobody has dropped the request, an import or a delete, by then.
Reported(t, snapshot) ==
  /\ Show(t, snapshot)
  /\ \/ /\ Save(t, snapshot)
        /\ Announce(t, snapshot.revision)
        /\ UNCHANGED silenced
     \/ /\ (SavesMayFail /\ UNCHANGED disk) \/ (RequestsMayBeDropped /\ Save(t, snapshot))
        /\ silenced' = silenced \cup {t}
        /\ UNCHANGED announced
  /\ UNCHANGED <<life, token, stopped, request, running, leaving, charged, stranded>>

\* mark_consumed(): the ZIP is in the library, or why it is not.
MarkConsumed(t) ==
  /\ Serving
  /\ tasks[t].state = "Completed"
  /\ \/ Reported(t, Moved(t, "Consumed"))
     \/ tasks[t].revision < MaxReports /\ Reported(t, Moved(t, "Completed"))

\* mark_local_gallery_deleted(): what has no path any more is left as it is.
MarkDeleted(t) ==
  /\ Serving
  /\ tasks[t].state = "Consumed"
  /\ tasks[t].path
  /\ Reported(t, [Moved(t, "Consumed") EXCEPT !.path = FALSE])

-----------------------------------------------------------------------------
(* The life of the Core. *)

\* shutdown() cancels the token every worker's token is a child of.
BeginShutdown ==
  /\ core = "open"
  /\ core' = "stopping"
  /\ UNCHANGED <<restarts, store, token, stopped, request, running, leaving, announced,
                 charged, faults>>

\* The process ends: a crash, or a shutdown complete or out of time.
Close ==
  /\ Serving
  /\ core' = "closed"
  /\ token' = [t \in Task |-> "none"]
  /\ stopped' = {}
  /\ request' = [t \in Task |-> "none"]
  /\ worker' = [t \in Task |-> "none"]
  /\ slot' = {}
  /\ leaving' = [t \in Task |-> {}]
  /\ stranded' = {}
  /\ silenced' = {}
  /\ UNCHANGED <<restarts, store, announced, charged>>

\* A submission cut short is queued to be made again.
FaultyRecoveredQueued(saved) ==
  IF saved.state = "Submitting" THEN [saved EXCEPT !.state = "Queued"] ELSE saved

\* Whatever was cut short has failed.
FaultyRecoveredFailed(saved) ==
  IF saved.state \in {"Submitting", "Downloading"} THEN [saved EXCEPT !.state = "Failed"]
                                                   ELSE saved

\* A download cut short starts from nothing.
FaultyRecoveredUnpaid(saved) ==
  IF saved.state = "Downloading" THEN [saved EXCEPT !.state = "Failed", !.url = FALSE]
                                 ELSE saved

\* open(): a submission cut short has an unknown cost, a download cut short has
\* failed, and everything else is as it was saved.
Recovered(saved) ==
  CASE saved.state = "Submitting"  -> [saved EXCEPT !.state = "CostUnknown"]
    [] saved.state = "Downloading" -> [saved EXCEPT !.state = "Failed"]
    [] OTHER                       -> saved

\* Nothing is spawned for a task that was ready.  Clients list the tasks anew.
Open ==
  /\ core = "closed"
  /\ restarts < MaxRestarts
  /\ core' = "open"
  /\ restarts' = restarts + 1
  /\ LET read == [t \in Task |-> Recovered(disk[t])]
     IN  /\ tasks' = read
         /\ disk' = read
         /\ announced' = [t \in Task |-> read[t].revision]
         /\ stranded' = {t \in Task : read[t].state = "Ready"}
  /\ UNCHANGED <<token, stopped, request, running, leaving, charged, silenced>>

-----------------------------------------------------------------------------
Request(t) ==
  Start(t) \/ Retry(t) \/ Spawn(t) \/ Cancel(t) \/ DropStart(t) \/ DropRequest(t)

Work(t) ==
  Submit(t) \/ Bought(t) \/ BoughtButNotSaved(t) \/ NotBought(t) \/ GiveUp(t)
    \/ Download(t) \/ Progress(t) \/ EndTransfer(t) \/ Finalize(t) \/ Leave(t)

Consume(t) == MarkConsumed(t) \/ MarkDeleted(t)

Next ==
  \/ \E t \in Task : Request(t) \/ Work(t) \/ Consume(t)
  \/ BeginShutdown
  \/ Close
  \/ Open

Spec == Init /\ [][Next]_vars

(***************************************************************************)
(* The scheduler runs every task that can go on; requests to the server    *)
(* have timeouts; the semaphore serves its waiters in order, so a worker   *)
(* cannot be passed over forever.  Nobody has to cancel, retry, consume,   *)
(* close or reopen.                                                        *)
(***************************************************************************)
Fairness ==
  \A t \in Task :
    /\ WF_vars(Spawn(t) \/ DropRequest(t))
    /\ WF_vars(Bought(t) \/ BoughtButNotSaved(t) \/ NotBought(t))
    /\ WF_vars(GiveUp(t))
    /\ SF_vars(Download(t))
    /\ WF_vars(EndTransfer(t))
    /\ WF_vars(Finalize(t))
    /\ WF_vars(Leave(t))

FairSpec == Spec /\ Fairness
-----------------------------------------------------------------------------
(* Properties. *)

SnapshotSet(revisions) ==
  [state : Live \cup Terminal \cup {"absent"}, revision : revisions,
   url : BOOLEAN, path : BOOLEAN]

\* The shape of the service's data and of the files.
TypeOK ==
  /\ core \in {"open", "stopping", "closed"}
  /\ restarts \in 0..MaxRestarts
  /\ tasks \in [Task -> SnapshotSet(Nat)]
  /\ disk \in [Task -> SnapshotSet(Nat)]
  /\ token \in [Task -> {"none", "current", "stale"}]
  /\ stopped \in SUBSET Task
  /\ request \in [Task -> {"none", "submitting", "waiting"}]
  /\ worker \in [Task -> {"none", "submitting", "charged", "waiting", "downloading"}
                         \cup Returned]
  /\ slot \in SUBSET Task
  /\ leaving \in [Task -> SUBSET Nat]
  /\ announced \in [Task -> Nat]
  /\ charged \in [Task -> Nat]
  /\ stranded \in SUBSET Task
  /\ silenced \in SUBSET Task

\* Neither a retry nor a restart submits a task's cost a second time.
CostSubmittedOnce == \A t \in Task : charged[t] <= 1

\* Whatever is lost in between, a task that was charged is saved with its URL or
\* as one whose cost is open: never as a plain failure the user would pay again.
ChargeIsAccounted ==
  \A t \in Task :
    charged[t] > 0 => disk[t].url \/ disk[t].state \in {"Submitting", "CostUnknown"}

\* A cost is submitted once, and what was submitted is never lost.
CostIsAccounted == CostSubmittedOnce /\ ChargeIsAccounted

\* A signed URL that was saved survives failed writes, retries and restarts.
UrlIsKept == [][\A t \in Task : disk[t].url => disk'[t].url]_vars

\* What download_to() needs: a worker that downloads has the slot to itself, and
\* its task has the URL (the code panics without it).
DownloadHasUrlAndSlot ==
  \A t \in Task : worker[t] = "downloading" => slot = {t} /\ tasks[t].url

\* A task is live exactly as long as one request or one worker, in the place its
\* state tells, will settle it.  The only others are the ones a dropped request, a
\* retry that could not be saved or a restart while ready has stranded.
LiveTaskIsBacked ==
  Serving =>
    \A t \in Task :
      LET backing == {request[t], worker[t]} \ {"none"}
      IN  /\ tasks[t].state \in Live <=> backing # {} \/ t \in stranded
          /\ request[t] = "none" \/ worker[t] = "none"
          /\ tasks[t].state = "Submitting" => backing \subseteq {"submitting", "charged"}
          /\ tasks[t].state = "Ready" => backing \subseteq {"waiting"}
          /\ tasks[t].state = "Downloading" => backing \subseteq {"downloading"} \cup Returned

\* FVCORE.md:122: completion, failure and cancellation cannot be lost.  Once the
\* workers of a settled task are through, its last revision has been announced,
\* except where a failed write has kept the event back.
SettlementIsAnnounced ==
  Serving =>
    \A t \in Task \ silenced :
      tasks[t].state \in Terminal /\ leaving[t] = {} => announced[t] = tasks[t].revision

\* What a client is shown of a task; what becomes of a ZIP in the library is no outcome.
Phase(t) ==
  CASE tasks[t].state = "absent"   -> "none"
    [] tasks[t].state \in Live     -> "pending"
    [] tasks[t].state = "Consumed" -> "Completed"
    [] OTHER                       -> tasks[t].state

\* The archives are durable tasks that nobody deletes, and that are only asked for again
\* when they failed or were cancelled: no accepted archive is forgotten, settled twice, or
\* found after a restart with another outcome than it had, unless a fault has kept its
\* file from following the map.
Durable == INSTANCE DurableTasks WITH
  Outcome <- Terminal \ {"Consumed"}, Success <- {"Completed"},
  Repeatable <- {"Failed", "Cancelled"}, Deletable <- {},
  FaultsHappen <- SavesMayFail \/ RequestsMayBeDropped,
  up <- Serving, phase <- [t \in Task |-> Phase(t)],
  doubtful <- {t \in Task : disk[t] # tasks[t]}

ImplementsDurableTasks == Durable!Spec

\* An accepted download settles, unless it is stranded or the Core closes.
AcceptedSettles ==
  \A t \in Task :
    tasks[t].state \in Live
      ~> tasks[t].state \in Terminal \/ t \in stranded \/ core = "closed"

\* archive.rs:35 has a ready task wait for the download slot, and is_terminal()
\* counts it among those with an automatic transition remaining: it moves on.
ReadyMovesOn ==
  \A t \in Task : tasks[t].state = "Ready" ~> tasks[t].state # "Ready" \/ core # "open"

\* download_view.rs:57 has can_cancel say whether the state accepts cancellation:
\* while the Core is open, a worker that waits for the slot or downloads can be
\* cancelled.
CancellableWhileLive ==
  core = "open" =>
    \A t \in Task : worker[t] \in {"waiting", "downloading"} => token[t] = "current"

\* FVCORE.md:263 has the signed URL acquired only once the slot is held, so that
\* waiting does not use up its validity.
BoughtInsideSlot ==
  [][\A t \in Task : tasks'[t].url /\ ~tasks[t].url => slot = {t}]_vars
=============================================================================

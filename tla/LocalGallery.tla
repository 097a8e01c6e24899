----------------------------- MODULE LocalGallery -----------------------------
(***************************************************************************)
(* The local library, GalleryService of gallery.rs, composed with the      *)
(* ArchiveService whose ZIPs it takes over.  Three stores have to agree    *)
(* without a transaction over them: the directories of the library, the    *)
(* registry of galleries and the task.json files.                          *)
(*                                                                         *)
(* A consumption moves the ZIP of a completed task into a hidden staging   *)
(* directory and commits it by a rename; a confirmed deletion writes a     *)
(* ticket and hides the gallery under the name of a tombstone.  Both hold  *)
(* the write side of the occupancy lock while they touch the files, and    *)
(* report to the registry and to ArchiveService.  A consumption works on a *)
(* blocking thread that goes on when its request is dropped; a deletion    *)
(* works in the request itself and stops with it.                          *)
(*                                                                         *)
(* A task may have a gallery and a second ZIP: when neither its completion *)
(* nor its consumption could be saved, a restart finds it failed, and a    *)
(* retry downloads it again.                                               *)
(***************************************************************************)
EXTENDS ArchiveService

CONSTANTS
  Client,        \* those whose requests may overlap
  MaxExports,    \* MAX_CONCURRENT_EXPORTS
  FilesMayFail   \* whether moving or removing a file or a registry write may fail

VARIABLES
  boot,        \* where GalleryService::open is, "done" when requests are served
  downloaded,  \* the tasks with a ZIP at their archive path
  place,       \* whether the gallery of a task is staged or in the library
  sidecar,     \* the derived files in it: ComicInfo.xml and its temporary file
  tomb,        \* what is left of a hidden gallery: its directory and files
  ticket,      \* the files a deletion ticket lists, none without a ticket
  registered,  \* the tasks in the registry of galleries
  job,         \* what the blocking thread that holds the lock does, and for whom
  call,        \* where each caller is, with which task, and what it has still to do
  preview,     \* the deletion each client has previewed and may confirm
  exporting,   \* the exports being read, each with the read side of the lock
  spoiled      \* what a fault, a dropped request or a crash has left half way: a
               \* consumption interrupted, a deletion unrecorded, a ZIP abandoned, a
               \* gallery that came back unregistered

files == <<downloaded, place, sidecar, tomb, ticket, registered>>
actors == <<job, call, preview, exporting>>
galleryVars == <<boot, files, actors, spoiled>>

Core   == "core"              \* open() itself consumes and recovers
Caller == Client \cup {Core}

NoTask    == "no task"

ASSUME GalleryAssumption ==
  /\ MaxExports \in Nat
  /\ FilesMayFail \in BOOLEAN
  /\ Core \notin Client
  /\ NoTask \notin Task

Idle      == [doing |-> "idle", task |-> NoTask, rest |-> {}]
NoJob     == [doing |-> "nothing", task |-> NoTask, for |-> Core]
NoPreview == [task |-> NoTask, files |-> {}]

Consuming == {"consuming", "registering", "consumed", "refused"}
Deleting  == {"ticketed", "hidden", "unregistered", "marked", "erased"}

GalleryInit ==
  /\ Init
  /\ boot = "done"
  /\ downloaded = {}
  /\ place = [t \in Task |-> "none"]
  /\ sidecar = [t \in Task |-> {}]
  /\ tomb = [t \in Task |-> {}]
  /\ ticket = [t \in Task |-> {}]
  /\ registered = {}
  /\ job = NoJob
  /\ call = [c \in Caller |-> Idle]
  /\ preview = [c \in Client |-> NoPreview]
  /\ exporting = {}
  /\ spoiled = {}

-----------------------------------------------------------------------------
(* The lock, the registry's answer and what callers do next. *)

Files(t) == {"zip"} \cup sidecar[t]

\* The occupancy lock.
NotWriting == job = NoJob /\ \A c \in Client : call[c].doing \notin Deleting

LockFree == NotWriting /\ exporting = {}

\* A request can come in.
CanAsk(c) == c \in Client /\ boot = "done" /\ Serving /\ call[c] = Idle

\* require_registered() and find_record(): the gallery is registered and there.
Listed(t) == t \in registered /\ place[t] = "library"

Go(c, doing) == call' = [call EXCEPT ![c].doing = doing]
Stop(c) == call' = [call EXCEPT ![c] = Idle]

\* consume_pending() goes on with the rest of its list.
Proceed(c) ==
  IF call[c].rest = {} THEN Stop(c)
  ELSE call' = [call EXCEPT ![c] = [doing |-> "listing", task |-> NoTask, rest |-> @.rest]]

\* The thread's answer reaches the caller unless its request was dropped.
Answer(doing) ==
  call' = [c \in Caller |-> IF call[c].doing = "consuming" /\ job.for = c
                            THEN [call[c] EXCEPT !.doing = doing] ELSE call[c]]

Spoil(t, how) == spoiled' = spoiled \cup {<<t, how>>}
Spoiled(how) == {t \in Task : <<t, how>> \in spoiled}

\* How a report ended, which changed tasks[t]: told, not written, or dropped half way.
Told(t)      == announced'[t] = tasks'[t].revision
Unwritten(t) == disk'[t] # tasks'[t]

-----------------------------------------------------------------------------
(* Consumption: consume_pending(), consume(), consume_blocking(). *)

\* The list of completed tasks is taken.
ListCompleted(c) ==
  /\ CanAsk(c)
  /\ LET completed == {t \in Task : tasks[t].state = "Completed"}
     IN  /\ completed # {}
         /\ call' = [call EXCEPT ![c] =
                       [doing |-> "listing", task |-> NoTask, rest |-> completed]]
  /\ UNCHANGED <<vars, boot, files, job, preview, exporting, spoiled>>

\* The caller gets the lock and hands it to a blocking thread.
BeginConsume(c) ==
  /\ Serving
  /\ call[c].doing = "listing"
  /\ LockFree
  /\ \E t \in call[c].rest :
       /\ job' = [doing |-> "opening", task |-> t, for |-> c]
       /\ call' = [call EXCEPT ![c] =
                     [doing |-> "consuming", task |-> t, rest |-> @.rest \ {t}]]
  /\ UNCHANGED <<vars, boot, files, preview, exporting, spoiled>>

\* If there is a gallery of the task already, its second ZIP is removed; else the ZIP
\* moves into a staging directory, which replaces one left over.  It is an error if
\* there is no ZIP, before a gallery is looked for, or if it cannot be moved.
Stage ==
  /\ Serving
  /\ job.doing = "opening"
  /\ LET t == job.task
     IN  \/ /\ t \in downloaded
            /\ downloaded' = downloaded \ {t}
            /\ IF place[t] = "library"
               THEN Answer("registering") /\ job' = NoJob /\ UNCHANGED place
               ELSE /\ place' = [place EXCEPT ![t] = "staging"]
                    /\ job' = [job EXCEPT !.doing = "staged"]
                    /\ UNCHANGED call
         \/ /\ t \in downloaded => FilesMayFail
            /\ Answer("refused")
            /\ job' = NoJob
            /\ UNCHANGED <<downloaded, place>>
  /\ UNCHANGED <<vars, boot, sidecar, tomb, ticket, registered, preview, exporting, spoiled>>

\* Cover, gallery.json and ComicInfo.xml are written and the rename commits them.
Commit ==
  /\ Serving
  /\ job.doing = "staged"
  /\ place' = [place EXCEPT ![job.task] = "library"]
  /\ sidecar' = [sidecar EXCEPT ![job.task] = {"info"}]
  /\ Answer("registering")
  /\ job' = NoJob
  /\ UNCHANGED <<vars, boot, downloaded, tomb, ticket, registered, preview, exporting, spoiled>>

\* The ZIP is no gallery: it moves back, and the staging directory is removed even if
\* it could not.
Undo ==
  /\ Serving
  /\ job.doing = "staged"
  /\ place' = [place EXCEPT ![job.task] = "none"]
  /\ \/ /\ downloaded' = downloaded \cup {job.task}
        /\ UNCHANGED spoiled
     \/ /\ FilesMayFail
        /\ Spoil(job.task, "abandoned")
        /\ UNCHANGED downloaded
  /\ Answer("refused")
  /\ job' = NoJob
  /\ UNCHANGED <<vars, boot, sidecar, tomb, ticket, registered, preview, exporting>>

\* GalleryRegistry::register, when the lock is gone: an import and even a deletion may
\* have come first, and the gallery be hidden again.
Register(c) ==
  /\ Serving
  /\ call[c].doing = "registering"
  /\ \/ /\ registered' = registered \cup {call[c].task}
        /\ Go(c, "consumed")
        /\ IF place[call[c].task] = "library" THEN UNCHANGED spoiled
                                              ELSE Spoil(call[c].task, "unrecorded")
     \/ /\ FilesMayFail
        /\ Go(c, "refused")
        /\ Spoil(call[c].task, "interrupted")
        /\ UNCHANGED registered
  /\ UNCHANGED <<vars, boot, downloaded, place, sidecar, tomb, ticket, job, preview, exporting>>

\* A report leaves the map changed but not the file, or is dropped with its request,
\* which open() never is.
Reports(c, t, snapshot) ==
  /\ Reported(t, snapshot)
  /\ IF Told(t) THEN Proceed(c) /\ UNCHANGED spoiled
     ELSE /\ Spoil(t, "interrupted")
          /\ IF Unwritten(t) THEN Proceed(c) ELSE c # Core /\ Stop(c)

\* mark_consumed(): what is not completed any more is left as it is, and the caller
\* ignores the answer.  At MaxReports the model leaves out one more error.
ReportConsumed(c) ==
  /\ Serving
  /\ call[c].doing \in {"consumed", "refused"}
  /\ LET t == call[c].task
         lands == tasks[t].state = "Completed"
     IN  \/ /\ lands /\ call[c].doing = "consumed"
            /\ Reports(c, t, Moved(t, "Consumed"))
         \/ /\ lands /\ call[c].doing = "refused" /\ tasks[t].revision < MaxReports
            /\ Reports(c, t, Moved(t, "Completed"))
         \/ /\ lands => call[c].doing = "refused" /\ tasks[t].revision >= MaxReports
            /\ Proceed(c)
            /\ UNCHANGED <<vars, spoiled>>
  /\ UNCHANGED <<boot, files, job, preview, exporting>>

-----------------------------------------------------------------------------
(* Deletion: prepare_delete(), delete(). *)

\* A token is bound to the files there are now.
Preview(c, t) ==
  /\ CanAsk(c)
  /\ Listed(t) /\ NotWriting
  /\ preview' = [preview EXCEPT ![c] = [task |-> t, files |-> Files(t)]]
  /\ UNCHANGED <<vars, boot, files, job, call, exporting, spoiled>>

\* The token is used up.  If it has not expired and, with the lock held, the files are
\* those previewed, the deletion is written down.  Bound: while a tombstone of the task
\* is left over, the model has no second one, which would have a name of its own.
Confirm(c) ==
  /\ CanAsk(c)
  /\ LET t == preview[c].task
     IN  /\ t # NoTask
         /\ LockFree
         /\ \/ /\ place[t] = "library" /\ Files(t) = preview[c].files
               /\ ticket[t] = {} /\ tomb[t] = {}
               /\ ticket' = [ticket EXCEPT ![t] = Files(t)]
               /\ call' = [call EXCEPT ![c] = [doing |-> "ticketed", task |-> t, rest |-> {}]]
            \/ UNCHANGED <<ticket, call>>
  /\ preview' = [preview EXCEPT ![c] = NoPreview]
  /\ UNCHANGED <<vars, boot, downloaded, place, sidecar, tomb, registered, job, exporting,
                 spoiled>>

\* The gallery is hidden; if it cannot be, the ticket is taken back.
Hide(c) ==
  /\ Serving
  /\ call[c].doing = "ticketed"
  /\ LET t == call[c].task
     IN  \/ /\ tomb' = [tomb EXCEPT ![t] = {"dir"} \cup Files(t)]
            /\ place' = [place EXCEPT ![t] = "none"]
            /\ sidecar' = [sidecar EXCEPT ![t] = {}]
            /\ Go(c, "hidden")
            /\ UNCHANGED ticket
         \/ /\ FilesMayFail
            /\ ticket' = [ticket EXCEPT ![t] = {}]
            /\ Stop(c)
            /\ UNCHANGED <<place, sidecar, tomb>>
  /\ UNCHANGED <<vars, boot, downloaded, registered, job, preview, exporting, spoiled>>

\* A client's deletion is undone, as far as it can be: if the gallery cannot be renamed
\* back, a tombstone without a ticket stays, which nobody will find.  A recovery that
\* fails ends the opening and leaves tombstone and ticket for the next one.
UndoHide(c, t) ==
  /\ Stop(c)
  /\ IF c = Core
     THEN boot' = "failed" /\ UNCHANGED <<place, sidecar, tomb, ticket>>
     ELSE /\ ticket' = [ticket EXCEPT ![t] = {}]
          /\ \/ /\ place' = [place EXCEPT ![t] = "library"]
                /\ sidecar' = [sidecar EXCEPT ![t] = tomb[t] \ {"dir", "zip"}]
                /\ tomb' = [tomb EXCEPT ![t] = {}]
             \/ FilesMayFail /\ UNCHANGED <<place, sidecar, tomb>>
          /\ UNCHANGED boot
Abandoned(t) == IF tomb'[t] # {} /\ ticket'[t] = {} THEN {<<t, "abandoned">>} ELSE {}
Unlisted(t)  == IF place'[t] = "library" THEN {<<t, "unregistered">>} ELSE {}

\* GalleryRegistry::remove.
Unregister(c) ==
  /\ Serving
  /\ call[c].doing = "hidden"
  /\ LET t == call[c].task
     IN  \/ /\ registered' = registered \ {t}
            /\ Go(c, "unregistered")
            /\ UNCHANGED <<boot, place, sidecar, tomb, ticket, spoiled>>
         \/ /\ FilesMayFail
            /\ UndoHide(c, t)
            /\ spoiled' = spoiled \cup Abandoned(t)
            /\ UNCHANGED registered
  /\ UNCHANGED <<vars, downloaded, job, preview, exporting>>

\* The gallery comes back without its registration.
FaultyRestore(c, t, spoils) ==
  /\ UndoHide(c, t)
  /\ UNCHANGED registered
  /\ spoiled' = spoiled \cup Abandoned(t) \cup spoils

\* The registration comes back, and the gallery with it.  That it could not be saved goes
\* unnoticed.
Restore(c, t, spoils) ==
  /\ UndoHide(c, t)
  /\ \/ /\ registered' = registered \cup {t}
        /\ spoiled' = spoiled \cup Abandoned(t) \cup spoils
     \/ /\ FilesMayFail
        /\ UNCHANGED registered
        /\ spoiled' = spoiled \cup Abandoned(t) \cup Unlisted(t) \cup spoils

\* mark_local_gallery_deleted(): a task without a path, or none at all, is as good as
\* marked; one that is not consumed refuses.
ReportDeleted(c) ==
  /\ Serving
  /\ call[c].doing = "unregistered"
  /\ LET t == call[c].task
         consumed == tasks[t].state = "Consumed"
         onwards == UNCHANGED <<boot, place, sidecar, tomb, ticket, registered, spoiled>>
     IN  \/ /\ consumed /\ tasks[t].path
            /\ Reported(t, [Moved(t, "Consumed") EXCEPT !.path = FALSE])
            /\ \/ Told(t) /\ Go(c, "marked") /\ onwards
               \/ Unwritten(t) /\ Restore(c, t, {<<t, "unrecorded">>})
               \/ ~Told(t) /\ ~Unwritten(t) /\ c # Core /\ Stop(c) /\ onwards
         \/ /\ tasks[t] = Absent \/ (consumed /\ ~tasks[t].path)
            /\ Go(c, "marked")
            /\ onwards
            /\ UNCHANGED vars
         \/ /\ tasks[t] # Absent /\ ~consumed
            /\ Restore(c, t, {})
            /\ UNCHANGED vars
  /\ UNCHANGED <<downloaded, job, preview, exporting>>

\* delete_tombstone(): the files and then the directory go; a failure leaves the rest
\* to the next opening.
Erase(c) ==
  /\ Serving
  /\ call[c].doing = "marked"
  /\ LET t == call[c].task
     IN  \/ /\ \E left \in {{"dir"}, {}} : left # tomb[t] /\ tomb' = [tomb EXCEPT ![t] = left]
            /\ IF tomb'[t] = {} THEN Go(c, "erased") ELSE UNCHANGED call
            /\ UNCHANGED boot
         \/ /\ FilesMayFail
            /\ Stop(c)
            /\ boot' = IF c = Core THEN "failed" ELSE boot
            /\ UNCHANGED tomb
  /\ UNCHANGED <<vars, downloaded, place, sidecar, ticket, registered, job, preview, exporting,
                 spoiled>>

\* The ticket is the last to go.
RemoveTicket(c) ==
  /\ Serving
  /\ call[c].doing = "erased"
  /\ ticket' = [ticket EXCEPT ![call[c].task] = {}]
  /\ Stop(c)
  /\ UNCHANGED <<vars, boot, downloaded, place, sidecar, tomb, registered, job, preview,
                 exporting, spoiled>>

-----------------------------------------------------------------------------
(* The other requests. *)

\* import(): a healthy gallery that is not registered; a temporary file left beside it
\* makes it unhealthy.
Import(c, t) ==
  /\ CanAsk(c)
  /\ LockFree
  /\ place[t] = "library" /\ t \notin registered /\ "temp" \notin sidecar[t]
  /\ registered' = registered \cup {t}
  /\ UNCHANGED <<vars, boot, downloaded, place, sidecar, tomb, ticket, actors, spoiled>>

\* generate_comic_info() writes a temporary file and removes the file it replaces.
BeginComicInfo(c, t) ==
  /\ CanAsk(c)
  /\ Listed(t) /\ LockFree
  /\ job' = [doing |-> "writing", task |-> t, for |-> c]
  /\ \E left \in {sidecar[t], {}} :
       sidecar' = [sidecar EXCEPT ![t] = left \cup {"temp"}]
  /\ UNCHANGED <<vars, boot, downloaded, place, tomb, ticket, registered, call, preview,
                 exporting, spoiled>>

EndComicInfo ==
  /\ Serving
  /\ job.doing = "writing"
  /\ sidecar' = [sidecar EXCEPT ![job.task] = {"info"}]
  /\ job' = NoJob
  /\ UNCHANGED <<vars, boot, downloaded, place, tomb, ticket, registered, call, preview,
                 exporting, spoiled>>

\* delete_comic_info()
DeleteComicInfo(c, t) ==
  /\ CanAsk(c)
  /\ Listed(t) /\ LockFree
  /\ "info" \in sidecar[t]
  /\ sidecar' = [sidecar EXCEPT ![t] = @ \ {"info"}]
  /\ UNCHANGED <<vars, boot, downloaded, place, tomb, ticket, registered, actors, spoiled>>

\* export(): the handle keeps a permit and the read side of the lock while it streams.
BeginExport(c, t) ==
  /\ CanAsk(c)
  /\ Listed(t) /\ NotWriting
  /\ Cardinality(exporting) < MaxExports
  /\ <<c, t>> \notin exporting
  /\ exporting' = exporting \cup {<<c, t>>}
  /\ UNCHANGED <<vars, boot, files, job, call, preview, spoiled>>

\* The stream ends, or the client drops it.
EndExport(c, t) ==
  /\ Serving
  /\ <<c, t>> \in exporting
  /\ exporting' = exporting \ {<<c, t>>}
  /\ UNCHANGED <<vars, boot, files, job, call, preview, spoiled>>

\* A client goes away where its request awaits the lock, the thread or ArchiveService.
DropCall(c) ==
  /\ RequestsMayBeDropped
  /\ Serving
  /\ c \in Client
  /\ call[c].doing \in Consuming \cup {"listing", "unregistered"}
  /\ Stop(c)
  /\ spoiled' = IF call[c].doing \in Consuming THEN spoiled \cup {<<call[c].task, "interrupted">>}
                ELSE spoiled
  /\ UNCHANGED <<vars, boot, files, job, preview, exporting>>

-----------------------------------------------------------------------------
(* Opening and closing. *)

\* pending_deletion_tickets(), recover_deletions(): a ticket without a tombstone is
\* removed, a tombstone is taken through the rest of its deletion, and one beside a
\* visible gallery, or with files the ticket does not list, is refused.
RecoverDeletion(t) ==
  /\ boot = "tickets" /\ Serving
  /\ call[Core] = Idle
  /\ ticket[t] # {}
  /\ LET refused == place[t] = "library" \/ ~(tomb[t] \subseteq {"dir"} \cup ticket[t])
     IN  \/ /\ tomb[t] = {}
            /\ ticket' = [ticket EXCEPT ![t] = {}]
            /\ UNCHANGED <<boot, call>>
         \/ /\ tomb[t] # {}
            /\ boot' = IF refused THEN "failed" ELSE boot
            /\ call' = [call EXCEPT ![Core] =
                          IF refused THEN Idle ELSE [doing |-> "hidden", task |-> t, rest |-> {}]]
            /\ UNCHANGED ticket
  /\ UNCHANGED <<vars, downloaded, place, sidecar, tomb, registered, job, preview, exporting,
                 spoiled>>

\* Tickets are left for later.
FaultyRecoverRegistrations ==
  /\ boot = "tickets" /\ Serving
  /\ call[Core] = Idle
  /\ registered' = registered \cup {t \in Task : tasks[t].state = "Consumed" /\ tasks[t].path}
  /\ boot' = "consuming"
  /\ call' = [call EXCEPT ![Core] =
                LET completed == {t \in Task : tasks[t].state = "Completed"}
                IN  IF completed = {} THEN Idle
                    ELSE [doing |-> "listing", task |-> NoTask, rest |-> completed]]
  /\ UNCHANGED <<vars, downloaded, place, sidecar, tomb, ticket, job, preview, exporting,
                 spoiled>>

\* recover_registrations(): whatever was consumed and has a path is registered; then
\* consume_pending() takes its list.
RecoverRegistrations ==
  /\ boot = "tickets" /\ Serving
  /\ call[Core] = Idle
  /\ \A t \in Task : ticket[t] = {}
  /\ registered' = registered \cup {t \in Task : tasks[t].state = "Consumed" /\ tasks[t].path}
  /\ boot' = "consuming"
  /\ call' = [call EXCEPT ![Core] =
                LET completed == {t \in Task : tasks[t].state = "Completed"}
                IN  IF completed = {} THEN Idle
                    ELSE [doing |-> "listing", task |-> NoTask, rest |-> completed]]
  /\ UNCHANGED <<vars, downloaded, place, sidecar, tomb, ticket, job, preview, exporting,
                 spoiled>>

\* open() returns, and the Core serves requests.
BootDone ==
  /\ boot = "consuming" /\ Serving
  /\ call[Core] = Idle
  /\ boot' = "done"
  /\ UNCHANGED <<vars, files, actors, spoiled>>

\* A crash, or the end of a Core that stopped or could not be opened.  What a
\* consumption had begun is left half way.
GalleryClose ==
  /\ Close
  /\ boot' = "closed"
  /\ job' = NoJob
  /\ call' = [c \in Caller |-> Idle]
  /\ preview' = [c \in Client |-> NoPreview]
  /\ exporting' = {}
  /\ spoiled' = spoiled
       \cup {<<call[c].task, "interrupted">> : c \in {d \in Caller : call[d].doing \in Consuming}}
       \cup {<<t, "interrupted">> : t \in {u \in Task : job.task = u /\ job.doing # "writing"}}
  /\ UNCHANGED files

GalleryOpen ==
  /\ Open
  /\ boot' = "tickets"
  /\ UNCHANGED <<files, actors, spoiled>>

GalleryShutdown ==
  /\ boot = "done"
  /\ BeginShutdown
  /\ UNCHANGED galleryVars

\* What ArchiveService does by itself: a transfer that succeeds puts the ZIP in place.
ArchiveStep(t) ==
  /\ (boot = "done" /\ Request(t)) \/ Work(t)
  /\ downloaded' = IF tasks'[t].state = "Completed" /\ tasks[t].state # "Completed"
                   THEN downloaded \cup {t} ELSE downloaded
  /\ UNCHANGED <<boot, place, sidecar, tomb, ticket, registered, actors, spoiled>>

-----------------------------------------------------------------------------
Consumption(c) ==
  ListCompleted(c) \/ BeginConsume(c) \/ Register(c) \/ ReportConsumed(c)

Thread == Stage \/ Commit \/ Undo \/ EndComicInfo

Deletion(c) ==
  Hide(c) \/ Unregister(c) \/ ReportDeleted(c) \/ Erase(c) \/ RemoveTicket(c)

ClientAsks(c) ==
  \/ Confirm(c)
  \/ DropCall(c)
  \/ \E t \in Task : Preview(c, t) \/ Import(c, t) \/ BeginComicInfo(c, t)
                       \/ DeleteComicInfo(c, t) \/ BeginExport(c, t) \/ EndExport(c, t)

Opening == (\E t \in Task : RecoverDeletion(t)) \/ RecoverRegistrations \/ BootDone

GalleryNext ==
  \/ \E c \in Caller : Consumption(c) \/ Deletion(c)
  \/ \E c \in Client : ClientAsks(c)
  \/ Thread
  \/ Opening
  \/ \E t \in Task : ArchiveStep(t)
  \/ GalleryOpen \/ GalleryClose \/ GalleryShutdown

GallerySpec == GalleryInit /\ [][GalleryNext]_<<vars, galleryVars>>
-----------------------------------------------------------------------------
(* Properties. *)

\* The shape of the library's data.
GalleryTypeOK ==
  /\ boot \in {"tickets", "consuming", "done", "failed", "closed"}
  /\ downloaded \in SUBSET Task
  /\ place \in [Task -> {"none", "staging", "library"}]
  /\ sidecar \in [Task -> SUBSET {"info", "temp"}]
  /\ tomb \in [Task -> SUBSET {"dir", "zip", "info", "temp"}]
  /\ ticket \in [Task -> SUBSET {"zip", "info", "temp"}]
  /\ registered \in SUBSET Task
  /\ job \in [doing : {"nothing", "opening", "staged", "writing"},
             task : Task \cup {NoTask}, for : Caller]
  /\ call \in [Caller -> [doing : {"idle", "listing"} \cup Consuming \cup Deleting,
                          task : Task \cup {NoTask}, rest : SUBSET Task]]
  /\ preview \in [Client -> [task : Task \cup {NoTask},
                             files : SUBSET {"zip", "info", "temp"}]]
  /\ exporting \in SUBSET (Client \X Task)
  /\ spoiled \in SUBSET (Task \X {"interrupted", "unrecorded", "abandoned", "unregistered"})

\* What is registered is in the library or on its way out under a ticket, so that a
\* crash at any point of a deletion leaves nothing but what the next opening removes.
RegisteredIsPresent ==
  \A t \in registered \ (Spoiled("unrecorded") \cup Spoiled("abandoned")) :
    place[t] = "library" \/ (tomb[t] # {} /\ ticket[t] # {})

\* A tombstone always has its ticket, and the ticket lists whatever is in it: otherwise
\* the next opening would forget it, or refuse to go on.
TombstoneHasTicket ==
  \A t \in Task \ Spoiled("abandoned") :
    tomb[t] # {} => ticket[t] # {} /\ tomb[t] \subseteq {"dir"} \cup ticket[t]

\* The ZIP that a saved task answers for exists.
SavedTaskHasZip ==
  \A t \in Task \ (Spoiled("unrecorded") \cup Spoiled("abandoned")) :
    /\ disk[t].state = "Completed"
         => t \in downloaded \/ place[t] # "none" \/ "zip" \in tomb[t]
    /\ disk[t].state = "Consumed" /\ disk[t].path => place[t] = "library" \/ "zip" \in tomb[t]

\* A gallery nobody is working on belongs to a task that is saved as consumed, however
\* many clients consume, delete and import at the same time.
GalleryIsConsumed ==
  \A t \in Task \ Spoiled("interrupted") :
    place[t] = "library" /\ (\A c \in Caller : call[c].task # t)
      => disk[t].state = "Consumed" /\ t \in registered \cup Spoiled("unregistered")

\* While a client reads an export, its gallery stays where it is.
ExportIsStable == \A e \in exporting : place[e[2]] = "library"

\* The library, the saved tasks and those who read the library agree, through every crash,
\* failed write and dropped request of a consumption, a deletion or an import, up to the
\* faults named.
LibraryIsConsistent ==
  /\ RegisteredIsPresent
  /\ TombstoneHasTicket
  /\ SavedTaskHasZip
  /\ GalleryIsConsumed
  /\ ExportIsStable

\* When the Core serves requests again, the deletions that were cut short are over.
OpeningFinishesDeletions ==
  [][boot' = "done" /\ boot # "done" =>
       \A t \in Task \ Spoiled("abandoned") : tomb'[t] = {} /\ ticket'[t] = {}]_<<vars, galleryVars>>

=============================================================================

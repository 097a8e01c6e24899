-------------------------- MODULE LocalGalleryProofs --------------------------
(***************************************************************************)
(* The safety of the local library, for any number of tasks, clients and   *)
(* exports.                                                                *)
(*                                                                         *)
(* A step of the library is a step of the archive service or leaves it     *)
(* alone, so what ArchiveServiceProofs shows of that service holds here.   *)
(* GalleryInv, the inductive invariant, adds what is true of the library   *)
(* beside it: of the phases of an opening (Phases), of who has the lock    *)
(* (Locking), and, for one task at a time, of what is saved                *)
(* (SnapshotsOf), of the files (FilesOf) and of the callers that work on   *)
(* it (CallsOf).                                                           *)
(***************************************************************************)
EXTENDS LocalGallery, ArchiveServiceProofs

galleryStep == <<vars, galleryVars>>

\* What the archive service keeps.
Inherited == IInv /\ AllHeard

-----------------------------------------------------------------------------
(* The inductive invariant. *)

Doings == {"idle", "listing"} \cup Consuming \cup Deleting
CallRecord == [doing : Doings, task : Task \cup {NoTask}, rest : SUBSET Task]

\* The states of a deletion in which the gallery is hidden.
Hidden == {"hidden", "unregistered", "marked", "erased"}
Works(c, t, what) == call[c].task = t /\ call[c].doing \in what

\* Only what has been completed has a path.
Proper(snapshot) ==
  /\ snapshot.path => snapshot.state \in {"Completed", "Consumed"}
  /\ snapshot.state = "Completed" => snapshot.path

Unspoiled(t, how) == <<t, how>> \notin spoiled
Sound(t) == Unspoiled(t, "abandoned") /\ Unspoiled(t, "unrecorded")

\* The pages of the gallery are there, or hidden with their ZIP.
Holds(t) == place[t] = "library" \/ "zip" \in tomb[t]

\* The task is saved as consumed, or somebody is about to do that; and likewise the registry.
Owned(t) ==
  disk[t].state = "Consumed" \/ \E c \in Caller : Works(c, t, {"registering", "consumed"})
Entered(t) ==
  \/ t \in registered \/ ~Unspoiled(t, "unregistered")
  \/ \E c \in Caller : Works(c, t, {"registering"})

\* What is going on in each phase between an opening and a crash.
Phases ==
  /\ Serving <=> boot # "closed"
  /\ boot # "done" => exporting = {} /\ \A c \in Client : call[c] = Idle
  /\ boot = "tickets" => /\ job = NoJob /\ call[Core].doing \in {"idle"} \cup Hidden
                         /\ \A t \in Task : tasks[t] = disk[t] /\ worker[t] = "none"
  /\ boot = "consuming" => /\ call[Core].doing \in {"idle", "listing"} \cup Consuming
                           /\ \A t \in Task : ticket[t] = {}
  /\ boot \in {"done", "failed", "closed"} => call[Core] = Idle
  /\ boot \in {"failed", "closed"} => job = NoJob

\* A caller that does nothing has no task, and lists only what has been completed.
Calling ==
  \A c \in Caller :
    /\ call[c].doing = "idle" => call[c] = Idle
    /\ call[c].doing \in {"idle", "listing"} <=> call[c].task = NoTask
    /\ \A t \in call[c].rest : tasks[t].state \in {"Completed", "Consumed"}

\* Who has the write side of the lock, and whom the blocking thread works for.
Locking ==
  /\ \A c \in Client : call[c].doing \in Deleting =>
       /\ job = NoJob /\ exporting = {}
       /\ \A d \in Client : call[d].doing \in Deleting => d = c
  /\ job.doing \in {"opening", "staged"} =>
       /\ job.task \in Task
       /\ Unspoiled(job.task, "interrupted") => call[job.for].doing = "consuming"
  /\ job.doing = "staged" => place[job.task] = "staging"
  /\ \A c \in Caller : call[c].doing = "consuming" =>
       job.doing \in {"opening", "staged"} /\ job.for = c /\ job.task = call[c].task

\* What is in the map and in the file of a task.
SnapshotsOf(t) ==
  /\ Proper(tasks[t]) /\ Proper(disk[t])
  /\ disk[t].state = "Consumed" => tasks[t].state = "Consumed"
  /\ t \in downloaded \/ place[t] # "none" \/ tomb[t] # {}
       => tasks[t].state # "absent" /\ disk[t].state # "absent"
  /\ Unspoiled(t, "interrupted") /\ tasks[t].state = "Consumed" => disk[t].state = "Consumed"
  /\ Unspoiled(t, "unrecorded") /\ tasks[t].state = "Consumed" /\ ~tasks[t].path
       => disk[t].state = "Consumed" /\ ~disk[t].path

\* What is in the library and in the registry of a task.
FilesOf(t) ==
  /\ Unspoiled(t, "abandoned") /\ tomb[t] # {}
       => ticket[t] # {} /\ tomb[t] \subseteq {"dir"} \cup ticket[t]
  /\ Sound(t) =>
       /\ t \in registered => place[t] = "library" \/ (tomb[t] # {} /\ ticket[t] # {})
       /\ "Completed" \in {tasks[t].state, disk[t].state}
            => t \in downloaded \/ place[t] # "none" \/ "zip" \in tomb[t]
       /\ disk[t].state = "Consumed" /\ disk[t].path => Holds(t)
  /\ Unspoiled(t, "interrupted") /\ place[t] = "library" => Owned(t) /\ Entered(t)
  /\ \A c \in Client : <<c, t>> \in exporting => place[t] = "library"

\* What a caller has found or done with a task, and can rely on.
CallOf(c, t) ==
  /\ Works(c, t, Consuming) => tasks[t].state \in {"Completed", "Consumed"}
  /\ Works(c, t, {"consumed"}) /\ tasks[t].state = "Completed" /\ Sound(t) => Holds(t)
  /\ Works(c, t, {"ticketed"})
       => place[t] = "library" /\ ticket[t] = Files(t) /\ tomb[t] = {}
  /\ Works(c, t, {"hidden", "unregistered", "marked"})
       => tomb[t] # {} /\ ticket[t] # {} /\ tomb[t] \subseteq {"dir"} \cup ticket[t]
  /\ Works(c, t, {"erased"}) => tomb[t] = {}
  /\ Works(c, t, Hidden) => place[t] # "library"
  /\ Works(c, t, {"unregistered", "marked", "erased"})
       => t \notin registered \/ ~Unspoiled(t, "unrecorded")
  /\ Works(c, t, {"marked", "erased"}) => tasks[t].state = "Consumed" /\ ~tasks[t].path
  /\ c \in Client /\ Unspoiled(t, "interrupted") =>
       /\ Works(c, t, {"hidden", "unregistered"}) => Owned(t)
       /\ Works(c, t, {"hidden"}) => Entered(t)
CallsOf(t) == \A c \in Caller : CallOf(c, t)

LibraryOf(t) == SnapshotsOf(t) /\ FilesOf(t) /\ CallsOf(t)

GalleryInv ==
  GalleryTypeOK /\ Phases /\ Calling /\ Locking /\ \A t \in Task : LibraryOf(t)

-----------------------------------------------------------------------------
(* Who calls, and what a step makes of the calls. *)

\* What the types say of one caller and of the thread.
LEMMA CallTypes ==
  ASSUME GalleryTypeOK, NEW c \in Caller
  PROVE  /\ call[c] \in CallRecord
         /\ call[c].doing \in Doings /\ call[c].task \in Task \cup {NoTask}
         /\ call[c].rest \in SUBSET Task
         /\ job.doing \in {"nothing", "opening", "staged", "writing"}
         /\ job.task \in Task \cup {NoTask} /\ job.for \in Caller
<1>1. call \in [Caller -> CallRecord]
  BY DEF GalleryTypeOK, CallRecord, Doings
<1>2. call[c] \in CallRecord
  BY <1>1
<1> QED
  BY <1>2 DEF GalleryTypeOK, CallRecord

\* The Core and a client are never the same, nor a task and none.
LEMMA Distinct ==
  /\ Core \in Caller /\ Client \subseteq Caller
  /\ \A c \in Caller : c \in Client <=> c # Core
  /\ \A t \in Task : t # NoTask
BY GalleryAssumption DEF Caller

\* Nobody else's call changes.
OthersWait(c) == \A d \in Caller : d # c => call'[d] = call[d]

\* The caller goes on with its task.
Turns(c, doing) ==
  /\ call' \in [Caller -> CallRecord]
  /\ call'[c].doing = doing
  /\ call'[c].task = call[c].task
  /\ call'[c].rest = call[c].rest
  /\ OthersWait(c)

\* The caller begins with a task, or takes a list.
Begins(c, doing, t, rest) ==
  /\ call' \in [Caller -> CallRecord]
  /\ call'[c].doing = doing
  /\ call'[c].task = t
  /\ call'[c].rest = rest
  /\ OthersWait(c)

\* The caller is through with its task.
Quit(c) ==
  /\ call' \in [Caller -> CallRecord]
  /\ call'[c] = Idle \/ (call'[c].doing = "listing" /\ call'[c].task = NoTask)
  /\ call'[c].rest \subseteq call[c].rest
  /\ OthersWait(c)

\* An idle caller has the shape of a call.
LEMMA IdleIsACall == /\ Idle \in CallRecord
                     /\ Idle.doing = "idle" /\ Idle.task = NoTask /\ Idle.rest = {}
BY DEF Idle, CallRecord, Doings

\* Go moves its caller on, and nobody else.
LEMMA GoTurns ==
  ASSUME GalleryTypeOK, NEW c \in Caller, NEW doing \in Doings, Go(c, doing)
  PROVE  Turns(c, doing)
<1>1. call \in [Caller -> CallRecord]
  BY DEF GalleryTypeOK, CallRecord, Doings
<1> QED
  BY <1>1 DEF Go, Turns, OthersWait, CallRecord

\* A call that is written whole is one that begins.
LEMMA BeginBegins ==
  ASSUME GalleryTypeOK, NEW c \in Caller, NEW doing \in Doings, NEW t \in Task \cup {NoTask},
         NEW rest \in SUBSET Task,
         call' = [call EXCEPT ![c] = [doing |-> doing, task |-> t, rest |-> rest]]
  PROVE  Begins(c, doing, t, rest)
<1>1. call \in [Caller -> CallRecord]
  BY DEF GalleryTypeOK, CallRecord, Doings
<1>2. [doing |-> doing, task |-> t, rest |-> rest] \in CallRecord
  BY DEF CallRecord
<1> QED
  BY <1>1, <1>2 DEF Begins, OthersWait, CallRecord

\* Stop ends the call of its caller.
LEMMA StopEnds ==
  ASSUME GalleryTypeOK, NEW c \in Caller, Stop(c)
  PROVE  Quit(c) /\ call'[c] = Idle
<1>1. call \in [Caller -> CallRecord]
  BY DEF GalleryTypeOK, CallRecord, Doings
<1> QED
  BY <1>1, IdleIsACall DEF Stop, Quit, OthersWait

\* Proceed ends it too, or goes back to the list with one task less.
LEMMA ProceedEnds ==
  ASSUME GalleryTypeOK, NEW c \in Caller, Proceed(c)
  PROVE  Quit(c)
<1>1. call \in [Caller -> CallRecord]
  BY DEF GalleryTypeOK, CallRecord, Doings
<1>2. call[c].rest \in SUBSET Task
  BY CallTypes
<1>3. CASE call[c].rest = {}
  BY <1>3, StopEnds DEF Proceed
<1>4. CASE call[c].rest # {}
  <2>1. call' = [call EXCEPT ![c] = [doing |-> "listing", task |-> NoTask, rest |-> call[c].rest]]
    BY <1>1, <1>4 DEF Proceed
  <2>2. Begins(c, "listing", NoTask, call[c].rest)
    BY <1>2, <2>1, BeginBegins DEF Doings
  <2> QED
    BY <2>2 DEF Begins, Quit
<1> QED
  BY <1>3, <1>4

\* The thread answers the caller it works for, if that still waits.
Answered(doing) ==
  /\ call' \in [Caller -> CallRecord]
  /\ \A c \in Caller :
       IF call[c].doing = "consuming" /\ job.for = c
       THEN call'[c].doing = doing /\ call'[c].task = call[c].task /\ call'[c].rest = call[c].rest
       ELSE call'[c] = call[c]

\* The answer of the thread reaches the caller that waits for it, if any.
LEMMA AnswerAnswers ==
  ASSUME GalleryTypeOK, NEW doing \in Doings, Answer(doing)
  PROVE  Answered(doing)
<1>1. call \in [Caller -> CallRecord]
  BY DEF GalleryTypeOK, CallRecord, Doings
<1>2. \A c \in Caller : /\ [call[c] EXCEPT !.doing = doing] \in CallRecord
                        /\ [call[c] EXCEPT !.doing = doing].doing = doing
                        /\ [call[c] EXCEPT !.doing = doing].task = call[c].task
                        /\ [call[c] EXCEPT !.doing = doing].rest = call[c].rest
  BY <1>1 DEF CallRecord
<1> QED
  BY <1>1, <1>2 DEF Answer, Answered

\* A deleter has the lock to itself: nothing is consumed or exported, and nobody else deletes.
LEMMA OneDeletes ==
  ASSUME GalleryInv, NEW c \in Caller, call[c].doing \in Deleting
  PROVE  /\ job = NoJob /\ exporting = {}
         /\ \A d \in Caller : d # c => call[d].doing \notin Deleting
         /\ c = Core => boot = "tickets"
         /\ c # Core => boot = "done"
         /\ call[c].task \in Task
<1>1. /\ Phases /\ Locking /\ Calling /\ GalleryTypeOK
  BY DEF GalleryInv
<1>2. call[c].doing \notin {"idle", "listing"} /\ call[c].doing \notin Consuming
  BY DEF Deleting, Consuming
<1>3. call[c].task \in Task
  BY <1>1, <1>2, CallTypes DEF Calling
<1>4. call[c] # Idle
  BY <1>2, IdleIsACall
<1>5. boot \in {"tickets", "consuming", "done", "failed", "closed"}
  BY <1>1 DEF GalleryTypeOK
<1>6. CASE c = Core
  <2>1. boot = "tickets"
    BY <1>1, <1>2, <1>4, <1>5, <1>6 DEF Phases
  <2>2. job = NoJob /\ exporting = {} /\ \A d \in Client : call[d] = Idle
    BY <1>1, <2>1 DEF Phases
  <2>3. \A d \in Caller : d # c => call[d].doing \notin Deleting
    BY <1>6, <2>2, Distinct, IdleIsACall DEF Deleting
  <2> QED
    BY <1>3, <1>6, <2>1, <2>2, <2>3
<1>7. CASE c # Core
  <2>1. c \in Client
    BY <1>7, Distinct
  <2>2. boot = "done"
    BY <1>1, <1>4, <2>1 DEF Phases
  <2>3. call[Core] = Idle
    BY <1>1, <2>2 DEF Phases
  <2>4. job = NoJob /\ exporting = {} /\ \A d \in Client : call[d].doing \in Deleting => d = c
    BY <1>1, <2>1 DEF Locking
  <2>5. \A d \in Caller : d # c => call[d].doing \notin Deleting
    BY <2>3, <2>4, Distinct, IdleIsACall DEF Deleting
  <2> QED
    BY <1>3, <1>7, <2>2, <2>4, <2>5
<1> QED
  BY <1>6, <1>7

\* Nobody deletes beside the thread.
LEMMA NobodyDeletes ==
  ASSUME GalleryInv, job # NoJob
  PROVE  \A c \in Caller : call[c].doing \notin Deleting
BY OneDeletes

\* A request comes in while nobody has the lock, and the Core has none of its own.
LEMMA NobodyDeletesYet ==
  ASSUME GalleryInv, NotWriting, boot = "done"
  PROVE  \A c \in Caller : call[c].doing \notin Deleting
<1>1. call[Core] = Idle
  BY DEF GalleryInv, Phases
<1> QED
  BY <1>1, Distinct, IdleIsACall DEF NotWriting, Deleting

-----------------------------------------------------------------------------
(* What the archive service does to the snapshots the library looks at. *)

Stays(t) == tasks'[t] = tasks[t] /\ disk'[t] = disk[t]

\* The task is started, or moves on while there is nothing of it to consume.
Advances(t) ==
  /\ tasks[t].state \notin {"Completed", "Consumed"}
  /\ tasks'[t].state \notin {"absent", "Consumed"}
  /\ Proper(tasks'[t])
  /\ disk'[t] = disk[t] \/ disk'[t] = tasks'[t]

\* The task is saved by a start nobody waits for.
Begun(t) ==
  /\ tasks'[t] = tasks[t] /\ tasks[t].state = "absent"
  /\ disk'[t].state = "Submitting" /\ ~disk'[t].path
  /\ disk[t].state = "absent"

Evolves(t) == Stays(t) \/ Advances(t) \/ Begun(t)

\* What becomes of a snapshot without a path has none either.
LEMMA MovedIsProper ==
  ASSUME TypeOK, NEW t \in Task, Proper(tasks[t]),
         tasks[t].state \notin {"Completed", "Consumed"},
         NEW st \in (Live \cup Terminal) \ {"Completed", "Consumed"}
  PROVE  /\ Proper(Moved(t, st)) /\ Moved(t, st).state = st /\ ~Moved(t, st).path
BY DEF TypeOK, SnapshotSet, Proper, Moved, Snapshot

\* A request moves a task that is nowhere, or that has ended without a ZIP.
LEMMA RequestEvolves ==
  ASSUME IInv, NEW t \in Task, Proper(tasks[t]), Request(t)
  PROVE  Evolves(t)
<1>0. TypeOK
  BY DEF IInv
<1>1. CASE Start(t)
  <2> DEFINE new == Snapshot("Submitting", 1, FALSE, FALSE)
  <2>1. tasks[t].state = "absent" /\ tasks'[t] = new /\ disk'[t] = new
    BY <1>0, <1>1 DEF Start, Save, Show, TypeOK, Absent, Snapshot
  <2>2. new.state = "Submitting" /\ ~new.path
    BY DEF Snapshot
  <2> QED
    BY <2>1, <2>2 DEF Evolves, Advances, Proper
<1>2. CASE Retry(t)
  <2> DEFINE ready == Moved(t, "Ready")
  <2>1. /\ tasks[t].state \in {"Failed", "Cancelled"}
        /\ tasks'[t] = ready /\ (disk'[t] = ready \/ disk'[t] = disk[t])
    BY <1>0, <1>2 DEF Retry, Save, Show, TypeOK
  <2>2. Proper(ready) /\ ready.state = "Ready"
    BY <1>0, <2>1, MovedIsProper DEF Live
  <2> QED
    BY <2>1, <2>2 DEF Evolves, Advances
<1>3. CASE DropStart(t)
  <2>1. /\ tasks' = tasks /\ tasks[t] = Absent /\ disk[t] = Absent
        /\ disk'[t] = Snapshot("Submitting", 1, FALSE, FALSE)
    BY <1>0, <1>3 DEF DropStart, Save, TypeOK
  <2> QED
    BY <2>1 DEF Evolves, Begun, Absent, Snapshot
<1>4. CASE Spawn(t) \/ Cancel(t) \/ DropRequest(t)
  BY <1>4 DEF Spawn, Cancel, DropRequest, store, Evolves, Stays
<1> QED
  BY <1>1, <1>2, <1>3, <1>4 DEF Request

\* A worker moves the live task it works on.
LEMMA WorkEvolves ==
  ASSUME IInv, NEW t \in Task, Proper(tasks[t]), Work(t)
  PROVE  Evolves(t)
<1>0. TypeOK /\ Backing(t)
  BY DEF IInv, TaskInv
<1>1. ASSUME worker[t] # "none", Serving
      PROVE  tasks[t].state \in Live /\ tasks[t].state \notin {"Completed", "Consumed"}
  BY <1>0, <1>1 DEF Backing, Live
<1>2. ASSUME NEW s, Settle(t, s), worker[t] # "none", Serving, Proper(s),
             s.state \notin {"absent", "Consumed"}
      PROVE  Evolves(t)
  BY <1>0, <1>1, <1>2 DEF Settle, Show, Save, TrySave, TypeOK, Evolves, Advances
<1>3. ASSUME Downloading(t), worker[t] # "none", Serving
      PROVE  Evolves(t)
  <2>1. Proper(Moved(t, "Downloading")) /\ Moved(t, "Downloading").state = "Downloading"
    BY <1>0, <1>1, <1>3, MovedIsProper DEF Live
  <2> QED
    BY <1>0, <1>1, <1>3, <2>1 DEF Downloading, Show, Save, TrySave, TypeOK, Evolves, Advances
<1>4. CASE Submit(t) \/ EndTransfer(t) \/ Leave(t)
  BY <1>4 DEF Submit, EndTransfer, Leave, store, Evolves, Stays
<1>5. CASE Bought(t)
  <2> DEFINE ready == [Moved(t, "Ready") EXCEPT !.url = TRUE]
  <2>1. Proper(ready) /\ ready.state = "Ready"
    BY <1>0, <1>1, <1>5, MovedIsProper DEF Bought, Live, Moved, Snapshot, Proper
  <2>2. tasks'[t] = ready /\ disk'[t] = ready
    BY <1>0, <1>5 DEF Bought, Show, Save, TypeOK
  <2> HIDE DEF ready
  <2> QED
    BY <1>1, <1>5, <2>1, <2>2 DEF Bought, Evolves, Advances
<1>6. CASE BoughtButNotSaved(t)
  <2> DEFINE unknown == Snapshot("CostUnknown", tasks[t].revision + 2, TRUE, tasks[t].path)
  <2>1. ~tasks[t].path
    BY <1>1, <1>6 DEF BoughtButNotSaved, Proper
  <2>2. Proper(unknown) /\ unknown.state = "CostUnknown"
    BY <2>1 DEF Snapshot, Proper
  <2>3. tasks'[t] = unknown /\ (disk'[t] = unknown \/ disk'[t] = disk[t])
    BY <1>0, <1>6 DEF BoughtButNotSaved, Show, Save, TrySave, TypeOK
  <2> HIDE DEF unknown
  <2> QED
    BY <1>1, <1>6, <2>2, <2>3 DEF BoughtButNotSaved, Evolves, Advances
<1>7. CASE NotBought(t) \/ GiveUp(t)
  <2>1. \E st \in {"CostUnknown", "Cancelled"} : Settle(t, Moved(t, st))
    BY <1>7 DEF NotBought, GiveUp
  <2>2. worker[t] # "none" /\ Serving
    BY <1>7 DEF NotBought, GiveUp
  <2>3. \A st \in {"CostUnknown", "Cancelled"} : Proper(Moved(t, st)) /\ Moved(t, st).state = st
    BY <1>0, <1>1, <2>2, MovedIsProper DEF Terminal
  <2> QED
    BY <1>2, <2>1, <2>2, <2>3
<1>8. CASE Download(t) \/ Progress(t)
  BY <1>3, <1>8 DEF Download, Progress
<1>9. CASE Finalize(t)
  <2>1. worker[t] # "none" /\ Serving
    BY <1>9 DEF Finalize, Returned
  <2>2. \A st \in {"Failed", "Cancelled"} : Proper(Moved(t, st)) /\ Moved(t, st).state = st
    BY <1>0, <1>1, <2>1, MovedIsProper DEF Terminal
  <2> DEFINE completed == [Moved(t, "Completed") EXCEPT !.path = TRUE]
  <2>3. Proper(completed) /\ completed.state = "Completed"
    BY DEF Moved, Snapshot, Proper
  <2>4. Settle(t, completed) \/ \E st \in {"Failed", "Cancelled"} : Settle(t, Moved(t, st))
    BY <1>9 DEF Finalize, Returned
  <2> HIDE DEF completed
  <2> QED
    BY <1>2, <2>1, <2>2, <2>3, <2>4
<1> QED
  BY <1>4, <1>5, <1>6, <1>7, <1>8, <1>9 DEF Work

\* Before the Core serves requests there are no workers but those that have left something.
LEMMA NoWorkerYet ==
  ASSUME NEW t \in Task, Work(t), worker[t] = "none"
  PROVE  Leave(t)
BY DEF Work, Submit, Bought, BoughtButNotSaved, NotBought, GiveUp, Download, Progress,
       EndTransfer, Finalize, Returned

\* What a report makes of the task, and what the reporter can tell from it: who is told
\* knows that the file is written, because the event is of a revision nobody has seen.
LEMMA ReportEffect ==
  ASSUME TypeOK, NEW t \in Task, Heard(t), NEW s, Reported(t, s),
         s.revision = tasks[t].revision + 1
  PROVE  /\ tasks'[t] = s
         /\ disk'[t] = s \/ disk'[t] = disk[t]
         /\ Told(t) \/ ~Unwritten(t) => disk'[t] = s
         /\ core' = core /\ worker' = worker
         /\ \A u \in Task : u # t => Stays(u)
<1>1. /\ tasks'[t] = s
      /\ core' = core /\ worker' = worker
      /\ \A u \in Task : u # t => Stays(u)
      /\ disk'[t] = s \/ (disk' = disk /\ announced' = announced)
      /\ disk'[t] = s \/ disk'[t] = disk[t]
  BY DEF TypeOK, Reported, Show, Save, Stays, life, running
<1>2. announced[t] \in Nat /\ tasks[t].revision \in Nat /\ announced[t] <= tasks[t].revision
  BY DEF TypeOK, SnapshotSet, Heard
<1>3. announced[t] # s.revision
  BY <1>2
<1> QED
  BY <1>1, <1>3 DEF Told, Unwritten

-----------------------------------------------------------------------------
(* A step of the library is a step of the archive service, or leaves it alone. *)

\* The caller that reports has a task.
LEMMA CallHasTask ==
  ASSUME GalleryTypeOK, Calling, NEW c \in Caller, call[c].doing \notin {"idle", "listing"}
  PROVE  call[c].task \in Task
BY CallTypes DEF Calling

\* The reports are those that ArchiveService takes.
LEMMA ReportsAreTaken ==
  ASSUME GalleryTypeOK, Calling, NEW c \in Caller, ReportConsumed(c) \/ ReportDeleted(c)
  PROVE  (\E t \in Task : Consume(t)) \/ UNCHANGED vars
<1>1. call[c].task \in Task
  BY CallHasTask DEF ReportConsumed, ReportDeleted
<1> DEFINE t == call[c].task
<1>2. CASE ReportConsumed(c)
  <2>1. UNCHANGED vars \/ (Serving /\ tasks[t].state = "Completed" /\
           (Reported(t, Moved(t, "Consumed"))
              \/ (tasks[t].revision < MaxReports /\ Reported(t, Moved(t, "Completed")))))
    BY <1>2 DEF ReportConsumed, Reports
  <2>2. UNCHANGED vars \/ MarkConsumed(t)
    BY <2>1 DEF MarkConsumed
  <2> QED
    BY <1>1, <2>2 DEF Consume
<1>3. CASE ReportDeleted(c)
  <2>1. UNCHANGED vars \/ (Serving /\ tasks[t].state = "Consumed" /\ tasks[t].path /\
           Reported(t, [Moved(t, "Consumed") EXCEPT !.path = FALSE]))
    BY <1>3 DEF ReportDeleted
  <2>2. UNCHANGED vars \/ MarkDeleted(t)
    BY <2>1 DEF MarkDeleted
  <2> QED
    BY <1>1, <2>2 DEF Consume
<1> QED
  BY <1>2, <1>3

\* Everything else is the service's own, or none of its business.
LEMMA StepsAreArchiveSteps ==
  ASSUME GalleryTypeOK, Calling, GalleryNext
  PROVE  [Next]_vars
<1>1. ASSUME NEW c \in Caller, Consumption(c) PROVE [Next]_vars
  <2>1. CASE ListCompleted(c) \/ BeginConsume(c) \/ Register(c)
    BY <2>1 DEF ListCompleted, BeginConsume, Register
  <2> QED
    BY <1>1, <2>1, ReportsAreTaken DEF Consumption, Next
<1>2. ASSUME NEW c \in Caller, Deletion(c) PROVE [Next]_vars
  <2>1. CASE Hide(c) \/ Unregister(c) \/ Erase(c) \/ RemoveTicket(c)
    BY <2>1 DEF Hide, Unregister, Erase, RemoveTicket
  <2> QED
    BY <1>2, <2>1, ReportsAreTaken DEF Deletion, Next
<1>3. ASSUME NEW c \in Client, ClientAsks(c) PROVE UNCHANGED vars
  BY <1>3 DEF ClientAsks, Confirm, DropCall, Preview, Import, BeginComicInfo, DeleteComicInfo,
              BeginExport, EndExport
<1>4. CASE Thread
  BY <1>4 DEF Thread, Stage, Commit, Undo, EndComicInfo
<1>5. CASE Opening
  BY <1>5 DEF Opening, RecoverDeletion, RecoverRegistrations, BootDone
<1>6. ASSUME NEW t \in Task, ArchiveStep(t) PROVE Next
  BY <1>6 DEF ArchiveStep, Next
<1>7. CASE GalleryOpen \/ GalleryClose \/ GalleryShutdown
  BY <1>7 DEF GalleryOpen, GalleryClose, GalleryShutdown, Next
<1> QED
  BY <1>1, <1>2, <1>3, <1>4, <1>5, <1>6, <1>7 DEF GalleryNext

\* What the archive service keeps is kept.
LEMMA InheritedStep ==
  ASSUME Inherited, GalleryTypeOK, Calling, [GalleryNext]_galleryStep
  PROVE  Inherited'
<1>1. [Next]_vars
  BY StepsAreArchiveSteps DEF galleryStep
<1>2. IInv'
  BY <1>1, InvStep DEF Inherited
<1>3. TypeOK /\ TypeOK'
  BY <1>2 DEF Inherited, IInv
<1>4. AllHeard'
  BY <1>1, <1>3, HeardStep DEF Inherited, AllHeard
<1> QED
  BY <1>2, <1>4 DEF Inherited

-----------------------------------------------------------------------------
(* What a step does not touch keeps its part of the invariant. *)

\* Nothing happens to the files of this task, and nobody begins to read it.
Untouched(t) ==
  /\ place'[t] = place[t] /\ sidecar'[t] = sidecar[t]
  /\ tomb'[t] = tomb[t] /\ ticket'[t] = ticket[t]
  /\ t \in downloaded' <=> t \in downloaded
  /\ t \in registered' <=> t \in registered
  /\ \A c \in Client : <<c, t>> \in exporting' => <<c, t>> \in exporting

\* Nothing that was spoiled is mended.
SpoilsStay == spoiled \subseteq spoiled'

\* Whoever was about to save or to register the task still is, unless it is spoiled.
OwnersStay(t) ==
  Unspoiled(t, "interrupted")' =>
    \A c \in Caller :
      /\ Works(c, t, {"registering", "consumed"}) => Works(c, t, {"registering", "consumed"})'
      /\ Works(c, t, {"registering"}) => Works(c, t, {"registering"})'

\* A saved task whose files are left alone keeps what its snapshots show,
LEMMA SnapshotsKept ==
  ASSUME NEW t \in Task, SnapshotsOf(t), Stays(t), Untouched(t), SpoilsStay
  PROVE  SnapshotsOf(t)'
BY DEF SnapshotsOf, Stays, Untouched, SpoilsStay, Unspoiled, Proper

\* and whoever was about to save or register it,
LEMMA OwnersKept ==
  ASSUME NEW t \in Task, Stays(t), t \in registered => t \in registered', OwnersStay(t),
         SpoilsStay, Unspoiled(t, "interrupted")'
  PROVE  (Owned(t) => Owned(t)') /\ (Entered(t) => Entered(t)')
<1>1. (Owned(t) => Owned(t)')
  BY DEF Stays, OwnersStay, Owned
<1>2. (Entered(t) => Entered(t)')
  BY DEF OwnersStay, Entered, SpoilsStay, Unspoiled
<1> QED
  BY <1>1, <1>2

\* and what its files show.
LEMMA FilesKept ==
  ASSUME NEW t \in Task, FilesOf(t), Stays(t), Untouched(t), SpoilsStay, OwnersStay(t)
  PROVE  FilesOf(t)'
<1>1. Unspoiled(t, "interrupted")' => (Owned(t) => Owned(t)') /\ (Entered(t) => Entered(t)')
  BY OwnersKept DEF Untouched
<1> HIDE DEF Owned, Entered
<1> QED
  BY <1>1 DEF FilesOf, Stays, Untouched, SpoilsStay, Sound, Unspoiled, Holds

\* A caller whose call stays the same, as far as this task goes.
LEMMA CallKept ==
  ASSUME NEW t \in Task, NEW c \in Caller, CallOf(c, t), Stays(t), Untouched(t), SpoilsStay,
         OwnersStay(t), call'[c] = call[c]
  PROVE  CallOf(c, t)'
<1>1. Unspoiled(t, "interrupted")' => (Owned(t) => Owned(t)') /\ (Entered(t) => Entered(t)')
  BY OwnersKept DEF Untouched
<1>2. \A what : Works(c, t, what)' <=> Works(c, t, what)
  BY DEF Works
<1> HIDE DEF Owned, Entered, Works
<1> QED
  BY <1>1, <1>2 DEF CallOf, Stays, Untouched, SpoilsStay, Sound, Unspoiled, Holds, Files

\* A caller that does nothing with this task relies on nothing.
LEMMA NoCall ==
  ASSUME NEW t \in Task, NEW c \in Caller, call'[c].task # t
  PROVE  CallOf(c, t)'
BY DEF CallOf, Works

\* The tasks somebody else works on, or nobody.
LEMMA Elsewhere ==
  ASSUME NEW u \in Task, NEW c \in Caller, LibraryOf(u), Stays(u), Untouched(u), SpoilsStay,
         OthersWait(c), call[c].task # u, call'[c].task # u
  PROVE  LibraryOf(u)'
<1>1. OwnersStay(u)
  BY DEF OwnersStay, OthersWait, Works
<1>2. ASSUME NEW d \in Caller PROVE CallOf(d, u)'
  <2>1. CASE d = c
    BY <2>1, NoCall
  <2>2. CASE d # c
    BY <1>1, <2>2, CallKept DEF OthersWait, LibraryOf, CallsOf
  <2> QED
    BY <2>1, <2>2
<1> QED
  BY <1>1, <1>2, SnapshotsKept, FilesKept DEF LibraryOf, CallsOf

\* All tasks, when no call changes.
LEMMA Nowhere ==
  ASSUME NEW u \in Task, LibraryOf(u), Stays(u), Untouched(u), SpoilsStay,
         \A c \in Caller : call'[c] = call[c]
  PROVE  LibraryOf(u)'
<1>1. OwnersStay(u)
  BY DEF OwnersStay, Works
<1> QED
  BY <1>1, CallKept, SnapshotsKept, FilesKept DEF LibraryOf, CallsOf

\* The archive service is left alone.
LEMMA ArchiveAlone ==
  ASSUME UNCHANGED vars
  PROVE  /\ tasks' = tasks /\ disk' = disk /\ worker' = worker /\ core' = core
         /\ \A t \in Task : Stays(t)
         /\ Serving' <=> Serving
BY DEF vars, life, store, running, Stays, Serving

-----------------------------------------------------------------------------
(* Phases, callers and the lock, through a step that leaves the phase alone. *)

\* A client that does something does it while requests are served.
LEMMA WhoCalls ==
  ASSUME GalleryInv, NEW c \in Caller, call[c] # Idle
  PROVE  /\ c # Core => boot = "done"
         /\ c = Core => boot \in {"tickets", "consuming"}
<1>1. Phases /\ boot \in {"tickets", "consuming", "done", "failed", "closed"}
  BY DEF GalleryInv, GalleryTypeOK
<1> QED
  BY <1>1, Distinct DEF Phases

\* The calls of the others, and its own, have a shape that callers have.
LEMMA CallingKept ==
  ASSUME Calling, NEW c \in Caller, OthersWait(c),
         call'[c].doing = "idle" => call'[c] = Idle,
         call'[c].doing \in {"idle", "listing"} <=> call'[c].task = NoTask,
         \A t \in call'[c].rest : tasks[t].state \in {"Completed", "Consumed"},
         \A t \in Task : tasks[t].state \in {"Completed", "Consumed"}
                           => tasks'[t].state \in {"Completed", "Consumed"},
         GalleryTypeOK, GalleryTypeOK'
  PROVE  Calling'
<1>1. \A d \in Caller : call'[d].rest \subseteq Task
  <2>1. call' \in [Caller -> CallRecord]
    BY DEF GalleryTypeOK, CallRecord, Doings
  <2> QED
    BY <2>1 DEF CallRecord
<1>2. ASSUME NEW d \in Caller, d # c
      PROVE  /\ call'[d].doing = "idle" => call'[d] = Idle
             /\ call'[d].doing \in {"idle", "listing"} <=> call'[d].task = NoTask
             /\ \A t \in call'[d].rest : tasks'[t].state \in {"Completed", "Consumed"}
  BY <1>1, <1>2 DEF Calling, OthersWait
<1>3. \A t \in call'[c].rest : tasks'[t].state \in {"Completed", "Consumed"}
  BY <1>1
<1> QED
  BY <1>2, <1>3 DEF Calling

\* A caller that is through has the shape.
LEMMA CallingAfterEnd ==
  ASSUME Calling, NEW c \in Caller, Quit(c), GalleryTypeOK, GalleryTypeOK',
         \A t \in Task : tasks[t].state \in {"Completed", "Consumed"}
                           => tasks'[t].state \in {"Completed", "Consumed"}
  PROVE  Calling'
<1>1. OthersWait(c)
  BY DEF Quit
<1>2. /\ call'[c].doing = "idle" => call'[c] = Idle
      /\ call'[c].doing \in {"idle", "listing"} <=> call'[c].task = NoTask
  BY IdleIsACall DEF Quit
<1>3. \A t \in call'[c].rest : tasks[t].state \in {"Completed", "Consumed"}
  BY DEF Quit, Calling
<1> QED
  BY <1>1, <1>2, <1>3, CallingKept

\* So has one that goes on.
LEMMA CallingAfterTurn ==
  ASSUME Calling, NEW c \in Caller, NEW doing \in Doings \ {"idle", "listing"},
         Turns(c, doing), GalleryTypeOK, GalleryTypeOK',
         call[c].doing \notin {"idle", "listing"},
         \A t \in Task : tasks[t].state \in {"Completed", "Consumed"}
                           => tasks'[t].state \in {"Completed", "Consumed"}
  PROVE  Calling'
<1>1. OthersWait(c)
  BY DEF Turns
<1>2. /\ call'[c].doing = "idle" => call'[c] = Idle
      /\ call'[c].doing \in {"idle", "listing"} <=> call'[c].task = NoTask
  BY DEF Turns, Calling
<1>3. \A t \in call'[c].rest : tasks[t].state \in {"Completed", "Consumed"}
  BY DEF Turns, Calling
<1> QED
  BY <1>1, <1>2, <1>3, CallingKept

\* A client's step while requests are served.
LEMMA PhasesServed ==
  ASSUME boot' = "done", Serving', call'[Core] = Idle
  PROVE  Phases'
BY DEF Phases, Serving

\* A step of the Core, or of its thread, while it consumes.
LEMMA PhasesConsuming ==
  ASSUME boot' = "consuming", Serving', exporting' = {},
         \A c \in Client : call'[c] = Idle,
         call'[Core].doing \in {"idle", "listing"} \cup Consuming,
         \A t \in Task : ticket'[t] = {}
  PROVE  Phases'
BY DEF Phases, Serving

\* A step of the Core while it recovers deletions.
LEMMA PhasesRecovering ==
  ASSUME boot' = "tickets", Serving', exporting' = {}, job' = NoJob,
         \A c \in Client : call'[c] = Idle,
         call'[Core].doing \in {"idle"} \cup Hidden,
         \A t \in Task : tasks'[t] = disk'[t] /\ worker'[t] = "none"
  PROVE  Phases'
BY DEF Phases, Serving

\* The opening has failed.
LEMMA PhasesFailed ==
  ASSUME boot' = "failed", Serving', exporting' = {}, job' = NoJob,
         \A c \in Caller : call'[c] = Idle
  PROVE  Phases'
BY Distinct DEF Phases, Serving

\* The phase stays while a consumption goes on.
LEMMA PhasesOfConsumption ==
  ASSUME GalleryInv, NEW c \in Caller, OthersWait(c), Serving, Serving',
         c # Core => boot = "done", c = Core => boot = "consuming",
         call'[c].doing \in {"idle", "listing"} \cup Consuming,
         boot' = boot, exporting' = exporting, ticket' = ticket
  PROVE  Phases'
<1>1. Phases
  BY DEF GalleryInv
<1>2. CASE c = Core
  BY <1>1, <1>2, PhasesConsuming, Distinct DEF Phases, OthersWait
<1>3. CASE c # Core
  BY <1>1, <1>3, PhasesServed, Distinct DEF Phases, OthersWait
<1> QED
  BY <1>2, <1>3

\* Nobody takes or gives back the lock, or a consumption does not go on.
LEMMA LockingKept ==
  ASSUME GalleryTypeOK, Locking, NEW c \in Caller, OthersWait(c), job' = job,
         exporting' \subseteq exporting,
         job.doing = "staged" => place'[job.task] = place[job.task],
         SpoilsStay,
         call'[c].doing \in Deleting => call[c].doing \in Deleting,
         call'[c].doing # "consuming",
         call[c].doing = "consuming" => <<call[c].task, "interrupted">> \in spoiled'
  PROVE  Locking'
<1>1. ASSUME NEW d \in Client, call'[d].doing \in Deleting
      PROVE  /\ job' = NoJob /\ exporting' = {}
             /\ \A e \in Client : call'[e].doing \in Deleting => e = d
  <2>1. \A e \in Client : call'[e].doing \in Deleting => call[e].doing \in Deleting
    BY Distinct DEF OthersWait
  <2> QED
    BY <1>1, <2>1 DEF Locking
<1>2. ASSUME job'.doing \in {"opening", "staged"}
      PROVE  /\ job'.task \in Task
             /\ Unspoiled(job.task, "interrupted")' => call'[job'.for].doing = "consuming"
  <2>1. job.task \in Task /\ (Unspoiled(job.task, "interrupted") => call[job.for].doing = "consuming")
    BY <1>2 DEF Locking
  <2>2. job.for \in Caller
    BY CallTypes
  <2>3. ASSUME <<job.task, "interrupted">> \notin spoiled'
        PROVE  call'[job.for].doing = "consuming"
    <3>1. call[job.for].doing = "consuming"
      BY <2>1, <2>3 DEF SpoilsStay, Unspoiled
    <3>2. call[job.for].task = job.task
      BY <2>2, <3>1 DEF Locking
    <3>3. job.for # c
      BY <2>3, <3>1, <3>2
    <3> QED
      BY <2>2, <3>1, <3>3 DEF OthersWait
  <2> QED
    BY <2>1, <2>3 DEF Unspoiled
<1>3. job'.doing = "staged" => place'[job'.task] = "staging"
  BY DEF Locking
<1>4. \A d \in Caller : call'[d].doing = "consuming" =>
        job'.doing \in {"opening", "staged"} /\ job'.for = d /\ job'.task = call'[d].task
  BY DEF Locking, OthersWait
<1> QED
  BY <1>1, <1>2, <1>3, <1>4 DEF Locking, Unspoiled

\* Nobody has the lock but those who read.
LEMMA LockingFree ==
  ASSUME job' = NoJob, \A c \in Caller : call'[c].doing \notin Deleting \cup {"consuming"}
  PROVE  Locking'
BY Distinct DEF Locking, NoJob

\* A thread without a job works for nobody, as far as others can tell.
LEMMA NoJobIsNothing == NoJob.doing = "nothing" /\ NoJob.task = NoTask /\ NoJob.for = Core
BY DEF NoJob

-----------------------------------------------------------------------------
(* Consumption. *)

\* The parts of the invariant.
LEMMA Parts ==
  GalleryInv =>
    /\ GalleryTypeOK /\ Phases /\ Calling /\ Locking
    /\ \A t \in Task : LibraryOf(t) /\ SnapshotsOf(t) /\ FilesOf(t) /\ CallsOf(t)
    /\ \A t \in Task : Proper(tasks[t]) /\ Proper(disk[t])
    /\ \A t \in Task, c \in Caller : CallOf(c, t)
BY DEF GalleryInv, LibraryOf, SnapshotsOf, CallsOf

\* The parts make the invariant.
LEMMA Together ==
  ASSUME GalleryTypeOK', Phases', Calling', Locking', \A t \in Task : LibraryOf(t)'
  PROVE  GalleryInv'
BY DEF GalleryInv

\* A list that is taken commits to nothing.
LEMMA ListCompletedKeeps ==
  ASSUME Inherited, GalleryInv, NEW c \in Caller, ListCompleted(c)
  PROVE  GalleryInv'
<1> DEFINE completed == {t \in Task : tasks[t].state = "Completed"}
<1>1. /\ call[c] = Idle /\ c \in Client /\ boot = "done" /\ Serving
      /\ UNCHANGED <<vars, boot, files, job, preview, exporting, spoiled>>
  BY DEF ListCompleted, CanAsk
<1>2. /\ GalleryTypeOK /\ Phases /\ Calling /\ Locking /\ \A t \in Task : LibraryOf(t)
  BY Parts
<1>3. Begins(c, "listing", NoTask, completed)
  BY <1>2, BeginBegins DEF ListCompleted, Doings
<1>4. \A t \in Task : Stays(t) /\ Untouched(t)
  BY <1>1, ArchiveAlone DEF files, Untouched
<1>5. GalleryTypeOK'
  BY <1>1, <1>2, <1>3 DEF GalleryTypeOK, files, Begins, CallRecord, Doings
<1>6. Phases'
  BY <1>1, <1>2, <1>3, ArchiveAlone, PhasesServed, Distinct DEF Phases, Begins, OthersWait
<1>7. Calling'
  BY <1>1, <1>2, <1>3, <1>5, ArchiveAlone, CallingKept DEF Begins
<1>8. Locking'
  BY <1>1, <1>2, <1>3, LockingKept, IdleIsACall DEF Begins, files, SpoilsStay, Deleting
<1>9. \A t \in Task : LibraryOf(t)'
  BY <1>1, <1>2, <1>3, <1>4, Elsewhere, IdleIsACall, Distinct DEF Begins, SpoilsStay
<1> QED
  BY <1>5, <1>6, <1>7, <1>8, <1>9, Together

\* The lock is free, so nobody waits for the thread that is started.
LEMMA BeginConsumeKeeps ==
  ASSUME Inherited, GalleryInv, NEW c \in Caller, BeginConsume(c)
  PROVE  GalleryInv'
<1>1. /\ call[c].doing = "listing" /\ Serving /\ LockFree
      /\ UNCHANGED <<vars, boot, files, preview, exporting, spoiled>>
  BY DEF BeginConsume
<1>2. /\ GalleryTypeOK /\ Phases /\ Calling /\ Locking /\ \A t \in Task : LibraryOf(t)
  BY Parts
<1>3. PICK t \in call[c].rest :
        /\ job' = [doing |-> "opening", task |-> t, for |-> c]
        /\ call' = [call EXCEPT ![c] =
                      [doing |-> "consuming", task |-> t, rest |-> call[c].rest \ {t}]]
  BY <1>2 DEF BeginConsume, GalleryTypeOK
<1>4. t \in Task /\ call[c].rest \ {t} \in SUBSET Task /\ t # NoTask
  BY <1>2, CallTypes, Distinct
<1>5. Begins(c, "consuming", t, call[c].rest \ {t})
  BY <1>2, <1>3, <1>4, BeginBegins DEF Doings, Consuming
<1>6. \A u \in Task : Stays(u) /\ Untouched(u)
  BY <1>1, ArchiveAlone DEF files, Untouched
<1>7. call[c].task = NoTask /\ call[c] # Idle
  BY <1>1, <1>2, IdleIsACall DEF Calling
<1>8. /\ c # Core => boot = "done"
      /\ c = Core => boot = "consuming"
  BY <1>1, <1>2, <1>7, WhoCalls DEF Phases, Hidden
<1>9. GalleryTypeOK'
  BY <1>1, <1>2, <1>3, <1>4, <1>5
     DEF GalleryTypeOK, files, Begins, CallRecord, Doings
<1>10. Phases'
  BY <1>1, <1>5, <1>8, ArchiveAlone, PhasesOfConsumption DEF Begins, files, Consuming
<1>11. Calling'
  BY <1>1, <1>2, <1>4, <1>5, <1>9, ArchiveAlone, CallingKept DEF Begins, Calling
<1>12. Locking'
  <2>1. job = NoJob /\ \A d \in Client : call[d].doing \notin Deleting
    BY <1>1 DEF LockFree, NotWriting
  <2>2. \A d \in Client : call'[d].doing \notin Deleting
    BY <1>5, <2>1, Distinct DEF Begins, OthersWait, Deleting
  <2>3. \A d \in Caller : call[d].doing # "consuming"
    BY <1>2, <2>1, NoJobIsNothing DEF Locking
  <2>4. \A d \in Caller : call'[d].doing = "consuming" => d = c
    BY <1>5, <2>3 DEF Begins, OthersWait
  <2> QED
    BY <1>3, <1>4, <1>5, <2>2, <2>4 DEF Locking, Begins
<1>13. LibraryOf(t)'
  <2>1. SnapshotsOf(t) /\ FilesOf(t) /\ CallsOf(t)
    BY <1>2, <1>4 DEF LibraryOf
  <2>2. OwnersStay(t)
    BY <1>5, <1>7, <1>4 DEF OwnersStay, Begins, OthersWait, Works
  <2>3. SnapshotsOf(t)' /\ FilesOf(t)'
    BY <1>1, <1>4, <1>6, <2>1, <2>2, SnapshotsKept, FilesKept DEF SpoilsStay
  <2>4. ASSUME NEW d \in Caller, d # c PROVE CallOf(d, t)'
    BY <1>1, <1>4, <1>5, <1>6, <2>1, <2>2, <2>4, CallKept DEF SpoilsStay, Begins, OthersWait, CallsOf
  <2>5. CallOf(c, t)'
    <3>1. tasks'[t].state \in {"Completed", "Consumed"}
      BY <1>1, <1>2, ArchiveAlone DEF Calling
    <3>2. call'[c].doing = "consuming"
      BY <1>5 DEF Begins
    <3> QED
      BY <3>1, <3>2 DEF CallOf, Works, Hidden
  <2> QED
    BY <2>3, <2>4, <2>5 DEF LibraryOf, CallsOf
<1>14. \A u \in Task : u # t => LibraryOf(u)'
  BY <1>1, <1>2, <1>5, <1>6, <1>7, Elsewhere, Distinct DEF Begins, SpoilsStay
<1> QED
  BY <1>9, <1>10, <1>11, <1>12, <1>13, <1>14, Together

-----------------------------------------------------------------------------
(* The blocking thread. *)

\* What is known while the thread consumes.
LEMMA ThreadWorks ==
  ASSUME GalleryInv, job.doing \in {"opening", "staged"}
  PROVE  /\ job.task \in Task /\ job # NoJob
         /\ boot \in {"consuming", "done"}
         /\ \A c \in Caller : call[c].doing \notin Deleting
         /\ \A c \in Caller : call[c].doing = "consuming" <=>
                                call[c].doing = "consuming" /\ job.for = c
         /\ \A c \in Caller : call[c].doing = "consuming" => call[c].task = job.task
<1>1. job # NoJob
  BY NoJobIsNothing
<1>2. \A c \in Caller : call[c].doing \notin Deleting
  BY <1>1, NobodyDeletes
<1>3. boot \in {"consuming", "done"}
  BY <1>1 DEF GalleryInv, Phases, GalleryTypeOK
<1> QED
  BY <1>1, <1>2, <1>3 DEF GalleryInv, Locking

\* The answer of the thread, for all but the files of its task.
LEMMA AnsweringKeeps ==
  ASSUME GalleryInv, job.doing \in {"opening", "staged"}, NEW doing \in {"registering", "refused"},
         Answered(doing), job' = NoJob, Serving, UNCHANGED vars,
         boot' = boot, ticket' = ticket, exporting' = exporting,
         GalleryTypeOK'
  PROVE  Phases' /\ Calling' /\ Locking'
<1>1. /\ boot \in {"consuming", "done"}
      /\ \A c \in Caller : call[c].doing \notin Deleting
      /\ \A c \in Caller : call[c].doing = "consuming" => job.for = c
  BY ThreadWorks
<1>2. Phases /\ Calling
  BY Parts
<1>3. \A c \in Caller : IF call[c].doing = "consuming"
                        THEN call'[c].doing = doing /\ call'[c].task = call[c].task
                             /\ call'[c].rest = call[c].rest
                        ELSE call'[c] = call[c]
  BY <1>1 DEF Answered
<1>4. Phases'
  <2>0. Serving'
    BY ArchiveAlone
  <2>1. CASE boot = "done"
    <3>1. call[Core] = Idle
      BY <1>2, <2>1 DEF Phases
    <3>2. call'[Core] = Idle
      BY <1>3, <3>1, Distinct, IdleIsACall
    <3> QED
      BY <2>0, <2>1, <3>2, PhasesServed
  <2>2. CASE boot = "consuming"
    <3>1. /\ \A c \in Client : call[c] = Idle
          /\ call[Core].doing \in {"idle", "listing"} \cup Consuming
          /\ exporting = {} /\ \A t \in Task : ticket[t] = {}
      BY <1>2, <2>2 DEF Phases
    <3>2. \A c \in Client : call'[c] = Idle
      BY <1>3, <3>1, Distinct, IdleIsACall
    <3>3. call'[Core].doing \in {"idle", "listing"} \cup Consuming
      BY <1>3, <3>1, Distinct DEF Consuming
    <3> QED
      BY <2>0, <2>2, <3>1, <3>2, <3>3, PhasesConsuming
  <2> QED
    BY <1>1, <2>1, <2>2
<1>5. Calling'
  BY <1>2, <1>3, ArchiveAlone DEF Calling
<1>6. Locking'
  BY <1>1, <1>3, LockingFree DEF Deleting
<1> QED
  BY <1>4, <1>5, <1>6

\* The answer does not concern other tasks.
LEMMA AnsweringElsewhere ==
  ASSUME GalleryInv, job.doing \in {"opening", "staged"}, NEW doing \in Doings, Answered(doing),
         NEW u \in Task, u # job.task, Stays(u), Untouched(u), SpoilsStay
  PROVE  LibraryOf(u)'
<1>1. LibraryOf(u)
  BY Parts
<1>2. \A c \in Caller : call'[c] = call[c] \/ (call'[c].task # u /\ call[c].task # u)
  BY ThreadWorks DEF Answered
<1>3. OwnersStay(u)
  BY <1>2 DEF OwnersStay, Works
<1>4. \A c \in Caller : CallOf(c, u)'
  BY <1>1, <1>2, <1>3, CallKept, NoCall DEF LibraryOf, CallsOf
<1> QED
  BY <1>1, <1>3, <1>4, SnapshotsKept, FilesKept DEF LibraryOf, CallsOf

\* For the thread's own task: what the callers rely on, whatever becomes of its files, when
\* it is not deleted, and what was in the library or a tombstone with it stays there.
LEMMA AnsweringCalls ==
  ASSUME GalleryInv, job.doing \in {"opening", "staged"}, NEW doing \in {"registering", "refused"},
         Answered(doing), NEW t \in Task, t = job.task, Stays(t), SpoilsStay,
         Holds(t) => Holds(t)'
  PROVE  CallsOf(t)'
<1>1. CallsOf(t)
  BY Parts
<1>2. \A c \in Caller : call[c].doing \notin Deleting
  BY ThreadWorks
<1>3. SUFFICES ASSUME NEW c \in Caller PROVE CallOf(c, t)'
  BY DEF CallsOf
<1>4. /\ call'[c].task = call[c].task
      /\ call'[c].doing = call[c].doing \/ (call[c].doing = "consuming" /\ call'[c].doing = doing)
  BY DEF Answered
<1>5. call'[c].doing \notin Deleting
  BY <1>2, <1>4 DEF Deleting
<1>6. /\ Works(c, t, Consuming)' => tasks'[t].state \in {"Completed", "Consumed"}
      /\ Works(c, t, {"consumed"})' /\ tasks'[t].state = "Completed" /\ Sound(t)' => Holds(t)'
  BY <1>1, <1>4 DEF CallsOf, CallOf, Works, Stays, Sound, SpoilsStay, Unspoiled, Consuming
<1> QED
  BY <1>5, <1>6 DEF CallOf, Works, Deleting, Hidden

\* Whoever was about to register or save still is.
LEMMA AnsweringOwners ==
  ASSUME GalleryInv, job.doing \in {"opening", "staged"}, NEW doing \in {"registering", "refused"},
         Answered(doing), NEW t \in Task
  PROVE  OwnersStay(t)
BY DEF OwnersStay, Answered, Works

\* A second ZIP is thrown away, the first is staged, or there is none.
LEMMA StageKeeps ==
  ASSUME Inherited, GalleryInv, Stage
  PROVE  GalleryInv'
<1>0. PICK t \in Task : t = job.task
  BY ThreadWorks DEF Stage
<1>1. /\ Serving /\ job.doing = "opening"
      /\ UNCHANGED <<vars, boot, sidecar, tomb, ticket, registered, preview, exporting, spoiled>>
  BY DEF Stage
<1>2. /\ GalleryTypeOK /\ Phases /\ Calling /\ Locking /\ \A u \in Task : LibraryOf(u)
  BY Parts
<1>3. t \in Task /\ t = job.task /\ (\A c \in Caller : call[c].doing \notin Deleting)
  BY <1>0, <1>1, ThreadWorks
<1>4. SnapshotsOf(t) /\ FilesOf(t) /\ CallsOf(t)
  BY <1>2, <1>3 DEF LibraryOf
<1>5. \A u \in Task : Stays(u)
  BY <1>1, ArchiveAlone
<1>6. CASE /\ t \in downloaded /\ downloaded' = downloaded \ {t}
           /\ place[t] = "library" /\ Answer("registering") /\ job' = NoJob /\ UNCHANGED place
  <2>1. Answered("registering")
    BY <1>2, <1>6, AnswerAnswers DEF Doings, Consuming
  <2>2. GalleryTypeOK'
    BY <1>1, <1>2, <1>6, <2>1, Distinct DEF GalleryTypeOK, Answered, CallRecord, Doings, NoJob
  <2>3. Phases' /\ Calling' /\ Locking'
    BY <1>1, <1>6, <2>1, <2>2, AnsweringKeeps
  <2>4. \A u \in Task : u # t => LibraryOf(u)'
    BY <1>1, <1>3, <1>5, <1>6, <2>1, AnsweringElsewhere DEF Untouched, SpoilsStay, Doings, Consuming
  <2>5. CallsOf(t)'
    BY <1>1, <1>3, <1>5, <1>6, <2>1, AnsweringCalls DEF SpoilsStay, Holds
  <2>6. SnapshotsOf(t)'
    BY <1>1, <1>3, <1>4, <1>5, <1>6 DEF SnapshotsOf, Stays, Unspoiled, Proper
  <2>7. FilesOf(t)'
    <3>1. Unspoiled(t, "interrupted")' => (Owned(t) => Owned(t)') /\ (Entered(t) => Entered(t)')
      BY <1>1, <1>3, <1>5, <2>1, AnsweringOwners, OwnersKept DEF SpoilsStay
    <3> HIDE DEF Owned, Entered
    <3> QED
      BY <1>1, <1>3, <1>4, <1>5, <1>6, <3>1 DEF FilesOf, Stays, Unspoiled, Sound, Holds
  <2> QED
    BY <2>2, <2>3, <2>4, <2>5, <2>6, <2>7, Together DEF LibraryOf
<1>7. CASE /\ t \in downloaded /\ downloaded' = downloaded \ {t}
           /\ place[t] # "library" /\ place' = [place EXCEPT ![t] = "staging"]
           /\ job' = [job EXCEPT !.doing = "staged"] /\ UNCHANGED call
  <2>1. /\ job'.doing = "staged" /\ job'.task = t /\ job'.for = job.for
        /\ job' \in [doing : {"nothing", "opening", "staged", "writing"},
                     task : Task \cup {NoTask}, for : Caller]
        /\ place'[t] = "staging" /\ \A u \in Task : u # t => place'[u] = place[u]
    BY <1>2, <1>3, <1>7 DEF GalleryTypeOK
  <2>2. GalleryTypeOK'
    BY <1>1, <1>2, <1>3, <1>7, <2>1 DEF GalleryTypeOK
  <2>3. Phases'
    BY <1>1, <1>2, <1>7, ThreadWorks, ArchiveAlone, PhasesServed, PhasesConsuming DEF Phases
  <2>4. Calling'
    BY <1>1, <1>2, <1>7, ArchiveAlone DEF Calling
  <2>5. Locking'
    <3>1. Unspoiled(t, "interrupted") => call[job.for].doing = "consuming"
      BY <1>1, <1>2, <1>3 DEF Locking
    <3>2. \A c \in Caller : call[c].doing = "consuming" => job.for = c /\ t = call[c].task
      BY <1>2, <1>3 DEF Locking
    <3> QED
      BY <1>1, <1>3, <1>7, <2>1, <3>1, <3>2, Distinct DEF Locking, Unspoiled
  <2>6. \A u \in Task : u # t => LibraryOf(u)'
    BY <1>1, <1>2, <1>5, <1>7, <2>1, Nowhere DEF Untouched, SpoilsStay
  <2>7. SnapshotsOf(t)'
    BY <1>1, <1>3, <1>4, <1>5, <1>7, <2>1 DEF SnapshotsOf, Stays, Unspoiled, Proper
  <2>8. OwnersStay(t)
    BY <1>7 DEF OwnersStay, Works
  <2>9. FilesOf(t)'
    <3> HIDE DEF Owned, Entered
    <3> QED
      BY <1>1, <1>3, <1>4, <1>5, <1>7, <2>1 DEF FilesOf, Stays, Unspoiled, Sound, Holds
  <2>10. CallsOf(t)'
    BY <1>1, <1>3, <1>4, <1>5, <1>7, <2>1
       DEF CallsOf, CallOf, Works, Stays, Unspoiled, Sound, Holds, Deleting, Hidden
  <2> QED
    BY <2>2, <2>3, <2>4, <2>5, <2>6, <2>7, <2>9, <2>10, Together DEF LibraryOf
<1>8. CASE Answer("refused") /\ job' = NoJob /\ UNCHANGED <<downloaded, place>>
  <2>1. Answered("refused")
    BY <1>2, <1>8, AnswerAnswers DEF Doings, Consuming
  <2>2. GalleryTypeOK'
    BY <1>1, <1>2, <1>8, <2>1, Distinct DEF GalleryTypeOK, Answered, CallRecord, Doings, NoJob
  <2>3. Phases' /\ Calling' /\ Locking'
    BY <1>1, <1>8, <2>1, <2>2, AnsweringKeeps
  <2>4. \A u \in Task : u # t => LibraryOf(u)'
    BY <1>1, <1>3, <1>5, <1>8, <2>1, AnsweringElsewhere DEF Untouched, SpoilsStay, Doings, Consuming
  <2>5. CallsOf(t)'
    BY <1>1, <1>3, <1>5, <1>8, <2>1, AnsweringCalls DEF SpoilsStay, Holds
  <2>6. SnapshotsOf(t)' /\ FilesOf(t)'
    BY <1>1, <1>3, <1>4, <1>5, <1>8, <2>1, AnsweringOwners, SnapshotsKept, FilesKept
       DEF Untouched, SpoilsStay
  <2> QED
    BY <2>2, <2>3, <2>4, <2>5, <2>6, Together DEF LibraryOf
<1> QED
  BY <1>0, <1>6, <1>7, <1>8 DEF Stage

\* The gallery comes into the library, and its caller, who still waits for it unless a fault
\* has interrupted that, is about to register it.
LEMMA CommitKeeps ==
  ASSUME Inherited, GalleryInv, Commit
  PROVE  GalleryInv'
<1>0. PICK t \in Task : t = job.task
  BY ThreadWorks DEF Commit
<1>1. /\ Serving /\ job.doing = "staged" /\ job' = NoJob
      /\ place' = [place EXCEPT ![t] = "library"]
      /\ sidecar' = [sidecar EXCEPT ![t] = {"info"}]
      /\ UNCHANGED <<vars, boot, downloaded, tomb, ticket, registered, preview, exporting,
                     spoiled>>
  BY <1>0 DEF Commit
<1>2. /\ GalleryTypeOK /\ Phases /\ Calling /\ Locking /\ \A u \in Task : LibraryOf(u)
  BY Parts
<1>3. t \in Task /\ t = job.task /\ (\A c \in Caller : call[c].doing \notin Deleting)
  BY <1>0, <1>1, ThreadWorks
<1>4. SnapshotsOf(t) /\ FilesOf(t) /\ CallsOf(t) /\ place[t] = "staging"
  BY <1>1, <1>2, <1>3 DEF LibraryOf, Locking
<1>5. \A u \in Task : Stays(u)
  BY <1>1, ArchiveAlone
<1>6. Answered("registering")
  BY <1>2, AnswerAnswers DEF Commit, Doings, Consuming
<1>7. place'[t] = "library" /\ \A u \in Task : u # t => place'[u] = place[u] /\ sidecar'[u] = sidecar[u]
  BY <1>1, <1>2, <1>3 DEF GalleryTypeOK
<1>8. GalleryTypeOK'
  BY <1>1, <1>2, <1>6, Distinct DEF GalleryTypeOK, Answered, CallRecord, Doings, NoJob
<1>9. Phases' /\ Calling' /\ Locking'
  BY <1>1, <1>6, <1>8, AnsweringKeeps
<1>10. \A u \in Task : u # t => LibraryOf(u)'
  BY <1>1, <1>3, <1>5, <1>6, <1>7, AnsweringElsewhere DEF Untouched, SpoilsStay, Doings, Consuming
<1>11. CallsOf(t)'
  BY <1>1, <1>3, <1>5, <1>6, <1>7, AnsweringCalls DEF SpoilsStay, Holds
<1>12. SnapshotsOf(t)'
  BY <1>1, <1>3, <1>4, <1>5, <1>7 DEF SnapshotsOf, Stays, Unspoiled, Proper
<1>13. Unspoiled(t, "interrupted")' => Owned(t)' /\ Entered(t)'
  <2>1. SUFFICES ASSUME <<t, "interrupted">> \notin spoiled
                 PROVE  Owned(t)' /\ Entered(t)'
    BY <1>1 DEF Unspoiled
  <2>2. job.for \in Caller /\ call[job.for].doing = "consuming" /\ call[job.for].task = t
    <3>1. job.for \in Caller
      BY <1>2, CallTypes, Distinct
    <3>2. call[job.for].doing = "consuming"
      BY <1>1, <1>2, <1>3, <2>1 DEF Locking, Unspoiled
    <3>3. call[job.for].task = t
      BY <1>2, <1>3, <3>1, <3>2 DEF Locking
    <3> QED
      BY <3>1, <3>2, <3>3
  <2>3. PICK c \in Caller : c = job.for
    BY <2>2
  <2>4. call'[c].doing = "registering" /\ call'[c].task = t
    BY <1>6, <2>2, <2>3 DEF Answered
  <2> QED
    BY <2>4 DEF Owned, Entered, Works
<1>14. FilesOf(t)'
  <2> HIDE DEF Owned, Entered
  <2> QED
    BY <1>1, <1>3, <1>4, <1>5, <1>7, <1>13 DEF FilesOf, Stays, Unspoiled, Sound, Holds
<1> QED
  BY <1>8, <1>9, <1>10, <1>11, <1>12, <1>14, Together DEF LibraryOf

\* What is no gallery goes back to where it was downloaded to, or is lost.
LEMMA UndoKeeps ==
  ASSUME Inherited, GalleryInv, Undo
  PROVE  GalleryInv'
<1>0. PICK t \in Task : t = job.task
  BY ThreadWorks DEF Undo
<1>1. /\ Serving /\ job.doing = "staged" /\ job' = NoJob
      /\ place' = [place EXCEPT ![t] = "none"]
      /\ \/ downloaded' = downloaded \cup {t} /\ spoiled' = spoiled
         \/ spoiled' = spoiled \cup {<<t, "abandoned">>} /\ downloaded' = downloaded
      /\ UNCHANGED <<vars, boot, sidecar, tomb, ticket, registered, preview, exporting>>
  BY <1>0 DEF Undo, Spoil
<1>2. /\ GalleryTypeOK /\ Phases /\ Calling /\ Locking /\ \A u \in Task : LibraryOf(u)
  BY Parts
<1>3. t \in Task /\ t = job.task /\ (\A c \in Caller : call[c].doing \notin Deleting)
  BY <1>0, <1>1, ThreadWorks
<1>4. SnapshotsOf(t) /\ FilesOf(t) /\ CallsOf(t) /\ place[t] = "staging"
  BY <1>1, <1>2, <1>3 DEF LibraryOf, Locking
<1>5. \A u \in Task : Stays(u)
  BY <1>1, ArchiveAlone
<1>6. Answered("refused")
  BY <1>2, AnswerAnswers DEF Undo, Doings, Consuming
<1>7. /\ place'[t] = "none" /\ \A u \in Task : u # t => place'[u] = place[u]
      /\ \A u \in Task : u # t => (u \in downloaded' <=> u \in downloaded)
      /\ SpoilsStay
      /\ t \in downloaded' \/ <<t, "abandoned">> \in spoiled'
      /\ t \in downloaded => t \in downloaded'
  BY <1>1, <1>2, <1>3 DEF GalleryTypeOK, SpoilsStay
<1>8. GalleryTypeOK'
  BY <1>1, <1>2, <1>3, <1>6, Distinct DEF GalleryTypeOK, Answered, CallRecord, Doings, NoJob
<1>9. Phases' /\ Calling' /\ Locking'
  BY <1>1, <1>6, <1>8, AnsweringKeeps
<1>10. \A u \in Task : u # t => LibraryOf(u)'
  BY <1>1, <1>3, <1>5, <1>6, <1>7, AnsweringElsewhere DEF Untouched, Doings, Consuming
<1>11. CallsOf(t)'
  BY <1>1, <1>3, <1>4, <1>5, <1>6, <1>7, AnsweringCalls DEF Holds
<1>12. SnapshotsOf(t)'
  BY <1>1, <1>3, <1>4, <1>5, <1>7 DEF SnapshotsOf, Stays, Unspoiled, Proper, SpoilsStay
<1>13. FilesOf(t)'
  <2> HIDE DEF Owned, Entered
  <2> QED
    BY <1>1, <1>3, <1>4, <1>5, <1>7 DEF FilesOf, Stays, Unspoiled, Sound, Holds, SpoilsStay
<1> QED
  BY <1>8, <1>9, <1>10, <1>11, <1>12, <1>13, Together DEF LibraryOf

\* Only derived files change, and no deletion has listed them.
LEMMA SidecarsKeep ==
  ASSUME GalleryInv, \A c \in Caller : call[c].doing \notin Deleting,
         UNCHANGED <<vars, boot, downloaded, place, tomb, ticket, registered, call, preview,
                     exporting, spoiled>>,
         job' = job \/ job.doing \in {"nothing", "writing"},
         job'.doing \in {"nothing", "writing"} \/ job' = job,
         boot \in {"failed", "closed", "tickets"} => job' = NoJob,
         GalleryTypeOK'
  PROVE  GalleryInv'
<1>1. /\ GalleryTypeOK /\ Phases /\ Calling /\ Locking /\ \A u \in Task : LibraryOf(u)
  BY Parts
<1>2. \A u \in Task : Stays(u)
  BY ArchiveAlone
<1>3. Phases'
  BY <1>1, ArchiveAlone DEF Phases
<1>4. Calling'
  BY <1>1, ArchiveAlone DEF Calling
<1>5. Locking'
  BY <1>1, Distinct DEF Locking, Unspoiled
<1>6. ASSUME NEW u \in Task PROVE LibraryOf(u)'
  <2>1. SnapshotsOf(u) /\ FilesOf(u) /\ CallsOf(u)
    BY <1>1 DEF LibraryOf
  <2>2. SnapshotsOf(u)'
    BY <1>2, <2>1 DEF SnapshotsOf, Stays, Unspoiled, Proper
  <2>3. (Owned(u) <=> Owned(u)') /\ (Entered(u) <=> Entered(u)')
    BY <1>2 DEF Stays, Owned, Entered, Works, Unspoiled
  <2>4. FilesOf(u)'
    <3> HIDE DEF Owned, Entered
    <3> QED
      BY <1>2, <2>1, <2>3 DEF FilesOf, Stays, Unspoiled, Sound, Holds
  <2>5. CallsOf(u)'
    <3> HIDE DEF Owned, Entered
    <3> QED
      BY <1>2, <2>1, <2>3
         DEF CallsOf, CallOf, Works, Stays, Unspoiled, Sound, Holds, Deleting, Hidden
  <2> QED
    BY <2>2, <2>4, <2>5 DEF LibraryOf
<1> QED
  BY <1>1, <1>3, <1>4, <1>5, <1>6, Together

\* The thread has written the sidecar that it was asked for.
LEMMA EndComicInfoKeeps ==
  ASSUME Inherited, GalleryInv, EndComicInfo
  PROVE  GalleryInv'
<1>1. /\ job.doing = "writing" /\ job' = NoJob /\ job # NoJob
      /\ sidecar' = [sidecar EXCEPT ![job.task] = {"info"}]
      /\ UNCHANGED <<vars, boot, downloaded, place, tomb, ticket, registered, call, preview,
                     exporting, spoiled>>
  BY NoJobIsNothing DEF EndComicInfo
<1>2. GalleryTypeOK
  BY Parts
<1>3. GalleryTypeOK'
  BY <1>1, <1>2, Distinct DEF GalleryTypeOK, NoJob
<1>4. \A c \in Caller : call[c].doing \notin Deleting
  BY <1>1, NobodyDeletes
<1> QED
  BY <1>1, <1>3, <1>4, NoJobIsNothing, SidecarsKeep

\* The thread takes up the writing of a sidecar.
LEMMA BeginComicInfoKeeps ==
  ASSUME Inherited, GalleryInv, NEW c \in Caller, NEW t \in Task, BeginComicInfo(c, t)
  PROVE  GalleryInv'
<1>1. /\ job = NoJob /\ job' = [doing |-> "writing", task |-> t, for |-> c] /\ boot = "done"
      /\ NotWriting
      /\ UNCHANGED <<vars, boot, downloaded, place, tomb, ticket, registered, call, preview,
                     exporting, spoiled>>
  BY DEF BeginComicInfo, CanAsk, LockFree, NotWriting
<1>2. GalleryTypeOK
  BY Parts
<1>3. sidecar' \in [Task -> SUBSET {"info", "temp"}]
  BY <1>2 DEF BeginComicInfo, GalleryTypeOK
<1>4. GalleryTypeOK'
  BY <1>1, <1>2, <1>3 DEF GalleryTypeOK
<1>5. \A d \in Caller : call[d].doing \notin Deleting
  BY <1>1, NobodyDeletesYet
<1> QED
  BY <1>1, <1>4, <1>5, NoJobIsNothing, SidecarsKeep

\* A sidecar is deleted on request.
LEMMA DeleteComicInfoKeeps ==
  ASSUME Inherited, GalleryInv, NEW c \in Caller, NEW t \in Task, DeleteComicInfo(c, t)
  PROVE  GalleryInv'
<1>1. /\ job = NoJob /\ boot = "done" /\ NotWriting
      /\ UNCHANGED <<vars, boot, downloaded, place, tomb, ticket, registered, actors, spoiled>>
  BY DEF DeleteComicInfo, CanAsk, LockFree, NotWriting
<1>2. GalleryTypeOK
  BY Parts
<1>3. sidecar' \in [Task -> SUBSET {"info", "temp"}]
  BY <1>2 DEF DeleteComicInfo, GalleryTypeOK
<1>4. GalleryTypeOK'
  BY <1>1, <1>2, <1>3 DEF GalleryTypeOK, actors
<1>5. \A d \in Caller : call[d].doing \notin Deleting
  BY <1>1, NobodyDeletesYet
<1> QED
  BY <1>1, <1>4, <1>5, NoJobIsNothing, SidecarsKeep DEF actors

\* What is registered is in the library, or is spoiled because a deletion came first.
LEMMA RegisterKeeps ==
  ASSUME Inherited, GalleryInv, NEW c \in Caller, Register(c)
  PROVE  GalleryInv'
<1>1. /\ call[c].doing = "registering" /\ Serving
      /\ UNCHANGED <<vars, boot, downloaded, place, sidecar, tomb, ticket, job, preview,
                     exporting>>
  BY DEF Register
<1>2. /\ GalleryTypeOK /\ Phases /\ Calling /\ Locking /\ \A u \in Task : LibraryOf(u)
  BY Parts
<1>3. call[c].task \in Task /\ call[c] # Idle
  BY <1>1, <1>2, CallHasTask, IdleIsACall
<1>4. PICK t \in Task : t = call[c].task
  BY <1>3
<1>5. \/ /\ Turns(c, "consumed") /\ registered' = registered \cup {t}
         /\ IF place[t] = "library" THEN spoiled' = spoiled
                                    ELSE spoiled' = spoiled \cup {<<t, "unrecorded">>}
      \/ /\ Turns(c, "refused") /\ registered' = registered
         /\ spoiled' = spoiled \cup {<<t, "interrupted">>}
  BY <1>2, <1>4, GoTurns DEF Register, Spoil, Doings, Consuming
<1>6. PICK doing \in {"consumed", "refused"} : Turns(c, doing)
  BY <1>5
<1>7. \A u \in Task : Stays(u)
  BY <1>1, ArchiveAlone
<1>8. /\ c # Core => boot = "done"
      /\ c = Core => boot = "consuming"
  BY <1>1, <1>2, <1>3, WhoCalls DEF Phases, Hidden
<1>9. SpoilsStay /\ \A u \in Task : u # t => (u \in registered' <=> u \in registered)
  BY <1>5 DEF SpoilsStay
<1>10. GalleryTypeOK'
  BY <1>1, <1>2, <1>5, <1>6 DEF GalleryTypeOK, Turns, CallRecord, Doings
<1>11. Phases'
  BY <1>1, <1>6, <1>8, ArchiveAlone, PhasesOfConsumption DEF Turns, Consuming
<1>12. Calling'
  BY <1>1, <1>2, <1>6, <1>10, ArchiveAlone, CallingAfterTurn DEF Doings, Consuming
<1>13. Locking'
  BY <1>1, <1>2, <1>6, <1>9, LockingKept DEF Turns, Deleting
<1>14. \A u \in Task : u # t => LibraryOf(u)'
  BY <1>1, <1>2, <1>4, <1>6, <1>7, <1>9, Elsewhere DEF Turns, Untouched
<1>15. LibraryOf(t)'
  <2>1. SnapshotsOf(t) /\ FilesOf(t) /\ CallsOf(t)
    BY <1>2 DEF LibraryOf
  <2>2. SnapshotsOf(t)'
    BY <1>1, <1>7, <1>9, <2>1 DEF SnapshotsOf, Stays, Unspoiled, Proper, SpoilsStay
  <2>3. Unspoiled(t, "interrupted")' => (Owned(t) => Owned(t)') /\ (Entered(t) => Entered(t)')
    <3>1. SUFFICES ASSUME Unspoiled(t, "interrupted")'
                   PROVE  (Owned(t) => Owned(t)') /\ (Entered(t) => Entered(t)')
      OBVIOUS
    <3>2. Turns(c, "consumed") /\ t \in registered'
      BY <1>5, <3>1 DEF Unspoiled
    <3>3. \A d \in Caller : Works(d, t, {"registering", "consumed"})
                              => Works(d, t, {"registering", "consumed"})'
      BY <3>2 DEF Turns, OthersWait, Works
    <3> QED
      BY <1>7, <3>2, <3>3 DEF Owned, Entered, Stays
  <2>4. place[t] = "library" \/ t \notin registered' \/ ~Sound(t)' \/ t \in registered
    BY <1>5 DEF Sound, Unspoiled
  <2>5. FilesOf(t)'
    <3> HIDE DEF Owned, Entered
    <3> QED
      BY <1>1, <1>7, <1>9, <2>1, <2>3, <2>4, <1>5
         DEF FilesOf, Stays, Unspoiled, Sound, Holds, SpoilsStay
  <2>6. CallOf(c, t)'
    <3>1. tasks'[t].state \in {"Completed", "Consumed"}
      BY <1>1, <1>4, <1>7, <2>1 DEF CallsOf, CallOf, Works, Consuming, Stays
    <3>2. call'[c].doing \in {"consumed", "refused"}
      BY <1>6 DEF Turns
    <3>3. call'[c].doing = "consumed" /\ Sound(t)' => place'[t] = "library"
      BY <1>1, <1>5 DEF Turns, Sound, Unspoiled
    <3> QED
      BY <3>1, <3>2, <3>3 DEF CallOf, Works, Hidden, Holds
  <2>7. ASSUME NEW d \in Caller, d # c PROVE CallOf(d, t)'
    <3>1. CallOf(d, t) /\ call'[d] = call[d]
      BY <1>6, <2>1, <2>7 DEF CallsOf, Turns, OthersWait
    <3>2. Works(d, t, Hidden) => t \notin registered' \/ t \in registered \/ ~Unspoiled(t, "unrecorded")'
      BY <1>5, <3>1 DEF CallOf, Unspoiled
    <3>3. \A what : Works(d, t, what)' <=> Works(d, t, what)
      BY <3>1 DEF Works
    <3>4. Works(d, t, {"unregistered", "marked", "erased"}) => Works(d, t, Hidden)
      BY DEF Works, Hidden
    <3> HIDE DEF Owned, Entered, Works
    <3> QED
      BY <1>1, <1>7, <1>9, <2>3, <3>1, <3>2, <3>3, <3>4
         DEF CallOf, Stays, Unspoiled, Sound, Holds, SpoilsStay, Files
  <2> QED
    BY <2>2, <2>5, <2>6, <2>7 DEF LibraryOf, CallsOf
<1> QED
  BY <1>10, <1>11, <1>12, <1>13, <1>14, <1>15, Together

\* What a client leaves half way when it goes away is spoiled, if it consumed.
LEMMA DropCallKeeps ==
  ASSUME Inherited, GalleryInv, NEW c \in Client, DropCall(c)
  PROVE  GalleryInv'
<1>1. /\ call[c].doing \in Consuming \cup {"listing", "unregistered"} /\ Serving /\ Stop(c)
      /\ UNCHANGED <<vars, boot, files, job, preview, exporting>>
      /\ spoiled' = IF call[c].doing \in Consuming
                    THEN spoiled \cup {<<call[c].task, "interrupted">>} ELSE spoiled
  BY DEF DropCall
<1>2. /\ GalleryTypeOK /\ Phases /\ Calling /\ Locking /\ \A u \in Task : LibraryOf(u)
  BY Parts
<1>3. c \in Caller /\ c # Core /\ Quit(c) /\ call'[c] = Idle
  BY <1>1, <1>2, StopEnds, Distinct
<1>4. call[c] # Idle /\ boot = "done" /\ call[Core] = Idle
  BY <1>1, <1>2, <1>3, IdleIsACall, WhoCalls DEF Consuming, Phases
<1>5. \A u \in Task : Stays(u) /\ Untouched(u)
  BY <1>1, ArchiveAlone DEF files, Untouched
<1>6. call[c].doing \in Consuming => call[c].task \in Task
  BY <1>2, <1>3, CallHasTask DEF Consuming
<1>7. SpoilsStay
  BY <1>1 DEF SpoilsStay
<1>8. GalleryTypeOK'
  BY <1>1, <1>2, <1>3, <1>6 DEF GalleryTypeOK, files, Quit, CallRecord, Doings
<1>9. Phases'
  BY <1>1, <1>3, <1>4, ArchiveAlone, PhasesServed, Distinct DEF Quit, OthersWait
<1>10. Calling'
  BY <1>1, <1>2, <1>3, <1>8, ArchiveAlone, CallingAfterEnd
<1>11. Locking'
  BY <1>1, <1>2, <1>3, <1>7, LockingKept, IdleIsACall DEF Quit, files, Deleting, Consuming
<1>12. ASSUME NEW u \in Task PROVE LibraryOf(u)'
  <2>1. SnapshotsOf(u) /\ FilesOf(u) /\ CallsOf(u)
    BY <1>2 DEF LibraryOf
  <2>2. call'[c].task # u
    BY <1>3, IdleIsACall, Distinct
  <2>3. OwnersStay(u)
    BY <1>1, <1>3 DEF OwnersStay, Works, Quit, OthersWait, Consuming, Unspoiled
  <2>4. CallOf(c, u)'
    BY <1>3, <2>2, NoCall
  <2>5. \A d \in Caller : d # c => CallOf(d, u)'
    BY <1>3, <1>5, <1>7, <2>1, <2>3, CallKept DEF Quit, OthersWait, CallsOf
  <2> QED
    BY <1>5, <1>7, <2>1, <2>3, <2>4, <2>5, SnapshotsKept, FilesKept DEF LibraryOf, CallsOf
<1> QED
  BY <1>8, <1>9, <1>10, <1>11, <1>12, Together

-----------------------------------------------------------------------------
(* The other requests of a client. *)

\* A step after which everything but previews is as it was.
LEMMA AllKept ==
  ASSUME GalleryInv, UNCHANGED <<vars, boot, files, job, call, spoiled>>,
         exporting' \subseteq exporting, GalleryTypeOK'
  PROVE  GalleryInv'
<1>1. /\ GalleryTypeOK /\ Phases /\ Calling /\ Locking /\ \A u \in Task : LibraryOf(u)
  BY Parts
<1>2. Phases'
  BY <1>1, ArchiveAlone DEF Phases, files
<1>3. Calling'
  BY <1>1, ArchiveAlone DEF Calling
<1>4. Locking'
  BY <1>1 DEF Locking, files, Unspoiled
<1>5. \A u \in Task : Stays(u) /\ Untouched(u)
  BY ArchiveAlone DEF files, Untouched
<1>6. \A u \in Task : LibraryOf(u)'
  BY <1>1, <1>5, Nowhere DEF SpoilsStay
<1> QED
  BY <1>1, <1>2, <1>3, <1>4, <1>6, Together

\* A preview of a deletion changes nothing but itself.
LEMMA PreviewKeeps ==
  ASSUME Inherited, GalleryInv, NEW c \in Client, NEW t \in Task, Preview(c, t)
  PROVE  GalleryInv'
<1>1. GalleryTypeOK
  BY Parts
<1>2. Files(t) \in SUBSET {"zip", "info", "temp"}
  BY <1>1 DEF GalleryTypeOK, Files
<1>3. GalleryTypeOK'
  BY <1>1, <1>2 DEF Preview, GalleryTypeOK, files
<1> QED
  BY <1>3, AllKept DEF Preview

\* An export that is over gives back the lock.
LEMMA EndExportKeeps ==
  ASSUME Inherited, GalleryInv, NEW c \in Client, NEW t \in Task, EndExport(c, t)
  PROVE  GalleryInv'
<1>1. GalleryTypeOK
  BY Parts
<1>2. exporting' \subseteq exporting
  BY DEF EndExport
<1>3. GalleryTypeOK'
  BY <1>1, <1>2 DEF EndExport, GalleryTypeOK, files
<1> QED
  BY <1>2, <1>3, AllKept DEF EndExport

\* What is exported is in the library, and nobody deletes it meanwhile.
LEMMA BeginExportKeeps ==
  ASSUME Inherited, GalleryInv, NEW c \in Client, NEW t \in Task, BeginExport(c, t)
  PROVE  GalleryInv'
<1>1. /\ boot = "done" /\ Serving /\ NotWriting /\ place[t] = "library"
      /\ exporting' = exporting \cup {<<c, t>>}
      /\ UNCHANGED <<vars, boot, files, job, call, preview, spoiled>>
  BY DEF BeginExport, CanAsk, Listed
<1>2. /\ GalleryTypeOK /\ Phases /\ Calling /\ Locking /\ \A u \in Task : LibraryOf(u)
  BY Parts
<1>3. \A d \in Caller : call[d].doing \notin Deleting
  BY <1>1, NobodyDeletesYet
<1>4. GalleryTypeOK'
  BY <1>1, <1>2 DEF GalleryTypeOK, files
<1>5. Phases'
  BY <1>1, <1>2, ArchiveAlone, PhasesServed DEF Phases
<1>6. Calling'
  BY <1>1, <1>2, ArchiveAlone DEF Calling
<1>7. Locking'
  BY <1>1, <1>2, <1>3, Distinct DEF Locking, files, Unspoiled
<1>8. \A u \in Task : Stays(u)
  BY <1>1, ArchiveAlone
<1>9. ASSUME NEW u \in Task, u # t PROVE LibraryOf(u)'
  BY <1>1, <1>2, <1>8, <1>9, Nowhere DEF Untouched, SpoilsStay, files
<1>10. LibraryOf(t)'
  <2>1. SnapshotsOf(t) /\ FilesOf(t) /\ CallsOf(t)
    BY <1>2 DEF LibraryOf
  <2>2. SnapshotsOf(t)'
    BY <1>1, <1>8, <2>1 DEF SnapshotsOf, Stays, Unspoiled, Proper, files
  <2>3. (Owned(t) <=> Owned(t)') /\ (Entered(t) <=> Entered(t)')
    BY <1>1, <1>8 DEF Stays, Owned, Entered, Works, Unspoiled, files
  <2>4. FilesOf(t)'
    <3> HIDE DEF Owned, Entered
    <3> QED
      BY <1>1, <1>8, <2>1, <2>3 DEF FilesOf, Stays, Unspoiled, Sound, Holds, files
  <2>5. CallsOf(t)'
    <3> HIDE DEF Owned, Entered
    <3> QED
      BY <1>1, <1>8, <2>1, <2>3
         DEF CallsOf, CallOf, Works, Stays, Unspoiled, Sound, Holds, Files, files
  <2> QED
    BY <2>2, <2>4, <2>5 DEF LibraryOf
<1> QED
  BY <1>4, <1>5, <1>6, <1>7, <1>9, <1>10, Together

\* What is imported is in the library, so that no deletion is past hiding it.
LEMMA ImportKeeps ==
  ASSUME Inherited, GalleryInv, NEW c \in Client, NEW t \in Task, Import(c, t)
  PROVE  GalleryInv'
<1>1. /\ boot = "done" /\ Serving /\ place[t] = "library"
      /\ registered' = registered \cup {t}
      /\ UNCHANGED <<vars, boot, downloaded, place, sidecar, tomb, ticket, actors, spoiled>>
  BY DEF Import, CanAsk
<1>2. /\ GalleryTypeOK /\ Phases /\ Calling /\ Locking /\ \A u \in Task : LibraryOf(u)
  BY Parts
<1>3. GalleryTypeOK'
  BY <1>1, <1>2 DEF GalleryTypeOK, actors
<1>4. Phases'
  BY <1>1, <1>2, ArchiveAlone, PhasesServed DEF Phases, actors
<1>5. Calling'
  BY <1>1, <1>2, ArchiveAlone DEF Calling, actors
<1>6. Locking'
  BY <1>1, <1>2 DEF Locking, actors, Unspoiled
<1>7. \A u \in Task : Stays(u)
  BY <1>1, ArchiveAlone
<1>8. ASSUME NEW u \in Task, u # t PROVE LibraryOf(u)'
  BY <1>1, <1>2, <1>7, <1>8, Nowhere DEF Untouched, SpoilsStay, actors
<1>9. LibraryOf(t)'
  <2>1. SnapshotsOf(t) /\ FilesOf(t) /\ CallsOf(t)
    BY <1>2 DEF LibraryOf
  <2>2. SnapshotsOf(t)'
    BY <1>1, <1>7, <2>1 DEF SnapshotsOf, Stays, Unspoiled, Proper
  <2>3. (Owned(t) <=> Owned(t)') /\ (Entered(t) => Entered(t)')
    BY <1>1, <1>7 DEF Stays, Owned, Entered, Works, actors
  <2>4. FilesOf(t)'
    <3> HIDE DEF Owned, Entered
    <3> QED
      BY <1>1, <1>7, <2>1, <2>3 DEF FilesOf, Stays, Unspoiled, Sound, Holds, actors
  <2>5. ASSUME NEW d \in Caller PROVE CallOf(d, t)'
    <3>1. CallOf(d, t) /\ call'[d] = call[d]
      BY <1>1, <2>1 DEF CallsOf, actors
    <3>2. \A what : Works(d, t, what)' <=> Works(d, t, what)
      BY <3>1 DEF Works
    <3>3. ~Works(d, t, Hidden)
      BY <1>1, <3>1 DEF CallOf
    <3>4. Works(d, t, {"unregistered", "marked", "erased"}) => Works(d, t, Hidden)
      BY DEF Works, Hidden
    <3> HIDE DEF Owned, Entered, Works
    <3> QED
      BY <1>1, <1>7, <2>3, <3>1, <3>2, <3>3, <3>4
         DEF CallOf, Stays, Unspoiled, Sound, Holds, Files
  <2> QED
    BY <2>2, <2>4, <2>5 DEF LibraryOf, CallsOf
<1> QED
  BY <1>3, <1>4, <1>5, <1>6, <1>8, <1>9, Together

\* A deletion begins with the lock, on a gallery that is as it was previewed.
LEMMA ConfirmKeeps ==
  ASSUME Inherited, GalleryInv, NEW c \in Client, Confirm(c)
  PROVE  GalleryInv'
<1>1. /\ boot = "done" /\ Serving /\ call[c] = Idle
      /\ preview' = [preview EXCEPT ![c] = NoPreview]
      /\ UNCHANGED <<vars, boot, downloaded, place, sidecar, tomb, registered, job, exporting,
                     spoiled>>
  BY DEF Confirm, CanAsk
<1>2. /\ GalleryTypeOK /\ Phases /\ Calling /\ Locking /\ \A u \in Task : LibraryOf(u)
  BY Parts
<1>3. preview[c].task \in Task /\ LockFree
  BY <1>2 DEF Confirm, GalleryTypeOK
<1>4. PICK t \in Task : t = preview[c].task
  BY <1>3
<1>5. preview' \in [Client -> [task : Task \cup {NoTask}, files : SUBSET {"zip", "info", "temp"}]]
  BY <1>1, <1>2 DEF GalleryTypeOK, NoPreview
<1>6. CASE UNCHANGED <<ticket, call>>
  <2>1. GalleryTypeOK'
    BY <1>1, <1>2, <1>5, <1>6 DEF GalleryTypeOK
  <2> QED
    BY <1>1, <1>6, <2>1, AllKept DEF files
<1>7. CASE /\ place[t] = "library" /\ ticket[t] = {} /\ tomb[t] = {}
           /\ ticket' = [ticket EXCEPT ![t] = Files(t)]
           /\ call' = [call EXCEPT ![c] = [doing |-> "ticketed", task |-> t, rest |-> {}]]
  <2>1. c \in Caller /\ c # Core /\ call[Core] = Idle
    BY <1>1, <1>2, Distinct DEF Phases
  <2>2. Begins(c, "ticketed", t, {})
    BY <1>2, <1>7, <2>1, BeginBegins DEF Doings, Deleting
  <2>3. Files(t) \in SUBSET {"zip", "info", "temp"}
    BY <1>2 DEF GalleryTypeOK, Files
  <2>4. ticket'[t] = Files(t) /\ \A u \in Task : u # t => ticket'[u] = ticket[u]
    BY <1>2, <1>7 DEF GalleryTypeOK
  <2>5. \A d \in Caller : call[d].doing \notin Deleting
    BY <1>1, <1>3, NobodyDeletesYet DEF LockFree
  <2>6. job = NoJob /\ exporting = {}
    BY <1>3 DEF LockFree, NotWriting
  <2>7. \A u \in Task : Stays(u)
    BY <1>1, ArchiveAlone
  <2>8. GalleryTypeOK'
    BY <1>1, <1>2, <1>5, <1>7, <2>2, <2>3 DEF GalleryTypeOK, Begins, CallRecord, Doings
  <2>9. Phases'
    BY <1>1, <2>1, <2>2, ArchiveAlone, PhasesServed, Distinct DEF Begins, OthersWait
  <2>10. Calling'
    BY <1>1, <1>2, <2>1, <2>2, <2>8, ArchiveAlone, CallingKept, Distinct DEF Begins
  <2>11. Locking'
    <3>1. \A d \in Caller : call[d].doing # "consuming"
      BY <1>2, <2>6, NoJobIsNothing DEF Locking
    <3>2. \A d \in Caller : d # c => call'[d].doing \notin Deleting /\ call'[d].doing # "consuming"
      BY <2>2, <2>5, <3>1 DEF Begins, OthersWait
    <3> QED
      BY <1>1, <2>1, <2>2, <2>6, <3>2, NoJobIsNothing, Distinct DEF Locking, Begins
  <2>12. \A u \in Task : u # t => LibraryOf(u)'
    BY <1>1, <1>2, <2>1, <2>2, <2>4, <2>7, Elsewhere, IdleIsACall, Distinct
       DEF Begins, Untouched, SpoilsStay
  <2>13. LibraryOf(t)'
    <3>1. SnapshotsOf(t) /\ FilesOf(t) /\ CallsOf(t)
      BY <1>2 DEF LibraryOf
    <3>2. SnapshotsOf(t)'
      BY <1>1, <2>7, <3>1 DEF SnapshotsOf, Stays, Unspoiled, Proper
    <3>3. OwnersStay(t)
      BY <1>1, <2>1, <2>2, IdleIsACall DEF OwnersStay, Begins, OthersWait, Works
    <3>4. Unspoiled(t, "interrupted")' => (Owned(t) => Owned(t)') /\ (Entered(t) => Entered(t)')
      BY <1>1, <2>7, <3>3, OwnersKept DEF SpoilsStay
    <3>5. FilesOf(t)'
      <4> HIDE DEF Owned, Entered
      <4> QED
        BY <1>1, <1>7, <2>7, <3>1, <3>4 DEF FilesOf, Stays, Unspoiled, Sound, Holds
    <3>6. CallOf(c, t)'
      BY <1>1, <1>7, <2>2, <2>4 DEF CallOf, Works, Begins, Consuming, Hidden, Files
    <3>7. ASSUME NEW d \in Caller, d # c PROVE CallOf(d, t)'
      <4>1. CallOf(d, t) /\ call'[d] = call[d] /\ call[d].doing \notin Deleting
        BY <2>2, <2>5, <3>1, <3>7 DEF CallsOf, Begins, OthersWait
      <4> HIDE DEF Owned, Entered
      <4> QED
        BY <1>1, <2>7, <4>1
           DEF CallOf, Works, Stays, Unspoiled, Sound, Holds, Deleting, Hidden
    <3> QED
      BY <3>2, <3>5, <3>6, <3>7 DEF LibraryOf, CallsOf
  <2> QED
    BY <2>8, <2>9, <2>10, <2>11, <2>12, <2>13, Together
<1> QED
  BY <1>4, <1>6, <1>7 DEF Confirm

-----------------------------------------------------------------------------
(* Consumption ends with a report. *)

\* What a report leaves of the others: their calls, and the tasks they have seen completed.
LEMMA ReportConsumedKeeps ==
  ASSUME Inherited, GalleryInv, NEW c \in Caller, ReportConsumed(c)
  PROVE  GalleryInv'
<1>1. /\ call[c].doing \in {"consumed", "refused"} /\ Serving
      /\ UNCHANGED <<boot, files, job, preview, exporting>>
  BY DEF ReportConsumed
<1>2. /\ GalleryTypeOK /\ Phases /\ Calling /\ Locking /\ \A u \in Task : LibraryOf(u)
  BY Parts
<1>3. call[c].task \in Task /\ call[c] # Idle
  BY <1>1, <1>2, CallHasTask, IdleIsACall
<1>4. PICK t \in Task : t = call[c].task
  BY <1>3
<1>5. /\ SnapshotsOf(t) /\ FilesOf(t) /\ CallsOf(t) /\ CallOf(c, t)
      /\ tasks[t].state \in {"Completed", "Consumed"}
  BY <1>1, <1>2, <1>4 DEF LibraryOf, CallsOf, CallOf, Works, Consuming
<1>6. /\ c # Core => boot = "done"
      /\ c = Core => boot = "consuming"
  BY <1>1, <1>2, <1>3, WhoCalls DEF Phases, Hidden
<1>7. Untouched(t) /\ \A u \in Task : Untouched(u)
  BY <1>1 DEF files, Untouched
<1>8. TypeOK /\ Heard(t)
  BY DEF Inherited, IInv, AllHeard
\* What the report leaves to show.
<1>9. ASSUME Quit(c), SpoilsStay,
             spoiled' = spoiled \/ spoiled' = spoiled \cup {<<t, "interrupted">>},
             Serving' <=> Serving,
             tasks'[t].state \in {"Completed", "Consumed"},
             \A u \in Task : u # t => Stays(u), SnapshotsOf(t)', FilesOf(t)',
             \A d \in Caller : d # c => CallOf(d, t)'
      PROVE  GalleryInv'
  <2>1. GalleryTypeOK'
    BY <1>1, <1>2, <1>9 DEF GalleryTypeOK, files, Quit, CallRecord, Doings
  <2>2. Phases'
    <3>1. call'[c].doing \in {"idle", "listing"} \cup Consuming /\ OthersWait(c)
      BY <1>9, IdleIsACall DEF Quit
    <3> QED
      BY <1>1, <1>6, <1>9, <3>1, PhasesOfConsumption DEF files
  <2>3. Calling'
    <3>1. \A u \in Task : tasks[u].state \in {"Completed", "Consumed"}
                             => tasks'[u].state \in {"Completed", "Consumed"}
      BY <1>9 DEF Stays
    <3> QED
      BY <1>2, <1>9, <2>1, <3>1, CallingAfterEnd
  <2>4. Locking'
    BY <1>1, <1>2, <1>9, LockingKept, IdleIsACall DEF Quit, files, Deleting
  <2>5. call'[c].task \notin Task
    BY <1>9, IdleIsACall, Distinct DEF Quit
  <2>6. \A u \in Task : u # t => LibraryOf(u)'
    BY <1>2, <1>4, <1>7, <1>9, <2>5, Elsewhere DEF Quit
  <2>7. LibraryOf(t)'
    BY <1>9, <2>5, NoCall DEF LibraryOf, CallsOf
  <2> QED
    BY <2>1, <2>2, <2>3, <2>4, <2>6, <2>7, Together
\* The caller goes on, or gives up and leaves the task interrupted.
<1>10. ASSUME NEW s, Reports(c, t, s), s.revision = tasks[t].revision + 1
       PROVE  /\ Quit(c) /\ SpoilsStay /\ (Serving' <=> Serving)
              /\ spoiled' = spoiled \/ spoiled' = spoiled \cup {<<t, "interrupted">>}
              /\ \A u \in Task : u # t => Stays(u)
              /\ tasks'[t] = s /\ (disk'[t] = s \/ disk'[t] = disk[t])
              /\ Unspoiled(t, "interrupted")' => disk'[t] = s
  <2>1. Reported(t, s) /\ (Proceed(c) \/ Stop(c))
        /\ ((spoiled' = spoiled /\ Told(t)) \/ spoiled' = spoiled \cup {<<t, "interrupted">>})
    BY <1>10 DEF Reports, Spoil
  <2>2. /\ tasks'[t] = s /\ (disk'[t] = s \/ disk'[t] = disk[t])
        /\ Told(t) => disk'[t] = s
        /\ core' = core /\ \A u \in Task : u # t => Stays(u)
    BY <1>8, <1>10, <2>1, ReportEffect
  <2>3. Quit(c)
    BY <1>2, <2>1, StopEnds, ProceedEnds
  <2> QED
    BY <2>1, <2>2, <2>3 DEF SpoilsStay, Unspoiled, Serving
<1>11. ASSUME Quit(c), SpoilsStay
       PROVE  /\ \A d \in Caller : d # c => call'[d] = call[d] /\ CallOf(d, t)
              /\ call[c].doing = "refused" => OwnersStay(t)
              /\ Entered(t) => Entered(t)'
  <2>1. \A d \in Caller : d # c => call'[d] = call[d] /\ CallOf(d, t)
    BY <1>5, <1>11 DEF Quit, OthersWait, CallsOf
  <2>2. call[c].doing = "refused" => OwnersStay(t)
    BY <2>1 DEF OwnersStay, Works
  <2>3. Entered(t) => Entered(t)'
    BY <1>1, <1>11, <2>1 DEF Entered, Works, Unspoiled, SpoilsStay, files
  <2> QED
    BY <2>1, <2>2, <2>3
<1>12. CASE tasks[t].state = "Completed" /\ call[c].doing = "consumed"
            /\ Reports(c, t, Moved(t, "Consumed"))
  <2> DEFINE s == Moved(t, "Consumed")
  <2>1. /\ s.revision = tasks[t].revision + 1 /\ s.state = "Consumed"
        /\ Proper(s) /\ s.path
    BY <1>5, <1>12 DEF Moved, Snapshot, Proper, SnapshotsOf
  <2> HIDE DEF s
  <2>2. /\ Quit(c) /\ SpoilsStay /\ (Serving' <=> Serving)
        /\ spoiled' = spoiled \/ spoiled' = spoiled \cup {<<t, "interrupted">>}
        /\ \A u \in Task : u # t => Stays(u)
        /\ tasks'[t] = s /\ (disk'[t] = s \/ disk'[t] = disk[t])
        /\ Unspoiled(t, "interrupted")' => disk'[t] = s
    BY <1>10, <1>12, <2>1 DEF s
  <2>3. SnapshotsOf(t)'
    BY <1>5, <1>7, <1>12, <2>1, <2>2 DEF SnapshotsOf, Untouched, SpoilsStay, Unspoiled, Proper
  <2>4. Unspoiled(t, "interrupted")' => Owned(t)'
    BY <2>1, <2>2 DEF Owned
  <2>5. (Entered(t) => Entered(t)') /\ \A d \in Caller : d # c => call'[d] = call[d] /\ CallOf(d, t)
    BY <1>11, <2>2
  <2>6. Sound(t) => Holds(t)
    BY <1>4, <1>5, <1>12 DEF CallOf, Works
  <2>7. FilesOf(t)'
    <3> HIDE DEF Owned, Entered
    <3> QED
      BY <1>5, <1>7, <1>12, <2>1, <2>2, <2>4, <2>5, <2>6
         DEF FilesOf, Untouched, SpoilsStay, Unspoiled, Sound, Holds
  <2>8. ASSUME NEW d \in Caller, d # c PROVE CallOf(d, t)'
    <3>1. call'[d] = call[d] /\ CallOf(d, t)
      BY <2>5, <2>8
    <3>2. \A what : Works(d, t, what)' <=> Works(d, t, what)
      BY <3>1 DEF Works
    <3>3. ~Works(d, t, {"marked", "erased"})
      BY <1>12, <3>1 DEF CallOf
    <3> HIDE DEF Owned, Entered, Works
    <3> QED
      BY <1>7, <1>12, <2>1, <2>2, <2>4, <2>5, <3>1, <3>2, <3>3
         DEF CallOf, Untouched, SpoilsStay, Unspoiled, Sound, Holds, Files
  <2> QED
    BY <1>9, <2>1, <2>2, <2>3, <2>7, <2>8
<1>13. CASE tasks[t].state = "Completed" /\ call[c].doing = "refused"
            /\ Reports(c, t, Moved(t, "Completed"))
  <2> DEFINE s == Moved(t, "Completed")
  <2>1. /\ s.revision = tasks[t].revision + 1 /\ s.state = "Completed" /\ Proper(s) /\ s.path
    BY <1>5, <1>13 DEF Moved, Snapshot, Proper, SnapshotsOf
  <2> HIDE DEF s
  <2>2. /\ Quit(c) /\ SpoilsStay /\ (Serving' <=> Serving)
        /\ spoiled' = spoiled \/ spoiled' = spoiled \cup {<<t, "interrupted">>}
        /\ \A u \in Task : u # t => Stays(u)
        /\ tasks'[t] = s /\ (disk'[t] = s \/ disk'[t] = disk[t])
    BY <1>10, <1>13, <2>1 DEF s
  <2>3. disk[t].state # "Consumed"
    BY <1>5, <1>13 DEF SnapshotsOf
  <2>4. SnapshotsOf(t)'
    BY <1>5, <1>7, <1>13, <2>1, <2>2, <2>3 DEF SnapshotsOf, Untouched, SpoilsStay, Unspoiled, Proper
  <2>5. /\ OwnersStay(t) /\ (Entered(t) => Entered(t)')
        /\ \A d \in Caller : d # c => call'[d] = call[d] /\ CallOf(d, t)
    BY <1>11, <1>13, <2>2
  <2>6. Unspoiled(t, "interrupted")' => (Owned(t) => Owned(t)')
    BY <2>3, <2>5 DEF Owned, OwnersStay
  <2>7. FilesOf(t)'
    <3> HIDE DEF Owned, Entered
    <3> QED
      BY <1>5, <1>7, <1>13, <2>1, <2>2, <2>3, <2>5, <2>6
         DEF FilesOf, Untouched, SpoilsStay, Unspoiled, Sound, Holds
  <2>8. ASSUME NEW d \in Caller, d # c PROVE CallOf(d, t)'
    <3>1. call'[d] = call[d] /\ CallOf(d, t)
      BY <2>5, <2>8
    <3>2. \A what : Works(d, t, what)' <=> Works(d, t, what)
      BY <3>1 DEF Works
    <3>3. ~Works(d, t, {"marked", "erased"})
      BY <1>13, <3>1 DEF CallOf
    <3> HIDE DEF Owned, Entered, Works
    <3> QED
      BY <1>7, <1>13, <2>1, <2>2, <2>5, <2>6, <3>1, <3>2, <3>3
         DEF CallOf, Untouched, SpoilsStay, Unspoiled, Sound, Holds, Files
  <2> QED
    BY <1>9, <2>1, <2>2, <2>4, <2>7, <2>8
<1>14. CASE /\ tasks[t].state = "Completed" => call[c].doing = "refused"
            /\ Proceed(c) /\ UNCHANGED <<vars, spoiled>>
  <2>1. Quit(c)
    BY <1>2, <1>14, ProceedEnds
  <2>2. /\ Stays(t) /\ SpoilsStay /\ (Serving' <=> Serving)
        /\ \A u \in Task : u # t => Stays(u)
        /\ spoiled' = spoiled
    BY <1>14, ArchiveAlone DEF SpoilsStay
  <2>3. /\ call[c].doing = "refused" => OwnersStay(t)
        /\ Entered(t) => Entered(t)'
        /\ \A d \in Caller : d # c => call'[d] = call[d] /\ CallOf(d, t)
    BY <1>11, <2>1, <2>2
  <2>4. Unspoiled(t, "interrupted")' => (Owned(t) => Owned(t)')
    <3>1. CASE call[c].doing = "refused"
      BY <2>2, <2>3, <3>1 DEF Owned, OwnersStay, Stays
    <3>2. CASE call[c].doing # "refused"
      <4>1. tasks[t].state = "Consumed"
        BY <1>5, <1>14, <3>2
      <4>2. Unspoiled(t, "interrupted")' => disk[t].state = "Consumed"
        BY <1>5, <2>2, <4>1 DEF SnapshotsOf, Unspoiled
      <4> QED
        BY <2>2, <4>2 DEF Owned, Stays
    <3> QED
      BY <3>1, <3>2
  <2>5. SnapshotsOf(t)'
    BY <1>5, <1>7, <2>2, SnapshotsKept
  <2>6. FilesOf(t)'
    <3> HIDE DEF Owned, Entered
    <3> QED
      BY <1>5, <1>7, <2>2, <2>3, <2>4 DEF FilesOf, Stays, Untouched, Unspoiled, Sound, Holds
  <2>7. ASSUME NEW d \in Caller, d # c PROVE CallOf(d, t)'
    <3>1. call'[d] = call[d] /\ CallOf(d, t)
      BY <2>3, <2>7
    <3>2. \A what : Works(d, t, what)' <=> Works(d, t, what)
      BY <3>1 DEF Works
    <3> HIDE DEF Owned, Entered, Works
    <3> QED
      BY <1>7, <2>2, <2>3, <2>4, <3>1, <3>2
         DEF CallOf, Stays, Untouched, Unspoiled, Sound, Holds, Files
  <2>8. tasks'[t].state \in {"Completed", "Consumed"}
    BY <1>5, <2>2 DEF Stays
  <2> QED
    BY <1>9, <2>1, <2>2, <2>5, <2>6, <2>7, <2>8
<1> QED
  BY <1>4, <1>12, <1>13, <1>14 DEF ReportConsumed

-----------------------------------------------------------------------------
(* Deletion. *)

\* A caller that does not delete is not concerned by a deletion, unless the pages it has
\* consumed are gone.
LEMMA BystanderKept ==
  ASSUME NEW t \in Task, NEW d \in Caller, CallOf(d, t), call'[d] = call[d],
         call[d].doing \notin Deleting,
         tasks[t].state \in {"Completed", "Consumed"} => tasks'[t].state \in {"Completed", "Consumed"},
         tasks'[t].state = "Completed" => tasks[t].state = "Completed",
         SpoilsStay, tasks[t].state = "Completed" /\ Sound(t)' /\ Holds(t) => Holds(t)'
  PROVE  CallOf(d, t)'
<1>1. \A what : Works(d, t, what)' <=> Works(d, t, what)
  BY DEF Works
<1>2. ~Works(d, t, Deleting) /\ \A what : what \subseteq Deleting => ~Works(d, t, what)
  BY DEF Works
<1>3. /\ ~Works(d, t, {"ticketed"}) /\ ~Works(d, t, {"hidden", "unregistered", "marked"})
      /\ ~Works(d, t, {"erased"}) /\ ~Works(d, t, Hidden)
      /\ ~Works(d, t, {"unregistered", "marked", "erased"}) /\ ~Works(d, t, {"marked", "erased"})
      /\ ~Works(d, t, {"hidden", "unregistered"}) /\ ~Works(d, t, {"hidden"})
  BY <1>2 DEF Deleting, Hidden
<1>4. Sound(t)' => Sound(t)
  BY DEF Sound, SpoilsStay, Unspoiled
<1> HIDE DEF Owned, Entered, Works, Holds
<1> QED
  BY <1>1, <1>3, <1>4 DEF CallOf

\* A deleter goes on with its deletion, or ends it.
Onward(c) ==
  /\ call' \in [Caller -> CallRecord]
  /\ OthersWait(c)
  /\ \/ call'[c] = Idle
     \/ /\ call'[c].doing \in Hidden
        /\ call'[c].task = call[c].task /\ call'[c].rest = call[c].rest

\* The other tasks, callers and the lock, through any step of a deletion.
LEMMA DeletionKeeps ==
  ASSUME GalleryInv, NEW c \in Caller, call[c].doing \in Deleting, NEW t \in Task,
         t = call[c].task, Onward(c), Serving', job' = job, exporting' = exporting, SpoilsStay,
         boot' = boot \/ (c = Core /\ boot' = "failed" /\ call'[c] = Idle),
         \A u \in Task : u # t => Stays(u) /\ Untouched(u),
         tasks[t].state \in {"Completed", "Consumed"} => tasks'[t].state \in {"Completed", "Consumed"},
         tasks'[t].state = "Completed" => tasks[t].state = "Completed",
         tasks[t].state = "Completed" /\ Sound(t)' /\ Holds(t) => Holds(t)',
         c = Core /\ boot' = boot => worker' = worker /\ (tasks[t] = disk[t] => tasks'[t] = disk'[t]),
         GalleryTypeOK', SnapshotsOf(t)', FilesOf(t)', CallOf(c, t)'
  PROVE  GalleryInv'
<1>1. /\ GalleryTypeOK /\ Phases /\ Calling /\ Locking /\ \A u \in Task : LibraryOf(u)
  BY Parts
<1>2. /\ job = NoJob /\ exporting = {}
      /\ \A d \in Caller : d # c => call[d].doing \notin Deleting
      /\ c = Core => boot = "tickets"
      /\ c # Core => boot = "done"
  BY OneDeletes
<1>3. call'[c].doing \in {"idle"} \cup Hidden /\ OthersWait(c)
  BY IdleIsACall DEF Onward
<1>4. Phases'
  <2>1. CASE c # Core
    BY <1>1, <1>2, <1>3, <2>1, PhasesServed, Distinct DEF Phases, OthersWait
  <2>2. CASE c = Core
    <3>1. /\ \A d \in Client : call'[d] = Idle
          /\ exporting' = {} /\ job' = NoJob
      BY <1>1, <1>2, <1>3, <2>2, Distinct DEF Phases, OthersWait
    <3>2. CASE boot' = "failed" /\ call'[c] = Idle
      BY <2>2, <3>1, <3>2, PhasesFailed, Distinct
    <3>3. CASE boot' = boot
      <4>1. \A u \in Task : tasks[u] = disk[u] /\ worker[u] = "none"
        BY <1>1, <1>2, <2>2 DEF Phases
      <4>2. \A u \in Task : tasks'[u] = disk'[u] /\ worker'[u] = "none"
        BY <2>2, <3>3, <4>1 DEF Stays
      <4> QED
        BY <1>2, <1>3, <2>2, <3>1, <3>3, <4>2, PhasesRecovering
    <3> QED
      BY <3>2, <3>3
  <2> QED
    BY <2>1, <2>2
<1>5. Calling'
  <2>1. call[c].doing \notin {"idle", "listing"} /\ t # NoTask
    BY Distinct DEF Deleting
  <2>2. /\ call'[c].doing = "idle" => call'[c] = Idle
        /\ call'[c].doing \in {"idle", "listing"} <=> call'[c].task = NoTask
    BY <2>1, IdleIsACall DEF Onward, Hidden
  <2>3. \A u \in call'[c].rest : tasks[u].state \in {"Completed", "Consumed"}
    BY <1>1, IdleIsACall DEF Onward, Calling
  <2>4. \A u \in Task : tasks[u].state \in {"Completed", "Consumed"}
                           => tasks'[u].state \in {"Completed", "Consumed"}
    BY DEF Stays
  <2> QED
    BY <1>1, <1>3, <2>2, <2>3, <2>4, CallingKept
<1>6. Locking'
  <2>1. /\ job.doing # "staged" /\ call[c].doing # "consuming" /\ call'[c].doing # "consuming"
    BY <1>2, <1>3, NoJobIsNothing DEF Deleting, Hidden
  <2> QED
    BY <1>1, <1>3, <2>1, LockingKept
<1>7. \A u \in Task : u # t => LibraryOf(u)'
  <2>1. call'[c].task \in {t, NoTask}
    BY IdleIsACall DEF Onward
  <2> QED
    BY <1>1, <1>3, <2>1, Elsewhere, Distinct
<1>8. LibraryOf(t)'
  <2>1. ASSUME NEW d \in Caller, d # c PROVE CallOf(d, t)'
    BY <1>1, <1>2, <1>3, <2>1, BystanderKept DEF OthersWait, LibraryOf, CallsOf
  <2> QED
    BY <2>1 DEF LibraryOf, CallsOf
<1> QED
  BY <1>4, <1>5, <1>6, <1>7, <1>8, Together

\* To turn to the next state is to go on with the deletion.
LEMMA TurnsGoOn ==
  ASSUME NEW c \in Caller, NEW doing \in Hidden, Turns(c, doing)
  PROVE  Onward(c)
BY DEF Turns, Onward

\* And so is to stop.
LEMMA StopGoesOn ==
  ASSUME GalleryTypeOK, NEW c \in Caller, Stop(c)
  PROVE  Onward(c) /\ call'[c] = Idle
BY StopEnds DEF Onward, Quit

\* The caller that deletes: its task, and its part of the invariant.
LEMMA DeleterKnows ==
  ASSUME GalleryInv, NEW c \in Caller, call[c].doing \in Deleting
  PROVE  /\ GalleryTypeOK /\ exporting = {}
         /\ \E t \in Task : t = call[c].task /\ SnapshotsOf(t) /\ FilesOf(t) /\ CallOf(c, t)
         /\ c # Core <=> c \in Client
BY OneDeletes, Parts, Distinct

\* The name a gallery is hidden under keeps what its ticket lists.
LEMMA HideKeeps ==
  ASSUME Inherited, GalleryInv, NEW c \in Caller, Hide(c)
  PROVE  GalleryInv'
<1>1. /\ call[c].doing = "ticketed" /\ Serving /\ call[c].doing \in Deleting
      /\ UNCHANGED <<vars, boot, downloaded, registered, job, preview, exporting, spoiled>>
  BY DEF Hide, Deleting
<1>2. GalleryTypeOK /\ exporting = {} /\ (c # Core <=> c \in Client)
  BY <1>1, DeleterKnows
<1>3. PICK t \in Task : t = call[c].task /\ SnapshotsOf(t) /\ FilesOf(t) /\ CallOf(c, t)
  BY <1>1, DeleterKnows
<1>4. place[t] = "library" /\ ticket[t] = Files(t) /\ tomb[t] = {}
  BY <1>1, <1>3 DEF CallOf, Works
<1>5. \A u \in Task : Stays(u)
  BY <1>1, ArchiveAlone
<1>6. Serving' /\ SpoilsStay
  BY <1>1, ArchiveAlone DEF SpoilsStay
<1>7. Files(t) \in SUBSET {"zip", "info", "temp"} /\ "zip" \in Files(t)
  BY <1>2 DEF GalleryTypeOK, Files
<1>8. c \in Client
  <2>1. c = Core => boot = "tickets"
    BY <1>1, OneDeletes
  <2>2. c # Core
    BY <1>1, <2>1 DEF GalleryInv, Phases, Hidden
  <2> QED
    BY <1>2, <2>2
<1>9. CASE /\ tomb' = [tomb EXCEPT ![t] = {"dir"} \cup Files(t)]
           /\ place' = [place EXCEPT ![t] = "none"]
           /\ sidecar' = [sidecar EXCEPT ![t] = {}]
           /\ Go(c, "hidden") /\ UNCHANGED ticket
  <2>1. Turns(c, "hidden")
    BY <1>2, <1>9, GoTurns DEF Doings, Deleting
  <2>2. Onward(c)
    BY <2>1, TurnsGoOn DEF Hidden
  <2>3. /\ tomb'[t] = {"dir"} \cup Files(t) /\ place'[t] = "none" /\ ticket'[t] = ticket[t]
        /\ \A u \in Task : u # t => Untouched(u)
    BY <1>1, <1>2, <1>9 DEF GalleryTypeOK, Untouched
  <2>4. GalleryTypeOK'
    BY <1>1, <1>2, <1>7, <1>9, <2>1 DEF GalleryTypeOK, Turns, CallRecord, Doings
  <2>5. SnapshotsOf(t)'
    BY <1>1, <1>3, <1>4, <1>5, <2>3 DEF SnapshotsOf, Stays, Unspoiled, Proper
  <2>6. Unspoiled(t, "interrupted")' => Owned(t)' /\ Entered(t)'
    <3>1. OwnersStay(t)
      BY <1>1, <2>1 DEF OwnersStay, Turns, OthersWait, Works
    <3> QED
      BY <1>1, <1>3, <1>4, <1>5, <3>1, OwnersKept DEF FilesOf, Unspoiled, SpoilsStay
  <2>7. FilesOf(t)'
    <3> HIDE DEF Owned, Entered
    <3> QED
      BY <1>1, <1>2, <1>3, <1>4, <1>5, <1>7, <2>3 DEF FilesOf, Stays, Unspoiled, Sound, Holds
  <2>8. CallOf(c, t)'
    <3>1. call'[c].doing = "hidden"
      BY <2>1 DEF Turns
    <3> HIDE DEF Owned, Entered
    <3> QED
      BY <1>4, <1>7, <2>3, <2>6, <3>1 DEF CallOf, Works, Consuming, Hidden
  <2>9. Holds(t)'
    BY <1>7, <2>3 DEF Holds
  <2> QED
    BY <1>1, <1>3, <1>5, <1>6, <2>2, <2>3, <2>4, <2>5, <2>7, <2>8, <2>9, DeletionKeeps,
       ArchiveAlone
<1>10. CASE /\ ticket' = [ticket EXCEPT ![t] = {}] /\ Stop(c)
            /\ UNCHANGED <<place, sidecar, tomb>>
  <2>1. Onward(c) /\ call'[c] = Idle
    BY <1>2, <1>10, StopGoesOn
  <2>2. /\ ticket'[t] = {} /\ \A u \in Task : u # t => Untouched(u)
    BY <1>1, <1>2, <1>10 DEF GalleryTypeOK, Untouched
  <2>3. GalleryTypeOK'
    BY <1>1, <1>2, <1>10, <2>1 DEF GalleryTypeOK, Onward, CallRecord, Doings
  <2>4. SnapshotsOf(t)'
    BY <1>1, <1>3, <1>5, <1>10 DEF SnapshotsOf, Stays, Unspoiled, Proper
  <2>5. Unspoiled(t, "interrupted")' => Owned(t)' /\ Entered(t)'
    <3>1. OwnersStay(t)
      BY <1>1, <2>1 DEF OwnersStay, Onward, OthersWait, Works
    <3> QED
      BY <1>1, <1>3, <1>4, <1>5, <3>1, OwnersKept DEF FilesOf, Unspoiled, SpoilsStay
  <2>6. FilesOf(t)'
    <3> HIDE DEF Owned, Entered
    <3> QED
      BY <1>1, <1>2, <1>3, <1>4, <1>5, <1>10, <2>5 DEF FilesOf, Stays, Unspoiled, Sound, Holds
  <2>7. CallOf(c, t)'
    BY <2>1, IdleIsACall, NoCall, Distinct
  <2>8. Holds(t)'
    BY <1>4, <1>10 DEF Holds
  <2> QED
    BY <1>1, <1>3, <1>5, <1>6, <2>1, <2>2, <2>3, <2>4, <2>6, <2>7, <2>8, DeletionKeeps,
       ArchiveAlone
<1> QED
  BY <1>3, <1>9, <1>10 DEF Hide

\* A deletion undone: the Core leaves everything to the next opening, and a client brings the
\* gallery back or abandons it.
Undone(c, t) ==
  /\ Onward(c) /\ call'[c] = Idle
  /\ \A u \in Task : u # t => /\ place'[u] = place[u] /\ sidecar'[u] = sidecar[u]
                              /\ tomb'[u] = tomb[u] /\ ticket'[u] = ticket[u]
  /\ \/ /\ c = Core /\ boot' = "failed"
        /\ place'[t] = place[t] /\ tomb'[t] = tomb[t] /\ ticket'[t] = ticket[t]
     \/ /\ c # Core /\ boot' = boot /\ place'[t] = "library" /\ tomb'[t] = {}
     \/ /\ c # Core /\ boot' = boot /\ place'[t] = place[t] /\ tomb'[t] = tomb[t]
        /\ tomb[t] # {} => <<t, "abandoned">> \in spoiled'
  /\ boot' \in {boot, "failed"}
  /\ place' \in [Task -> {"none", "staging", "library"}]
  /\ sidecar' \in [Task -> SUBSET {"info", "temp"}]
  /\ tomb' \in [Task -> SUBSET {"dir", "zip", "info", "temp"}]
  /\ ticket' \in [Task -> SUBSET {"zip", "info", "temp"}]

\* UndoHide does one of the things that undoing may do.
LEMMA UndoHideUndoes ==
  ASSUME GalleryTypeOK, NEW c \in Caller, NEW t \in Task, UndoHide(c, t),
         Abandoned(t) \subseteq spoiled'
  PROVE  Undone(c, t)
<1>1. Onward(c) /\ call'[c] = Idle
  BY StopGoesOn DEF UndoHide
<1>2. CASE c = Core
  BY <1>1, <1>2 DEF UndoHide, Undone, GalleryTypeOK
<1>3. CASE c # Core
  <2>1. /\ boot' = boot /\ ticket' = [ticket EXCEPT ![t] = {}]
        /\ \/ /\ place' = [place EXCEPT ![t] = "library"]
              /\ sidecar' = [sidecar EXCEPT ![t] = tomb[t] \ {"dir", "zip"}]
              /\ tomb' = [tomb EXCEPT ![t] = {}]
           \/ UNCHANGED <<place, sidecar, tomb>>
    BY <1>3 DEF UndoHide
  <2>2. ticket'[t] = {}
    BY <2>1 DEF GalleryTypeOK
  <2>3. tomb'[t] # {} => <<t, "abandoned">> \in spoiled'
    BY <2>2 DEF Abandoned
  <2>4. tomb[t] \ {"dir", "zip"} \in SUBSET {"info", "temp"}
    BY DEF GalleryTypeOK
  <2>5. CASE UNCHANGED <<place, sidecar, tomb>>
    BY <1>1, <1>3, <2>1, <2>3, <2>5 DEF Undone, GalleryTypeOK
  <2>6. CASE /\ place' = [place EXCEPT ![t] = "library"]
             /\ sidecar' = [sidecar EXCEPT ![t] = tomb[t] \ {"dir", "zip"}]
             /\ tomb' = [tomb EXCEPT ![t] = {}]
    BY <1>1, <1>3, <2>1, <2>4, <2>6 DEF Undone, GalleryTypeOK
  <2> QED
    BY <2>1, <2>5, <2>6
<1> QED
  BY <1>2, <1>3

\* What an undone deletion may leave as spoiled.
Spoils(t) == {<<t, "abandoned">>, <<t, "unrecorded">>, <<t, "unregistered">>}

\* What comes back is registered again, or spoiled.
LEMMA RestoreUndoes ==
  ASSUME GalleryTypeOK, NEW c \in Caller, NEW t \in Task, t = call[c].task,
         NEW spoils \in SUBSET Spoils(t), Restore(c, t, spoils)
  PROVE  /\ Undone(c, t)
         /\ SpoilsStay /\ spoiled' \subseteq spoiled \cup Spoils(t) /\ spoils \subseteq spoiled'
         /\ registered' = registered \/ registered' = registered \cup {t}
         /\ place'[t] = "library" => t \in registered' \/ ~Unspoiled(t, "unregistered")'
<1>1. UndoHide(c, t) /\ Abandoned(t) \subseteq spoiled'
  BY DEF Restore
<1>2. Undone(c, t)
  BY <1>1, UndoHideUndoes
<1> QED
  BY <1>2 DEF Restore, Abandoned, Unlisted, Spoils, SpoilsStay, Unspoiled

\* Undoing keeps everything, as long as the task is saved as it was or its deletion unrecorded.
LEMMA UndoneKeeps ==
  ASSUME Inherited, GalleryInv, NEW c \in Caller, call[c].doing \in {"hidden", "unregistered"},
         NEW t \in Task, t = call[c].task, Undone(c, t), Serving', SpoilsStay,
         spoiled' \subseteq spoiled \cup Spoils(t),
         UNCHANGED <<downloaded, job, preview, exporting>>,
         registered' = registered \/ registered' = registered \cup {t},
         \A u \in Task : u # t => Stays(u),
         Sound(t)' => Stays(t),
         SnapshotsOf(t)', disk'[t] = disk[t],
         tasks[t].state \in {"Completed", "Consumed"} => tasks'[t].state \in {"Completed", "Consumed"},
         tasks'[t].state = "Completed" => tasks[t].state = "Completed",
         \/ place'[t] = "library" => t \in registered' \/ ~Unspoiled(t, "unregistered")'
         \/ c \in Client /\ Unspoiled(t, "interrupted") => Entered(t)
  PROVE  GalleryInv'
<1>1. call[c].doing \in Deleting
  BY DEF Deleting
<1>2. GalleryTypeOK /\ exporting = {} /\ (c # Core <=> c \in Client) /\ FilesOf(t) /\ CallOf(c, t)
  BY <1>1, DeleterKnows
<1>3. /\ tomb[t] # {} /\ ticket[t] # {} /\ tomb[t] \subseteq {"dir"} \cup ticket[t]
      /\ place[t] # "library"
      /\ c \in Client /\ Unspoiled(t, "interrupted") => Owned(t)
  BY <1>2 DEF CallOf, Works, Hidden
<1>4. /\ Onward(c) /\ call'[c] = Idle
      /\ boot' = boot \/ (c = Core /\ boot' = "failed")
      /\ c = Core => boot' = "failed" /\ boot' # boot
  BY <1>1, OneDeletes DEF Undone
<1>5. GalleryTypeOK'
  <2>1. spoiled' \in SUBSET (Task \X {"interrupted", "unrecorded", "abandoned", "unregistered"})
    BY <1>2 DEF GalleryTypeOK, Spoils
  <2> QED
    BY <1>2, <1>4, <2>1 DEF GalleryTypeOK, Onward, CallRecord, Doings, Undone
<1>6. \A u \in Task : u # t => Untouched(u)
  BY DEF Undone, Untouched
<1>7. Unspoiled(t, "interrupted")' => Unspoiled(t, "interrupted")
  BY DEF Unspoiled, SpoilsStay
<1>8. c \in Client /\ Unspoiled(t, "interrupted")' =>
        Owned(t)' /\ (place'[t] = "library" => Entered(t)')
  <2>1. \A d \in Caller : \A what : Works(d, t, what) /\ d # c => Works(d, t, what)'
    BY <1>4 DEF Works, Onward, OthersWait
  <2>2. ~Works(c, t, {"registering", "consumed"}) /\ ~Works(c, t, {"registering"})
    BY DEF Works
  <2>3. SUFFICES ASSUME c \in Client, Unspoiled(t, "interrupted")
                 PROVE  Owned(t)' /\ (place'[t] = "library" => Entered(t)')
    BY <1>7
  <2>4. Owned(t)'
    BY <1>3, <2>1, <2>2, <2>3 DEF Owned
  <2>5. place'[t] = "library" => Entered(t)'
    BY <2>1, <2>2, <2>3 DEF Entered, Unspoiled, SpoilsStay
  <2> QED
    BY <2>4, <2>5
<1>9. FilesOf(t)'
  <2> HIDE DEF Owned, Entered
  <2>1. Sound(t)' => Stays(t) /\ Sound(t)
    BY DEF Sound, Unspoiled, SpoilsStay
  <2>2. \A d \in Client : <<d, t>> \notin exporting'
    BY <1>2
  <2>3. CASE c = Core
    <3>1. place'[t] = place[t] /\ tomb'[t] = tomb[t] /\ ticket'[t] = ticket[t]
      BY <2>3 DEF Undone
    <3> QED
      BY <1>2, <1>3, <2>1, <2>2, <3>1 DEF FilesOf, Stays, Unspoiled, SpoilsStay, Holds
  <2>4. CASE c # Core /\ place'[t] = "library" /\ tomb'[t] = {}
    BY <1>2, <1>8, <2>2, <2>4 DEF FilesOf, Holds
  <2>5. CASE c # Core /\ place'[t] = place[t] /\ <<t, "abandoned">> \in spoiled'
    BY <1>2, <1>3, <2>2, <2>5 DEF FilesOf, Unspoiled, Sound
  <2> QED
    BY <1>3, <2>3, <2>4, <2>5 DEF Undone
<1>10. CallOf(c, t)'
  BY <1>4, IdleIsACall, NoCall, Distinct
<1>11. Sound(t)' /\ Holds(t) => Holds(t)'
  BY <1>3 DEF Undone, Holds, Sound, Unspoiled
<1> QED
  BY <1>1, <1>4, <1>5, <1>6, <1>9, <1>10, <1>11, DeletionKeeps

\* The gallery leaves the registry, or the registry cannot be saved and the deletion is undone.
LEMMA UnregisterKeeps ==
  ASSUME Inherited, GalleryInv, NEW c \in Caller, Unregister(c)
  PROVE  GalleryInv'
<1>1. /\ call[c].doing = "hidden" /\ Serving /\ call[c].doing \in Deleting
      /\ UNCHANGED <<vars, downloaded, job, preview, exporting>>
  BY DEF Unregister, Deleting
<1>2. GalleryTypeOK /\ exporting = {} /\ (c # Core <=> c \in Client)
  BY <1>1, DeleterKnows
<1>3. PICK t \in Task : t = call[c].task /\ SnapshotsOf(t) /\ FilesOf(t) /\ CallOf(c, t)
  BY <1>1, DeleterKnows
<1>4. \A u \in Task : Stays(u)
  BY <1>1, ArchiveAlone
<1>5. Serving'
  BY <1>1, ArchiveAlone
<1>6. CASE /\ registered' = registered \ {t} /\ Go(c, "unregistered")
           /\ UNCHANGED <<boot, place, sidecar, tomb, ticket, spoiled>>
  <2>1. Turns(c, "unregistered")
    BY <1>2, <1>6, GoTurns DEF Doings, Deleting
  <2>2. Onward(c)
    BY <2>1, TurnsGoOn DEF Hidden
  <2>3. SpoilsStay /\ \A u \in Task : u # t => Untouched(u)
    BY <1>1, <1>6 DEF Untouched, SpoilsStay
  <2>4. GalleryTypeOK'
    BY <1>1, <1>2, <1>6, <2>1 DEF GalleryTypeOK, Turns, CallRecord, Doings
  <2>5. SnapshotsOf(t)'
    BY <1>1, <1>3, <1>4, <1>6 DEF SnapshotsOf, Stays, Unspoiled, Proper
  <2>6. place[t] # "library" /\ tomb[t] # {} /\ ticket[t] # {}
        /\ tomb[t] \subseteq {"dir"} \cup ticket[t]
    BY <1>1, <1>3 DEF CallOf, Works, Hidden
  <2>7. FilesOf(t)'
    <3> HIDE DEF Owned, Entered
    <3> QED
      BY <1>1, <1>2, <1>3, <1>4, <1>6, <2>6 DEF FilesOf, Stays, Unspoiled, Sound, Holds
  <2>8. c \in Client /\ Unspoiled(t, "interrupted")' => Owned(t)'
    <3>1. Unspoiled(t, "interrupted")' /\ c \in Client => Owned(t)
      BY <1>1, <1>3, <1>6 DEF CallOf, Works, Unspoiled
    <3>2. OwnersStay(t)
      BY <1>1, <2>1 DEF OwnersStay, Turns, OthersWait, Works
    <3> QED
      BY <1>4, <3>1, <3>2 DEF Owned, OwnersStay, Stays
  <2>9. CallOf(c, t)'
    <3>1. call'[c].doing = "unregistered" /\ t \notin registered'
      BY <1>6, <2>1 DEF Turns
    <3> HIDE DEF Owned, Entered
    <3> QED
      BY <1>6, <2>6, <2>8, <3>1 DEF CallOf, Works, Consuming, Hidden
  <2>10. Holds(t) => Holds(t)'
    BY <1>6 DEF Holds
  <2>11. tasks' = tasks /\ disk' = disk /\ worker' = worker
    BY <1>1, ArchiveAlone
  <2> QED
    BY <1>1, <1>3, <1>4, <1>5, <1>6, <2>2, <2>3, <2>4, <2>5, <2>7, <2>9, <2>10, <2>11,
       DeletionKeeps
<1>7. CASE /\ UndoHide(c, t) /\ spoiled' = spoiled \cup Abandoned(t) /\ UNCHANGED registered
  <2>1. Undone(c, t)
    BY <1>2, <1>7, UndoHideUndoes
  <2>2. SpoilsStay /\ spoiled' \subseteq spoiled \cup Spoils(t)
    BY <1>7 DEF Abandoned, Spoils, SpoilsStay
  <2>3. tomb[t] # {} /\ (c \in Client /\ Unspoiled(t, "interrupted") => Entered(t))
    BY <1>1, <1>3 DEF CallOf, Works
  <2>4. SnapshotsOf(t)'
    BY <1>1, <1>3, <1>4, <2>2, <2>3 DEF SnapshotsOf, Stays, Unspoiled, Proper, SpoilsStay
  <2> QED
    BY <1>1, <1>3, <1>4, <1>5, <1>7, <2>1, <2>2, <2>3, <2>4, UndoneKeeps DEF Stays
<1> QED
  BY <1>3, <1>6, <1>7 DEF Unregister

\* The task is marked, unless there was nothing to mark or the mark could not be written.
LEMMA ReportDeletedKeeps ==
  ASSUME Inherited, GalleryInv, NEW c \in Caller, ReportDeleted(c)
  PROVE  GalleryInv'
<1>1. /\ call[c].doing = "unregistered" /\ Serving /\ call[c].doing \in Deleting
      /\ UNCHANGED <<downloaded, job, preview, exporting>>
  BY DEF ReportDeleted, Deleting
<1>2. GalleryTypeOK /\ exporting = {} /\ (c # Core <=> c \in Client)
  BY <1>1, DeleterKnows
<1>3. PICK t \in Task : t = call[c].task /\ SnapshotsOf(t) /\ FilesOf(t) /\ CallOf(c, t)
  BY <1>1, DeleterKnows
<1>4. /\ tomb[t] # {} /\ ticket[t] # {} /\ tomb[t] \subseteq {"dir"} \cup ticket[t]
      /\ place[t] # "library"
      /\ t \notin registered \/ ~Unspoiled(t, "unrecorded")
      /\ tasks[t].state # "absent"
  BY <1>1, <1>3 DEF CallOf, Works, Hidden, SnapshotsOf
<1>5. TypeOK /\ Heard(t)
  BY DEF Inherited, IInv, AllHeard
\* The gallery stays hidden: the task is saved as deleted, or nothing was left to mark.
<1>6. ASSUME Onward(c), call'[c] = Idle \/ (call'[c].doing = "marked" /\ call'[c].task = t),
             UNCHANGED <<boot, place, sidecar, tomb, ticket, registered, spoiled>>,
             Serving', worker' = worker, \A u \in Task : u # t => Stays(u),
             tasks'[t].state = "Consumed", ~tasks'[t].path, tasks[t].state = "Consumed",
             (disk'[t].state = "Consumed" /\ ~disk'[t].path) \/ Stays(t),
             tasks[t] = disk[t] => tasks'[t] = disk'[t],
             Proper(tasks'[t]), Proper(disk'[t])
      PROVE  GalleryInv'
  <2>1. \A u \in Task : Untouched(u)
    BY <1>1, <1>6 DEF Untouched
  <2>2. GalleryTypeOK'
    BY <1>1, <1>2, <1>6 DEF GalleryTypeOK, Onward, CallRecord, Doings
  <2>3. SnapshotsOf(t)'
    BY <1>3, <1>4, <1>6 DEF SnapshotsOf, Stays, Unspoiled, Proper
  <2>4. FilesOf(t)'
    <3> HIDE DEF Owned, Entered
    <3> QED
      BY <1>1, <1>2, <1>3, <1>4, <1>6 DEF FilesOf, Stays, Unspoiled, Sound, Holds
  <2>5. CallOf(c, t)'
    <3>1. CASE call'[c] = Idle
      BY <3>1, IdleIsACall, NoCall, Distinct
    <3>2. CASE call'[c].doing = "marked" /\ call'[c].task = t
      <4> HIDE DEF Owned, Entered
      <4> QED
        BY <1>4, <1>6, <3>2 DEF CallOf, Works, Consuming, Hidden, Unspoiled
    <3> QED
      BY <1>6, <3>1, <3>2
  <2>6. SpoilsStay /\ (Holds(t) => Holds(t)')
    BY <1>6 DEF SpoilsStay, Holds
  <2> QED
    BY <1>1, <1>3, <1>6, <2>1, <2>2, <2>3, <2>4, <2>5, <2>6, DeletionKeeps
<1>7. CASE /\ tasks[t].state = "Consumed" /\ tasks[t].path
           /\ Reported(t, [Moved(t, "Consumed") EXCEPT !.path = FALSE])
           /\ \/ /\ Told(t) /\ Go(c, "marked")
                 /\ UNCHANGED <<boot, place, sidecar, tomb, ticket, registered, spoiled>>
              \/ Unwritten(t) /\ Restore(c, t, {<<t, "unrecorded">>})
              \/ /\ ~Told(t) /\ ~Unwritten(t) /\ c # Core /\ Stop(c)
                 /\ UNCHANGED <<boot, place, sidecar, tomb, ticket, registered, spoiled>>
  <2> DEFINE s == [Moved(t, "Consumed") EXCEPT !.path = FALSE]
  <2>1. /\ s.revision = tasks[t].revision + 1 /\ s.state = "Consumed" /\ ~s.path
        /\ Proper(s)
    BY DEF Moved, Snapshot, Proper
  <2>2. Reported(t, s)
    BY <1>7
  <2> HIDE DEF s
  <2>3. /\ tasks'[t] = s /\ (disk'[t] = s \/ disk'[t] = disk[t])
        /\ Told(t) \/ ~Unwritten(t) => disk'[t] = s
        /\ core' = core /\ worker' = worker /\ \A u \in Task : u # t => Stays(u)
    BY <1>5, <2>1, <2>2, ReportEffect
  <2>4. Serving'
    BY <1>1, <2>3 DEF Serving
  <2>5. CASE /\ Told(t) /\ Go(c, "marked")
             /\ UNCHANGED <<boot, place, sidecar, tomb, ticket, registered, spoiled>>
    <3>1. Turns(c, "marked")
      BY <1>2, <2>5, GoTurns DEF Doings, Deleting
    <3>2. Onward(c) /\ call'[c].doing = "marked" /\ call'[c].task = t
      BY <1>3, <3>1, TurnsGoOn DEF Hidden, Turns
    <3> QED
      BY <1>6, <1>7, <2>1, <2>3, <2>4, <2>5, <3>2
  <2>6. CASE /\ ~Unwritten(t) /\ Stop(c)
             /\ UNCHANGED <<boot, place, sidecar, tomb, ticket, registered, spoiled>>
    <3>1. Onward(c) /\ call'[c] = Idle
      BY <1>2, <2>6, StopGoesOn
    <3> QED
      BY <1>6, <1>7, <2>1, <2>3, <2>4, <2>6, <3>1
  <2>7. CASE Unwritten(t) /\ Restore(c, t, {<<t, "unrecorded">>})
    <3>1. disk'[t] = disk[t]
      BY <2>3, <2>7 DEF Unwritten
    <3>0. {<<t, "unrecorded">>} \in SUBSET Spoils(t)
      BY DEF Spoils
    <3>2. Undone(c, t)
      BY <1>2, <1>3, <2>7, <3>0, RestoreUndoes
    <3>3. /\ SpoilsStay /\ spoiled' \subseteq spoiled \cup Spoils(t)
          /\ <<t, "unrecorded">> \in spoiled'
          /\ registered' = registered \/ registered' = registered \cup {t}
          /\ place'[t] = "library" => t \in registered' \/ ~Unspoiled(t, "unregistered")'
      BY <1>2, <1>3, <2>7, <3>0, RestoreUndoes
    <3>4. SnapshotsOf(t)'
      BY <1>1, <1>3, <1>4, <1>7, <2>1, <2>3, <3>1, <3>3
         DEF SnapshotsOf, Unspoiled, Proper, SpoilsStay
    <3>5. Sound(t)' => Stays(t)
      BY <3>3 DEF Sound, Unspoiled
    <3> QED
      BY <1>1, <1>3, <2>1, <2>3, <2>4, <3>1, <3>2, <3>3, <3>4, <3>5, UndoneKeeps
  <2> QED
    BY <1>7, <2>5, <2>6, <2>7
<1>8. CASE /\ tasks[t] = Absent \/ (tasks[t].state = "Consumed" /\ ~tasks[t].path)
           /\ Go(c, "marked") /\ UNCHANGED vars
           /\ UNCHANGED <<boot, place, sidecar, tomb, ticket, registered, spoiled>>
  <2>1. tasks[t].state = "Consumed" /\ ~tasks[t].path
    BY <1>4, <1>8 DEF Absent, Snapshot
  <2>2. Turns(c, "marked")
    BY <1>2, <1>8, GoTurns DEF Doings, Deleting
  <2>3. Onward(c) /\ call'[c].doing = "marked" /\ call'[c].task = t
    BY <1>3, <2>2, TurnsGoOn DEF Hidden, Turns
  <2>4. /\ tasks' = tasks /\ disk' = disk /\ worker' = worker /\ Serving'
        /\ \A u \in Task : Stays(u)
    BY <1>1, <1>8, ArchiveAlone
  <2> QED
    BY <1>3, <1>6, <1>8, <2>1, <2>3, <2>4 DEF SnapshotsOf
<1>9. CASE /\ tasks[t] # Absent /\ tasks[t].state # "Consumed"
           /\ Restore(c, t, {}) /\ UNCHANGED vars
  <2>0. {} \in SUBSET Spoils(t)
    OBVIOUS
  <2>1. Undone(c, t)
    BY <1>2, <1>3, <1>9, <2>0, RestoreUndoes
  <2>2. /\ SpoilsStay /\ spoiled' \subseteq spoiled \cup Spoils(t)
        /\ registered' = registered \/ registered' = registered \cup {t}
        /\ place'[t] = "library" => t \in registered' \/ ~Unspoiled(t, "unregistered")'
    BY <1>2, <1>3, <1>9, <2>0, RestoreUndoes
  <2>3. /\ tasks' = tasks /\ disk' = disk /\ Serving'
        /\ \A u \in Task : Stays(u)
    BY <1>1, <1>9, ArchiveAlone
  <2>4. SnapshotsOf(t)'
    BY <1>1, <1>3, <1>4, <2>2, <2>3 DEF SnapshotsOf, Unspoiled, Proper, SpoilsStay
  <2> QED
    BY <1>1, <1>3, <2>1, <2>2, <2>3, <2>4, UndoneKeeps
<1> QED
  BY <1>3, <1>7, <1>8, <1>9 DEF ReportDeleted

\* What is erased was saved as deleted, so that nobody will ask for it.
LEMMA EraseKeeps ==
  ASSUME Inherited, GalleryInv, NEW c \in Caller, Erase(c)
  PROVE  GalleryInv'
<1>1. /\ call[c].doing = "marked" /\ Serving /\ call[c].doing \in Deleting
      /\ UNCHANGED <<vars, downloaded, place, sidecar, ticket, registered, job, preview, exporting,
                     spoiled>>
  BY DEF Erase, Deleting
<1>2. GalleryTypeOK /\ exporting = {} /\ (c # Core <=> c \in Client)
  BY <1>1, DeleterKnows
<1>3. PICK t \in Task : t = call[c].task /\ SnapshotsOf(t) /\ FilesOf(t) /\ CallOf(c, t)
  BY <1>1, DeleterKnows
<1>4. /\ tasks' = tasks /\ disk' = disk /\ worker' = worker /\ Serving' /\ SpoilsStay
      /\ \A u \in Task : Stays(u)
  BY <1>1, ArchiveAlone DEF SpoilsStay
<1>5. /\ tomb[t] # {} /\ ticket[t] # {} /\ place[t] # "library"
      /\ t \notin registered \/ ~Unspoiled(t, "unrecorded")
      /\ tasks[t].state = "Consumed" /\ ~tasks[t].path
      /\ Unspoiled(t, "unrecorded") => disk[t].state = "Consumed" /\ ~disk[t].path
  BY <1>1, <1>3 DEF CallOf, Works, Hidden, SnapshotsOf
<1>6. CASE /\ \E left \in {{"dir"}, {}} : left # tomb[t] /\ tomb' = [tomb EXCEPT ![t] = left]
           /\ IF tomb'[t] = {} THEN Go(c, "erased") ELSE UNCHANGED call
           /\ UNCHANGED boot
  <2>1. PICK left \in {{"dir"}, {}} : tomb' = [tomb EXCEPT ![t] = left]
    BY <1>6
  <2>2. tomb'[t] = left /\ \A u \in Task : u # t => Untouched(u)
    BY <1>1, <1>2, <2>1 DEF GalleryTypeOK, Untouched
  <2>3. /\ Onward(c) /\ call'[c].task = t
        /\ \/ call'[c].doing = "erased" /\ left = {}
           \/ call'[c].doing = "marked" /\ left = {"dir"}
    <3>1. CASE left = {}
      <4>1. Turns(c, "erased")
        BY <1>2, <1>6, <2>2, <3>1, GoTurns DEF Doings, Deleting
      <4> QED
        BY <1>3, <3>1, <4>1, TurnsGoOn DEF Hidden, Turns
    <3>2. CASE left = {"dir"}
      <4>1. call' = call
        BY <1>6, <2>2, <3>2
      <4> QED
        BY <1>1, <1>2, <1>3, <3>2, <4>1
           DEF Onward, OthersWait, Hidden, GalleryTypeOK, CallRecord, Doings
    <3> QED
      BY <2>1, <3>1, <3>2
  <2>4. GalleryTypeOK'
    BY <1>1, <1>2, <1>6, <2>1, <2>3 DEF GalleryTypeOK, Onward, CallRecord, Doings
  <2>5. SnapshotsOf(t)'
    BY <1>1, <1>3, <1>4, <1>5 DEF SnapshotsOf, Unspoiled, Proper
  <2>6. FilesOf(t)'
    <3> HIDE DEF Owned, Entered
    <3> QED
      BY <1>1, <1>2, <1>3, <1>4, <1>5, <2>2 DEF FilesOf, Unspoiled, Sound, Holds
  <2>7. CallOf(c, t)'
    <3> HIDE DEF Owned, Entered
    <3> QED
      BY <1>1, <1>4, <1>5, <2>2, <2>3 DEF CallOf, Works, Consuming, Hidden, Unspoiled
  <2>8. tasks[t].state # "Completed" /\ tasks'[t].state # "Completed"
    BY <1>4, <1>5
  <2> QED
    BY <1>1, <1>3, <1>4, <1>6, <2>2, <2>3, <2>4, <2>5, <2>6, <2>7, <2>8, DeletionKeeps
<1>7. CASE /\ Stop(c) /\ boot' = (IF c = Core THEN "failed" ELSE boot) /\ UNCHANGED tomb
  <2>1. Onward(c) /\ call'[c] = Idle
    BY <1>2, <1>7, StopGoesOn
  <2>2. \A u \in Task : Untouched(u)
    BY <1>1, <1>7 DEF Untouched
  <2>3. GalleryTypeOK'
    BY <1>1, <1>2, <1>7, <2>1 DEF GalleryTypeOK, Onward, CallRecord, Doings
  <2>4. OwnersStay(t)
    BY <1>1, <2>1 DEF OwnersStay, Onward, OthersWait, Works
  <2>5. SnapshotsOf(t)' /\ FilesOf(t)'
    BY <1>3, <1>4, <2>2, <2>4, SnapshotsKept, FilesKept
  <2>6. CallOf(c, t)'
    BY <2>1, IdleIsACall, NoCall, Distinct
  <2>7. Holds(t) => Holds(t)'
    BY <1>1, <1>7 DEF Holds
  <2> QED
    BY <1>1, <1>3, <1>4, <1>7, <2>1, <2>2, <2>3, <2>5, <2>6, <2>7, DeletionKeeps
<1> QED
  BY <1>3, <1>6, <1>7 DEF Erase

\* The ticket goes when nothing is left that it lists.
LEMMA RemoveTicketKeeps ==
  ASSUME Inherited, GalleryInv, NEW c \in Caller, RemoveTicket(c)
  PROVE  GalleryInv'
<1>1. /\ call[c].doing = "erased" /\ Serving /\ call[c].doing \in Deleting /\ Stop(c)
      /\ UNCHANGED <<vars, boot, downloaded, place, sidecar, tomb, registered, job, preview,
                     exporting, spoiled>>
  BY DEF RemoveTicket, Deleting
<1>2. GalleryTypeOK /\ exporting = {} /\ (c # Core <=> c \in Client)
  BY <1>1, DeleterKnows
<1>3. PICK t \in Task : t = call[c].task /\ SnapshotsOf(t) /\ FilesOf(t) /\ CallOf(c, t)
  BY <1>1, DeleterKnows
<1>4. /\ tasks' = tasks /\ disk' = disk /\ worker' = worker /\ Serving' /\ SpoilsStay
      /\ \A u \in Task : Stays(u)
  BY <1>1, ArchiveAlone DEF SpoilsStay
<1>5. /\ tomb[t] = {} /\ place[t] # "library"
      /\ t \notin registered \/ ~Unspoiled(t, "unrecorded")
  BY <1>1, <1>3 DEF CallOf, Works, Hidden
<1>6. ticket' = [ticket EXCEPT ![t] = {}]
  BY <1>3 DEF RemoveTicket
<1>7. \A u \in Task : u # t => Untouched(u)
  BY <1>1, <1>2, <1>6 DEF GalleryTypeOK, Untouched
<1>8. Onward(c) /\ call'[c] = Idle
  BY <1>1, <1>2, StopGoesOn
<1>9. GalleryTypeOK'
  BY <1>1, <1>2, <1>6, <1>8 DEF GalleryTypeOK, Onward, CallRecord, Doings
<1>10. SnapshotsOf(t)'
  BY <1>1, <1>3, <1>4 DEF SnapshotsOf, Unspoiled, Proper
<1>11. FilesOf(t)'
  <2> HIDE DEF Owned, Entered
  <2> QED
    BY <1>1, <1>2, <1>3, <1>4, <1>5 DEF FilesOf, Unspoiled, Sound, Holds
<1>12. CallOf(c, t)'
  BY <1>8, IdleIsACall, NoCall, Distinct
<1>13. Holds(t) => Holds(t)'
  BY <1>1 DEF Holds
<1> QED
  BY <1>1, <1>3, <1>4, <1>7, <1>8, <1>9, <1>10, <1>11, <1>12, <1>13, DeletionKeeps

-----------------------------------------------------------------------------
(* Opening and closing. *)

\* While the Core recovers deletions, nobody else does anything.
LEMMA Recovering ==
  ASSUME GalleryInv, boot = "tickets"
  PROVE  /\ exporting = {} /\ job = NoJob /\ \A c \in Client : call[c] = Idle
         /\ \A t \in Task : tasks[t] = disk[t] /\ worker[t] = "none"
BY DEF GalleryInv, Phases

\* A ticket with nothing under it is dropped, a tombstone is taken up where its deletion ended.
LEMMA RecoverDeletionKeeps ==
  ASSUME Inherited, GalleryInv, NEW t \in Task, RecoverDeletion(t)
  PROVE  GalleryInv'
<1>1. /\ boot = "tickets" /\ Serving /\ call[Core] = Idle /\ ticket[t] # {}
      /\ UNCHANGED <<vars, downloaded, place, sidecar, tomb, registered, job, preview, exporting,
                     spoiled>>
  BY DEF RecoverDeletion
<1>2. /\ GalleryTypeOK /\ Phases /\ Calling /\ Locking /\ \A u \in Task : LibraryOf(u)
  BY Parts
<1>3. /\ exporting = {} /\ job = NoJob /\ (\A c \in Client : call[c] = Idle)
      /\ \A u \in Task : tasks[u] = disk[u] /\ worker[u] = "none"
  BY <1>1, Recovering
<1>4. \A c \in Caller : call[c] = Idle
  BY <1>1, <1>3, Distinct
<1>5. /\ tasks' = tasks /\ disk' = disk /\ worker' = worker /\ Serving' /\ SpoilsStay
      /\ \A u \in Task : Stays(u)
  BY <1>1, ArchiveAlone DEF SpoilsStay
<1>6. SnapshotsOf(t) /\ FilesOf(t)
  BY <1>2 DEF LibraryOf
<1>7. SnapshotsOf(t)'
  BY <1>1, <1>5, <1>6 DEF SnapshotsOf, Unspoiled, Proper
<1>8. CASE tomb[t] = {} /\ ticket' = [ticket EXCEPT ![t] = {}] /\ UNCHANGED <<boot, call>>
  <2>1. GalleryTypeOK'
    BY <1>1, <1>2, <1>8 DEF GalleryTypeOK
  <2>2. Phases'
    BY <1>1, <1>3, <1>5, <1>8, PhasesRecovering, IdleIsACall
  <2>3. Calling'
    BY <1>2, <1>5, <1>8 DEF Calling
  <2>4. Locking'
    BY <1>1, <1>3, <1>4, <1>8, LockingFree, IdleIsACall DEF Deleting
  <2>5. \A u \in Task : u # t => LibraryOf(u)'
    BY <1>1, <1>2, <1>5, <1>8, Nowhere DEF GalleryTypeOK, Untouched
  <2>6. (Owned(t) <=> Owned(t)') /\ (Entered(t) <=> Entered(t)')
    BY <1>1, <1>5, <1>8 DEF Owned, Entered, Works, Unspoiled
  <2>7. FilesOf(t)'
    <3> HIDE DEF Owned, Entered
    <3> QED
      BY <1>1, <1>5, <1>6, <1>8, <2>6 DEF FilesOf, Unspoiled, Sound, Holds
  <2>8. \A c \in Caller : CallOf(c, t)'
    BY <1>4, <1>8, NoCall, IdleIsACall, Distinct
  <2> QED
    BY <1>7, <2>1, <2>2, <2>3, <2>4, <2>5, <2>7, <2>8, Together DEF LibraryOf, CallsOf
<1>9. CASE /\ tomb[t] # {} /\ UNCHANGED ticket
           /\ place[t] = "library" \/ ~(tomb[t] \subseteq {"dir"} \cup ticket[t])
           /\ boot' = "failed" /\ call' = [call EXCEPT ![Core] = Idle]
  <2>1. Stop(Core)
    BY <1>9 DEF Stop
  <2>2. Quit(Core) /\ call'[Core] = Idle
    BY <1>2, <2>1, StopEnds, Distinct
  <2>3. GalleryTypeOK'
    BY <1>1, <1>2, <1>9, <2>2 DEF GalleryTypeOK, Quit, CallRecord, Doings
  <2>4. \A c \in Caller : call'[c] = call[c] /\ call'[c] = Idle
    BY <1>4, <2>2 DEF Quit, OthersWait
  <2>5. Phases'
    BY <1>1, <1>3, <1>5, <1>9, <2>4, PhasesFailed
  <2>6. Calling'
    BY <1>2, <1>5, <2>4 DEF Calling
  <2>7. Locking'
    BY <1>1, <1>3, <2>4, LockingFree, IdleIsACall DEF Deleting
  <2>8. \A u \in Task : LibraryOf(u)'
    BY <1>1, <1>2, <1>5, <1>9, <2>4, Nowhere DEF Untouched
  <2> QED
    BY <2>3, <2>5, <2>6, <2>7, <2>8, Together
<1>10. CASE /\ tomb[t] # {} /\ UNCHANGED <<ticket, boot>>
            /\ place[t] # "library" /\ tomb[t] \subseteq {"dir"} \cup ticket[t]
            /\ call' = [call EXCEPT ![Core] = [doing |-> "hidden", task |-> t, rest |-> {}]]
  <2>1. Begins(Core, "hidden", t, {})
    BY <1>2, <1>10, BeginBegins, Distinct DEF Doings, Deleting
  <2>2. GalleryTypeOK'
    BY <1>1, <1>2, <1>10, <2>1 DEF GalleryTypeOK, Begins, CallRecord, Doings
  <2>3. \A c \in Client : call'[c] = Idle
    BY <1>3, <2>1, Distinct DEF Begins, OthersWait
  <2>4. Phases'
    BY <1>1, <1>3, <1>5, <1>10, <2>1, <2>3, PhasesRecovering DEF Begins, Hidden
  <2>5. Calling'
    BY <1>2, <1>5, <2>1, <2>2, CallingKept, Distinct DEF Begins
  <2>6. Locking'
    BY <1>1, <1>3, <2>1, <2>3, IdleIsACall, NoJobIsNothing, Distinct
       DEF Locking, Begins, Deleting, Caller
  <2>7. \A u \in Task : u # t => LibraryOf(u)'
    BY <1>1, <1>2, <1>5, <1>10, <2>1, Elsewhere, IdleIsACall, Distinct DEF Begins, Untouched
  <2>8. OwnersStay(t) /\ Untouched(t)
    BY <1>1, <1>4, <1>10, IdleIsACall DEF OwnersStay, Works, Untouched
  <2>9. FilesOf(t)'
    BY <1>5, <1>6, <2>8, FilesKept
  <2>10. CallOf(Core, t)'
    <3>1. call'[Core].doing = "hidden" /\ Core \notin Client
      BY <2>1, Distinct DEF Begins
    <3> HIDE DEF Owned, Entered
    <3> QED
      BY <1>1, <1>10, <3>1 DEF CallOf, Works, Consuming, Hidden
  <2>11. \A c \in Client : CallOf(c, t)'
    BY <2>3, NoCall, IdleIsACall, Distinct
  <2> QED
    BY <1>7, <2>2, <2>4, <2>5, <2>6, <2>7, <2>9, <2>10, <2>11, Together, Distinct
       DEF LibraryOf, CallsOf
<1> QED
  BY <1>8, <1>9, <1>10 DEF RecoverDeletion

\* Whatever was consumed and has a path is in the library by then.
LEMMA RecoverRegistrationsKeeps ==
  ASSUME Inherited, GalleryInv, RecoverRegistrations
  PROVE  GalleryInv'
<1> DEFINE completed == {t \in Task : tasks[t].state = "Completed"}
           consumed == {t \in Task : tasks[t].state = "Consumed" /\ tasks[t].path}
<1>1. /\ boot = "tickets" /\ Serving /\ call[Core] = Idle /\ (\A t \in Task : ticket[t] = {})
      /\ registered' = registered \cup consumed /\ boot' = "consuming"
      /\ UNCHANGED <<vars, downloaded, place, sidecar, tomb, ticket, job, preview, exporting,
                     spoiled>>
  BY DEF RecoverRegistrations
<1>2. /\ GalleryTypeOK /\ Phases /\ Calling /\ Locking /\ \A u \in Task : LibraryOf(u)
  BY Parts
<1>3. /\ exporting = {} /\ job = NoJob /\ (\A c \in Client : call[c] = Idle)
      /\ \A u \in Task : tasks[u] = disk[u] /\ worker[u] = "none"
  BY <1>1, Recovering
<1>4. /\ tasks' = tasks /\ disk' = disk /\ worker' = worker /\ Serving' /\ SpoilsStay
      /\ \A u \in Task : Stays(u)
  BY <1>1, ArchiveAlone DEF SpoilsStay
<1>5. PICK rest \in SUBSET completed :
        \/ Begins(Core, "listing", NoTask, rest)
        \/ Quit(Core) /\ call'[Core] = Idle
  <2>1. CASE completed = {}
    <3>1. Stop(Core)
      BY <2>1 DEF RecoverRegistrations, Stop
    <3>2. Quit(Core) /\ call'[Core] = Idle
      BY <1>2, <3>1, StopEnds, Distinct
    <3> QED
      BY <3>2
  <2>2. CASE completed # {}
    <3>1. call' = [call EXCEPT ![Core] = [doing |-> "listing", task |-> NoTask, rest |-> completed]]
      BY <2>2 DEF RecoverRegistrations
    <3>2. completed \in SUBSET Task
      OBVIOUS
    <3> HIDE DEF completed
    <3>3. Begins(Core, "listing", NoTask, completed)
      BY <1>2, <3>1, <3>2, BeginBegins, Distinct DEF Doings
    <3> QED
      BY <3>3
  <2> QED
    BY <2>1, <2>2
<1>6. /\ call' \in [Caller -> CallRecord] /\ OthersWait(Core)
      /\ call'[Core].doing \in {"idle", "listing"} /\ call'[Core].task = NoTask
      /\ call'[Core].doing = "idle" => call'[Core] = Idle
      /\ \A t \in call'[Core].rest : tasks[t].state = "Completed"
  BY <1>5, IdleIsACall DEF Begins, Quit
<1>7. \A c \in Client : call'[c] = Idle
  BY <1>3, <1>6, Distinct DEF OthersWait
<1>8. GalleryTypeOK'
  BY <1>1, <1>2, <1>6 DEF GalleryTypeOK, CallRecord, Doings
<1>9. Phases'
  BY <1>1, <1>3, <1>4, <1>6, <1>7, PhasesConsuming
<1>10. Calling'
  BY <1>2, <1>4, <1>6, <1>8, CallingKept, Distinct
<1>11. Locking'
  BY <1>1, <1>3, <1>6, <1>7, LockingFree, IdleIsACall, Distinct DEF Deleting
<1>12. ASSUME NEW u \in Task PROVE LibraryOf(u)'
  <2>1. SnapshotsOf(u) /\ FilesOf(u) /\ CallsOf(u)
    BY <1>2 DEF LibraryOf
  <2>2. SnapshotsOf(u)'
    BY <1>1, <1>4, <2>1 DEF SnapshotsOf, Unspoiled, Proper
  <2>3. \A c \in Caller : call[c] = Idle
    BY <1>1, <1>3, Distinct
  <2>4. (Owned(u) => Owned(u)') /\ (Entered(u) => Entered(u)')
    BY <1>1, <1>4, <2>3, IdleIsACall DEF Owned, Entered, Works, Unspoiled
  <2>5. Sound(u)' /\ u \in registered' => u \in registered \/ Holds(u)
    BY <1>1, <1>3, <2>1 DEF FilesOf, Sound, Unspoiled
  <2>6. FilesOf(u)'
    <3> HIDE DEF Owned, Entered
    <3> QED
      BY <1>1, <1>4, <2>1, <2>4, <2>5 DEF FilesOf, Unspoiled, Sound, Holds
  <2>7. \A c \in Caller : CallOf(c, u)'
    BY <1>6, <1>7, NoCall, IdleIsACall, Distinct
  <2> QED
    BY <2>2, <2>6, <2>7 DEF LibraryOf, CallsOf
<1> QED
  BY <1>8, <1>9, <1>10, <1>11, <1>12, Together

\* The opening ends when nothing is left to recover.
LEMMA BootDoneKeeps ==
  ASSUME Inherited, GalleryInv, BootDone
  PROVE  GalleryInv'
<1>1. /\ boot = "consuming" /\ Serving /\ call[Core] = Idle /\ boot' = "done"
      /\ UNCHANGED <<vars, files, actors, spoiled>>
  BY DEF BootDone
<1>2. /\ GalleryTypeOK /\ Phases /\ Calling /\ Locking /\ \A u \in Task : LibraryOf(u)
  BY Parts
<1>3. GalleryTypeOK'
  BY <1>1, <1>2 DEF GalleryTypeOK, files, actors
<1>4. Phases'
  BY <1>1, ArchiveAlone, PhasesServed DEF actors
<1>5. Calling'
  BY <1>1, <1>2, ArchiveAlone DEF Calling, actors
<1>6. Locking'
  BY <1>1, <1>2 DEF Locking, files, actors, Unspoiled
<1>7. \A u \in Task : LibraryOf(u)'
  BY <1>1, <1>2, ArchiveAlone, Nowhere DEF Untouched, SpoilsStay, files, actors
<1> QED
  BY <1>3, <1>4, <1>5, <1>6, <1>7, Together

\* A shutdown takes nothing from the library.
LEMMA GalleryShutdownKeeps ==
  ASSUME Inherited, GalleryInv, GalleryShutdown
  PROVE  GalleryInv'
<1>1. /\ UNCHANGED galleryVars /\ tasks' = tasks /\ disk' = disk /\ worker' = worker
      /\ Serving /\ Serving'
  BY DEF GalleryShutdown, BeginShutdown, store, running, Serving
<1>2. /\ GalleryTypeOK /\ Phases /\ Calling /\ Locking /\ \A u \in Task : LibraryOf(u)
  BY Parts
<1>3. GalleryTypeOK'
  BY <1>1, <1>2 DEF GalleryTypeOK, galleryVars, files, actors
<1>4. Phases'
  BY <1>1, <1>2 DEF Phases, galleryVars, files, actors
<1>5. Calling'
  BY <1>1, <1>2 DEF Calling, galleryVars, actors
<1>6. Locking'
  BY <1>1, <1>2 DEF Locking, galleryVars, files, actors, Unspoiled
<1>7. \A u \in Task : LibraryOf(u)'
  BY <1>1, <1>2, Nowhere DEF Untouched, Stays, SpoilsStay, galleryVars, files, actors
<1> QED
  BY <1>3, <1>4, <1>5, <1>6, <1>7, Together

\* What a crash leaves half way is spoiled; everything else is on the disk.
LEMMA GalleryCloseKeeps ==
  ASSUME Inherited, GalleryInv, GalleryClose
  PROVE  GalleryInv'
<1> DEFINE dropped == {<<call[c].task, "interrupted">> : c \in {d \in Caller : call[d].doing \in Consuming}}
           cut == {<<t, "interrupted">> : t \in {u \in Task : job.task = u /\ job.doing # "writing"}}
<1>1. /\ core' = "closed" /\ tasks' = tasks /\ disk' = disk
      /\ boot' = "closed" /\ job' = NoJob /\ call' = [c \in Caller |-> Idle]
      /\ preview' = [c \in Client |-> NoPreview] /\ exporting' = {}
      /\ spoiled' = (spoiled \cup dropped) \cup cut
      /\ UNCHANGED files
  BY DEF GalleryClose, Close, store
<1>2. /\ GalleryTypeOK /\ Phases /\ Calling /\ Locking /\ \A u \in Task : LibraryOf(u)
  BY Parts
<1>3. dropped \subseteq Task \X {"interrupted", "unrecorded", "abandoned", "unregistered"}
  BY <1>2, CallHasTask DEF Consuming
<1>4. cut \subseteq Task \X {"interrupted", "unrecorded", "abandoned", "unregistered"}
  OBVIOUS
<1>5. SpoilsStay /\ \A c \in Caller : call[c].doing \in Consuming => <<call[c].task, "interrupted">> \in spoiled'
  BY <1>1 DEF SpoilsStay
<1> HIDE DEF dropped, cut
<1>6. \A c \in Caller : call'[c] = Idle
  BY <1>1
<1>7. GalleryTypeOK'
  BY <1>1, <1>2, <1>3, <1>4, IdleIsACall, Distinct
     DEF GalleryTypeOK, files, NoPreview, NoJob, CallRecord, Doings
<1>8. Phases'
  BY <1>1, <1>6, Distinct DEF Phases, Serving
<1>9. Calling'
  BY <1>6, IdleIsACall DEF Calling
<1>10. Locking'
  BY <1>1, <1>6, LockingFree, IdleIsACall DEF Deleting
<1>11. ASSUME NEW u \in Task PROVE LibraryOf(u)'
  <2>1. SnapshotsOf(u) /\ FilesOf(u)
    BY <1>2 DEF LibraryOf
  <2>2. Stays(u) /\ Untouched(u)
    BY <1>1 DEF Stays, Untouched, files
  <2>3. OwnersStay(u)
    BY <1>5 DEF OwnersStay, Works, Unspoiled, Consuming
  <2>4. \A c \in Caller : CallOf(c, u)'
    BY <1>6, NoCall, IdleIsACall, Distinct
  <2> QED
    BY <1>5, <2>1, <2>2, <2>3, <2>4, SnapshotsKept, FilesKept DEF LibraryOf, CallsOf
<1> QED
  BY <1>7, <1>8, <1>9, <1>10, <1>11, Together

\* What open() reads is what the library was left with.
LEMMA GalleryOpenKeeps ==
  ASSUME Inherited, GalleryInv, GalleryOpen
  PROVE  GalleryInv'
<1>1. /\ core = "closed" /\ core' = "open" /\ boot' = "tickets" /\ worker' = worker
      /\ UNCHANGED <<files, actors, spoiled>>
  BY DEF GalleryOpen, Open, running
<1>2. /\ GalleryTypeOK /\ Phases /\ Calling /\ Locking /\ \A u \in Task : LibraryOf(u)
  BY Parts
<1>3. boot = "closed" /\ exporting = {} /\ job = NoJob /\ \A c \in Caller : call[c] = Idle
  BY <1>1, <1>2, Distinct DEF Phases, Serving
<1>4. \A u \in Task : worker[u] = "none"
  BY <1>1 DEF Inherited, IInv, TaskInv, Backing, Serving
<1>5. \A u \in Task : tasks'[u] = Recovered(disk[u]) /\ disk'[u] = Recovered(disk[u])
  BY DEF GalleryOpen, Open
<1>6. \A c \in Caller : call'[c] = call[c] /\ call'[c] = Idle
  BY <1>1, <1>3 DEF actors
<1>7. GalleryTypeOK'
  BY <1>1, <1>2 DEF GalleryTypeOK, files, actors
<1>8. Phases'
  <2>1. Serving'
    BY <1>1 DEF Serving
  <2> QED
    BY <1>1, <1>3, <1>4, <1>5, <1>6, <2>1, PhasesRecovering, IdleIsACall, Distinct DEF actors
<1>9. Calling'
  BY <1>6, IdleIsACall DEF Calling
<1>10. Locking'
  BY <1>1, <1>3, <1>6, LockingFree, IdleIsACall DEF Deleting, actors
<1>11. ASSUME NEW u \in Task PROVE LibraryOf(u)'
  <2>1. SnapshotsOf(u) /\ FilesOf(u)
    BY <1>2 DEF LibraryOf
  <2>2. PICK s : s = Recovered(disk[u])
    OBVIOUS
  <2>3. disk[u] \in SnapshotSet(Nat)
    BY DEF Inherited, IInv, TypeOK
  <2>4. /\ s.state = "Consumed" <=> disk[u].state = "Consumed"
        /\ s.state = "Completed" <=> disk[u].state = "Completed"
        /\ s.state = "absent" <=> disk[u].state = "absent"
        /\ s.path = disk[u].path /\ Proper(s)
    BY <2>1, <2>2, <2>3 DEF Recovered, SnapshotSet, SnapshotsOf, Proper, Live, Terminal
  <2>5. tasks'[u] = s /\ disk'[u] = s
    BY <1>5, <2>2
  <2>6. SnapshotsOf(u)'
    BY <1>1, <2>1, <2>4, <2>5 DEF SnapshotsOf, files, Unspoiled
  <2>7. (Owned(u) => Owned(u)') /\ (Entered(u) => Entered(u)')
    BY <1>1, <1>6, <2>4, <2>5 DEF Owned, Entered, Works, Unspoiled, files
  <2>8. FilesOf(u)'
    <3> HIDE DEF Owned, Entered
    <3> QED
      BY <1>1, <1>3, <2>1, <2>4, <2>5, <2>7 DEF FilesOf, Unspoiled, Sound, Holds, files, actors
  <2>9. \A c \in Caller : CallOf(c, u)'
    BY <1>6, NoCall, IdleIsACall, Distinct
  <2> QED
    BY <2>6, <2>8, <2>9 DEF LibraryOf, CallsOf
<1> QED
  BY <1>7, <1>8, <1>9, <1>10, <1>11, Together

-----------------------------------------------------------------------------
(* What ArchiveService does by itself. *)

\* It moves one task, which stays as it is once there is something to consume; before requests
\* are served it moves none.
LEMMA ArchiveStepMoves ==
  ASSUME Inherited, GalleryInv, NEW t \in Task, ArchiveStep(t)
  PROVE  /\ Evolves(t) /\ core' = core
         /\ \A u \in Task : u # t => Stays(u)
         /\ boot = "tickets" => worker' = worker /\ \A u \in Task : Stays(u)
<1>1. IInv /\ TypeOK
  BY DEF Inherited, IInv
<1>2. Proper(tasks[t])
  BY Parts
<1>3. Request(t) \/ Work(t)
  BY DEF ArchiveStep
<1>4. Evolves(t)
  BY <1>1, <1>2, <1>3, RequestEvolves, WorkEvolves
<1>5. \A u \in Task : u # t => Frame(u)
  BY <1>1, <1>3, RequestFrame, WorkFrame
<1>6. core' = core
  BY <1>3 DEF Request, Work, Start, Retry, Spawn, Cancel, DropStart, DropRequest, Submit, Bought,
              BoughtButNotSaved, NotBought, GiveUp, Download, Progress, EndTransfer, Finalize,
              Leave, Settle, Downloading, life
<1>7. ASSUME boot = "tickets" PROVE worker' = worker /\ \A u \in Task : Stays(u)
  <2>1. Work(t) /\ worker[t] = "none"
    BY <1>7, Recovering DEF ArchiveStep
  <2>2. Leave(t)
    BY <2>1, NoWorkerYet
  <2> QED
    BY <2>2 DEF Leave, store, running, Stays
<1> QED
  BY <1>4, <1>5, <1>6, <1>7 DEF Frame, Stays

\* What it does so keeps the invariant of the library.
LEMMA ArchiveStepKeeps ==
  ASSUME Inherited, GalleryInv, NEW t \in Task, ArchiveStep(t), Inherited'
  PROVE  GalleryInv'
<1>1. /\ UNCHANGED <<boot, place, sidecar, tomb, ticket, registered, actors, spoiled>>
      /\ downloaded' = IF tasks'[t].state = "Completed" /\ tasks[t].state # "Completed"
                       THEN downloaded \cup {t} ELSE downloaded
  BY DEF ArchiveStep
<1>2. /\ GalleryTypeOK /\ Phases /\ Calling /\ Locking /\ \A u \in Task : LibraryOf(u)
  BY Parts
<1>3. /\ Evolves(t) /\ core' = core
      /\ \A u \in Task : u # t => Stays(u)
      /\ boot = "tickets" => worker' = worker /\ \A u \in Task : Stays(u)
  BY ArchiveStepMoves
<1>4. \A u \in Task : tasks[u].state \in {"Completed", "Consumed"} => Stays(u)
  BY <1>3 DEF Evolves, Advances, Begun
<1>5. GalleryTypeOK'
  BY <1>1, <1>2 DEF GalleryTypeOK, actors
<1>6. Phases'
  BY <1>1, <1>2, <1>3 DEF Phases, Serving, actors, Stays
<1>7. Calling'
  <2>1. \A c \in Caller : call'[c] = call[c] /\ call[c].rest \subseteq Task
    BY <1>1, <1>2, CallTypes DEF actors
  <2> QED
    BY <1>2, <1>4, <2>1 DEF Calling, Stays
<1>8. Locking'
  BY <1>1, <1>2 DEF Locking, actors, Unspoiled
<1>9. ASSUME NEW u \in Task, u # t PROVE LibraryOf(u)'
  BY <1>1, <1>2, <1>3, <1>9, Nowhere DEF Untouched, SpoilsStay, actors
<1>10. LibraryOf(t)'
  <2>1. SnapshotsOf(t) /\ FilesOf(t) /\ CallsOf(t)
    BY <1>2 DEF LibraryOf
  <2>2. CASE Stays(t)
    <3>1. downloaded' = downloaded
      BY <1>1, <2>2 DEF Stays
    <3> QED
      BY <1>1, <1>2, <2>2, <3>1, Nowhere DEF Untouched, SpoilsStay, actors
  <2>3. CASE ~Stays(t)
    <3>1. /\ tasks[t].state \notin {"Completed", "Consumed"} /\ disk[t].state # "Consumed"
          /\ tasks'[t].state # "Consumed" /\ disk'[t].state # "Consumed"
          /\ Proper(tasks'[t]) /\ Proper(disk'[t])
          /\ tasks'[t].state = "Completed" => t \in downloaded'
          /\ disk'[t].state = "Completed"
               => disk[t].state = "Completed" \/ tasks'[t].state = "Completed"
          /\ t \in downloaded => t \in downloaded'
          /\ t \in downloaded' => t \in downloaded \/ tasks'[t].state = "Completed"
      BY <1>1, <1>3, <2>1, <2>3 DEF Evolves, Advances, Begun, Proper, SnapshotsOf
    <3>2. /\ tasks[t].state # "absent" => tasks'[t].state # "absent"
          /\ disk[t].state # "absent" => disk'[t].state # "absent"
      BY <1>3, <2>3 DEF Evolves, Advances, Begun
    <3>3. tasks'[t].state = "Completed" => disk'[t].state # "absent"
      <4>1. Charges(t)' /\ Serving'
        BY <1>1, <1>2, <1>3 DEF Inherited, IInv, TaskInv, ArchiveStep, Request, Work, Start, Retry,
             Spawn, Cancel, DropStart, DropRequest, Submit, Bought, BoughtButNotSaved, NotBought,
             GiveUp, Download, Progress, EndTransfer, Finalize, Leave, Serving
      <4> QED
        BY <4>1 DEF Charges
    <3>4. SnapshotsOf(t)'
      BY <1>1, <2>1, <3>1, <3>2, <3>3 DEF SnapshotsOf, Unspoiled
    <3>5. (Owned(t) => Owned(t)') /\ (Entered(t) => Entered(t)')
      BY <1>1, <3>1 DEF Owned, Entered, Works, Unspoiled, actors
    <3>6. FilesOf(t)'
      <4> HIDE DEF Owned, Entered
      <4> QED
        BY <1>1, <2>1, <3>1, <3>5 DEF FilesOf, Unspoiled, Sound, Holds, actors
    <3>7. ASSUME NEW c \in Caller PROVE CallOf(c, t)'
      <4>1. CallOf(c, t) /\ call'[c] = call[c]
        BY <1>1, <2>1 DEF CallsOf, actors
      <4>2. \A what : Works(c, t, what)' <=> Works(c, t, what)
        BY <4>1 DEF Works
      <4>3. ~Works(c, t, Consuming) /\ ~Works(c, t, {"marked", "erased"})
        BY <3>1, <4>1 DEF CallOf
      <4>4. Works(c, t, {"consumed"}) => Works(c, t, Consuming)
        BY DEF Works, Consuming
      <4> HIDE DEF Owned, Entered, Works
      <4> QED
        BY <1>1, <3>5, <4>1, <4>2, <4>3, <4>4 DEF CallOf, Unspoiled, Sound, Files
    <3> QED
      BY <3>4, <3>6, <3>7 DEF LibraryOf, CallsOf
  <2> QED
    BY <2>2, <2>3
<1> QED
  BY <1>5, <1>6, <1>7, <1>8, <1>9, <1>10, Together

-----------------------------------------------------------------------------
(* The library, step by step. *)

\* An empty library has everything the invariant asks for.
LEMMA GalleryStarts == GalleryInit => Inherited /\ GalleryInv
<1> SUFFICES ASSUME GalleryInit PROVE Inherited /\ GalleryInv
  OBVIOUS
<1>1. Init
  BY DEF GalleryInit
<1>2. Inherited
  BY <1>1, InvInit, HeardInit DEF Inherited
<1>3. /\ Serving /\ \A t \in Task : tasks[t] = Absent /\ disk[t] = Absent
  BY <1>1 DEF Init, Serving
<1>4. \A c \in Caller : call[c] = Idle
  BY DEF GalleryInit
<1>5. GalleryTypeOK
  BY IdleIsACall, Distinct DEF GalleryInit, GalleryTypeOK, NoJob, NoPreview, CallRecord, Doings
<1>6. Phases
  BY <1>3, <1>4, Distinct DEF GalleryInit, Phases
<1>7. Calling
  BY <1>4, IdleIsACall DEF Calling
<1>8. Locking
  BY <1>4, IdleIsACall, NoJobIsNothing, Distinct DEF GalleryInit, Locking, Deleting
<1>9. ASSUME NEW t \in Task PROVE LibraryOf(t)
  <2>1. /\ tasks[t].state = "absent" /\ ~tasks[t].path
        /\ disk[t].state = "absent" /\ ~disk[t].path
    BY <1>3 DEF Absent, Snapshot
  <2>2. /\ t \notin downloaded /\ place[t] = "none" /\ tomb[t] = {} /\ t \notin registered
        /\ exporting = {}
    BY DEF GalleryInit
  <2>3. SnapshotsOf(t)
    BY <2>1, <2>2 DEF SnapshotsOf, Proper
  <2>4. FilesOf(t)
    BY <2>1, <2>2 DEF FilesOf
  <2>5. CallsOf(t)
    BY <1>4, IdleIsACall, Distinct DEF CallsOf, CallOf, Works
  <2> QED
    BY <2>3, <2>4, <2>5 DEF LibraryOf
<1> QED
  BY <1>2, <1>5, <1>6, <1>7, <1>8, <1>9 DEF GalleryInv

\* Every step of the library keeps its invariant.
LEMMA GalleryKeeps ==
  ASSUME Inherited, GalleryInv, [GalleryNext]_galleryStep
  PROVE  Inherited' /\ GalleryInv'
<1>1. Inherited'
  BY Parts, InheritedStep
<1>2. ASSUME GalleryNext PROVE GalleryInv'
  <2>1. ASSUME NEW c \in Caller, Consumption(c) PROVE GalleryInv'
    BY <2>1, ListCompletedKeeps, BeginConsumeKeeps, RegisterKeeps, ReportConsumedKeeps
       DEF Consumption
  <2>2. ASSUME NEW c \in Caller, Deletion(c) PROVE GalleryInv'
    BY <2>2, HideKeeps, UnregisterKeeps, ReportDeletedKeeps, EraseKeeps, RemoveTicketKeeps
       DEF Deletion
  <2>3. ASSUME NEW c \in Client, ClientAsks(c) PROVE GalleryInv'
    BY <2>3, ConfirmKeeps, DropCallKeeps, PreviewKeeps, ImportKeeps, BeginComicInfoKeeps,
       DeleteComicInfoKeeps, BeginExportKeeps, EndExportKeeps, Distinct DEF ClientAsks
  <2>4. CASE Thread
    BY <2>4, StageKeeps, CommitKeeps, UndoKeeps, EndComicInfoKeeps DEF Thread
  <2>5. CASE Opening
    BY <2>5, RecoverDeletionKeeps, RecoverRegistrationsKeeps, BootDoneKeeps DEF Opening
  <2>6. ASSUME NEW t \in Task, ArchiveStep(t) PROVE GalleryInv'
    BY <1>1, <2>6, ArchiveStepKeeps
  <2>7. CASE GalleryOpen \/ GalleryClose \/ GalleryShutdown
    BY <2>7, GalleryOpenKeeps, GalleryCloseKeeps, GalleryShutdownKeeps
  <2> QED
    BY <1>2, <2>1, <2>2, <2>3, <2>4, <2>5, <2>6, <2>7 DEF GalleryNext
<1>3. ASSUME UNCHANGED galleryStep PROVE GalleryInv'
  <2>1. UNCHANGED <<vars, boot, files, job, call, spoiled>> /\ exporting' = exporting
        /\ preview' = preview
    BY <1>3 DEF galleryStep, galleryVars, actors
  <2>2. GalleryTypeOK'
    BY <2>1, Parts DEF GalleryTypeOK, files
  <2> QED
    BY <1>1, <2>1, <2>2, AllKept
<1> QED
  BY <1>1, <1>2, <1>3

\* The library as a whole keeps its invariant, and that of the archive service with it.
LEMMA GalleryInvariance == GallerySpec => [](Inherited /\ GalleryInv)
<1>1. (Inherited /\ GalleryInv) /\ [GalleryNext]_<<vars, galleryVars>> => (Inherited /\ GalleryInv)'
  BY GalleryKeeps DEF galleryStep
<1> QED
  BY <1>1, GalleryStarts, PTL DEF GallerySpec

-----------------------------------------------------------------------------
\* LocalGalleryService uses the archive tasks as ArchiveService allows: with the library beside
\* it, every step the library makes is a step of ArchiveService or leaves its tasks, files and
\* workers alone, so that all that is proved of that service holds of the two together.
THEOREM LibraryImplementsArchive == GallerySpec => Spec
<1>1. GalleryInit => Init
  BY DEF GalleryInit
<1>2. GalleryInv /\ [GalleryNext]_<<vars, galleryVars>> => [Next]_vars
  BY StepsAreArchiveSteps, Parts DEF galleryVars
<1> QED
  BY <1>1, <1>2, GalleryInvariance, PTL DEF GallerySpec, Spec

\* So does what matters most of it, with the library's requests, threads and restarts beside
\* it: what an archive costs is accounted for, its URL and its outcome outlive a restart,
\* its transfer has the slot to itself, and its end is told.
THEOREM LibraryKeepsPromises ==
  GallerySpec => /\ [](CostIsAccounted /\ DownloadHasUrlAndSlot /\ SettlementIsAnnounced)
                 /\ UrlIsKept
                 /\ ImplementsDurableTasks
BY LibraryImplementsArchive, CostIsSafe, SlotSafety, SettlementsAreAnnounced, UrlSafety,
   ArchivesAreDurable, PTL

\* The library's directories, registry, tickets, callers and lock keep their types.
THEOREM LibraryTypes == GallerySpec => []GalleryTypeOK
<1>1. GalleryInv => GalleryTypeOK
  BY Parts
<1> QED
  BY <1>1, GalleryInvariance, PTL

\* The directories of the library, the registry, the tickets and the saved tasks agree, for any
\* number of tasks, clients and exports, through every crash, failed write and dropped request
\* of a consumption, a deletion or an import in gallery.rs, up to the faults that are named.
THEOREM LibraryAgrees == GallerySpec => []LibraryIsConsistent
<1>1. GalleryInv => LibraryIsConsistent
  <2> SUFFICES ASSUME GalleryInv PROVE LibraryIsConsistent
    OBVIOUS
  <2>1. /\ GalleryTypeOK /\ Calling
        /\ \A t \in Task : FilesOf(t) /\ SnapshotsOf(t)
    BY Parts
  <2>2. RegisteredIsPresent
    BY <2>1 DEF RegisteredIsPresent, FilesOf, Sound, Unspoiled, Spoiled, GalleryTypeOK
  <2>3. TombstoneHasTicket
    BY <2>1 DEF TombstoneHasTicket, FilesOf, Unspoiled, Spoiled
  <2>4. SavedTaskHasZip
    BY <2>1 DEF SavedTaskHasZip, FilesOf, Sound, Unspoiled, Spoiled, Holds
  <2>5. GalleryIsConsumed
    BY <2>1 DEF GalleryIsConsumed, FilesOf, Unspoiled, Spoiled, Owned, Entered, Works
  <2>6. ExportIsStable
    BY <2>1 DEF ExportIsStable, FilesOf, GalleryTypeOK
  <2> QED
    BY <2>2, <2>3, <2>4, <2>5, <2>6 DEF LibraryIsConsistent
<1> QED
  BY <1>1, GalleryInvariance, PTL

\* GalleryService::open() returns only when the deletions that a crash had cut short are over:
\* neither a ticket nor a tombstone is left but of what was abandoned.
THEOREM OpeningEndsDeletions == GallerySpec => OpeningFinishesDeletions
<1>1. GalleryInv /\ [GalleryNext]_<<vars, galleryVars>> =>
        [boot' = "done" /\ boot # "done" =>
           \A t \in Task \ Spoiled("abandoned") : tomb'[t] = {} /\ ticket'[t] = {}]_<<vars, galleryVars>>
  <2> SUFFICES ASSUME GalleryInv, GalleryNext, boot' = "done", boot # "done"
               PROVE  \A t \in Task \ Spoiled("abandoned") : tomb'[t] = {} /\ ticket'[t] = {}
    BY DEF galleryVars
  <2>1. BootDone
    <3>1. ASSUME NEW c \in Caller, Consumption(c) PROVE boot' = boot
      BY <3>1 DEF Consumption, ListCompleted, BeginConsume, Register, ReportConsumed
    <3>2. ASSUME NEW c \in Caller, Deletion(c) PROVE boot' \in {boot, "failed"}
      BY <3>2 DEF Deletion, Hide, Unregister, ReportDeleted, Erase, RemoveTicket, UndoHide, Restore
    <3>3. ASSUME NEW c \in Client, ClientAsks(c) PROVE boot' = boot
      BY <3>3 DEF ClientAsks, Confirm, DropCall, Preview, Import, BeginComicInfo,
                  DeleteComicInfo, BeginExport, EndExport
    <3>4. ASSUME Thread PROVE boot' = boot
      BY <3>4 DEF Thread, Stage, Commit, Undo, EndComicInfo
    <3>5. ASSUME Opening PROVE BootDone \/ boot' # "done"
      BY <3>5 DEF Opening, RecoverDeletion, RecoverRegistrations
    <3>6. ASSUME NEW t \in Task, ArchiveStep(t) PROVE boot' = boot
      BY <3>6 DEF ArchiveStep
    <3>7. ASSUME GalleryOpen \/ GalleryClose \/ GalleryShutdown PROVE boot' # "done" \/ boot = "done"
      BY <3>7 DEF GalleryOpen, GalleryClose, GalleryShutdown
    <3> QED
      BY <3>1, <3>2, <3>3, <3>4, <3>5, <3>6, <3>7 DEF GalleryNext
  <2>2. /\ boot = "consuming" /\ tomb' = tomb /\ ticket' = ticket
        /\ \A t \in Task : FilesOf(t) /\ ticket[t] = {}
    BY <2>1, Parts DEF BootDone, files, Phases
  <2> QED
    BY <2>2 DEF FilesOf, Unspoiled, Spoiled
<1> QED
  BY <1>1, GalleryInvariance, PTL DEF GallerySpec, OpeningFinishesDeletions
=============================================================================

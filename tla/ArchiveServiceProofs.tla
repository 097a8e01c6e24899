------------------------- MODULE ArchiveServiceProofs -------------------------
(***************************************************************************)
(* Proofs about ArchiveService, for every set of tasks and all bounds, with *)
(* failing writes, dropped requests, crashes and restarts, and about the   *)
(* file one of its transfers puts together.                                *)
(*                                                                         *)
(* The inductive invariant is stated for one task at a time, in three      *)
(* parts: what its worker, its request and its state have to do with each  *)
(* other (Backing), what is known of its URL (Urls), and of its cost       *)
(* (Charges).  An action touches one task; for the others it is a frame.   *)
(***************************************************************************)
EXTENDS ArchiveService, ArchiveTransfer, SequenceTheorems, TLAPS

-----------------------------------------------------------------------------
(* Snapshots. *)

\* What the handlers make of a snapshot.
LEMMA SnapshotShape ==
  ASSUME NEW st \in Live \cup Terminal, NEW rev \in Nat, NEW url \in BOOLEAN,
         NEW path \in BOOLEAN
  PROVE  /\ Snapshot(st, rev, url, path) \in SnapshotSet(Nat)
         /\ Snapshot(st, rev, url, path).state = st
         /\ Snapshot(st, rev, url, path).url = url
         /\ Snapshot(st, rev, url, path).revision = rev
BY DEF Snapshot, SnapshotSet

\* What transition() makes of a task.
LEMMA MovedShape ==
  ASSUME TypeOK, NEW t \in Task, NEW st \in Live \cup Terminal
  PROVE  /\ Moved(t, st) \in SnapshotSet(Nat)
         /\ Moved(t, st).state = st
         /\ Moved(t, st).url = tasks[t].url
         /\ Moved(t, st).revision \in Nat
<1>1. tasks[t] \in SnapshotSet(Nat)
  BY DEF TypeOK
<1>2. tasks[t].revision + 1 \in Nat /\ tasks[t].url \in BOOLEAN /\ tasks[t].path \in BOOLEAN
  BY <1>1 DEF SnapshotSet
<1>3. QED
  BY <1>2, SnapshotShape DEF Moved

\* What the handlers change in a snapshot besides.
LEMMA EditedShape ==
  ASSUME NEW s \in SnapshotSet(Nat), NEW b \in BOOLEAN
  PROVE  /\ [s EXCEPT !.url = b] \in SnapshotSet(Nat)
         /\ [s EXCEPT !.url = b].state = s.state
         /\ [s EXCEPT !.url = b].url = b
         /\ [s EXCEPT !.url = b].revision \in Nat
         /\ [s EXCEPT !.path = b] \in SnapshotSet(Nat)
         /\ [s EXCEPT !.path = b].state = s.state
         /\ [s EXCEPT !.path = b].url = s.url
         /\ [s EXCEPT !.path = b].revision \in Nat
BY DEF SnapshotSet

\* What is shown of a URL that could not be saved.
LEMMA UnknownShape ==
  ASSUME TypeOK, NEW t \in Task
  PROVE  LET unknown == Snapshot("CostUnknown", tasks[t].revision + 2, TRUE, tasks[t].path)
         IN  unknown \in SnapshotSet(Nat) /\ unknown.state = "CostUnknown" /\ unknown.url
<1>1. tasks[t] \in SnapshotSet(Nat)
  BY DEF TypeOK
<1>2. tasks[t].revision + 2 \in Nat /\ tasks[t].path \in BOOLEAN
  BY <1>1 DEF SnapshotSet
<1>3. QED
  BY <1>2, SnapshotShape DEF Terminal

\* What start() makes.
LEMMA NewShape ==
  LET new == Snapshot("Submitting", 1, FALSE, FALSE)
  IN  new \in SnapshotSet(Nat) /\ new.state = "Submitting" /\ ~new.url
BY SnapshotShape DEF Live

\* What open() makes of a file.
LEMMA RecoveredShape ==
  ASSUME NEW s \in SnapshotSet(Nat)
  PROVE  /\ Recovered(s) \in SnapshotSet(Nat)
         /\ Recovered(s).url = s.url
         /\ Recovered(s).revision = s.revision
         /\ Recovered(s).state \in Terminal \cup {"absent", "Ready"}
         /\ Recovered(s).state = "absent" <=> s.state = "absent"
         /\ Recovered(s).state = "Ready" <=> s.state = "Ready"
         /\ Recovered(s).state \notin {"absent", "CostUnknown"}
              => s.state \notin {"absent", "Submitting", "CostUnknown"}
BY DEF Recovered, SnapshotSet, Live, Terminal

-----------------------------------------------------------------------------
(* The inductive invariant. *)

\* What a task's state, its request, its worker and the slot say of each other.
Backing(t) ==
  /\ request[t] = "none" \/ worker[t] = "none"
  /\ t \in stranded => request[t] = "none" /\ worker[t] = "none"
  /\ ~Serving => request[t] = "none" /\ worker[t] = "none" /\ t \notin stranded
  /\ Serving => (tasks[t].state \in Live
                    <=> request[t] # "none" \/ worker[t] # "none" \/ t \in stranded)
  /\ request[t] = "submitting" \/ worker[t] \in {"submitting", "charged"}
       => tasks[t].state = "Submitting"
  /\ request[t] = "waiting" \/ worker[t] = "waiting" => tasks[t].state = "Ready"
  /\ worker[t] \in {"downloading"} \cup Returned => tasks[t].state = "Downloading"
  /\ t \in slot <=> worker[t] = "downloading"

\* A state that only a task with a signed URL reaches.
Paid(snapshot) == snapshot.state \in {"absent", "Submitting", "CostUnknown"} \/ snapshot.url

\* What is known of a task's signed URL, here and in its file.
Urls(t) ==
  /\ Paid(tasks[t])
  /\ Paid(disk[t])
  /\ disk[t].url => tasks[t].url

\* When a task may be charged, and that its file exists by then.
Charges(t) ==
  /\ charged[t] <= 1
  /\ request[t] = "submitting" \/ worker[t] = "submitting" => charged[t] = 0
  /\ disk[t].state = "absent"
       => charged[t] = 0 /\ request[t] = "none" /\ worker[t] = "none"
  /\ tasks[t].state # "absent" /\ Serving => disk[t].state # "absent"

OneHolder == \A t, u \in slot : t = u

TaskInv(t) == Backing(t) /\ Urls(t) /\ Charges(t)

IInv == TypeOK /\ OneHolder /\ \A t \in Task : TaskInv(t)

\* Nothing happens to this task.
Frame(t) ==
  /\ core' = core
  /\ tasks'[t] = tasks[t] /\ disk'[t] = disk[t]
  /\ request'[t] = request[t] /\ worker'[t] = worker[t]
  /\ charged'[t] = charged[t]
  /\ t \in stranded' <=> t \in stranded
  /\ t \in slot' <=> t \in slot

\* A task to which nothing happens keeps its invariant.
LEMMA FrameKeeps ==
  ASSUME NEW t \in Task, TaskInv(t), Frame(t)
  PROVE  TaskInv(t)'
BY DEF TaskInv, Backing, Urls, Charges, Paid, Frame, Serving

-----------------------------------------------------------------------------
(* Types. *)

\* The service starts well typed.
LEMMA TypeInit == Init => TypeOK
BY ArchiveAssumption DEF Init, TypeOK, Absent, Snapshot, SnapshotSet

\* And every step keeps it so.
LEMMA TypeStep == TypeOK /\ [Next]_vars => TypeOK'
<1> SUFFICES ASSUME TypeOK, [Next]_vars PROVE TypeOK'
  OBVIOUS
<1>1. ASSUME NEW t \in Task, Request(t) PROVE TypeOK'
  <2>1. CASE Start(t)
    BY <2>1, NewShape DEF TypeOK, Start, Save, Show, Announce, life, running, faults
  <2>2. CASE Retry(t)
    BY <2>2, MovedShape DEF TypeOK, Retry, Save, Show, Announce, life, running, Live
  <2>3. CASE Spawn(t)
    BY <2>3 DEF TypeOK, Spawn, At, life, store, faults
  <2>4. CASE Cancel(t)
    BY <2>4 DEF TypeOK, Cancel, life, store, running, faults
  <2>5. CASE DropStart(t)
    BY <2>5, NewShape DEF TypeOK, DropStart, Save, life, running, faults
  <2>6. CASE DropRequest(t)
    BY <2>6 DEF TypeOK, DropRequest, life, store, running
  <2>7. QED
    BY <1>1, <2>1, <2>2, <2>3, <2>4, <2>5, <2>6 DEF Request
<1>2. ASSUME NEW t \in Task, Work(t) PROVE TypeOK'
  <2>0. ASSUME NEW s \in SnapshotSet(Nat), Settle(t, s), slot' = slot PROVE TypeOK'
    <3>1. s.revision \in Nat
      BY DEF SnapshotSet
    <3>2. QED
      BY <2>0, <3>1 DEF TypeOK, Settle, Show, Save, TrySave, At, life, faults
  <2>d. ASSUME Downloading(t), worker' \in [Task -> {"none", "submitting", "charged",
                 "waiting", "downloading"} \cup Returned], slot' \in SUBSET Task
        PROVE  TypeOK'
    BY <2>d, MovedShape
    DEF TypeOK, Downloading, Show, Save, TrySave, Announce, life, faults, Live
  <2>1. CASE Submit(t)
    BY <2>1 DEF TypeOK, Submit, At, life, store, faults
  <2>2. CASE Bought(t)
    <3> DEFINE ready == [Moved(t, "Ready") EXCEPT !.url = TRUE]
    <3>1. ready \in SnapshotSet(Nat) /\ ready.revision \in Nat
      BY MovedShape, EditedShape DEF Live
    <3>2. QED
      BY <2>2, <3>1 DEF TypeOK, Bought, Show, Save, Announce, At, life, faults
  <2>3. CASE BoughtButNotSaved(t)
    BY <2>3, UnknownShape DEF TypeOK, BoughtButNotSaved, Show, Save, TrySave, At, life
  <2>4. CASE NotBought(t)
    BY <2>4, <2>0, MovedShape DEF NotBought, Terminal
  <2>5. CASE GiveUp(t)
    BY <2>5, <2>0, MovedShape DEF GiveUp, Terminal
  <2>6. CASE Download(t)
    BY <2>6, <2>d DEF Download, At, TypeOK
  <2>7. CASE Progress(t)
    BY <2>7, <2>d DEF Progress, running, TypeOK
  <2>8. CASE EndTransfer(t)
    BY <2>8 DEF TypeOK, EndTransfer, At, life, store, faults
  <2>9. CASE Finalize(t)
    BY <2>9, <2>0, MovedShape, EditedShape DEF Finalize, Returned, Terminal
  <2>10. CASE Leave(t)
    BY <2>10 DEF TypeOK, Leave, Announce, life, store, running, faults
  <2>11. QED
    BY <1>2, <2>1, <2>2, <2>3, <2>4, <2>5, <2>6, <2>7, <2>8, <2>9, <2>10 DEF Work
<1>3. ASSUME NEW t \in Task, Consume(t) PROVE TypeOK'
  <2>0. ASSUME NEW s \in SnapshotSet(Nat), Reported(t, s) PROVE TypeOK'
    <3>1. s.revision \in Nat
      BY DEF SnapshotSet
    <3>2. QED
      BY <2>0, <3>1 DEF TypeOK, Reported, Show, Save, Announce, life, running
  <2>1. QED
    BY <1>3, <2>0, MovedShape, EditedShape DEF Consume, MarkConsumed, MarkDeleted, Terminal
<1>4. CASE BeginShutdown
  BY <1>4 DEF TypeOK, BeginShutdown, store, running, faults
<1>5. CASE Close
  BY <1>5 DEF TypeOK, Close, store
<1>6. CASE Open
  <2>1. \A t \in Task : Recovered(disk[t]) \in SnapshotSet(Nat)
                         /\ Recovered(disk[t]).revision \in Nat
    BY RecoveredShape DEF TypeOK, SnapshotSet
  <2>2. QED
    BY <1>6, <2>1, ArchiveAssumption DEF TypeOK, Open, running
<1>7. CASE UNCHANGED vars
  BY <1>7 DEF TypeOK, vars, life, store, running, faults
<1>8. QED
  BY <1>1, <1>2, <1>3, <1>4, <1>5, <1>6, <1>7 DEF Next

-----------------------------------------------------------------------------
(* An action leaves the other tasks alone. *)

\* A request changes nothing of the others.
LEMMA RequestFrame ==
  ASSUME TypeOK, NEW t \in Task, Request(t), NEW u \in Task, u # t
  PROVE  Frame(u)
<1>1. CASE Start(t)
  BY <1>1 DEF TypeOK, Frame, Start, Save, Show, life, running, faults
<1>2. CASE Retry(t)
  BY <1>2 DEF TypeOK, Frame, Retry, Save, Show, life, running
<1>3. CASE Spawn(t)
  BY <1>3 DEF TypeOK, Frame, Spawn, At, life, store, faults
<1>4. CASE Cancel(t)
  BY <1>4 DEF TypeOK, Frame, Cancel, life, store, running, faults
<1>5. CASE DropStart(t)
  BY <1>5 DEF TypeOK, Frame, DropStart, Save, life, running, faults
<1>6. CASE DropRequest(t)
  BY <1>6 DEF TypeOK, Frame, DropRequest, life, store, running
<1>7. QED
  BY <1>1, <1>2, <1>3, <1>4, <1>5, <1>6 DEF Request

\* Nor does what a worker does.
LEMMA WorkFrame ==
  ASSUME TypeOK, NEW t \in Task, Work(t), NEW u \in Task, u # t
  PROVE  Frame(u)
<1>1. CASE Submit(t)
  BY <1>1 DEF TypeOK, Frame, Submit, At, life, store, faults
<1>2. CASE Bought(t)
  BY <1>2 DEF TypeOK, Frame, Bought, Save, Show, At, life, faults
<1>3. CASE BoughtButNotSaved(t)
  BY <1>3 DEF TypeOK, Frame, BoughtButNotSaved, Save, Show, TrySave, At, life
<1>4. CASE NotBought(t)
  BY <1>4 DEF TypeOK, Frame, NotBought, Settle, Save, Show, TrySave, At, life, faults
<1>5. CASE GiveUp(t)
  BY <1>5 DEF TypeOK, Frame, GiveUp, Settle, Save, Show, TrySave, At, life, faults
<1>6. CASE Download(t)
  BY <1>6 DEF TypeOK, Frame, Download, Downloading, Save, Show, TrySave, At, life, faults
<1>7. CASE Progress(t)
  BY <1>7 DEF TypeOK, Frame, Progress, Downloading, Save, Show, TrySave, life, running, faults
<1>8. CASE EndTransfer(t)
  BY <1>8 DEF TypeOK, Frame, EndTransfer, At, life, store, faults
<1>9. CASE Finalize(t)
  BY <1>9 DEF TypeOK, Frame, Finalize, Settle, Save, Show, TrySave, At, life, faults
<1>10. CASE Leave(t)
  BY <1>10 DEF TypeOK, Frame, Leave, life, store, running, faults
<1>11. QED
  BY <1>1, <1>2, <1>3, <1>4, <1>5, <1>6, <1>7, <1>8, <1>9, <1>10 DEF Work

\* Nor what the library reports.
LEMMA ConsumeFrame ==
  ASSUME TypeOK, NEW t \in Task, Consume(t), NEW u \in Task, u # t
  PROVE  Frame(u)
<1>1. CASE MarkConsumed(t)
  BY <1>1 DEF TypeOK, Frame, MarkConsumed, Reported, Save, Show, life, running
<1>2. CASE MarkDeleted(t)
  BY <1>2 DEF TypeOK, Frame, MarkDeleted, Reported, Save, Show, life, running
<1>3. QED
  BY <1>1, <1>2 DEF Consume

-----------------------------------------------------------------------------
(* What an action does to its own task. *)

\* A request keeps the invariant of the task it is for.
LEMMA ArchiveRequestStep ==
  ASSUME TypeOK, NEW t \in Task, TaskInv(t), Request(t)
  PROVE  TaskInv(t)'
<1> USE DEF TaskInv, Backing, Urls, Charges, Paid, Serving, Live
<1>1. CASE Start(t)
  <2> DEFINE submitting == Snapshot("Submitting", 1, FALSE, FALSE)
  <2>1. /\ tasks[t] = Absent /\ disk[t] = Absent
        /\ tasks'[t] = submitting /\ disk'[t] = submitting
        /\ request'[t] = "submitting"
    BY <1>1 DEF TypeOK, Start, Save, Show
  <2>2. Absent.state = "absent"
    BY DEF Absent, Snapshot
  <2> HIDE DEF submitting
  <2>3. submitting.state = "Submitting" /\ ~submitting.url
    BY NewShape DEF submitting
  <2>4. /\ request[t] = "none" /\ worker[t] = "none" /\ charged[t] = 0
        /\ t \notin stranded /\ t \notin slot
    BY <1>1, <2>1, <2>2 DEF Start
  <2>5. /\ core' = core /\ worker' = worker /\ slot' = slot /\ charged' = charged
        /\ stranded' = stranded
    BY <1>1 DEF Start, life, running, faults
  <2>6. Backing(t)' /\ Urls(t)' /\ Charges(t)'
    BY <1>1, <2>1, <2>3, <2>4, <2>5 DEF Start, Returned
  <2>7. QED
    BY <2>6
<1>2. CASE Retry(t)
  <2> DEFINE ready == Moved(t, "Ready")
  <2>1. ready.state = "Ready" /\ ready.url = tasks[t].url
    BY MovedShape
  <2> HIDE DEF ready
  <2>2. tasks'[t] = ready /\ disk'[t] \in {ready, disk[t]}
    BY <1>2 DEF TypeOK, Retry, Save, Show, ready
  <2>3. \/ request'[t] = "waiting" /\ stranded' = stranded /\ disk'[t] = ready
        \/ request' = request /\ stranded' = stranded \cup {t} /\ disk' = disk
    BY <1>2 DEF TypeOK, Retry, Save, Show, ready
  <2>4. QED
    BY <1>2, <2>1, <2>2, <2>3 DEF Retry, life, running
<1>3. CASE Spawn(t)
  <2>1. /\ worker'[t] = request[t] /\ request'[t] = "none" /\ request[t] # "none"
        /\ request[t] \in {"submitting", "waiting"}
        /\ core' = core /\ tasks' = tasks /\ disk' = disk /\ slot' = slot
        /\ charged' = charged /\ stranded' = stranded
    BY <1>3 DEF TypeOK, Spawn, At, life, store, faults
  <2>2. QED
    BY <1>3, <2>1 DEF Returned
<1>4. CASE Cancel(t)
  BY <1>4 DEF Cancel, life, store, running, faults
<1>5. CASE DropStart(t)
  <2>1. tasks[t] = Absent /\ disk[t] = Absent
        /\ disk'[t] = Snapshot("Submitting", 1, FALSE, FALSE)
    BY <1>5 DEF TypeOK, DropStart, Save
  <2>2. QED
    BY <1>5, <2>1, NewShape DEF DropStart, Absent, Snapshot, life, running, faults
<1>6. CASE DropRequest(t)
  BY <1>6 DEF TypeOK, DropRequest, life, store, running
<1>7. QED
  BY <1>1, <1>2, <1>3, <1>4, <1>5, <1>6 DEF Request

\* So does settling a task, in whatever state.
LEMMA SettleStep ==
  ASSUME TypeOK, NEW t \in Task, TaskInv(t), Serving, worker[t] # "none",
         worker[t] # "downloading",
         NEW s \in SnapshotSet(Nat), s.state \in Terminal, Paid(s),
         s.url = tasks[t].url,
         Settle(t, s), slot' = slot
  PROVE  TaskInv(t)'
<1>1. /\ tasks'[t] = s
      /\ disk'[t] \in {s, disk[t]}
      /\ worker'[t] = "none"
      /\ core' = core /\ request' = request /\ charged' = charged /\ stranded' = stranded
  BY DEF TypeOK, Settle, Show, TrySave, Save, At, life, faults
<1>2. s.state \notin Live \cup {"absent"}
  BY DEF Live, Terminal
<1>3. tasks[t].state \in Live /\ t \notin stranded /\ request[t] = "none" /\ t \notin slot
  BY DEF TaskInv, Backing
<1>4. Backing(t)'
  BY <1>1, <1>2, <1>3 DEF TaskInv, Backing, Serving, Returned
<1>5. Urls(t)'
  BY <1>1 DEF TaskInv, Urls, Paid
<1>6. Charges(t)'
  BY <1>1, <1>2, <1>3 DEF TaskInv, Backing, Charges, Serving
<1>7. QED
  BY <1>4, <1>5, <1>6 DEF TaskInv

\* And showing how a download gets on.
LEMMA DownloadingStep ==
  ASSUME TypeOK, NEW t \in Task, TaskInv(t), Serving,
         worker[t] \in {"waiting", "downloading"},
         Downloading(t), worker'[t] = "downloading", t \in slot'
  PROVE  TaskInv(t)'
<1> DEFINE s == Moved(t, "Downloading")
<1>0. s.state = "Downloading" /\ s.url = tasks[t].url
  BY MovedShape DEF Live
<1> HIDE DEF s
<1>1. /\ tasks'[t] = s
      /\ disk'[t] \in {s, disk[t]}
      /\ core' = core /\ request' = request /\ charged' = charged /\ stranded' = stranded
  BY DEF TypeOK, Downloading, Show, TrySave, Save, life, faults, s
<1>2. /\ tasks[t].state \in {"Ready", "Downloading"} /\ t \notin stranded
      /\ request[t] = "none"
  BY DEF TaskInv, Backing
<1>3. Backing(t)'
  BY <1>0, <1>1, <1>2 DEF TaskInv, Backing, Serving, Live
<1>4. Urls(t)'
  BY <1>0, <1>1, <1>2 DEF TaskInv, Urls, Paid
<1>5. Charges(t)'
  BY <1>0, <1>1, <1>2 DEF TaskInv, Backing, Charges, Serving
<1>6. QED
  BY <1>3, <1>4, <1>5 DEF TaskInv

\* What a worker does keeps the invariant of its task.
LEMMA WorkStep ==
  ASSUME TypeOK, NEW t \in Task, TaskInv(t), Work(t)
  PROVE  TaskInv(t)'
<1>1. CASE Submit(t)
  <2>1. charged[t] = 0 /\ charged'[t] = 1 /\ worker'[t] = "charged"
    BY <1>1 DEF TypeOK, TaskInv, Charges, Submit, At
  <2>2. QED
    BY <1>1, <2>1
    DEF TaskInv, Backing, Urls, Charges, Paid, Serving, Submit, life, store, faults, Returned
<1>2. CASE Bought(t)
  <2> DEFINE ready == [Moved(t, "Ready") EXCEPT !.url = TRUE]
  <2>1. ready.state = "Ready" /\ ready.url
    BY MovedShape, EditedShape DEF Live
  <2> HIDE DEF ready
  <2>2. tasks'[t] = ready /\ disk'[t] = ready /\ worker'[t] = "waiting"
    BY <1>2 DEF TypeOK, Bought, Show, Save, At, ready
  <2>3. QED
    BY <1>2, <2>1, <2>2
    DEF TaskInv, Backing, Urls, Charges, Paid, Serving, Live, Bought, life, faults, Returned
<1>3. CASE BoughtButNotSaved(t)
  <2> DEFINE unknown == Snapshot("CostUnknown", tasks[t].revision + 2, TRUE, tasks[t].path)
  <2>1. unknown.state = "CostUnknown" /\ unknown.url
    BY UnknownShape
  <2> HIDE DEF unknown
  <2>2. tasks'[t] = unknown /\ disk'[t] \in {unknown, disk[t]} /\ worker'[t] = "none"
    BY <1>3 DEF TypeOK, BoughtButNotSaved, Show, TrySave, Save, At, unknown
  <2>3. QED
    BY <1>3, <2>1, <2>2
    DEF TaskInv, Backing, Urls, Charges, Paid, Serving, Live, BoughtButNotSaved, life, Returned
<1>4. CASE NotBought(t)
  <2>1. Moved(t, "CostUnknown") \in SnapshotSet(Nat)
        /\ Moved(t, "CostUnknown").state = "CostUnknown"
        /\ Moved(t, "CostUnknown").url = tasks[t].url
    BY MovedShape DEF Terminal
  <2>2. QED
    BY <1>4, <2>1, SettleStep DEF NotBought, Paid, Terminal
<1>5. CASE GiveUp(t)
  <2>1. tasks[t].url
    BY <1>5 DEF TaskInv, Backing, Urls, Paid, GiveUp
  <2>2. Moved(t, "Cancelled") \in SnapshotSet(Nat)
        /\ Moved(t, "Cancelled").state = "Cancelled"
        /\ Moved(t, "Cancelled").url = tasks[t].url
    BY MovedShape DEF Terminal
  <2>3. QED
    BY <1>5, <2>1, <2>2, SettleStep DEF GiveUp, Paid, Terminal
<1>6. CASE Download(t)
  BY <1>6, DownloadingStep DEF Download, At, TypeOK
<1>7. CASE Progress(t)
  BY <1>7, DownloadingStep DEF Progress, running, TaskInv, Backing
<1>8. CASE EndTransfer(t)
  <2>1. worker'[t] \in Returned /\ slot' = slot \ {t}
    BY <1>8 DEF TypeOK, EndTransfer, At
  <2>2. QED
    BY <1>8, <2>1
    DEF TaskInv, Backing, Urls, Charges, Paid, Serving, EndTransfer, life, store, faults,
        Returned
<1>9. CASE Finalize(t)
  <2>1. tasks[t].url /\ worker[t] \in Returned
    BY <1>9 DEF TaskInv, Backing, Urls, Paid, Finalize
  <2> DEFINE completed == [Moved(t, "Completed") EXCEPT !.path = TRUE]
  <2>2. \A st \in Returned : /\ Moved(t, st) \in SnapshotSet(Nat)
                             /\ Moved(t, st).state = st
                             /\ Moved(t, st).url = tasks[t].url
    BY MovedShape DEF Returned, Terminal
  <2>3. completed \in SnapshotSet(Nat) /\ completed.state = "Completed"
        /\ completed.url = tasks[t].url
    BY <2>2, EditedShape DEF Returned
  <2> HIDE DEF completed
  <2>4. PICK s \in {completed} \cup {Moved(t, st) : st \in Returned} : Settle(t, s)
    BY <1>9 DEF Finalize, Returned, completed
  <2>5. s \in SnapshotSet(Nat) /\ s.state \in Returned /\ s.url = tasks[t].url
    BY <2>2, <2>3 DEF Returned
  <2>6. Paid(s) /\ s.state \in Terminal
    BY <2>1, <2>5 DEF Paid, Returned, Terminal
  <2>7. QED
    BY <1>9, <2>1, <2>4, <2>5, <2>6, SettleStep DEF Finalize, Returned
<1>10. CASE Leave(t)
  BY <1>10
  DEF TaskInv, Backing, Urls, Charges, Paid, Serving, Leave, life, store, running, faults
<1>11. QED
  BY <1>1, <1>2, <1>3, <1>4, <1>5, <1>6, <1>7, <1>8, <1>9, <1>10 DEF Work

\* And so does what the library reports.
LEMMA ConsumeStep ==
  ASSUME TypeOK, NEW t \in Task, TaskInv(t), Consume(t)
  PROVE  TaskInv(t)'
<1>0. ASSUME NEW s, s.state \in {"Completed", "Consumed"}, s.url = tasks[t].url,
             Serving, tasks[t].state \in {"Completed", "Consumed"}, Reported(t, s)
      PROVE  TaskInv(t)'
  <2>1. tasks'[t] = s /\ disk'[t] \in {s, disk[t]}
    BY <1>0 DEF TypeOK, Reported, Show, Save
  <2>2. QED
    BY <1>0, <2>1
    DEF TaskInv, Backing, Urls, Charges, Paid, Serving, Live, Reported, life, running,
        Returned
<1>1. \A st \in {"Completed", "Consumed"} :
        /\ Moved(t, st) \in SnapshotSet(Nat)
        /\ Moved(t, st).state = st
        /\ Moved(t, st).url = tasks[t].url
  BY MovedShape DEF Terminal
<1>2. CASE MarkConsumed(t)
  BY <1>0, <1>1, <1>2 DEF MarkConsumed
<1>3. CASE MarkDeleted(t)
  <2> DEFINE s == [Moved(t, "Consumed") EXCEPT !.path = FALSE]
  <2>1. s.state = "Consumed" /\ s.url = tasks[t].url
    BY <1>1, EditedShape
  <2>2. Serving /\ tasks[t].state = "Consumed" /\ Reported(t, s)
    BY <1>3 DEF MarkDeleted
  <2> HIDE DEF s
  <2>3. QED
    BY <1>0, <2>1, <2>2
<1>4. QED
  BY <1>2, <1>3 DEF Consume

-----------------------------------------------------------------------------
(* The life of the Core. *)

\* Being told to stop changes no task.
LEMMA BeginShutdownStep ==
  ASSUME NEW t \in Task, TaskInv(t), BeginShutdown
  PROVE  TaskInv(t)'
BY DEF TaskInv, Backing, Urls, Charges, Paid, Serving, BeginShutdown, store, running, faults

\* With the process goes everything but the files.
LEMMA CloseStep ==
  ASSUME NEW t \in Task, TaskInv(t), Close
  PROVE  TaskInv(t)'
<1>1. /\ core' = "closed" /\ request'[t] = "none" /\ worker'[t] = "none"
      /\ t \notin slot' /\ t \notin stranded'
      /\ tasks' = tasks /\ disk' = disk /\ charged' = charged
  BY DEF Close, store
<1>2. Backing(t)'
  BY <1>1 DEF Backing, Serving, Returned
<1>3. QED
  BY <1>1, <1>2 DEF TaskInv, Urls, Charges, Paid, Serving

\* What is read back from the files is settled, or ready and stranded.
LEMMA OpenStep ==
  ASSUME TypeOK, NEW t \in Task, TaskInv(t), Open
  PROVE  TaskInv(t)'
<1> DEFINE read == Recovered(disk[t])
<1>1. disk[t] \in SnapshotSet(Nat)
  BY DEF TypeOK
<1>2. /\ read.url = disk[t].url
      /\ read.state \in Terminal \cup {"absent", "Ready"}
      /\ read.state = "absent" <=> disk[t].state = "absent"
      /\ read.state \notin {"absent", "CostUnknown"}
           => disk[t].state \notin {"absent", "Submitting", "CostUnknown"}
  BY <1>1, RecoveredShape
<1>3. /\ core' = "open" /\ tasks'[t] = read /\ disk'[t] = read
      /\ t \in stranded' <=> read.state = "Ready"
      /\ request' = request /\ worker' = worker /\ slot' = slot /\ charged' = charged
  BY DEF Open, running
<1> HIDE DEF read
<1>4. request[t] = "none" /\ worker[t] = "none" /\ t \notin slot
  BY DEF TaskInv, Backing, Open, Serving
<1>5. Backing(t)'
  BY <1>2, <1>3, <1>4 DEF Backing, Serving, Live, Terminal, Returned
<1>6. Urls(t)'
  BY <1>2, <1>3 DEF TaskInv, Urls, Paid
<1>7. Charges(t)'
  BY <1>2, <1>3, <1>4 DEF TaskInv, Charges, Serving
<1>8. QED
  BY <1>5, <1>6, <1>7 DEF TaskInv

\* Only one task gets the slot: whoever takes it finds it empty.
LEMMA OneHolderStep ==
  ASSUME OneHolder, [Next]_vars
  PROVE  OneHolder'
<1>1. ASSUME slot' \subseteq slot PROVE OneHolder'
  BY <1>1 DEF OneHolder
<1>2. ASSUME NEW t \in Task, Request(t) PROVE slot' \subseteq slot
  BY <1>2 DEF Request, Start, Retry, Spawn, Cancel, DropStart, DropRequest, running
<1>3. ASSUME NEW t \in Task, Work(t) PROVE slot' \subseteq slot \/ slot' = {t}
  BY <1>3 DEF Work, Submit, Bought, BoughtButNotSaved, NotBought, GiveUp, Download, Progress,
              EndTransfer, Finalize, Leave, running
<1>4. ASSUME NEW t \in Task, Consume(t) PROVE slot' \subseteq slot
  BY <1>4 DEF Consume, MarkConsumed, MarkDeleted, Reported, running
<1>5. CASE BeginShutdown \/ Close \/ Open \/ UNCHANGED vars
  BY <1>1, <1>5 DEF BeginShutdown, Close, Open, running, vars
<1>6. QED
  BY <1>1, <1>2, <1>3, <1>4, <1>5 DEF Next, OneHolder

-----------------------------------------------------------------------------
(* The theorems. *)

\* The invariant holds at the start.
LEMMA InvInit == Init => IInv
<1> SUFFICES ASSUME Init PROVE IInv
  OBVIOUS
<1>1. TypeOK
  BY TypeInit
<1>2. OneHolder
  BY DEF Init, OneHolder
<1>3. ASSUME NEW t \in Task PROVE TaskInv(t)
  <2>1. /\ Absent.state = "absent" /\ Absent.url = FALSE
    BY DEF Absent, Snapshot
  <2>2. QED
    BY <1>3, <2>1
    DEF Init, TaskInv, Backing, Urls, Charges, Paid, Serving, Live, Returned
<1>4. QED
  BY <1>1, <1>2, <1>3 DEF IInv

\* Every step keeps it: one lemma for the task an action is for, one for the rest.
LEMMA InvStep == IInv /\ [Next]_vars => IInv'
<1> SUFFICES ASSUME IInv, [Next]_vars PROVE IInv'
  OBVIOUS
<1> USE DEF IInv
<1>1. TypeOK' /\ OneHolder'
  BY TypeStep, OneHolderStep
<1>2. ASSUME NEW u \in Task PROVE TaskInv(u)'
  <2>1. ASSUME NEW t \in Task, Request(t) PROVE TaskInv(u)'
    BY <2>1, ArchiveRequestStep, RequestFrame, FrameKeeps
  <2>2. ASSUME NEW t \in Task, Work(t) PROVE TaskInv(u)'
    BY <2>2, WorkStep, WorkFrame, FrameKeeps
  <2>3. ASSUME NEW t \in Task, Consume(t) PROVE TaskInv(u)'
    BY <2>3, ConsumeStep, ConsumeFrame, FrameKeeps
  <2>4. CASE BeginShutdown
    BY <2>4, BeginShutdownStep
  <2>5. CASE Close
    BY <2>5, CloseStep
  <2>6. CASE Open
    BY <2>6, OpenStep
  <2>7. CASE UNCHANGED vars
    <3>1. Frame(u)
      BY <2>7 DEF Frame, vars, life, store, running, faults
    <3>2. QED
      BY <3>1, FrameKeeps
  <2>8. QED
    BY <2>1, <2>2, <2>3, <2>4, <2>5, <2>6, <2>7 DEF Next
<1>3. QED
  BY <1>1, <1>2

\* What a task's request, worker, state, URL and charges say of each other holds
\* in every reachable state.
THEOREM Invariance == Spec => []IInv
BY InvInit, InvStep, PTL DEF Spec

\* The service's data and files keep their shape (archive.rs: TaskSnapshot and the
\* maps of Inner).
THEOREM TypeCorrectness == Spec => []TypeOK
<1>1. IInv => TypeOK
  BY DEF IInv
<1>2. QED
  BY <1>1, Invariance, PTL

\* Neither retry() nor open() makes run_submission() spend the account's money on a
\* task a second time.
THEOREM CostSafety == Spec => []CostSubmittedOnce
<1>1. IInv => CostSubmittedOnce
  BY DEF IInv, TaskInv, Charges, CostSubmittedOnce
<1>2. QED
  BY <1>1, Invariance, PTL

\* A task that was charged is never saved as one the user would pay for again:
\* its file has the URL, or says that the cost is open.
THEOREM ChargeSafety == Spec => []ChargeIsAccounted
<1>1. ASSUME IInv PROVE ChargeIsAccounted
  <2>1. ASSUME NEW t \in Task, charged[t] > 0
        PROVE  disk[t].url \/ disk[t].state \in {"Submitting", "CostUnknown"}
    <3>1. charged[t] # 0
      BY <2>1
    <3>2. disk[t].state # "absent" /\ Paid(disk[t])
      BY <1>1, <3>1 DEF IInv, TaskInv, Charges, Urls
    <3>3. QED
      BY <3>2 DEF Paid
  <2>2. QED
    BY <2>1 DEF ChargeIsAccounted
<1>2. QED
  BY <1>1, Invariance, PTL

\* A cost is submitted once and, however the request or the worker ends, never lost.
THEOREM CostIsSafe == Spec => []CostIsAccounted
BY CostSafety, ChargeSafety, PTL DEF CostIsAccounted

\* The worker that run_download() lets transfer has the download slot to itself and
\* the URL it needs.
THEOREM SlotSafety == Spec => []DownloadHasUrlAndSlot
<1>1. ASSUME IInv PROVE DownloadHasUrlAndSlot
  <2>1. ASSUME NEW t \in Task, worker[t] = "downloading" PROVE slot = {t} /\ tasks[t].url
    <3>1. t \in slot /\ tasks[t].state = "Downloading"
      BY <1>1, <2>1 DEF IInv, TaskInv, Backing
    <3>2. slot = {t}
      BY <1>1, <3>1 DEF IInv, OneHolder
    <3>3. QED
      BY <1>1, <3>1, <3>2 DEF IInv, TaskInv, Urls, Paid
  <2>2. QED
    BY <2>1 DEF DownloadHasUrlAndSlot
<1>2. QED
  BY <1>1, Invariance, PTL

\* A live task has exactly one request or worker to settle it, unless one of the
\* three faults the code allows has stranded it.
THEOREM BackingSafety == Spec => []LiveTaskIsBacked
<1>1. ASSUME IInv PROVE LiveTaskIsBacked
  <2> SUFFICES ASSUME Serving, NEW t \in Task
               PROVE  LET backing == {request[t], worker[t]} \ {"none"}
                      IN  /\ tasks[t].state \in Live <=> backing # {} \/ t \in stranded
                          /\ request[t] = "none" \/ worker[t] = "none"
                          /\ tasks[t].state = "Submitting"
                               => backing \subseteq {"submitting", "charged"}
                          /\ tasks[t].state = "Ready" => backing \subseteq {"waiting"}
                          /\ tasks[t].state = "Downloading"
                               => backing \subseteq {"downloading"} \cup Returned
    BY DEF LiveTaskIsBacked
  <2> DEFINE backing == {request[t], worker[t]} \ {"none"}
  <2>1. Backing(t) /\ TypeOK
    BY <1>1 DEF IInv, TaskInv
  <2>2. backing # {} <=> request[t] # "none" \/ worker[t] # "none"
    OBVIOUS
  <2>3. tasks[t].state \in Live <=> backing # {} \/ t \in stranded
    BY <2>1, <2>2 DEF Backing
  <2>4. /\ request[t] \in {"none", "submitting", "waiting"}
        /\ worker[t] \in {"none", "submitting", "charged", "waiting", "downloading"}
                         \cup Returned
    BY <2>1 DEF TypeOK
  <2>5. tasks[t].state = "Submitting" => backing \subseteq {"submitting", "charged"}
    BY <2>1, <2>4 DEF Backing
  <2>6. tasks[t].state = "Ready" => backing \subseteq {"waiting"}
    BY <2>1, <2>4 DEF Backing
  <2>7. tasks[t].state = "Downloading" => backing \subseteq {"downloading"} \cup Returned
    BY <2>1, <2>4 DEF Backing
  <2>8. QED
    BY <2>1, <2>3, <2>5, <2>6, <2>7 DEF Backing
<1>2. QED
  BY <1>1, Invariance, PTL

\* What any step writes to a file has the URL that was there.
LEMMA UrlStep ==
  ASSUME IInv, [Next]_vars, NEW u \in Task, disk[u].url
  PROVE  disk'[u].url
<1>0. TypeOK /\ TaskInv(u) /\ tasks[u].url
  BY DEF IInv, TaskInv, Urls
<1>1. ASSUME NEW t \in Task, Request(t) PROVE disk'[u].url
  <2>1. CASE t # u
    BY <1>0, <1>1, <2>1, RequestFrame DEF Frame
  <2>2. CASE t = u
    <3>1. disk[u] # Absent
      BY <2>2 DEF Absent, Snapshot
    <3>2. disk'[u] \in {disk[u], Moved(u, "Ready")}
      BY <1>0, <1>1, <2>2, <3>1
      DEF TypeOK, Request, Start, Retry, Spawn, Cancel, DropStart, DropRequest, Save, store
    <3>3. QED
      BY <1>0, <3>2, MovedShape DEF Live
  <2>3. QED
    BY <2>1, <2>2
<1>2. ASSUME NEW t \in Task, Work(t) PROVE disk'[u].url
  <2>1. CASE t # u
    BY <1>0, <1>2, <2>1, WorkFrame DEF Frame
  <2>2. CASE t = u
    <3> DEFINE ready     == [Moved(u, "Ready") EXCEPT !.url = TRUE]
               completed == [Moved(u, "Completed") EXCEPT !.path = TRUE]
               unknown   == Snapshot("CostUnknown", tasks[u].revision + 2, TRUE,
                                     tasks[u].path)
               plain     == {Moved(u, st) : st \in Terminal \cup {"Downloading"}}
    <3>1. ready.url /\ completed.url /\ unknown.url
      <4>1. ready.url
        BY <1>0, MovedShape, EditedShape DEF Live
      <4>2. completed.url
        BY <1>0, MovedShape, EditedShape DEF Terminal
      <4>3. unknown.url
        BY <1>0, UnknownShape
      <4>4. QED
        BY <4>1, <4>2, <4>3
    <3>2. \A s \in plain : s.url
      BY <1>0, MovedShape DEF Live
    <3> HIDE DEF ready, completed, unknown
    <3>3. ASSUME NEW s, TrySave(u, s) PROVE disk'[u] \in {disk[u], s}
      BY <1>0, <3>3 DEF TypeOK, TrySave, Save
    <3>4. disk'[u] \in {disk[u], ready, completed, unknown} \cup plain
      <4>1. CASE Submit(u) \/ EndTransfer(u) \/ Leave(u)
        BY <4>1 DEF Submit, EndTransfer, Leave, store
      <4>2. CASE Bought(u)
        BY <1>0, <4>2 DEF TypeOK, Bought, Save, ready
      <4>3. CASE BoughtButNotSaved(u)
        BY <3>3, <4>3 DEF BoughtButNotSaved, unknown
      <4>4. CASE NotBought(u) \/ GiveUp(u)
        BY <3>3, <4>4 DEF NotBought, GiveUp, Settle, Terminal
      <4>5. CASE Download(u) \/ Progress(u)
        BY <3>3, <4>5 DEF Download, Progress, Downloading
      <4>6. CASE Finalize(u)
        BY <3>3, <4>6 DEF Finalize, Settle, Returned, Terminal, completed
      <4>7. QED
        BY <1>2, <2>2, <4>1, <4>2, <4>3, <4>4, <4>5, <4>6 DEF Work
    <3>5. QED
      BY <3>1, <3>2, <3>4
  <2>3. QED
    BY <2>1, <2>2
<1>3. ASSUME NEW t \in Task, Consume(t) PROVE disk'[u].url
  <2>1. CASE t # u
    BY <1>0, <1>3, <2>1, ConsumeFrame DEF Frame
  <2>2. CASE t = u
    <3> DEFINE deleted == [Moved(u, "Consumed") EXCEPT !.path = FALSE]
               plain   == {Moved(u, "Consumed"), Moved(u, "Completed")}
    <3>1. deleted.url /\ \A s \in plain : s.url
      BY <1>0, MovedShape, EditedShape DEF Terminal
    <3> HIDE DEF deleted
    <3>2. ASSUME NEW s, Reported(u, s) PROVE disk'[u] \in {disk[u], s}
      BY <1>0, <3>2 DEF TypeOK, Reported, Save
    <3>3. disk'[u] \in {disk[u], deleted} \cup plain
      BY <1>3, <2>2, <3>2 DEF Consume, MarkConsumed, MarkDeleted, deleted
    <3>4. QED
      BY <3>1, <3>3
  <2>3. QED
    BY <2>1, <2>2
<1>4. CASE BeginShutdown \/ Close \/ UNCHANGED vars
  BY <1>4 DEF BeginShutdown, Close, store, vars
<1>5. CASE Open
  BY <1>0, <1>5, RecoveredShape DEF Open, TypeOK
<1>6. QED
  BY <1>1, <1>2, <1>3, <1>4, <1>5 DEF Next

\* A signed URL that was saved, and paid for, is in the task's file for ever: no
\* failed write, retry() or open() loses it.
THEOREM UrlSafety == Spec => UrlIsKept
<1>1. IInv /\ [Next]_vars => [\A t \in Task : disk[t].url => disk'[t].url]_vars
  BY UrlStep
<1>2. QED
  BY <1>1, Invariance, PTL DEF Spec, UrlIsKept

-----------------------------------------------------------------------------
(* What is settled is announced. *)

\* What the event hub has been told of a task, what it is still to be told, and the rest.
Heard(t) ==
  /\ announced[t] <= tasks[t].revision
  /\ \A rev \in leaving[t] : rev <= tasks[t].revision
  /\ Serving /\ t \notin silenced /\ tasks[t].state \in Terminal
       => announced[t] = tasks[t].revision \/ tasks[t].revision \in leaving[t]
  /\ ~Serving => leaving[t] = {}

AllHeard == \A t \in Task : Heard(t)

\* Nothing happens that a subscriber should know of.
NoNews(t) ==
  /\ core' = core /\ tasks'[t] = tasks[t]
  /\ announced'[t] = announced[t] /\ leaving'[t] = leaving[t]
  /\ t \in silenced' <=> t \in silenced

\* The task of a Core that runs changes: the hub is told at once, by the worker that leaves, or need not be.
News(t) ==
  /\ Serving /\ core' = core
  /\ tasks[t].revision < tasks'[t].revision
  /\ \/ /\ announced'[t] = tasks'[t].revision /\ leaving'[t] = leaving[t]
     \/ /\ announced'[t] = announced[t]
        /\ leaving'[t] = leaving[t] \cup {tasks'[t].revision}
     \/ /\ announced'[t] = announced[t] /\ leaving'[t] = leaving[t]
        /\ t \in silenced' \/ tasks'[t].state \notin Terminal

LEMMA RevisionTypes ==
  ASSUME TypeOK, NEW t \in Task
  PROVE  /\ tasks[t].revision \in Nat /\ disk[t].revision \in Nat
         /\ announced[t] \in Nat /\ leaving[t] \in SUBSET Nat
         /\ \A st : Moved(t, st).revision = tasks[t].revision + 1 /\ Moved(t, st).state = st
BY DEF TypeOK, SnapshotSet, Moved, Snapshot

LEMMA NoNewsKeeps ==
  ASSUME NEW t \in Task, Heard(t), NoNews(t)
  PROVE  Heard(t)'
BY DEF Heard, NoNews, Serving

LEMMA NewsKeeps ==
  ASSUME TypeOK, TypeOK', NEW t \in Task, Heard(t), News(t)
  PROVE  Heard(t)'
<1>1. /\ tasks[t].revision \in Nat /\ tasks'[t].revision \in Nat
      /\ announced[t] \in Nat /\ leaving[t] \in SUBSET Nat
  BY RevisionTypes DEF TypeOK, SnapshotSet
<1>2. announced'[t] <= tasks'[t].revision
  BY <1>1 DEF Heard, News
<1>3. \A rev \in leaving'[t] : rev <= tasks'[t].revision
  BY <1>1 DEF Heard, News
<1>4. t \notin silenced' /\ tasks'[t].state \in Terminal
        => announced'[t] = tasks'[t].revision \/ tasks'[t].revision \in leaving'[t]
  BY DEF News
<1> QED
  BY <1>2, <1>3, <1>4 DEF Heard, News, Serving

\* The hub is told of a revision later than all it knows.
LEMMA AnnounceLatest ==
  ASSUME TypeOK, NEW t \in Task, Heard(t), NEW rev \in Nat, tasks[t].revision < rev,
         Announce(t, rev)
  PROVE  announced'[t] = rev
<1>1. announced[t] < rev
  BY RevisionTypes DEF Heard
<1> QED
  BY <1>1 DEF Announce, TypeOK

LEMMA RequestTells ==
  ASSUME TypeOK, TypeOK', NEW t \in Task, Heard(t), Request(t)
  PROVE  Heard(t)'
<1>0. tasks[t].revision \in Nat
  BY RevisionTypes
<1>1. CASE Start(t)
  <2>1. /\ Serving /\ tasks'[t] = Snapshot("Submitting", 1, FALSE, FALSE) /\ Announce(t, 1)
        /\ tasks[t].revision = 0 /\ UNCHANGED <<core, leaving, silenced>>
    BY <1>1 DEF Start, Show, TypeOK, Absent, Snapshot, life, faults
  <2>2. tasks'[t].revision = 1
    BY <2>1 DEF Snapshot
  <2>3. announced'[t] = 1
    BY <2>1, AnnounceLatest
  <2>4. News(t)
    <3>1. tasks[t].revision < tasks'[t].revision
      <4>1. tasks[t].revision = 0
        BY <2>1
      <4> QED
        BY <2>2, <4>1
    <3>2. Serving /\ core' = core /\ leaving'[t] = leaving[t] /\ announced'[t] = tasks'[t].revision
      BY <2>1, <2>2, <2>3
    <3> QED
      BY <3>1, <3>2 DEF News
  <2> QED
    BY <2>4, NewsKeeps
<1>2. CASE Retry(t)
  <2>1. /\ Serving /\ tasks'[t] = Moved(t, "Ready") /\ UNCHANGED <<core, leaving, silenced>>
        /\ Announce(t, Moved(t, "Ready").revision) \/ UNCHANGED announced
    BY <1>2 DEF Retry, Show, TypeOK, life
  <2>2. tasks'[t].revision = tasks[t].revision + 1 /\ tasks'[t].state = "Ready"
    BY <2>1, RevisionTypes
  <2>3. announced'[t] = tasks'[t].revision \/ announced' = announced
    BY <1>0, <2>1, <2>2, AnnounceLatest
  <2>4. tasks[t].revision < tasks'[t].revision /\ tasks'[t].state \notin Terminal
    BY <1>0, <2>2 DEF Terminal
  <2> QED
    BY <2>1, <2>3, <2>4, NewsKeeps DEF News
<1>3. CASE Spawn(t) \/ Cancel(t) \/ DropStart(t) \/ DropRequest(t)
  <2>1. NoNews(t)
    BY <1>3 DEF NoNews, Spawn, Cancel, DropStart, DropRequest, life, store, faults
  <2> QED
    BY <2>1, NoNewsKeeps
<1> QED
  BY <1>1, <1>2, <1>3 DEF Request

LEMMA SettleTells ==
  ASSUME TypeOK, TypeOK', NEW t \in Task, Heard(t),
         NEW s, s.revision = tasks[t].revision + 1, Serving, Settle(t, s)
  PROVE  Heard(t)'
<1>1. /\ tasks'[t] = s /\ leaving'[t] = leaving[t] \cup {s.revision}
      /\ UNCHANGED <<core, announced, silenced>>
  BY DEF Settle, Show, TypeOK, life, faults
<1>2. tasks[t].revision < tasks'[t].revision
  BY <1>1, RevisionTypes
<1> QED
  BY <1>1, <1>2, NewsKeeps DEF News

LEMMA DownloadingTells ==
  ASSUME TypeOK, TypeOK', NEW t \in Task, Heard(t), Serving, Downloading(t)
  PROVE  Heard(t)'
<1>1. /\ tasks'[t] = Moved(t, "Downloading") /\ UNCHANGED <<core, leaving, silenced>>
      /\ Announce(t, Moved(t, "Downloading").revision)
  BY DEF Downloading, Show, TypeOK, life, faults
<1>2. tasks'[t].revision = tasks[t].revision + 1 /\ tasks[t].revision \in Nat
  BY <1>1, RevisionTypes
<1>3. announced'[t] = tasks'[t].revision
  BY <1>1, <1>2, AnnounceLatest
<1> QED
  BY <1>1, <1>2, <1>3, NewsKeeps DEF News

\* What is sent when a worker leaves is not later than the task.
LEMMA LeaveTells ==
  ASSUME TypeOK, TypeOK', NEW t \in Task, Heard(t), Leave(t)
  PROVE  Heard(t)'
<1>1. PICK rev \in leaving[t] :
        leaving' = [leaving EXCEPT ![t] = @ \ {rev}] /\ Announce(t, rev)
  BY DEF Leave
<1>2. leaving'[t] = leaving[t] \ {rev} /\ UNCHANGED <<core, tasks, silenced>>
  BY <1>1 DEF Leave, TypeOK, life, store, faults
<1>3. /\ announced'[t] = IF announced[t] < rev THEN rev ELSE announced[t]
      /\ rev \in Nat /\ announced[t] \in Nat /\ tasks[t].revision \in Nat
      /\ leaving[t] \in SUBSET Nat
      /\ rev <= tasks[t].revision /\ announced[t] <= tasks[t].revision
  BY <1>1, RevisionTypes DEF Announce, TypeOK, Heard
<1>4. announced'[t] <= tasks[t].revision
  BY <1>3
<1>5. rev = tasks[t].revision \/ announced[t] = tasks[t].revision
        => announced'[t] = tasks[t].revision
  BY <1>3
<1> QED
  BY <1>2, <1>4, <1>5 DEF Heard, Serving

LEMMA WorkTells ==
  ASSUME TypeOK, TypeOK', NEW t \in Task, Heard(t), Work(t)
  PROVE  Heard(t)'
<1>0. tasks[t].revision \in Nat /\ tasks[t] \in SnapshotSet(Nat)
  BY RevisionTypes DEF TypeOK
<1>1. CASE Submit(t) \/ EndTransfer(t)
  <2>1. NoNews(t)
    BY <1>1 DEF NoNews, Submit, EndTransfer, life, store, faults
  <2> QED
    BY <2>1, NoNewsKeeps
<1>2. CASE Bought(t)
  <2> DEFINE ready == [Moved(t, "Ready") EXCEPT !.url = TRUE]
  <2>1. ready.revision = tasks[t].revision + 1
    BY DEF Moved, Snapshot
  <2> HIDE DEF ready
  <2>2. /\ Serving /\ tasks'[t] = ready /\ Announce(t, ready.revision)
        /\ UNCHANGED <<core, leaving, silenced>>
    BY <1>2 DEF Bought, Show, TypeOK, life, faults, ready
  <2>3. announced'[t] = ready.revision
    BY <1>0, <2>1, <2>2, AnnounceLatest
  <2> QED
    BY <1>0, <2>1, <2>2, <2>3, NewsKeeps DEF News
<1>3. CASE BoughtButNotSaved(t)
  <2>1. /\ tasks'[t].revision = tasks[t].revision + 2 /\ t \in silenced'
        /\ Serving /\ UNCHANGED <<core, leaving, announced>>
    BY <1>3 DEF BoughtButNotSaved, Show, TypeOK, life, Snapshot
  <2> QED
    BY <1>0, <2>1, NewsKeeps DEF News
<1>4. CASE NotBought(t) \/ GiveUp(t) \/ Finalize(t)
  <2>1. PICK s : Serving /\ Settle(t, s) /\ s.revision = tasks[t].revision + 1
    BY <1>4 DEF NotBought, GiveUp, Finalize, Moved, Snapshot
  <2> QED
    BY <2>1, SettleTells
<1>5. CASE Download(t) \/ Progress(t)
  BY <1>5, DownloadingTells DEF Download, Progress
<1>6. CASE Leave(t)
  BY <1>6, LeaveTells
<1> QED
  BY <1>1, <1>2, <1>3, <1>4, <1>5, <1>6 DEF Work

LEMMA ConsumeTells ==
  ASSUME TypeOK, TypeOK', NEW t \in Task, Heard(t), Consume(t)
  PROVE  Heard(t)'
<1>1. PICK s : Serving /\ Reported(t, s) /\ s.revision = tasks[t].revision + 1
  BY DEF Consume, MarkConsumed, MarkDeleted, Moved, Snapshot
<1>2. /\ tasks'[t] = s /\ UNCHANGED <<core, leaving>>
      /\ Announce(t, s.revision) \/ (t \in silenced' /\ UNCHANGED announced)
  BY <1>1 DEF Reported, Show, TypeOK, life
<1>3. s.revision \in Nat /\ tasks[t].revision < s.revision
  BY <1>1, RevisionTypes
<1>4. Announce(t, s.revision) => announced'[t] = s.revision
  BY <1>3, AnnounceLatest
<1> QED
  BY <1>1, <1>2, <1>3, <1>4, NewsKeeps DEF News

\* The others have nothing to tell.
LEMMA OthersTellNothing ==
  ASSUME TypeOK, NEW t \in Task, Request(t) \/ Work(t) \/ Consume(t), NEW u \in Task, u # t
  PROVE  NoNews(u)
<1>1. CASE Request(t)
  BY <1>1 DEF TypeOK, NoNews, Request, Start, Retry, Spawn, Cancel, DropStart, DropRequest,
              Show, Announce, life, store, faults
<1>2. CASE Work(t)
  <2>1. CASE Submit(t) \/ EndTransfer(t) \/ Leave(t)
    BY <2>1 DEF TypeOK, NoNews, Submit, EndTransfer, Leave, Announce, life, store, faults
  <2>2. CASE Bought(t) \/ BoughtButNotSaved(t)
    BY <2>2 DEF TypeOK, NoNews, Bought, BoughtButNotSaved, Show, Announce, life, faults
  <2>3. CASE NotBought(t) \/ GiveUp(t) \/ Finalize(t)
    <3>1. PICK s : Settle(t, s)
      BY <2>3 DEF NotBought, GiveUp, Finalize
    <3> QED
      BY <3>1 DEF TypeOK, NoNews, Settle, Show, life, faults
  <2>4. CASE Download(t) \/ Progress(t)
    BY <2>4 DEF TypeOK, NoNews, Download, Progress, Downloading, Show, Announce, life, faults
  <2> QED
    BY <1>2, <2>1, <2>2, <2>3, <2>4 DEF Work
<1>3. CASE Consume(t)
  <2>1. PICK s : Reported(t, s)
    BY <1>3 DEF Consume, MarkConsumed, MarkDeleted
  <2> QED
    BY <2>1 DEF TypeOK, NoNews, Reported, Show, Announce, life
<1> QED
  BY <1>1, <1>2, <1>3

LEMMA HeardStep ==
  ASSUME TypeOK, TypeOK', NEW u \in Task, Heard(u), [Next]_vars
  PROVE  Heard(u)'
<1>1. ASSUME NEW t \in Task, Request(t) \/ Work(t) \/ Consume(t) PROVE Heard(u)'
  BY <1>1, RequestTells, WorkTells, ConsumeTells, OthersTellNothing, NoNewsKeeps
<1>2. CASE BeginShutdown
  BY <1>2 DEF Heard, BeginShutdown, Serving, store, faults
<1>3. CASE Close
  BY <1>3 DEF Heard, Close, Serving, store
<1>4. CASE Open
  <2>1. /\ tasks'[u] = Recovered(disk[u]) /\ announced'[u] = Recovered(disk[u]).revision
        /\ leaving' = leaving /\ Recovered(disk[u]).revision \in Nat
    BY <1>4, RecoveredShape DEF Open, TypeOK, running, SnapshotSet
  <2>2. leaving'[u] = {}
    BY <1>4, <2>1 DEF Open, Heard, Serving
  <2> QED
    BY <2>1, <2>2 DEF Heard
<1>5. CASE UNCHANGED vars
  BY <1>5, NoNewsKeeps DEF NoNews, vars, life, store, faults
<1> QED
  BY <1>1, <1>2, <1>3, <1>4, <1>5 DEF Next

LEMMA HeardInit == Init => AllHeard
<1>1. ASSUME Init PROVE AllHeard
  BY <1>1 DEF Init, AllHeard, Heard, Absent, Snapshot, Terminal
<1> QED
  BY <1>1

\* Completion, failure and cancellation are announced once the workers are through, whatever
\* the order in which workers, retries and restarts follow each other (publish() in
\* archive.rs), unless a fault has kept the event back.
THEOREM SettlementsAreAnnounced == Spec => []SettlementIsAnnounced
<1>1. Init => AllHeard
  BY HeardInit
<1>2. AllHeard /\ TypeOK /\ TypeOK' /\ [Next]_vars => AllHeard'
  BY HeardStep DEF AllHeard
<1>3. AllHeard => SettlementIsAnnounced
  BY DEF AllHeard, Heard, SettlementIsAnnounced
<1> QED
  BY <1>1, <1>2, <1>3, TypeCorrectness, PTL DEF Spec

-----------------------------------------------------------------------------
(* The archives are durable tasks.                                         *)

\* What the file of a task says, also while the Core is closed: it is there as soon as the
\* task is, and tells of a success only where there was one.
FileIsKept(t) ==
  /\ tasks[t].state # "absent" => disk[t].state # "absent"
  /\ tasks[t].state = "absent" => disk[t].state \in {"absent", "Submitting"}
  /\ disk[t].state \in {"Completed", "Consumed"} => tasks[t].state \in {"Completed", "Consumed"}

FilesAreKept == \A t \in Task : FileIsKept(t)

\* Only a fault keeps the file from following the map.
FileFollows(t) ==
  \/ disk'[t] = tasks'[t]
  \/ disk'[t] = disk[t] /\ tasks'[t] = tasks[t]
  \/ SavesMayFail \/ RequestsMayBeDropped

\* How a step may turn a task.
Turned(t) ==
  \/ Phase(t)' = Phase(t)
  \/ Phase(t) = "none" /\ Phase(t)' = "pending"
  \/ Phase(t) = "pending" /\ Phase(t)' \in Terminal \ {"Consumed"}
  \/ Phase(t) \in {"Failed", "Cancelled"} /\ Phase(t)' = "pending"

\* All of it, of the task a step is about.
Durably(t) == Serving /\ core' = core /\ FileIsKept(t)' /\ FileFollows(t) /\ Turned(t)

\* A step that neither shows nor writes anything.
LEMMA NothingStored ==
  ASSUME NEW t \in Task, Serving, core' = core, store' = store, FileIsKept(t)
  PROVE  Durably(t)
BY DEF Durably, store, FileIsKept, FileFollows, Turned, Phase

\* A snapshot is shown and saved, unless a fault prevents that.
LEMMA SnapshotStored ==
  ASSUME NEW t \in Task, Serving, core' = core, FileIsKept(t), tasks[t].state # "absent",
         NEW s, s.state \in Live \cup Terminal, tasks'[t] = s,
         \/ disk'[t] = s
         \/ disk'[t] = disk[t] /\ (SavesMayFail \/ RequestsMayBeDropped),
         \/ tasks[t].state \in Live
         \/ /\ tasks[t].state \in {"Completed", "Consumed"}
            /\ s.state \in {"Completed", "Consumed"}
         \/ tasks[t].state \in {"Failed", "Cancelled"} /\ s.state = "Ready"
  PROVE  Durably(t)
<1>1. FileIsKept(t)'
  BY DEF FileIsKept, Live, Terminal
<1>2. FileFollows(t)
  BY DEF FileFollows
<1>3. Turned(t)
  BY DEF Turned, Phase, Live, Terminal
<1> QED
  BY <1>1, <1>2, <1>3 DEF Durably

LEMMA RequestIsDurable ==
  ASSUME TypeOK, NEW t \in Task, TaskInv(t), FileIsKept(t), Request(t)
  PROVE  Durably(t)
<1>1. CASE Start(t)
  <2> DEFINE submitting == Snapshot("Submitting", 1, FALSE, FALSE)
  <2>1. /\ tasks[t].state = "absent" /\ tasks'[t] = submitting /\ disk'[t] = submitting
        /\ Serving /\ core' = core
    BY <1>1 DEF TypeOK, Start, Save, Show, Absent, Snapshot, life
  <2>2. submitting.state = "Submitting"
    BY NewShape
  <2> HIDE DEF submitting
  <2> QED
    BY <2>1, <2>2 DEF Durably, FileIsKept, FileFollows, Turned, Phase, Live
<1>2. CASE Retry(t)
  <2>1. Moved(t, "Ready").state = "Ready"
    BY MovedShape DEF Live
  <2>2. /\ Serving /\ core' = core /\ tasks[t].state \in {"Failed", "Cancelled"}
        /\ tasks'[t] = Moved(t, "Ready")
        /\ disk'[t] = Moved(t, "Ready") \/ (disk'[t] = disk[t] /\ SavesMayFail)
    BY <1>2 DEF TypeOK, Retry, Save, Show, life
  <2> QED
    BY <2>1, <2>2, SnapshotStored DEF Live
<1>3. CASE Spawn(t) \/ Cancel(t) \/ DropRequest(t)
  BY <1>3, NothingStored DEF Spawn, Cancel, DropRequest, life
<1>4. CASE DropStart(t)
  <2>1. /\ tasks[t].state = "absent" /\ tasks' = tasks
        /\ disk'[t] = Snapshot("Submitting", 1, FALSE, FALSE)
        /\ Serving /\ core' = core /\ RequestsMayBeDropped
    BY <1>4 DEF TypeOK, DropStart, Save, Absent, Snapshot, life
  <2>2. disk'[t].state = "Submitting"
    BY <2>1, NewShape
  <2> QED
    BY <2>1, <2>2 DEF Durably, FileIsKept, FileFollows, Turned, Phase
<1> QED
  BY <1>1, <1>2, <1>3, <1>4 DEF Request

\* What a worker settles or shows.
LEMMA WorkIsDurable ==
  ASSUME TypeOK, NEW t \in Task, TaskInv(t), FileIsKept(t), Work(t)
  PROVE  Durably(t)
<1>1. CASE Submit(t) \/ EndTransfer(t) \/ Leave(t)
  BY <1>1, NothingStored DEF Submit, EndTransfer, Leave, life
<1>2. SUFFICES ASSUME Serving, core' = core, worker[t] # "none",
                      NEW s, s.state \in Live \cup Terminal, tasks'[t] = s,
                      disk'[t] = s \/ (disk'[t] = disk[t] /\ SavesMayFail)
               PROVE  Durably(t)
  <2>1. /\ \A st \in Live \cup Terminal : Moved(t, st).state = st
        /\ \A st \in Live \cup Terminal, b \in BOOLEAN :
             /\ [Moved(t, st) EXCEPT !.url = b].state = st
             /\ [Moved(t, st) EXCEPT !.path = b].state = st
    BY MovedShape, EditedShape
  <2>2. {"Ready", "Downloading"} \cup Returned \cup {"CostUnknown"} \subseteq Live \cup Terminal
    BY DEF Live, Returned, Terminal
  <2>3. CASE Bought(t)
    <3>1. [Moved(t, "Ready") EXCEPT !.url = TRUE].state \in Live \cup Terminal
      BY <2>1, <2>2
    <3> QED
      BY <1>2, <2>3, <3>1 DEF TypeOK, Bought, Show, Save, life
  <2>4. CASE BoughtButNotSaved(t)
    <3>1. Snapshot("CostUnknown", tasks[t].revision + 2, TRUE, tasks[t].path).state
            \in Live \cup Terminal
      BY <2>2, UnknownShape
    <3> QED
      BY <1>2, <2>4, <3>1 DEF TypeOK, BoughtButNotSaved, Show, TrySave, Save, life
  <2>5. CASE NotBought(t) \/ GiveUp(t) \/ Finalize(t)
    <3>1. PICK s : Settle(t, s) /\ s.state \in Live \cup Terminal
      <4>1. NotBought(t) => Settle(t, Moved(t, "CostUnknown"))
        BY DEF NotBought
      <4>2. GiveUp(t) => Settle(t, Moved(t, "Cancelled"))
        BY DEF GiveUp
      <4>3. Finalize(t) => \/ Settle(t, [Moved(t, "Completed") EXCEPT !.path = TRUE])
                           \/ \E st \in Returned : Settle(t, Moved(t, st))
        BY DEF Finalize, Returned
      <4>4. \A st \in Returned \cup {"CostUnknown"} : Moved(t, st).state \in Live \cup Terminal
        BY <2>1, <2>2
      <4>5. [Moved(t, "Completed") EXCEPT !.path = TRUE].state \in Live \cup Terminal
        BY <2>1 DEF Terminal
      <4>6. "Cancelled" \in Returned
        BY DEF Returned
      <4> QED
        BY <2>5, <4>1, <4>2, <4>3, <4>4, <4>5, <4>6
    <3>2. Serving /\ worker[t] # "none"
      BY <2>5 DEF NotBought, GiveUp, Finalize, Returned
    <3> QED
      BY <1>2, <3>1, <3>2 DEF TypeOK, Settle, Show, TrySave, Save, life
  <2>6. CASE Download(t) \/ Progress(t)
    <3>1. Moved(t, "Downloading").state \in Live \cup Terminal
      BY <2>1, <2>2
    <3>2. Serving /\ worker[t] # "none" /\ Downloading(t)
      BY <2>6 DEF Download, Progress
    <3> QED
      BY <1>2, <3>1, <3>2 DEF TypeOK, Downloading, Show, TrySave, Save, life
  <2> QED
    BY <1>1, <2>3, <2>4, <2>5, <2>6 DEF Work
<1>3. tasks[t].state \in Live
  BY <1>2 DEF TaskInv, Backing
<1> QED
  BY <1>2, <1>3, SnapshotStored DEF Live

LEMMA ConsumeIsDurable ==
  ASSUME TypeOK, NEW t \in Task, FileIsKept(t), Consume(t)
  PROVE  Durably(t)
<1>1. PICK s : /\ Reported(t, s) /\ s.state \in {"Completed", "Consumed"}
               /\ tasks[t].state \in {"Completed", "Consumed"} /\ Serving
  <2>1. \A st \in {"Completed", "Consumed"} :
          /\ Moved(t, st).state = st
          /\ [Moved(t, st) EXCEPT !.path = FALSE].state = st
    BY MovedShape, EditedShape DEF Terminal
  <2> QED
    BY <2>1 DEF Consume, MarkConsumed, MarkDeleted
<1>2. /\ tasks'[t] = s /\ core' = core
      /\ disk'[t] = s \/ (disk'[t] = disk[t] /\ SavesMayFail)
  BY <1>1 DEF TypeOK, Reported, Show, Save, life
<1> QED
  BY <1>1, <1>2, SnapshotStored DEF Terminal

\* The step of one task, as the abstract service sees it.
LEMMA OneTaskDurably ==
  ASSUME TypeOK, TypeOK', FilesAreKept, NEW t \in Task, Durably(t),
         \A u \in Task \ {t} : Frame(u)
  PROVE  FilesAreKept' /\ [Durable!Next]_(Durable!durable)
<1>1. \A u \in Task \ {t} : tasks'[u] = tasks[u] /\ disk'[u] = disk[u]
  BY DEF Frame
<1>2. FilesAreKept'
  BY <1>1 DEF FilesAreKept, FileIsKept, Durably
<1> DEFINE doubtful == {u \in Task : disk[u] # tasks[u]}
<1>3. doubtful' \in {doubtful, doubtful \ {t}, doubtful \cup {t}}
  BY <1>1
<1>4. doubtful' = doubtful \/ doubtful' = doubtful \ {t} \/ SavesMayFail \/ RequestsMayBeDropped
  BY <1>1 DEF Durably, FileFollows
<1>5. Durable!Write(t)
  BY <1>3, <1>4 DEF Durable!Write
<1>6. [u \in Task |-> Phase(u)]' = [[u \in Task |-> Phase(u)] EXCEPT ![t] = Phase(t)']
  <2>1. \A u \in Task \ {t} : Phase(u)' = Phase(u)
    BY <1>1 DEF Phase
  <2> QED
    BY <2>1
<1>7. Serving /\ Serving'
  BY DEF Durably, Serving
<1>8. CASE Phase(t)' = Phase(t)
  <2>1. Durable!Keep(t)
    BY <1>5, <1>6, <1>7, <1>8 DEF Durable!Keep
  <2> QED
    BY <1>2, <2>1 DEF Durable!Next
<1>9. CASE Phase(t) = "none" /\ Phase(t)' = "pending"
  <2>1. Durable!Accept(t)
    BY <1>5, <1>6, <1>7, <1>9 DEF Durable!Accept, Durable!Turn
  <2> QED
    BY <1>2, <2>1 DEF Durable!Next
<1>10. CASE Phase(t) = "pending" /\ Phase(t)' \in Terminal \ {"Consumed"}
  <2>1. Durable!Settle(t)
    BY <1>5, <1>6, <1>7, <1>10 DEF Durable!Settle, Durable!Turn
  <2> QED
    BY <1>2, <2>1 DEF Durable!Next
<1>11. CASE Phase(t) \in {"Failed", "Cancelled"} /\ Phase(t)' = "pending"
  <2>1. Durable!Repeat(t)
    BY <1>5, <1>6, <1>7, <1>11 DEF Durable!Repeat, Durable!Turn
  <2> QED
    BY <1>2, <2>1 DEF Durable!Next
<1> QED
  BY <1>8, <1>9, <1>10, <1>11 DEF Durably, Turned

\* What a restart finds of a task is what the abstract service may find.
LEMMA OpenFinds ==
  ASSUME TypeOK, NEW t \in Task, FileIsKept(t), Open
  PROVE  /\ Phase(t)' \in Durable!Found(t)
         /\ disk'[t] = tasks'[t]
         /\ FileIsKept(t)'
<1>1. tasks'[t] = Recovered(disk[t]) /\ disk'[t] = Recovered(disk[t])
  BY DEF Open
<1>2. /\ disk[t].state \in Live \cup Terminal \cup {"absent"}
      /\ tasks[t].state \in Live \cup Terminal \cup {"absent"}
      /\ disk[t] \in SnapshotSet(Nat)
  BY DEF TypeOK, SnapshotSet
<1>3. Recovered(disk[t]).state =
        CASE disk[t].state = "Submitting"  -> "CostUnknown"
          [] disk[t].state = "Downloading" -> "Failed"
          [] OTHER                         -> disk[t].state
  BY <1>2 DEF Recovered, SnapshotSet
<1> DEFINE found == Recovered(disk[t]).state
<1>4. tasks'[t].state = found
  BY <1>1
<1> HIDE DEF found
<1>5. ASSUME tasks[t].state = "absent" PROVE Phase(t)' \in Durable!Found(t)
  <2>1. \/ disk[t].state = "absent" /\ found = "absent"
        \/ disk[t].state = "Submitting" /\ disk[t] # tasks[t] /\ found = "CostUnknown"
    BY <1>3, <1>5 DEF FileIsKept, found
  <2> QED
    BY <1>4, <1>5, <2>1 DEF Phase, Durable!Found, Live, Terminal
<1>6. ASSUME tasks[t].state \in Live PROVE Phase(t)' \in Durable!Found(t)
  <2>1. found \in {"Ready"} \cup Terminal
    BY <1>2, <1>3, <1>6 DEF FileIsKept, found, Live, Terminal
  <2> QED
    BY <1>4, <1>6, <2>1 DEF Phase, Durable!Found, Live, Terminal
<1>7. ASSUME tasks[t].state \in Terminal PROVE Phase(t)' \in Durable!Found(t)
  <2>1. disk[t] = tasks[t] => found = tasks[t].state
    BY <1>3, <1>7 DEF found, Terminal
  <2>2. /\ found \in {"Ready"} \cup Terminal
        /\ found \in {"Completed", "Consumed"} => tasks[t].state \in {"Completed", "Consumed"}
    BY <1>2, <1>3, <1>7 DEF FileIsKept, found, Live, Terminal
  <2> QED
    BY <1>4, <1>7, <2>1, <2>2 DEF Phase, Durable!Found, Live, Terminal
<1>8. FileIsKept(t)'
  BY <1>1, <1>2, <1>3 DEF FileIsKept, Live, Terminal
<1> QED
  BY <1>1, <1>2, <1>5, <1>6, <1>7, <1>8

\* Nothing that the abstract service shows has changed.
LEMMA StoreStays ==
  ASSUME store' = store, Serving' = Serving
  PROVE  Durable!durable' = Durable!durable
BY DEF store, Durable!durable, Phase

LEMMA StepIsDurable ==
  ASSUME IInv, TypeOK', FilesAreKept, [Next]_vars
  PROVE  FilesAreKept' /\ [Durable!Next]_(Durable!durable)
<1>1. ASSUME NEW t \in Task, Request(t) \/ Work(t) \/ Consume(t)
      PROVE  FilesAreKept' /\ [Durable!Next]_(Durable!durable)
  <2>1. TypeOK /\ TaskInv(t) /\ FileIsKept(t)
    BY DEF IInv, FilesAreKept
  <2>2. Durably(t)
    BY <1>1, <2>1, RequestIsDurable, WorkIsDurable, ConsumeIsDurable
  <2>3. \A u \in Task \ {t} : Frame(u)
    BY <1>1, <2>1, RequestFrame, WorkFrame, ConsumeFrame
  <2> QED
    BY <2>1, <2>2, <2>3, OneTaskDurably
<1>2. CASE BeginShutdown \/ UNCHANGED vars
  <2>1. store' = store /\ Serving' = Serving
    BY <1>2 DEF BeginShutdown, vars, life, Serving
  <2>2. FilesAreKept'
    BY <2>1 DEF FilesAreKept, FileIsKept, store
  <2> QED
    BY <2>1, <2>2, StoreStays
<1>3. CASE Close
  <2>1. Serving /\ ~Serving' /\ tasks' = tasks /\ disk' = disk
    BY <1>3 DEF Close, Serving, store
  <2>2. FilesAreKept'
    BY <2>1 DEF FilesAreKept, FileIsKept
  <2>3. Durable!Close
    BY <2>1 DEF Durable!Close, Phase
  <2> QED
    BY <2>2, <2>3 DEF Durable!Next
<1>4. CASE Open
  <2>1. ~Serving /\ Serving'
    BY <1>4 DEF Open, Serving
  <2>2. \A t \in Task : /\ Phase(t)' \in Durable!Found(t)
                        /\ disk'[t] = tasks'[t]
                        /\ FileIsKept(t)'
    BY <1>4, OpenFinds DEF IInv, FilesAreKept
  <2>3. Durable!Open
    BY <2>1, <2>2 DEF Durable!Open
  <2> QED
    BY <2>2, <2>3 DEF FilesAreKept, Durable!Next
<1> QED
  BY <1>1, <1>2, <1>3, <1>4 DEF Next

LEMMA KeptFromTheStart == Init => FilesAreKept
BY DEF Init, FilesAreKept, FileIsKept, Absent, Snapshot

\* The archives are durable tasks: through crashes, lost writes and dropped requests no
\* accepted task is forgotten, none is settled twice or repeated after a success, and a
\* restart finds what was settled as it was, unless a fault has put the task in doubt.
THEOREM ArchivesAreDurable == Spec => ImplementsDurableTasks
<1>1. Init => Durable!Init
  BY DEF Init, Durable!Init, Serving, Phase, Absent, Snapshot, Live
<1>2. IInv /\ IInv' /\ FilesAreKept /\ [Next]_vars
        => FilesAreKept' /\ [Durable!Next]_(Durable!durable)
  BY StepIsDurable DEF IInv
<1> QED
  BY <1>1, <1>2, KeptFromTheStart, Invariance, PTL
  DEF Spec, ImplementsDurableTasks, Durable!Spec

-----------------------------------------------------------------------------
(* ArchiveTransfer: the bytes of an Archive are in their places, for Archives of any *)
(* length, any number of versions and of transfers. *)

\* What is in the file, and where the response that is read goes on: as long as the server
\* has answered what it was asked.
FilesInPlace ==
  /\ InPlace(partFile) /\ InPlace(zipFile)
  /\ zipFile # <<>> => Len(zipFile) = Last(zipFile).of.length

\* A response that is read goes on where the file ends, and when it is over the last chunk is
\* its own, so that its length is the file's.
ReplyContinues ==
  Reading =>
    /\ reply.next = Len(partFile) + 1
    /\ reply.last = reply.of.length
    /\ reply.next <= reply.of.length + 1
    /\ reply.next = reply.of.length + 1 => Last(partFile).of = reply.of

\* A response is read by a transfer.
RepliesAreRead == archive # "downloading" => reply = NoReply

\* A whole Archive that comes after a range nobody asked for finds no ZIP.
ZipIsTheEnd == archive # "completed" => zipFile = <<>>

TransferInv ==
  /\ TransferTypeOK
  /\ RepliesAreRead
  /\ ZipIsTheEnd
  /\ ~astray => FilesInPlace /\ ReplyContinues

-----------------------------------------------------------------------------
\* Constants are positive, so a version has a length and a chunk.
LEMMA Positive ==
  /\ MaxLength \in Nat /\ MaxLength >= 1
  /\ MaxReleases \in Nat /\ MaxTransfers \in Nat
  /\ \A v \in Release : v.length \in 1..MaxLength /\ v # NoReply.of
  /\ <<>> \in Seq(Piece)
<1>1. MaxLength \in Nat /\ MaxLength >= 1 /\ MaxReleases \in Nat /\ MaxTransfers \in Nat
  BY TransferAssumption
<1>2. \A v \in Release : v.length \in 1..MaxLength /\ v # NoReply.of
  BY <1>1 DEF Release, NoReply
<1> QED
  BY <1>1, <1>2

\* A chunk written behind a file whose chunks are in their places.
LEMMA PieceAppended ==
  ASSUME NEW file \in Seq(Piece), NEW p \in Piece, InPlace(file), p.at = Len(file) + 1
  PROVE  /\ Append(file, p) \in Seq(Piece)
         /\ InPlace(Append(file, p))
         /\ Len(Append(file, p)) = Len(file) + 1
         /\ Last(Append(file, p)) = p
         /\ Append(file, p) # <<>>
<1> DEFINE longer == Append(file, p)
<1>1. /\ Len(file) \in Nat /\ DOMAIN file = 1..Len(file)
      /\ longer \in Seq(Piece) /\ longer # <<>> /\ Len(longer) = Len(file) + 1
      /\ \A i \in 1..Len(file) : longer[i] = file[i]
      /\ longer[Len(file) + 1] = p
  BY LenProperties, AppendProperties
<1>2. DOMAIN longer = 1..(Len(file) + 1)
  BY <1>1, LenProperties
<1> HIDE DEF longer
<1>3. InPlace(longer)
  BY <1>1, <1>2 DEF InPlace
<1>4. Last(longer) = p
  BY <1>1 DEF Last
<1> QED
  BY <1>1, <1>3, <1>4 DEF longer

\* A file that a crash has cut by a chunk.
LEMMA PieceLost ==
  ASSUME NEW file \in Seq(Piece), file # <<>>
  PROVE  Front(file) \in Seq(Piece) /\ (InPlace(file) => InPlace(Front(file)))
<1>1. Len(file) \in Nat \ {0} /\ DOMAIN file = 1..Len(file)
  BY EmptySeq, LenProperties
<1>2. \A i \in 1..Len(file) : file[i] \in Piece
  BY <1>1, ElementOfSeq
<1> DEFINE shorter == Front(file)
<1>3. shorter = [i \in 1..(Len(file) - 1) |-> file[i]]
  BY <1>1 DEF Front
<1> HIDE DEF shorter
<1>4. shorter \in Seq(Piece)
  BY <1>1, <1>2, <1>3, SeqDef
<1>5. InPlace(file) => InPlace(shorter)
  BY <1>1, <1>3 DEF InPlace
<1> QED
  BY <1>4, <1>5 DEF shorter

-----------------------------------------------------------------------------
LEMMA TransferBegins == TransferInit => TransferInv
<1> SUFFICES ASSUME TransferInit PROVE TransferInv
  OBVIOUS
<1>1. TransferTypeOK
  <2>1. remote \in Release /\ transfers \in 0..MaxTransfers
    BY Positive DEF TransferInit
  <2>2. partFile \in Seq(Piece) /\ zipFile \in Seq(Piece) /\ astray \in BOOLEAN
    BY Positive DEF TransferInit
  <2> QED
    BY <2>1, <2>2 DEF TransferInit, TransferTypeOK
<1>2. FilesInPlace /\ ZipIsTheEnd
  BY DEF TransferInit, FilesInPlace, ZipIsTheEnd, InPlace
<1>3. ReplyContinues /\ RepliesAreRead
  BY DEF TransferInit, ReplyContinues, RepliesAreRead, Reading
<1> QED
  BY <1>1, <1>2, <1>3 DEF TransferInv

\* Nobody reads, so nothing is to be shown of a response.
LEMMA NobodyReads == archive' # "downloading" \/ reply' = NoReply => ReplyContinues'
BY DEF ReplyContinues, Reading

\* Actions that leave the files alone.
LEMMA FilesStay ==
  ASSUME FilesInPlace, UNCHANGED <<partFile, zipFile>>
  PROVE  FilesInPlace'
BY DEF FilesInPlace, InPlace

-----------------------------------------------------------------------------
LEMMA BeginTransferKeeps == TransferInv /\ BeginTransfer => TransferInv'
<1> SUFFICES ASSUME TransferInv, BeginTransfer PROVE TransferInv'
  OBVIOUS
<1>1. TransferTypeOK'
  <2>1. transfers \in 0..MaxTransfers /\ transfers < MaxTransfers /\ transfers' = transfers + 1
    BY DEF TransferInv, TransferTypeOK, BeginTransfer
  <2>2. transfers' \in 0..MaxTransfers
    BY <2>1, Positive
  <2> QED
    BY <2>2 DEF TransferInv, TransferTypeOK, BeginTransfer
<1>2. reply' = NoReply /\ RepliesAreRead' /\ ZipIsTheEnd'
  BY DEF TransferInv, BeginTransfer, RepliesAreRead, ZipIsTheEnd
<1> QED
  BY <1>1, <1>2, NobodyReads, FilesStay DEF TransferInv, BeginTransfer

\* The range that was asked for goes on where the file ends; of any other nothing is said.
LEMMA AnswerRangeKeeps == TransferInv /\ AnswerRange => TransferInv'
<1> SUFFICES ASSUME TransferInv, AnswerRange PROVE TransferInv'
  OBVIOUS
<1>1. remote \in Release /\ remote.length \in 1..MaxLength /\ partFile \in Seq(Piece)
  BY Positive DEF TransferInv, TransferTypeOK
<1>2. PICK first \in 1..remote.length, last \in 1..remote.length :
        /\ first <= last
        /\ reply' = [of |-> remote, next |-> first, last |-> last]
        /\ astray' = (astray \/ first # Len(partFile) + 1 \/ last # remote.length)
  BY DEF AnswerRange
<1>3. first \in 1..(MaxLength + 1) /\ last \in 1..MaxLength
  BY <1>1, Positive
<1>4. archive' = "downloading" /\ UNCHANGED <<remote, partFile, zipFile, archive, transfers>>
  BY DEF AnswerRange, Waiting
<1>5. TransferTypeOK'
  BY <1>1, <1>2, <1>3, <1>4 DEF TransferInv, TransferTypeOK
<1>6. RepliesAreRead' /\ ZipIsTheEnd'
  BY <1>4 DEF TransferInv, RepliesAreRead, ZipIsTheEnd
<1>7. ASSUME ~astray' PROVE FilesInPlace' /\ ReplyContinues'
  <2>1. ~astray /\ first = Len(partFile) + 1 /\ last = remote.length
    BY <1>2, <1>7
  <2>2. FilesInPlace'
    BY <1>4, <2>1, FilesStay DEF TransferInv
  <2>3. /\ reply'.of = remote /\ reply'.next = first /\ reply'.last = remote.length
        /\ first <= remote.length + 1 /\ first # remote.length + 1
    BY <1>1, <1>2, <2>1, Positive
  <2>4. ReplyContinues'
    BY <1>4, <2>1, <2>3 DEF ReplyContinues
  <2> QED
    BY <2>2, <2>4
<1> QED
  BY <1>5, <1>6, <1>7 DEF TransferInv

LEMMA AnswerWholeKeeps == TransferInv /\ AnswerWhole => TransferInv'
<1> SUFFICES ASSUME TransferInv, AnswerWhole PROVE TransferInv'
  OBVIOUS
<1>1. remote \in Release /\ remote.length \in 1..MaxLength
  BY Positive DEF TransferInv, TransferTypeOK
<1>2. /\ reply'.of = remote /\ reply'.next = 1 /\ reply'.last = remote.length
      /\ partFile' = <<>> /\ Len(<<>>) = 0
  BY EmptySeq DEF AnswerWhole
<1>3. 1 \in 1..(MaxLength + 1) /\ 1 # remote.length + 1 /\ 1 <= remote.length + 1
  BY <1>1, Positive
<1>4. TransferTypeOK'
  BY <1>1, <1>3, Positive DEF TransferInv, TransferTypeOK, AnswerWhole, Waiting
<1>5. ReplyContinues'
  BY <1>2, <1>3 DEF ReplyContinues, AnswerWhole
<1>6. RepliesAreRead' /\ ZipIsTheEnd' /\ zipFile' = <<>>
  BY DEF TransferInv, AnswerWhole, Waiting, RepliesAreRead, ZipIsTheEnd
<1>7. FilesInPlace'
  BY <1>2, <1>6 DEF FilesInPlace, InPlace
<1> QED
  BY <1>4, <1>5, <1>6, <1>7 DEF TransferInv

\* Failing and being cancelled leave the part file for the next transfer.
LEMMA EndingKeeps == TransferInv /\ (TransferFails \/ CancelTransfer) => TransferInv'
<1> SUFFICES ASSUME TransferInv, TransferFails \/ CancelTransfer PROVE TransferInv'
  OBVIOUS
<1>1. archive = "downloading" /\ archive' \in {"failed", "cancelled"} /\ reply' = NoReply
      /\ UNCHANGED <<remote, partFile, zipFile, transfers, astray>>
  BY DEF TransferFails, CancelTransfer, Ended
<1>2. TransferTypeOK'
  BY <1>1 DEF TransferInv, TransferTypeOK
<1> QED
  BY <1>1, <1>2, NobodyReads, FilesStay DEF TransferInv, RepliesAreRead, ZipIsTheEnd

\* The chunk that comes next goes where the file ends.
LEMMA ReceivePieceKeeps == TransferInv /\ ReceivePiece => TransferInv'
<1> SUFFICES ASSUME TransferInv, ReceivePiece PROVE TransferInv'
  OBVIOUS
<1> DEFINE p == [of |-> reply.of, at |-> reply.next]
<1>1. /\ partFile \in Seq(Piece)
      /\ reply \in [of : Release, next : 1..(MaxLength + 1), last : 1..MaxLength]
      /\ reply.next <= reply.last
  BY DEF TransferInv, TransferTypeOK, ReceivePiece, Reading
<1>2. /\ reply.of \in Release /\ reply.of.length \in 1..MaxLength
      /\ reply.next \in 1..(MaxLength + 1) /\ reply.last \in 1..MaxLength
  BY <1>1, Positive
<1>3. reply.next \in 1..MaxLength /\ reply.next + 1 \in 1..(MaxLength + 1)
  BY <1>1, <1>2, Positive
<1>4. p \in Piece /\ p.at = reply.next /\ p.of = reply.of
  BY <1>1, <1>2, <1>3 DEF Piece
<1>5. partFile' = Append(partFile, p) /\ UNCHANGED <<remote, zipFile, archive, transfers, astray>>
  BY DEF ReceivePiece
<1> HIDE DEF p
<1>6. partFile' \in Seq(Piece)
  BY <1>1, <1>4, <1>5, AppendProperties
<1>7. reply' = [of |-> reply.of, next |-> reply.next + 1, last |-> reply.last]
  BY <1>1 DEF ReceivePiece
<1>8. TransferTypeOK'
  BY <1>2, <1>3, <1>5, <1>6, <1>7 DEF TransferInv, TransferTypeOK
<1>9. RepliesAreRead' /\ ZipIsTheEnd'
  BY <1>5 DEF TransferInv, ReceivePiece, Reading, RepliesAreRead, ZipIsTheEnd
<1>10. ASSUME ~astray' PROVE FilesInPlace' /\ ReplyContinues'
  <2>1. FilesInPlace /\ ReplyContinues
    BY <1>5, <1>10 DEF TransferInv
  <2>2. reply.next = Len(partFile) + 1 /\ reply.last = reply.of.length
    BY <2>1 DEF ReplyContinues, ReceivePiece
  <2>3. /\ InPlace(partFile') /\ Len(partFile') = Len(partFile) + 1 /\ Last(partFile') = p
    BY <1>1, <1>4, <1>5, <2>1, <2>2, PieceAppended DEF FilesInPlace
  <2>4. FilesInPlace'
    BY <1>5, <2>1, <2>3 DEF FilesInPlace, InPlace
  <2>5. reply.next + 1 <= reply.of.length + 1
    BY <1>1, <1>2, <2>2
  <2>6. ReplyContinues'
    BY <1>4, <1>7, <2>2, <2>3, <2>5 DEF ReplyContinues
  <2> QED
    BY <2>4, <2>6
<1> QED
  BY <1>8, <1>9, <1>10 DEF TransferInv

\* A response that is over ends with its own last chunk, and the file with it.
LEMMA FinishTransferKeeps == TransferInv /\ FinishTransfer => TransferInv'
<1> SUFFICES ASSUME TransferInv, FinishTransfer PROVE TransferInv'
  OBVIOUS
<1>1. /\ archive = "downloading" /\ reply' = NoReply /\ archive' \in {"completed", "failed"}
      /\ UNCHANGED <<remote, transfers, astray>>
  BY DEF FinishTransfer, Ended, Reading
<1>2. RepliesAreRead' /\ ReplyContinues'
  BY <1>1, NobodyReads DEF RepliesAreRead
<1>3. CASE UNCHANGED <<partFile, zipFile>>
  <2>1. TransferTypeOK' /\ ZipIsTheEnd'
    BY <1>1, <1>3 DEF TransferInv, TransferTypeOK, ZipIsTheEnd
  <2> QED
    BY <1>1, <1>2, <1>3, <2>1, FilesStay DEF TransferInv
<1>4. CASE archive' = "completed" /\ zipFile' = partFile /\ partFile' = <<>>
  <2>1. TransferTypeOK' /\ ZipIsTheEnd'
    BY <1>1, <1>4, Positive DEF TransferInv, TransferTypeOK, ZipIsTheEnd
  <2>2. ASSUME ~astray' PROVE FilesInPlace'
    <3>1. FilesInPlace /\ ReplyContinues /\ Reading
      BY <1>1, <2>2 DEF TransferInv, FinishTransfer
    <3>2. /\ reply \in [of : Release, next : 1..(MaxLength + 1), last : 1..MaxLength]
          /\ partFile \in Seq(Piece) /\ Len(partFile) \in Nat
      BY <3>1, LenProperties DEF TransferInv, TransferTypeOK, Reading
    <3>3. reply.of \in Release /\ reply.of.length \in Nat /\ reply.next \in Nat
      BY <3>2, Positive
    <3>4. /\ reply.next = Len(partFile) + 1 /\ reply.last = reply.of.length
          /\ reply.next <= reply.of.length + 1 /\ reply.next > reply.last
          /\ reply.next = reply.of.length + 1 => Last(partFile).of = reply.of
      BY <3>1 DEF FinishTransfer, ReplyContinues
    <3>5. Len(partFile) = reply.of.length /\ Last(partFile).of = reply.of
      BY <3>2, <3>3, <3>4
    <3> QED
      BY <1>4, <3>1, <3>5 DEF FilesInPlace, InPlace
  <2> QED
    BY <1>2, <2>1, <2>2 DEF TransferInv
<1> QED
  BY <1>3, <1>4 DEF FinishTransfer, Ended

LEMMA RetryTransferKeeps == TransferInv /\ RetryTransfer => TransferInv'
<1> SUFFICES ASSUME TransferInv, RetryTransfer PROVE TransferInv'
  OBVIOUS
<1>1. TransferTypeOK' /\ RepliesAreRead' /\ ZipIsTheEnd' /\ archive' # "downloading"
  BY DEF TransferInv, TransferTypeOK, RetryTransfer, RepliesAreRead, ZipIsTheEnd
<1> QED
  BY <1>1, NobodyReads, FilesStay DEF TransferInv, RetryTransfer

\* The next transfer asks for what a crash has left.
LEMMA KillTransferKeeps == TransferInv /\ KillTransfer => TransferInv'
<1> SUFFICES ASSUME TransferInv, KillTransfer PROVE TransferInv'
  OBVIOUS
<1>1. partFile \in Seq(Piece) /\ (~astray => InPlace(partFile))
  BY DEF TransferInv, TransferTypeOK, FilesInPlace
<1>2. partFile' = partFile \/ (partFile # <<>> /\ partFile' = Front(partFile))
  BY DEF KillTransfer
<1>3. partFile' \in Seq(Piece) /\ (~astray => InPlace(partFile'))
  BY <1>1, <1>2, PieceLost
<1>4. /\ archive = "downloading" /\ archive' = "failed" /\ reply' = NoReply
      /\ UNCHANGED <<remote, zipFile, transfers, astray>>
  BY DEF KillTransfer, Ended
<1>5. TransferTypeOK' /\ RepliesAreRead' /\ ZipIsTheEnd'
  BY <1>3, <1>4 DEF TransferInv, TransferTypeOK, RepliesAreRead, ZipIsTheEnd
<1>6. ~astray' => FilesInPlace'
  BY <1>3, <1>4 DEF TransferInv, FilesInPlace, InPlace
<1> QED
  BY <1>4, <1>5, <1>6, NobodyReads DEF TransferInv

\* What is read is of the version the response began with.
LEMMA ChangeRemoteKeeps == TransferInv /\ ChangeRemote => TransferInv'
<1> SUFFICES ASSUME TransferInv, ChangeRemote PROVE TransferInv'
  OBVIOUS
<1>1. remote' \in Release /\ UNCHANGED <<partFile, zipFile, archive, reply, transfers, astray>>
  BY DEF ChangeRemote
<1> QED
  BY <1>1, FilesStay
     DEF TransferInv, TransferTypeOK, ReplyContinues, Reading, RepliesAreRead, ZipIsTheEnd

-----------------------------------------------------------------------------
LEMMA TransferKeeps == TransferInv /\ [TransferNext]_transferVars => TransferInv'
<1> SUFFICES ASSUME TransferInv, [TransferNext]_transferVars PROVE TransferInv'
  OBVIOUS
<1>1. CASE UNCHANGED transferVars
  BY <1>1, FilesStay
     DEF TransferInv, TransferTypeOK, ReplyContinues, Reading, RepliesAreRead, ZipIsTheEnd,
         transferVars
<1> QED
  BY <1>1, BeginTransferKeeps, AnswerRangeKeeps, AnswerWholeKeeps, EndingKeeps,
     ReceivePieceKeeps, FinishTransferKeeps, RetryTransferKeeps, KillTransferKeeps,
     ChangeRemoteKeeps DEF TransferNext

\* A transfer's files, response and task keep their types, however often it breaks off.
THEOREM TransferTypes == TransferSpec => []TransferTypeOK
<1>1. TransferInv => TransferTypeOK
  BY DEF TransferInv
<1> QED
  BY <1>1, TransferBegins, TransferKeeps, PTL DEF TransferSpec

\* Each chunk that run_download() writes is at its place in the file, and a ZIP ends where
\* the version it was completed from ends: whatever was resumed, refused or cut by a crash,
\* until the server answers with a range nobody has asked for, and again once the file was
\* truncated for the whole Archive.
THEOREM ZipIsInPlace == TransferSpec => []ArchiveIsInPlace
<1>1. TransferInv => ArchiveIsInPlace
  BY DEF TransferInv, FilesInPlace, ArchiveIsInPlace
<1> QED
  BY <1>1, TransferBegins, TransferKeeps, PTL DEF TransferSpec
===============================================================================

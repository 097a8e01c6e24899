---------------------- MODULE ImageDownloadServiceProofs ----------------------
(***************************************************************************)
(* What the durable image download tasks promise, for any set of tasks,    *)
(* any limits and any bound on revisions, through restarts of the Core,    *)
(* lost writes and dropped requests.                                       *)
(*                                                                         *)
(* Every step but the three of the Core is about one task and leaves the   *)
(* others as they are.  The invariant is therefore one predicate of each   *)
(* task, TaskInv, beside two counts: the permits and the admitted tasks.   *)
(***************************************************************************)
EXTENDS ImageDownloadService, FiniteSetTheorems, TLAPS

Fetching == {"fetching"} \cup Terminal   \* where a worker may still show progress
Ending   == {"settling", "released"}     \* where a worker has settled its task

\* A closed Core has no request, worker or token.
NothingWhenClosed(t) ==
  core = "closed" =>
    /\ t \notin request \cup stranded \cup holder
    /\ token[t] = "none" /\ worker[t] = "none"
    /\ copy[t] = Absent /\ unsaved[t] = Absent

\* A live task has one owner, which answers for it until it is settled.
OneOwner(t) ==
  /\ Serving => (tasks[t].state \in Live <=> t \in request \cup stranded \/ worker[t] # "none")
  /\ ~(t \in request /\ t \in stranded)
  /\ ~(t \in request \cup stranded /\ worker[t] # "none")
  /\ token[t] # "none" <=> worker[t] \notin {"none", "released"}

\* A task is running only under a permit.
UnderPermit(t) ==
  Serving /\ (tasks[t].state = "Running" \/ worker[t] \in Fetching) => t \in holder

\* What is shown of a task that waits, and the snapshots a worker and its progress
\* task have in hand.
InHand(t) ==
  /\ t \in request \cup stranded \/ worker[t] = "waiting" => tasks[t].state = "Queued"
  /\ worker[t] \in Fetching => tasks[t].state = "Running"
  /\ unsaved[t] # Absent => worker[t] \in Fetching /\ unsaved[t].state = "Running"
  /\ worker[t] \in Ending =>
       copy[t].state \in Terminal /\ copy[t].revision > tasks[t].revision

\* Where the file agrees with the map, or with the copy that will take its place.
FileAgrees(t) ==
  /\ disk[t] = Deleted => tasks[t].state \in Terminal \cup {"deleted"}
  /\ t \notin unwritten =>
       /\ tasks[t].state \in Terminal => disk[t] = tasks[t]
       /\ worker[t] \in Ending => disk[t] = copy[t]
       /\ Serving /\ worker[t] = "none" => disk[t] = tasks[t]
       /\ disk[t].state = "Queued" => tasks[t].state \in Live

TaskInv(t) ==
  NothingWhenClosed(t) /\ OneOwner(t) /\ UnderPermit(t) /\ InHand(t) /\ FileAgrees(t)

\* The permits and the admitted tasks; what is queued on disk counts as admitted, so
\* that the limit outlives a restart.
Counts ==
  /\ Cardinality(holder) <= MaxActive
  /\ Cardinality(In(tasks, Live) \ unwritten) <= MaxActive + MaxQueued

ServiceInv == TypeOK /\ (\A t \in Task : TaskInv(t)) /\ Counts

\* The words of a task.
TaskState == Live \cup Terminal \cup {"absent", "deleted"}
Place == {"none", "waiting", "fetching", "settling", "released"} \cup Terminal

-----------------------------------------------------------------------------
(* Counting. *)

LEMMA TaskBounds ==
  IsFiniteSet(Task) /\ MaxActive \in Nat \ {0} /\ MaxQueued \in Nat \ {0} /\ MaxRevision \in Nat
BY ImageDownloadAssumption

\* A set of tasks has a size, a part of it no larger one, and one more task adds at
\* most one.
LEMMA TaskCounts ==
  ASSUME NEW S \in SUBSET Task, NEW R \in SUBSET Task
  PROVE  /\ Cardinality(S) \in Nat
         /\ R \subseteq S => Cardinality(R) <= Cardinality(S)
         /\ \A t \in Task : R \subseteq S \cup {t} => Cardinality(R) <= Cardinality(S) + 1
<1>1. IsFiniteSet(S) /\ IsFiniteSet(R)
  BY TaskBounds, FS_Subset
<1>2. Cardinality(S) \in Nat /\ Cardinality(R) \in Nat
  BY <1>1, FS_CardinalityType
<1>3. R \subseteq S => Cardinality(R) <= Cardinality(S)
  BY <1>1, FS_Subset
<1>4. ASSUME NEW t \in Task, R \subseteq S \cup {t}
      PROVE  Cardinality(R) <= Cardinality(S) + 1
  <2>1. IsFiniteSet(S \cup {t})
    BY <1>1, FS_AddElement
  <2>2. Cardinality(S \cup {t}) \in Nat /\ Cardinality(S \cup {t}) <= Cardinality(S) + 1
    BY <1>1, <1>2, <2>1, FS_AddElement, FS_CardinalityType
  <2>3. Cardinality(R) <= Cardinality(S \cup {t})
    BY <1>4, <2>1, FS_Subset
  <2> QED
    BY <1>2, <2>2, <2>3
<1> QED
  BY <1>2, <1>3, <1>4

-----------------------------------------------------------------------------
(* The parts of the invariant under any step. *)

\* A task that a step leaves alone.
LEMMA UntouchedTask ==
  ASSUME NEW q \in Task, TaskInv(q), core' = core,
         tasks'[q] = tasks[q], disk'[q] = disk[q], token'[q] = token[q],
         worker'[q] = worker[q], copy'[q] = copy[q], unsaved'[q] = unsaved[q],
         q \in request' <=> q \in request, q \in stranded' <=> q \in stranded,
         q \in holder' <=> q \in holder, q \in unwritten' <=> q \in unwritten
  PROVE  TaskInv(q)'
BY DEF TaskInv, NothingWhenClosed, OneOwner, UnderPermit, InHand, FileAgrees, Serving

\* A step of one task that admits nobody and takes no permit.
LEMMA CountsStay ==
  ASSUME TypeOK, TypeOK', Counts, holder' \subseteq holder,
         In(tasks, Live)' \ unwritten' \subseteq In(tasks, Live) \ unwritten
  PROVE  Counts'
<1>1. /\ holder \in SUBSET Task /\ holder' \in SUBSET Task
      /\ In(tasks, Live) \ unwritten \in SUBSET Task
      /\ In(tasks, Live)' \ unwritten' \in SUBSET Task
  BY DEF TypeOK, In
<1>2. /\ Cardinality(holder) \in Nat /\ Cardinality(holder') \in Nat
      /\ Cardinality(holder') <= Cardinality(holder)
  BY <1>1, TaskCounts
<1>3. /\ Cardinality(In(tasks, Live) \ unwritten) \in Nat
      /\ Cardinality(In(tasks, Live)' \ unwritten') \in Nat
      /\ Cardinality(In(tasks, Live)' \ unwritten') <= Cardinality(In(tasks, Live) \ unwritten)
  BY <1>1, TaskCounts
<1> QED
  BY <1>2, <1>3, TaskBounds DEF Counts

-----------------------------------------------------------------------------
LEMMA ServiceBegins == Init => ServiceInv
<1> SUFFICES ASSUME Init PROVE ServiceInv
  OBVIOUS
<1>1. TypeOK
  BY DEF Init, TypeOK, SnapshotOf, Absent, Snapshot, Live, Terminal
<1>2. \A t \in Task : TaskInv(t)
  BY DEF Init, TaskInv, NothingWhenClosed, OneOwner, UnderPermit, InHand, FileAgrees,
         Serving, Absent, Deleted, Snapshot, Live, Terminal, Fetching, Ending
<1>3. Counts
  <2>1. In(tasks, Live) \ unwritten = {} /\ holder = {}
    BY DEF Init, In, Absent, Snapshot, Live
  <2> QED
    BY <2>1, FS_EmptySet, TaskBounds DEF Counts
<1> QED
  BY <1>1, <1>2, <1>3 DEF ServiceInv

-----------------------------------------------------------------------------
(* The requests. *)

\* A task enters: it was fresh or settled, and nobody answered for it.
LEMMA EnterPreserves ==
  ASSUME ServiceInv, NEW t \in Task, NEW rev \in Nat, Serving,
         tasks[t].state \notin Live, Enter(t, rev)
  PROVE  ServiceInv'
<1>1. TypeOK'
  BY DEF ServiceInv, TypeOK, Enter, Save, Show, Snapshot, SnapshotOf, Live
<1>2. TaskInv(t)'
  BY DEF ServiceInv, TypeOK, TaskInv, NothingWhenClosed, OneOwner, UnderPermit, InHand,
         FileAgrees, Enter, Save, Show, Serving, Snapshot, SnapshotOf, Absent, Deleted,
         Live, Terminal, Fetching, Ending
<1>3. \A q \in Task \ {t} : TaskInv(q)'
  BY UntouchedTask DEF ServiceInv, TypeOK, Enter, Save, Show
<1>4. Counts'
  <2>1. /\ In(tasks, Live) \in SUBSET Task /\ In(tasks, Live)' \ unwritten' \in SUBSET Task
        /\ In(tasks, Live)' \ unwritten' \subseteq In(tasks, Live) \cup {t}
    BY DEF ServiceInv, TypeOK, In, Enter, Show
  <2>2. Cardinality(In(tasks, Live)) < MaxActive + MaxQueued /\ holder' = holder
    BY DEF Enter, Admitted
  <2>3. /\ Cardinality(In(tasks, Live)) \in Nat
        /\ Cardinality(In(tasks, Live)' \ unwritten') \in Nat
        /\ Cardinality(In(tasks, Live)' \ unwritten') <= Cardinality(In(tasks, Live)) + 1
    BY <2>1, TaskCounts
  <2> QED
    BY <2>2, <2>3, TaskBounds DEF ServiceInv, Counts
<1> QED
  BY <1>1, <1>2, <1>3, <1>4 DEF ServiceInv

\* start_task() and retry().
LEMMA StartPreserves ==
  ASSUME ServiceInv, NEW t \in Task, Start(t) PROVE ServiceInv'
BY EnterPreserves DEF Start, Fresh, Absent, Snapshot, Live

LEMMA RetryPreserves ==
  ASSUME ServiceInv, NEW t \in Task, Retry(t) PROVE ServiceInv'
<1>1. tasks[t].revision + 1 \in Nat /\ tasks[t].state \notin Live
  BY DEF ServiceInv, TypeOK, SnapshotOf, Retry, Settled, Live, Terminal
<1> QED
  BY <1>1, EnterPreserves DEF Retry

\* Steps that leave the map, the files and the permits alone.
LEMMA HandingOver ==
  ASSUME ServiceInv, NEW t \in Task,
         UNCHANGED <<core, store, holder, copy, unsaved, unwritten>>,
         TypeOK', TaskInv(t)',
         \A q \in Task \ {t} : /\ token'[q] = token[q] /\ worker'[q] = worker[q]
                               /\ q \in request' <=> q \in request
                               /\ q \in stranded' <=> q \in stranded
  PROVE  ServiceInv'
<1>1. \A q \in Task \ {t} : TaskInv(q)'
  BY UntouchedTask DEF ServiceInv, store
<1>2. Counts'
  BY DEF ServiceInv, Counts, store, In
<1> QED
  BY <1>1, <1>2 DEF ServiceInv

LEMMA SchedulePreserves ==
  ASSUME ServiceInv, NEW t \in Task, Schedule(t) PROVE ServiceInv'
<1>1. TypeOK'
  BY DEF ServiceInv, TypeOK, Schedule, At, store, faults
<1>2. TaskInv(t)'
  BY DEF ServiceInv, TypeOK, TaskInv, NothingWhenClosed, OneOwner, UnderPermit, InHand,
         FileAgrees, Schedule, At, store, faults, Serving, Terminal, Fetching, Ending
<1> QED
  BY <1>1, <1>2, HandingOver DEF ServiceInv, TypeOK, Schedule, At, store, faults

LEMMA DropRequestPreserves ==
  ASSUME ServiceInv, NEW t \in Task, DropRequest(t) PROVE ServiceInv'
<1>1. TypeOK'
  BY DEF ServiceInv, TypeOK, DropRequest, store
<1>2. TaskInv(t)'
  BY DEF ServiceInv, TypeOK, TaskInv, NothingWhenClosed, OneOwner, UnderPermit, InHand,
         FileAgrees, DropRequest, store, Serving
<1> QED
  BY <1>1, <1>2, HandingOver DEF ServiceInv, TypeOK, DropRequest, store

LEMMA CancelPreserves ==
  ASSUME ServiceInv, NEW t \in Task, Cancel(t) PROVE ServiceInv'
<1>1. TypeOK'
  BY DEF ServiceInv, TypeOK, Cancel, store, faults
<1>2. TaskInv(t)'
  BY DEF ServiceInv, TypeOK, TaskInv, NothingWhenClosed, OneOwner, UnderPermit, InHand,
         FileAgrees, Cancel, store, faults, Serving
<1> QED
  BY <1>1, <1>2, HandingOver DEF ServiceInv, TypeOK, Cancel, store, faults

LEMMA DeletePreserves ==
  ASSUME ServiceInv, NEW t \in Task, Delete(t) PROVE ServiceInv'
<1>1. TypeOK'
  BY DEF ServiceInv, TypeOK, Delete, Save, Show, Deleted, Snapshot, SnapshotOf
<1>2. TaskInv(t)'
  BY DEF ServiceInv, TypeOK, TaskInv, NothingWhenClosed, OneOwner, UnderPermit, InHand,
         FileAgrees, Delete, Settled, Save, Show, Serving, Snapshot, Deleted, Live,
         Terminal, Fetching, Ending
<1>3. \A q \in Task \ {t} : TaskInv(q)'
  BY UntouchedTask DEF ServiceInv, TypeOK, Delete, Save, Show
<1>4. In(tasks, Live)' \ unwritten' \subseteq In(tasks, Live) \ unwritten
  BY DEF ServiceInv, TypeOK, In, Delete, Show, Deleted, Snapshot, Live
<1> QED
  BY <1>1, <1>2, <1>3, <1>4, CountsStay DEF ServiceInv, Delete

LEMMA DropWritePreserves ==
  ASSUME ServiceInv, NEW t \in Task, DropWrite(t) PROVE ServiceInv'
<1>1. PICK snapshot \in SnapshotOf({"Queued", "deleted"}) :
        Save(t, snapshot) /\ (snapshot = Deleted => Settled(t))
  BY DEF ServiceInv, TypeOK, DropWrite, Deleted, Snapshot, SnapshotOf
<1>2. tasks[t].state \notin Live
  BY DEF DropWrite, Fresh, Settled, Absent, Snapshot, Live, Terminal
<1>3. TypeOK'
  BY <1>1 DEF ServiceInv, TypeOK, DropWrite, Save, SnapshotOf, Live
<1>4. TaskInv(t)'
  <2>1. disk'[t] = Deleted => tasks[t].state \in Terminal
    BY <1>1 DEF ServiceInv, TypeOK, Save, Settled
  <2> QED
    BY <2>1, <1>2 DEF ServiceInv, TypeOK, TaskInv, NothingWhenClosed, OneOwner, UnderPermit,
         InHand, FileAgrees, DropWrite, Serving
<1>5. \A q \in Task \ {t} : TaskInv(q)'
  BY <1>1, UntouchedTask DEF ServiceInv, TypeOK, DropWrite, Save
<1>6. In(tasks, Live)' \ unwritten' \subseteq In(tasks, Live) \ unwritten
  BY DEF In, DropWrite
<1> QED
  BY <1>3, <1>4, <1>5, <1>6, CountsStay DEF ServiceInv, DropWrite

-----------------------------------------------------------------------------
(* The worker of a task. *)

\* A worker settles its task, whether or not the file is written.
LEMMA SettlePreserves ==
  ASSUME ServiceInv, NEW t \in Task, Serving, NEW st \in Terminal, NEW rev \in Nat,
         rev > tasks[t].revision, unsaved[t] = Absent,
         worker[t] \in {"waiting"} \cup Terminal,
         holder' = holder \/ holder' = holder \cup {t},
         Cardinality(holder') <= MaxActive,
         Settle(t, Snapshot(st, rev))
  PROVE  ServiceInv'
<1>1. TypeOK'
  <2>1. Snapshot(st, rev) \in SnapshotOf(Terminal)
    BY DEF Snapshot, SnapshotOf
  <2>2. copy' = [copy EXCEPT ![t] = Snapshot(st, rev)] /\ worker' = [worker EXCEPT ![t] = "settling"]
    BY DEF Settle, At
  <2>3. disk' = [disk EXCEPT ![t] = Snapshot(st, rev)] \/ disk' = disk
    BY DEF Settle, Save
  <2>4. copy' \in [Task -> SnapshotOf(Terminal \cup {"absent"})]
    BY <2>1, <2>2 DEF ServiceInv, TypeOK, SnapshotOf
  <2>5. disk' \in [Task -> SnapshotOf(TaskState)]
    BY <2>1, <2>3 DEF ServiceInv, TypeOK, SnapshotOf, TaskState
  <2> QED
    BY <2>2, <2>4, <2>5 DEF ServiceInv, TypeOK, Settle, TaskState
<1>2. TaskInv(t)'
  <2>1. tasks[t].state \in Live /\ worker[t] # "none" /\ worker[t] \notin Ending
    BY DEF ServiceInv, TaskInv, OneOwner, Terminal, Ending
  <2>2. /\ worker'[t] = "settling" /\ copy'[t] = Snapshot(st, rev)
        /\ \/ disk'[t] = Snapshot(st, rev)
           \/ disk'[t] = disk[t] /\ t \in unwritten'
    BY DEF ServiceInv, TypeOK, Settle, At, Save
  <2> QED
    BY <2>1, <2>2 DEF ServiceInv, TypeOK, TaskInv, NothingWhenClosed, OneOwner, UnderPermit,
         InHand, FileAgrees, Settle, Serving, Snapshot, SnapshotOf, Absent, Deleted, Live,
         Terminal, Fetching, Ending
<1>3. \A q \in Task \ {t} : TaskInv(q)'
  BY UntouchedTask DEF ServiceInv, TypeOK, Settle, At, Save
<1>4. Counts'
  <2>1. In(tasks, Live)' \ unwritten' \subseteq In(tasks, Live) \ unwritten
    BY DEF In, Settle
  <2>2. /\ In(tasks, Live) \ unwritten \in SUBSET Task
        /\ In(tasks, Live)' \ unwritten' \in SUBSET Task
    BY DEF In
  <2>3. /\ Cardinality(In(tasks, Live) \ unwritten) \in Nat
        /\ Cardinality(In(tasks, Live)' \ unwritten') \in Nat
        /\ Cardinality(In(tasks, Live)' \ unwritten')
             <= Cardinality(In(tasks, Live) \ unwritten)
    BY <2>1, <2>2, TaskCounts
  <2> QED
    BY <2>3, TaskBounds DEF ServiceInv, Counts
<1> QED
  BY <1>1, <1>2, <1>3, <1>4 DEF ServiceInv

\* A worker that takes a permit finds one free.
LEMMA AcquireCounts ==
  ASSUME ServiceInv, NEW t \in Task, Acquire(t)
  PROVE  holder' \in SUBSET Task /\ Cardinality(holder') <= MaxActive
<1>1. holder \in SUBSET Task /\ holder' \in SUBSET Task /\ holder' = holder \cup {t}
  BY DEF ServiceInv, TypeOK, Acquire
<1>2. /\ Cardinality(holder) \in Nat /\ Cardinality(holder') \in Nat
      /\ Cardinality(holder') <= Cardinality(holder) + 1
  BY <1>1, TaskCounts
<1> QED
  BY <1>1, <1>2, TaskBounds DEF Acquire

LEMMA GiveUpPreserves ==
  ASSUME ServiceInv, NEW t \in Task, GiveUp(t) PROVE ServiceInv'
<1>1. tasks[t].revision \in Nat /\ tasks[t].revision + 1 > tasks[t].revision
  BY DEF ServiceInv, TypeOK, SnapshotOf
<1>2. unsaved[t] = Absent
  BY DEF ServiceInv, TaskInv, InHand, GiveUp, Fetching, Terminal
<1>3. Cardinality(holder') <= MaxActive /\ holder' = holder
  BY DEF ServiceInv, Counts, GiveUp
<1> QED
  BY <1>1, <1>2, <1>3, SettlePreserves DEF GiveUp, Terminal

LEMMA RunFailsPreserves ==
  ASSUME ServiceInv, NEW t \in Task, RunFails(t) PROVE ServiceInv'
<1>1. tasks[t].revision + 2 \in Nat /\ tasks[t].revision + 2 > tasks[t].revision
  BY DEF ServiceInv, TypeOK, SnapshotOf
<1>2. unsaved[t] = Absent
  BY DEF ServiceInv, TaskInv, InHand, RunFails, Acquire, Fetching, Terminal
<1>3. holder' = holder \cup {t} /\ Cardinality(holder') <= MaxActive
  BY AcquireCounts DEF RunFails, Acquire
<1> QED
  BY <1>1, <1>2, <1>3, SettlePreserves DEF RunFails, Acquire, Terminal

LEMMA ConcludePreserves ==
  ASSUME ServiceInv, NEW t \in Task, Conclude(t) PROVE ServiceInv'
<1>1. tasks[t].revision + 1 \in Nat /\ tasks[t].revision + 1 > tasks[t].revision
  BY DEF ServiceInv, TypeOK, SnapshotOf
<1>2. PICK st \in Terminal : Settle(t, Snapshot(st, tasks[t].revision + 1))
  BY DEF Conclude, Verdict, Terminal
<1>3. Cardinality(holder') <= MaxActive /\ holder' = holder
  BY DEF ServiceInv, Counts, Conclude
<1>4. /\ Serving /\ unsaved[t] = Absent /\ worker[t] \in {"waiting"} \cup Terminal
  BY DEF Conclude
<1> QED
  BY <1>1, <1>2, <1>3, <1>4, SettlePreserves

LEMMA RunPreserves ==
  ASSUME ServiceInv, NEW t \in Task, Run(t) PROVE ServiceInv'
<1> DEFINE running == Snapshot("Running", tasks[t].revision + 1)
<1>1. /\ running \in SnapshotOf({"Running"}) /\ running.state = "Running"
      /\ running.revision = tasks[t].revision + 1
  BY DEF ServiceInv, TypeOK, Snapshot, SnapshotOf
<1>2. /\ worker[t] = "waiting" /\ worker'[t] = "fetching"
      /\ disk'[t] = running /\ tasks'[t] = running /\ t \in holder'
  BY DEF ServiceInv, TypeOK, Run, Acquire, At, Save, Show
<1>3. tasks[t].state \in Live
  BY <1>2 DEF ServiceInv, TaskInv, OneOwner, Run
<1>4. TypeOK'
  BY <1>1 DEF ServiceInv, TypeOK, Run, Acquire, At, Save, Show, faults, SnapshotOf, Live
<1>5. TaskInv(t)'
  <2> HIDE DEF running
  <2> QED
    BY <1>1, <1>2, <1>3 DEF ServiceInv, TypeOK, TaskInv, NothingWhenClosed, OneOwner,
       UnderPermit, InHand, FileAgrees, Run, faults, Serving, Snapshot, Absent, Deleted,
       Live, Terminal, Fetching, Ending
<1>6. \A q \in Task \ {t} : TaskInv(q)'
  BY UntouchedTask DEF ServiceInv, TypeOK, Run, Acquire, At, Save, Show, faults
<1>7. Counts'
  <2>1. In(tasks, Live)' \ unwritten' = In(tasks, Live) \ unwritten
    BY <1>1, <1>2, <1>3 DEF ServiceInv, TypeOK, In, Run, Show, faults, Live
  <2> QED
    BY <2>1, AcquireCounts DEF ServiceInv, Counts, Run
<1> QED
  BY <1>4, <1>5, <1>6, <1>7 DEF ServiceInv

\* Progress is shown for a running task only, and moves its revision.
LEMMA ProgressPreserves ==
  ASSUME ServiceInv, NEW t \in Task, Progress(t) PROVE ServiceInv'
<1> DEFINE applied == Snapshot("Running", tasks[t].revision + 1)
<1>1. worker[t] \in Fetching /\ tasks[t].state = "Running"
  BY DEF ServiceInv, TaskInv, InHand, Progress, Fetching
<1>2. /\ applied \in SnapshotOf({"Running"}) /\ applied.state = "Running"
      /\ applied.revision = tasks[t].revision + 1
      /\ [tasks[t] EXCEPT !.revision = @ + 1] = applied
  BY <1>1 DEF ServiceInv, TypeOK, Snapshot, SnapshotOf
<1>3. tasks' = [tasks EXCEPT ![t] = applied]
  BY <1>2 DEF Progress, Show
<1>4. unsaved' = [unsaved EXCEPT ![t] = applied] \/ unsaved' = unsaved
  BY <1>2 DEF Progress
<1> HIDE DEF applied
<1>5. TypeOK'
  <2>1. applied \in SnapshotOf(TaskState) /\ applied \in SnapshotOf({"Running", "absent"})
    BY <1>2 DEF SnapshotOf, TaskState, Live
  <2>2. tasks' \in [Task -> SnapshotOf(TaskState)]
    BY <1>3, <2>1 DEF ServiceInv, TypeOK, TaskState
  <2>3. unsaved' \in [Task -> SnapshotOf({"Running", "absent"})]
    BY <1>4, <2>1 DEF ServiceInv, TypeOK
  <2> QED
    BY <2>2, <2>3 DEF ServiceInv, TypeOK, Progress, faults, TaskState
<1>6. TaskInv(t)'
  <2>1. tasks'[t] = applied /\ (unsaved'[t] = applied \/ unsaved'[t] = unsaved[t])
    BY <1>3, <1>4 DEF ServiceInv, TypeOK
  <2> QED
    BY <1>1, <1>2, <2>1 DEF ServiceInv, TypeOK, TaskInv, NothingWhenClosed, OneOwner,
       UnderPermit, InHand, FileAgrees, Progress, faults, Serving, Snapshot, Absent,
       Deleted, Live, Terminal, Fetching, Ending
<1>7. \A q \in Task \ {t} : TaskInv(q)'
  BY <1>3, <1>4, UntouchedTask DEF ServiceInv, TypeOK, Progress, faults
<1>8. In(tasks, Live)' \ unwritten' \subseteq In(tasks, Live) \ unwritten
  BY <1>1, <1>3 DEF ServiceInv, TypeOK, In, Progress, faults, Live
<1> QED
  BY <1>5, <1>6, <1>7, <1>8, CountsStay DEF ServiceInv, Progress

LEMMA SaveProgressPreserves ==
  ASSUME ServiceInv, NEW t \in Task, SaveProgress(t) PROVE ServiceInv'
<1>1. /\ worker[t] \in Fetching /\ tasks[t].state = "Running"
      /\ unsaved[t].state = "Running" /\ unsaved[t].revision \in Nat
  BY DEF ServiceInv, TypeOK, SnapshotOf, TaskInv, InHand, SaveProgress
<1>2. TypeOK'
  <2>1. /\ disk' = [disk EXCEPT ![t] = unsaved[t]] \/ disk' = disk
        /\ unsaved' = [unsaved EXCEPT ![t] = Absent]
        /\ Absent \in SnapshotOf({"Running", "absent"})
        /\ unsaved[t] \in SnapshotOf(TaskState)
    BY DEF ServiceInv, TypeOK, SaveProgress, Save, Absent, Snapshot, SnapshotOf, TaskState, Live
  <2>2. disk' \in [Task -> SnapshotOf(TaskState)]
    BY <2>1 DEF ServiceInv, TypeOK, TaskState
  <2> QED
    BY <2>1, <2>2 DEF ServiceInv, TypeOK, SaveProgress, faults, TaskState
<1>3. TaskInv(t)'
  <2>1. (disk'[t] = unsaved[t] \/ disk'[t] = disk[t]) /\ unsaved'[t] = Absent
    BY DEF ServiceInv, TypeOK, SaveProgress, Save
  <2> QED
    BY <1>1, <2>1 DEF ServiceInv, TypeOK, TaskInv, NothingWhenClosed, OneOwner, UnderPermit,
       InHand, FileAgrees, SaveProgress, faults, Serving, Snapshot, Absent, Deleted, Live,
       Terminal, Fetching, Ending
<1>4. \A q \in Task \ {t} : TaskInv(q)'
  BY UntouchedTask DEF ServiceInv, TypeOK, SaveProgress, Save, faults
<1>5. In(tasks, Live)' \ unwritten' \subseteq In(tasks, Live) \ unwritten
  BY DEF In, SaveProgress, faults
<1> QED
  BY <1>2, <1>3, <1>4, <1>5, CountsStay DEF ServiceInv, SaveProgress

LEMMA FetchPreserves ==
  ASSUME ServiceInv, NEW t \in Task, Fetch(t) PROVE ServiceInv'
<1>1. PICK r \in Terminal : worker' = [worker EXCEPT ![t] = r]
  BY DEF Fetch, At
<1>2. TypeOK'
  <2>1. worker' \in [Task -> Place]
    BY <1>1 DEF ServiceInv, TypeOK, Place
  <2> QED
    BY <2>1 DEF ServiceInv, TypeOK, Fetch, store, faults, Place
<1>3. TaskInv(t)'
  <2>1. worker[t] = "fetching" /\ worker'[t] = r
    BY <1>1 DEF ServiceInv, TypeOK, Fetch
  <2> QED
    BY <2>1 DEF ServiceInv, TypeOK, TaskInv, NothingWhenClosed, OneOwner, UnderPermit,
       InHand, FileAgrees, Fetch, store, faults, Serving, Terminal, Fetching, Ending
<1> QED
  BY <1>1, <1>2, <1>3, HandingOver DEF ServiceInv, TypeOK, Fetch, store, faults

LEMMA ReleasePreserves ==
  ASSUME ServiceInv, NEW t \in Task, Release(t) PROVE ServiceInv'
<1>1. TypeOK'
  BY DEF ServiceInv, TypeOK, Release, At, store, faults
<1>2. TaskInv(t)'
  BY DEF ServiceInv, TypeOK, TaskInv, NothingWhenClosed, OneOwner, UnderPermit, InHand,
         FileAgrees, Release, At, store, faults, Serving, Terminal, Fetching, Ending
<1> QED
  BY <1>1, <1>2, HandingOver DEF ServiceInv, TypeOK, Release, At, store, faults

\* The copy a worker publishes is newer than the map and agrees with the file.
LEMMA PublishPreserves ==
  ASSUME ServiceInv, NEW t \in Task, Publish(t) PROVE ServiceInv'
<1>1. worker[t] \in Ending /\ copy[t].state \in Terminal /\ unsaved[t] = Absent
  BY DEF ServiceInv, TaskInv, InHand, Publish, Ending, Fetching, Terminal
<1>2. /\ tasks' = [tasks EXCEPT ![t] = copy[t]] /\ worker' = [worker EXCEPT ![t] = "none"]
      /\ copy' = [copy EXCEPT ![t] = Absent] /\ holder' = holder \ {t}
  BY DEF Publish, Show, At
<1>3. TypeOK'
  BY <1>2 DEF ServiceInv, TypeOK, Publish, Absent, Snapshot, SnapshotOf
<1>4. TaskInv(t)'
  <2>1. tasks'[t] = copy[t] /\ worker'[t] = "none" /\ copy'[t] = Absent /\ t \notin holder'
    BY <1>2 DEF ServiceInv, TypeOK
  <2>2. t \notin unwritten' => disk[t] = copy[t]
    BY <1>1 DEF ServiceInv, TaskInv, FileAgrees, Publish
  <2>3. disk[t] # Deleted
    BY <1>1 DEF ServiceInv, TaskInv, FileAgrees, OneOwner, Publish, Ending, Live, Terminal
  <2> QED
    BY <1>1, <2>1, <2>2, <2>3 DEF ServiceInv, TypeOK, TaskInv, NothingWhenClosed, OneOwner,
       UnderPermit, InHand, FileAgrees, Publish, Serving, Snapshot, Absent, Deleted, Live,
       Terminal, Fetching, Ending
<1>5. \A q \in Task \ {t} : TaskInv(q)'
  BY <1>2, UntouchedTask DEF ServiceInv, TypeOK, Publish
<1>6. In(tasks, Live)' \ unwritten' \subseteq In(tasks, Live) \ unwritten
  BY <1>1, <1>2 DEF ServiceInv, TypeOK, In, Publish, Live, Terminal
<1> QED
  BY <1>2, <1>3, <1>4, <1>5, <1>6, CountsStay DEF ServiceInv, Publish

-----------------------------------------------------------------------------
(* The life of the Core. *)

LEMMA BeginShutdownPreserves ==
  ASSUME ServiceInv, BeginShutdown PROVE ServiceInv'
<1>1. TypeOK'
  BY DEF ServiceInv, TypeOK, BeginShutdown, store, faults
<1>2. \A t \in Task : TaskInv(t)'
  BY DEF ServiceInv, TaskInv, NothingWhenClosed, OneOwner, UnderPermit, InHand, FileAgrees,
         BeginShutdown, store, faults, Serving
<1>3. Counts'
  BY DEF ServiceInv, Counts, In, BeginShutdown, store, faults
<1> QED
  BY <1>1, <1>2, <1>3 DEF ServiceInv

LEMMA ClosePreserves ==
  ASSUME ServiceInv, Close PROVE ServiceInv'
<1>1. TypeOK'
  BY DEF ServiceInv, TypeOK, Close, store, Absent, Snapshot, SnapshotOf
<1>2. \A t \in Task : TaskInv(t)'
  BY DEF ServiceInv, TypeOK, TaskInv, NothingWhenClosed, OneOwner, UnderPermit, InHand,
         FileAgrees, Close, store, Serving, Terminal, Fetching, Ending
<1>3. In(tasks, Live)' \ unwritten' \subseteq In(tasks, Live) \ unwritten /\ holder' \subseteq holder
  BY DEF In, Close, store
<1> QED
  BY <1>1, <1>2, <1>3, CountsStay DEF ServiceInv

\* What open() brings back of a task.
LEMMA WhatOpenReads ==
  ASSUME ServiceInv, Open, NEW t \in Task
  PROVE  /\ tasks'[t] = disk'[t]
         /\ disk'[t] = IF disk[t].state = "Running"
                       THEN Snapshot("Failed", disk[t].revision + 1) ELSE disk[t]
         /\ disk'[t] \in SnapshotOf(TaskState)
         /\ disk'[t].state # "Running"
         /\ disk'[t].state = "Queued" <=> disk[t].state = "Queued"
         /\ token'[t] = IF disk[t].state = "Queued" THEN "live" ELSE "none"
         /\ worker'[t] = IF disk[t].state = "Queued" THEN "waiting" ELSE "none"
         /\ t \in unwritten' <=> t \in unwritten /\ disk[t].state = "Queued"
<1> DEFINE read == [q \in Task |-> IF disk[q].state = "Running"
                                   THEN Snapshot("Failed", disk[q].revision + 1)
                                   ELSE disk[q]]
<1>1. /\ tasks' = read /\ disk' = read
      /\ token' = [q \in Task |-> IF q \in In(read, {"Queued"}) THEN "live" ELSE "none"]
      /\ worker' = [q \in Task |-> IF q \in In(read, {"Queued"}) THEN "waiting" ELSE "none"]
      /\ unwritten' = unwritten \cap In(read, {"Queued"})
  BY DEF Open
<1>2. disk[t] \in SnapshotOf(TaskState)
  BY DEF ServiceInv, TypeOK, TaskState
<1>3. /\ read[t] \in SnapshotOf(TaskState) /\ read[t].state # "Running"
      /\ read[t].state = "Queued" <=> disk[t].state = "Queued"
  BY <1>2 DEF Snapshot, SnapshotOf, TaskState, Live, Terminal
<1>4. t \in In(read, {"Queued"}) <=> disk[t].state = "Queued"
  BY <1>3 DEF In
<1> QED
  BY <1>1, <1>3, <1>4

LEMMA OpenPreserves ==
  ASSUME ServiceInv, Open PROVE ServiceInv'
<1>1. TypeOK'
  <2>1. /\ tasks' \in [Task -> SnapshotOf(TaskState)] /\ disk' \in [Task -> SnapshotOf(TaskState)]
        /\ token' \in [Task -> {"none", "live", "cancelled"}] /\ worker' \in [Task -> Place]
    <3>1. /\ tasks' = [t \in Task |-> tasks'[t]] /\ disk' = [t \in Task |-> disk'[t]]
          /\ token' = [t \in Task |-> token'[t]] /\ worker' = [t \in Task |-> worker'[t]]
      BY DEF Open
    <3>2. \A t \in Task : /\ tasks'[t] \in SnapshotOf(TaskState)
                          /\ disk'[t] \in SnapshotOf(TaskState)
                          /\ token'[t] \in {"none", "live", "cancelled"}
                          /\ worker'[t] \in Place
      BY WhatOpenReads DEF Place
    <3> QED
      BY <3>1, <3>2
  <2>2. unwritten' \in SUBSET Task /\ core' = "open"
    BY DEF ServiceInv, TypeOK, Open
  <2> QED
    BY <2>1, <2>2 DEF ServiceInv, TypeOK, Open, TaskState, Place
<1>2. ASSUME NEW t \in Task PROVE TaskInv(t)'
  <2>1. /\ t \notin request' /\ t \notin stranded' /\ t \notin holder'
        /\ copy'[t] = Absent /\ unsaved'[t] = Absent /\ core' = "open"
    BY DEF ServiceInv, TaskInv, NothingWhenClosed, Open
  <2>2. disk'[t].state \in TaskState /\ disk[t].state \in TaskState /\ disk[t].revision \in Nat
    BY WhatOpenReads DEF ServiceInv, TypeOK, SnapshotOf, TaskState
  <2>3. NothingWhenClosed(t)' /\ UnderPermit(t)'
    BY <2>1, WhatOpenReads DEF NothingWhenClosed, UnderPermit, Fetching, Terminal
  <2>4. OneOwner(t)'
    BY <2>1, <2>2, WhatOpenReads DEF OneOwner, Live
  <2>5. InHand(t)'
    BY <2>1, WhatOpenReads DEF InHand, Ending, Fetching, Terminal
  <2>6. FileAgrees(t)'
    <3>1. Deleted.state = "deleted" /\ worker'[t] \notin Ending /\ tasks'[t] = disk'[t]
      BY WhatOpenReads DEF Deleted, Snapshot, Ending
    <3> QED
      BY <3>1 DEF FileAgrees, Live
  <2> QED
    BY <2>3, <2>4, <2>5, <2>6 DEF TaskInv
<1>3. In(tasks, Live)' \ unwritten' \subseteq In(tasks, Live) \ unwritten
  <2> SUFFICES ASSUME NEW t \in Task, tasks'[t].state \in Live, t \notin unwritten'
               PROVE  tasks[t].state \in Live /\ t \notin unwritten
    BY DEF In
  <2>1. disk[t].state = "Queued" /\ t \notin unwritten
    BY WhatOpenReads DEF Live
  <2> QED
    BY <2>1 DEF ServiceInv, TaskInv, FileAgrees
<1> QED
  BY <1>1, <1>2, <1>3, CountsStay DEF ServiceInv, Open

-----------------------------------------------------------------------------
LEMMA ServiceStep ==
  ServiceInv /\ [Next]_vars => ServiceInv'
<1> SUFFICES ASSUME ServiceInv, [Next]_vars PROVE ServiceInv'
  OBVIOUS
<1>1. ASSUME NEW t \in Task, Request(t) PROVE ServiceInv'
  BY <1>1, StartPreserves, RetryPreserves, SchedulePreserves, CancelPreserves,
     DeletePreserves, DropRequestPreserves, DropWritePreserves DEF Request
<1>2. ASSUME NEW t \in Task, Work(t) PROVE ServiceInv'
  BY <1>2, GiveUpPreserves, RunPreserves, RunFailsPreserves, ProgressPreserves,
     SaveProgressPreserves, FetchPreserves, ConcludePreserves, ReleasePreserves,
     PublishPreserves DEF Work
<1>3. CASE UNCHANGED vars
  <2>1. UNCHANGED <<core, tasks, disk, token, request, worker, holder, copy, unsaved,
                    stranded, unwritten>>
    BY <1>3 DEF vars, store, faults
  <2>2. TypeOK' /\ Counts'
    BY <2>1 DEF ServiceInv, TypeOK, Counts, In
  <2>3. \A t \in Task : TaskInv(t)'
    BY <2>1, UntouchedTask DEF ServiceInv
  <2> QED
    BY <2>2, <2>3 DEF ServiceInv
<1> QED
  BY <1>1, <1>2, <1>3, BeginShutdownPreserves, ClosePreserves, OpenPreserves DEF Next

LEMMA ServiceInvariant == Spec => []ServiceInv
<1> QED
  BY ServiceBegins, ServiceStep, PTL DEF Spec

\* The service's data keep their shape.
THEOREM ServiceTypeCorrectness == Spec => []TypeOK
<1>1. ServiceInv => TypeOK
  BY DEF ServiceInv
<1> QED
  BY <1>1, ServiceInvariant, PTL

\* A task is queued or running exactly as long as one request or one worker will settle
\* it, and its token is there as long as the worker works: spawn_worker(), run() and
\* finish() hand a task over without a gap and without two owners.
THEOREM LiveTasksAreBacked == Spec => []LiveTaskIsBacked
<1>1. ServiceInv => LiveTaskIsBacked
  BY DEF ServiceInv, TaskInv, OneOwner, LiveTaskIsBacked
<1> QED
  BY <1>1, ServiceInvariant, PTL

\* max_active and max_queued hold, through restarts too.
THEOREM DownloadLimitsHold == Spec => []LimitsRespected
<1>1. ServiceInv => LimitsRespected
  <2> SUFFICES ASSUME ServiceInv, Serving
               PROVE  /\ Cardinality(In(tasks, Live) \ unwritten) <= MaxActive + MaxQueued
                      /\ Cardinality(In(tasks, {"Running"})) <= MaxActive
    BY DEF LimitsRespected
  <2>1. holder \in SUBSET Task /\ In(tasks, {"Running"}) \in SUBSET Task
    BY DEF ServiceInv, TypeOK, In
  <2>2. In(tasks, {"Running"}) \subseteq holder
    BY DEF ServiceInv, TaskInv, UnderPermit, In
  <2>3. /\ Cardinality(holder) \in Nat /\ Cardinality(In(tasks, {"Running"})) \in Nat
        /\ Cardinality(In(tasks, {"Running"})) <= Cardinality(holder)
    BY <2>1, <2>2, TaskCounts
  <2> QED
    BY <2>3, TaskBounds DEF ServiceInv, Counts
<1> QED
  BY <1>1, ServiceInvariant, PTL

\* What a client has seen settled is what a restart reads, if every write it relied on
\* was done.
THEOREM SettledTasksAreDurable == Spec => []SettledIsDurable
<1>1. ServiceInv => SettledIsDurable
  BY DEF ServiceInv, TaskInv, FileAgrees, SettledIsDurable
<1> QED
  BY <1>1, ServiceInvariant, PTL

\* shutdown() that finds no token left finds no file that says running.
THEOREM RecoveryPointsAreSaved == Spec => []RecoveryPointSaved
<1>1. ServiceInv => RecoveryPointSaved
  <2> SUFFICES ASSUME ServiceInv, Serving, NEW t \in Task \ unwritten, token[t] = "none"
               PROVE  disk[t].state # "Running"
    BY DEF RecoveryPointSaved
  <2>1. worker[t] \in {"none", "released"}
    BY DEF ServiceInv, TaskInv, OneOwner
  <2>2. CASE worker[t] = "released"
    BY <2>2 DEF ServiceInv, TaskInv, InHand, FileAgrees, Ending, Terminal
  <2>3. CASE worker[t] = "none"
    <3>1. disk[t] = tasks[t] /\ (tasks[t].state = "Running" => t \in request \cup stranded)
      BY <2>3 DEF ServiceInv, TaskInv, OneOwner, FileAgrees, Live
    <3> QED
      BY <3>1 DEF ServiceInv, TaskInv, InHand
  <2> QED
    BY <2>1, <2>2, <2>3
<1> QED
  BY <1>1, ServiceInvariant, PTL

-----------------------------------------------------------------------------
(* Snapshots only move forward. *)

\* What a step may do to the snapshots of a task.
Forward(t) ==
  /\ Serving /\ tasks'[t] # tasks[t] /\ tasks'[t] # Deleted
       => tasks'[t].revision > tasks[t].revision
  /\ disk[t] = Deleted => disk'[t] = Deleted /\ tasks'[t] \in {Deleted, tasks[t]}

\* A step that shows and writes nothing of the task.
LEMMA NothingMoves ==
  ASSUME NEW t \in Task, tasks'[t] = tasks[t], disk'[t] = disk[t]
  PROVE  Forward(t)
BY DEF Forward

\* Nobody works on a deleted task.
LEMMA DeletedIsIdle ==
  ASSUME ServiceInv, NEW t \in Task, disk[t] = Deleted, Serving
  PROVE  worker[t] = "none" /\ tasks[t].state \notin Live \cup {"absent"} /\ unsaved[t] = Absent
BY DEF ServiceInv, TaskInv, OneOwner, InHand, FileAgrees, Live, Terminal, Fetching

LEMMA RequestMovesForward ==
  ASSUME ServiceInv, NEW t \in Task, NEW u \in Task, Request(u)
  PROVE  Forward(t)
<1>1. CASE Start(u)
  <2>1. t # u => tasks'[t] = tasks[t] /\ disk'[t] = disk[t]
    BY <1>1 DEF ServiceInv, TypeOK, Start, Enter, Save, Show
  <2>2. CASE t = u
    BY <1>1, <2>2 DEF ServiceInv, TypeOK, Forward, Start, Fresh, Enter, Save, Show, Absent,
                     Deleted, Snapshot
  <2> QED
    BY <2>1, <2>2, NothingMoves
<1>2. CASE Retry(u)
  <2>1. t # u => tasks'[t] = tasks[t] /\ disk'[t] = disk[t]
    BY <1>2 DEF ServiceInv, TypeOK, Retry, Enter, Save, Show
  <2>2. CASE t = u
    BY <1>2, <2>2 DEF ServiceInv, TypeOK, SnapshotOf, Forward, Retry, Settled, Enter, Save, Show,
                     Snapshot
  <2> QED
    BY <2>1, <2>2, NothingMoves
<1>3. CASE Delete(u)
  <2>1. t # u => tasks'[t] = tasks[t] /\ disk'[t] = disk[t]
    BY <1>3 DEF ServiceInv, TypeOK, Delete, Save, Show
  <2>2. CASE t = u
    BY <1>3, <2>2 DEF ServiceInv, TypeOK, Forward, Delete, Settled, Save, Show
  <2> QED
    BY <2>1, <2>2, NothingMoves
<1>4. CASE DropWrite(u)
  <2>1. tasks' = tasks
    BY <1>4 DEF DropWrite
  <2>2. disk[t] = Deleted => disk'[t] = Deleted
    BY <1>4 DEF ServiceInv, TypeOK, DropWrite, Fresh, Settled, Save, Absent, Deleted, Snapshot
  <2> QED
    BY <2>1, <2>2 DEF Forward
<1>5. CASE Schedule(u) \/ Cancel(u) \/ DropRequest(u)
  BY <1>5, NothingMoves DEF Schedule, Cancel, DropRequest, store
<1> QED
  BY <1>1, <1>2, <1>3, <1>4, <1>5 DEF Request

LEMMA WorkMovesForward ==
  ASSUME ServiceInv, NEW t \in Task, NEW u \in Task, Work(u)
  PROVE  Forward(t)
<1>1. CASE GiveUp(u) \/ RunFails(u) \/ Conclude(u)
  <2>1. tasks' = tasks /\ Serving /\ worker[u] # "none" /\ (t # u => disk'[t] = disk[t])
    BY <1>1 DEF ServiceInv, TypeOK, GiveUp, RunFails, Acquire, Conclude, Settle, Save, Terminal
  <2> QED
    BY <2>1, DeletedIsIdle DEF Forward
<1>2. CASE Run(u)
  <2>1. /\ Serving /\ worker[u] # "none"
        /\ t # u => tasks'[t] = tasks[t] /\ disk'[t] = disk[t]
        /\ tasks'[u].revision > tasks[u].revision
    BY <1>2 DEF ServiceInv, TypeOK, SnapshotOf, Run, Acquire, Save, Show, Snapshot
  <2> QED
    BY <2>1, DeletedIsIdle DEF Forward
<1>3. CASE Progress(u)
  <2>1. /\ Serving /\ worker[u] # "none" /\ disk' = disk
        /\ t # u => tasks'[t] = tasks[t]
        /\ tasks'[u].revision > tasks[u].revision
    BY <1>3 DEF ServiceInv, TypeOK, SnapshotOf, Progress, Show, Terminal
  <2> QED
    BY <2>1, DeletedIsIdle DEF Forward
<1>4. CASE SaveProgress(u)
  <2>1. tasks' = tasks /\ Serving /\ unsaved[u] # Absent /\ (t # u => disk'[t] = disk[t])
    BY <1>4 DEF ServiceInv, TypeOK, SaveProgress, Save
  <2> QED
    BY <2>1, DeletedIsIdle DEF Forward
<1>5. CASE Publish(u)
  <2>1. /\ Serving /\ worker[u] # "none" /\ disk' = disk
        /\ t # u => tasks'[t] = tasks[t]
        /\ tasks'[u].revision > tasks[u].revision
    BY <1>5 DEF ServiceInv, TypeOK, TaskInv, InHand, Publish, Show, Ending
  <2> QED
    BY <2>1, DeletedIsIdle DEF Forward
<1>6. CASE Fetch(u) \/ Release(u)
  BY <1>6, NothingMoves DEF Fetch, Release, store
<1> QED
  BY <1>1, <1>2, <1>3, <1>4, <1>5, <1>6 DEF Work

LEMMA StepMovesForward ==
  ASSUME ServiceInv, [Next]_vars, NEW t \in Task
  PROVE  Forward(t)
<1>1. CASE BeginShutdown \/ Close \/ UNCHANGED vars
  BY <1>1, NothingMoves DEF BeginShutdown, Close, vars, store
<1>2. CASE Open
  BY <1>2, WhatOpenReads DEF Forward, Open, Serving, Deleted, Snapshot
<1> QED
  BY <1>1, <1>2, RequestMovesForward, WorkMovesForward DEF Next

\* Neither a worker's copy nor a late write of progress nor a request or a restart brings
\* back an earlier revision or a deleted task.
THEOREM SnapshotsOnlyMoveForward == Spec => SnapshotsMoveForward
<1>1. ServiceInv /\ [Next]_vars =>
        /\ [\A t \in Task : Serving /\ tasks'[t] # tasks[t] /\ tasks'[t] # Deleted
                              => tasks'[t].revision > tasks[t].revision]_vars
        /\ [\A t \in Task : disk[t] = Deleted
                              => disk'[t] = Deleted /\ tasks'[t] \in {Deleted, tasks[t]}]_vars
  BY StepMovesForward DEF Forward
<1> QED
  BY <1>1, ServiceInvariant, PTL DEF Spec, SnapshotsMoveForward, RevisionGrows, DeletedStaysDeleted

-----------------------------------------------------------------------------
(* The image downloads are durable tasks.                                  *)

\* What the file of a task says that a restart may bring back in the place of what is
\* shown: a success only where one has been fetched, and nothing of a task nobody asked
\* for or somebody deleted, but for a request that was dropped half way.
FileIsKept(t) ==
  /\ tasks[t].state = "absent" =>
       \/ disk[t].state = "absent"
       \/ disk[t].state = "Queued" /\ t \in unwritten
  /\ tasks[t].state = "deleted" => disk[t].state = "deleted"
  /\ tasks[t].state \in Live => disk[t].state \in Live \cup Terminal
  /\ tasks[t].state \in Terminal =>
       /\ disk[t].state # "absent"
       /\ disk[t].state = "Completed" => tasks[t].state = "Completed"
  /\ Serving /\ tasks[t].state \in Live /\ disk[t].state \notin Live =>
       worker[t] \in Ending /\ disk[t] = copy[t]

FilesAreKept == \A t \in Task : FileIsKept(t)

LEMMA KeptFromTheStart == Init => FilesAreKept
BY DEF Init, FilesAreKept, FileIsKept, Absent, Snapshot, Live, Terminal

\* A task that a step leaves alone.
LEMMA KeptIfUntouched ==
  ASSUME NEW q \in Task, FileIsKept(q), Serving, tasks'[q] = tasks[q], disk'[q] = disk[q],
         worker'[q] = worker[q], copy'[q] = copy[q], q \in unwritten' <=> q \in unwritten
  PROVE  FileIsKept(q)'
BY DEF FileIsKept

\* A step of one task, by what it does to that task.
LEMMA KeptByStepOf ==
  ASSUME FilesAreKept, Serving, NEW t \in Task, FileIsKept(t)',
         \A q \in Task \ {t} : /\ tasks'[q] = tasks[q] /\ disk'[q] = disk[q]
                               /\ worker'[q] = worker[q] /\ copy'[q] = copy[q]
                               /\ q \in unwritten' <=> q \in unwritten
  PROVE  FilesAreKept'
BY KeptIfUntouched DEF FilesAreKept

LEMMA KeptByEnter ==
  ASSUME TypeOK, FilesAreKept, Serving, NEW t \in Task, NEW rev \in Nat, Enter(t, rev)
  PROVE  FilesAreKept'
<1>1. FileIsKept(t)'
  BY DEF TypeOK, FileIsKept, Enter, Save, Show, Snapshot, Live, Terminal
<1> QED
  BY <1>1, KeptByStepOf DEF TypeOK, Enter, Save, Show

LEMMA KeptByRequest ==
  ASSUME ServiceInv, FilesAreKept, NEW t \in Task, Request(t)
  PROVE  FilesAreKept'
<1>1. CASE Start(t)
  BY <1>1, KeptByEnter DEF Start, ServiceInv
<1>2. CASE Retry(t)
  <2>1. tasks[t].revision + 1 \in Nat
    BY DEF ServiceInv, TypeOK, SnapshotOf
  <2> QED
    BY <1>2, <2>1, KeptByEnter DEF Retry, ServiceInv
<1>3. CASE Delete(t)
  <2>1. FileIsKept(t)'
    BY <1>3 DEF ServiceInv, TypeOK, FileIsKept, Delete, Save, Show, Deleted, Snapshot, Live, Terminal
  <2> QED
    BY <1>3, <2>1, KeptByStepOf DEF ServiceInv, TypeOK, Delete, Save, Show
<1>4. CASE DropWrite(t)
  <2>1. PICK snapshot \in SnapshotOf({"Queued", "deleted"}) :
          Save(t, snapshot) /\ (Fresh(t) => snapshot.state = "Queued")
    <3>1. ~(Fresh(t) /\ Settled(t))
      BY DEF Fresh, Settled, Absent, Snapshot, Terminal
    <3>2. /\ Snapshot("Queued", 1) \in SnapshotOf({"Queued", "deleted"})
          /\ Deleted \in SnapshotOf({"Queued", "deleted"})
          /\ Snapshot("Queued", tasks[t].revision + 1) \in SnapshotOf({"Queued", "deleted"})
          /\ Snapshot("Queued", 1).state = "Queued"
      BY DEF ServiceInv, TypeOK, Deleted, Snapshot, SnapshotOf
    <3> QED
      BY <1>4, <3>1, <3>2 DEF DropWrite
  <2>2. FileIsKept(t)'
    <3>1. disk'[t] = snapshot /\ tasks' = tasks /\ t \in unwritten'
      BY <1>4, <2>1 DEF ServiceInv, TypeOK, Save, DropWrite
    <3>2. Fresh(t) \/ tasks[t].state \in Terminal
      BY <1>4 DEF DropWrite, Settled
    <3> QED
      BY <2>1, <3>1, <3>2 DEF FileIsKept, Fresh, Absent, Snapshot, SnapshotOf, Live, Terminal
  <2> QED
    BY <1>4, <2>1, <2>2, KeptByStepOf DEF ServiceInv, TypeOK, DropWrite, Save
<1>5. CASE Schedule(t)
  <2>1. FileIsKept(t)'
    BY <1>5 DEF ServiceInv, TypeOK, TaskInv, OneOwner, FilesAreKept, FileIsKept, Schedule, At,
                store, faults, Serving, Ending
  <2> QED
    BY <1>5, <2>1, KeptByStepOf DEF ServiceInv, TypeOK, Schedule, At, store, faults
<1>6. CASE Cancel(t) \/ DropRequest(t)
  BY <1>6, KeptIfUntouched DEF FilesAreKept, Cancel, DropRequest, store, faults
<1> QED
  BY <1>1, <1>2, <1>3, <1>4, <1>5, <1>6 DEF Request

LEMMA KeptBySettle ==
  ASSUME ServiceInv, FilesAreKept, Serving, NEW t \in Task, NEW st \in Terminal, NEW rev \in Nat,
         worker[t] \in {"waiting"} \cup Terminal, Settle(t, Snapshot(st, rev))
  PROVE  FilesAreKept'
<1>1. /\ tasks[t].state \in Live /\ worker'[t] = "settling" /\ copy'[t] = Snapshot(st, rev)
      /\ disk'[t] \in {disk[t], Snapshot(st, rev)}
      /\ tasks' = tasks
  BY DEF ServiceInv, TypeOK, TaskInv, OneOwner, Settle, At, Save, Terminal
<1>2. FileIsKept(t)'
  <2>1. disk[t].state \in Live
    BY <1>1 DEF FilesAreKept, FileIsKept, Ending, Terminal
  <2> QED
    BY <1>1, <2>1 DEF FileIsKept, Snapshot, Live, Terminal, Ending
<1> QED
  BY <1>2, KeptByStepOf DEF ServiceInv, TypeOK, Settle, At, Save

LEMMA KeptByWork ==
  ASSUME ServiceInv, FilesAreKept, NEW t \in Task, Work(t)
  PROVE  FilesAreKept'
<1>1. tasks[t].revision + 1 \in Nat /\ tasks[t].revision + 2 \in Nat
  BY DEF ServiceInv, TypeOK, SnapshotOf
<1>2. CASE GiveUp(t)
  BY <1>1, <1>2, KeptBySettle DEF GiveUp, Terminal
<1>3. CASE RunFails(t)
  BY <1>1, <1>3, KeptBySettle DEF RunFails, Acquire, Terminal
<1>4. CASE Conclude(t)
  <2>1. Verdict(t) \in Terminal
    BY <1>4 DEF Conclude, Verdict, Terminal
  <2> QED
    BY <1>1, <1>4, <2>1, KeptBySettle DEF Conclude
<1>5. CASE Run(t)
  <2>1. FileIsKept(t)'
    BY <1>5 DEF ServiceInv, TypeOK, FileIsKept, Run, Save, Show, Snapshot, Live, Terminal
  <2> QED
    BY <1>5, <2>1, KeptByStepOf DEF ServiceInv, TypeOK, Run, At, Save, Show, faults
<1>6. CASE Progress(t)
  <2>1. /\ tasks[t].state = "Running" /\ tasks'[t].state = tasks[t].state
        /\ worker[t] \notin Ending
    BY <1>6 DEF ServiceInv, TypeOK, SnapshotOf, TaskInv, InHand, Progress, Show, Fetching, Ending, Terminal
  <2>2. FileIsKept(t)'
    BY <1>6, <2>1 DEF FilesAreKept, FileIsKept, Progress, Serving, Live, Terminal, faults
  <2> QED
    BY <1>6, <2>2, KeptByStepOf DEF ServiceInv, TypeOK, Progress, Show, faults
<1>7. CASE SaveProgress(t)
  <2>1. /\ tasks[t].state = "Running" /\ unsaved[t].state = "Running"
        /\ disk'[t] \in {disk[t], unsaved[t]}
    BY <1>7 DEF ServiceInv, TypeOK, TaskInv, InHand, SaveProgress, Save
  <2>2. FileIsKept(t)'
    BY <1>7, <2>1 DEF FilesAreKept, FileIsKept, SaveProgress, Serving, Live, Terminal, faults
  <2> QED
    BY <1>7, <2>2, KeptByStepOf DEF ServiceInv, TypeOK, SaveProgress, Save, faults
<1>8. CASE Fetch(t) \/ Release(t)
  <2>1. FileIsKept(t)'
    BY <1>8 DEF ServiceInv, TypeOK, FilesAreKept, FileIsKept, Fetch, Release, At, store, faults,
                Serving, Ending, Terminal
  <2> QED
    BY <1>8, <2>1, KeptByStepOf DEF ServiceInv, TypeOK, Fetch, Release, At, store, faults
<1>9. CASE Publish(t)
  <2>1. /\ tasks[t].state \in Live /\ copy[t].state \in Terminal
        /\ tasks'[t] = copy[t] /\ disk' = disk
    BY <1>9 DEF ServiceInv, TypeOK, TaskInv, OneOwner, InHand, Publish, Show, Ending
  <2>2. FileIsKept(t)'
    BY <1>9, <2>1 DEF FilesAreKept, FileIsKept, Publish, Live, Terminal
  <2>3. \A q \in Task \ {t} : q \in unwritten' <=> q \in unwritten
    BY <1>9 DEF Publish
  <2> QED
    BY <1>9, <2>2, <2>3, KeptByStepOf DEF ServiceInv, TypeOK, Publish, At, Show
<1> QED
  BY <1>2, <1>3, <1>4, <1>5, <1>6, <1>7, <1>8, <1>9 DEF Work

LEMMA KeptByOpen ==
  ASSUME ServiceInv, FilesAreKept, Open PROVE FilesAreKept'
<1> SUFFICES ASSUME NEW t \in Task PROVE FileIsKept(t)'
  BY DEF FilesAreKept
<1>1. disk'[t].state \in TaskState /\ tasks'[t] = disk'[t]
  BY WhatOpenReads DEF SnapshotOf
<1> QED
  BY <1>1 DEF FileIsKept, TaskState, Live, Terminal

LEMMA FilesAreAlwaysKept == Spec => [](ServiceInv /\ FilesAreKept)
<1>1. ServiceInv /\ FilesAreKept /\ [Next]_vars => FilesAreKept'
  <2> SUFFICES ASSUME ServiceInv, FilesAreKept, [Next]_vars PROVE FilesAreKept'
    OBVIOUS
  <2>1. CASE BeginShutdown \/ Close \/ UNCHANGED vars
    <3>1. /\ UNCHANGED <<tasks, disk, unwritten>>
          /\ Serving' => UNCHANGED <<worker, copy>> /\ Serving
      BY <2>1 DEF BeginShutdown, Close, vars, store, faults, Serving
    <3> QED
      BY <3>1 DEF FilesAreKept, FileIsKept
  <2> QED
    BY <2>1, KeptByRequest, KeptByWork, KeptByOpen DEF Next
<1> QED
  BY <1>1, ServiceInvariant, ServiceStep, KeptFromTheStart, PTL DEF Spec

\* The task's step as the abstract service sees it, and the other tasks at rest.
LEMMA SeenAsOneTask ==
  ASSUME NEW t \in Task, \A q \in Task \ {t} : tasks'[q] = tasks[q]
  PROVE  [q \in Task |-> Phase(q)]' = [[q \in Task |-> Phase(q)] EXCEPT ![t] = Phase(t)']
<1>1. \A q \in Task \ {t} : Phase(q)' = Phase(q)
  BY DEF Phase
<1> QED
  BY <1>1

\* Nothing that is shown changes.
LEMMA SeenAsNothing ==
  ASSUME \A q \in Task : tasks'[q].state = tasks[q].state
  PROVE  [q \in Task |-> Phase(q)]' = [q \in Task |-> Phase(q)]
BY DEF Phase

\* What happens to the file is seen as a write, if at all.
LEMMA SeenAsKeep ==
  ASSUME NEW t \in Task, Serving, core' = core, \A q \in Task : tasks'[q].state = tasks[q].state,
         \/ unwritten' \in {unwritten, unwritten \ {t}}
         \/ (TerminalSaveMayFail \/ RequestsMayBeDropped) /\ unwritten' = unwritten \cup {t}
  PROVE  [Durable!Next]_(Durable!durable)
<1>1. Durable!Keep(t)
  BY SeenAsNothing DEF Durable!Keep, Durable!Write, Serving
<1> QED
  BY <1>1 DEF Durable!Next

LEMMA RequestIsDurable ==
  ASSUME ServiceInv, NEW t \in Task, Request(t)
  PROVE  [Durable!Next]_(Durable!durable)
<1>1. CASE Start(t)
  <2>1. /\ tasks[t].state = "absent" /\ tasks'[t].state = "Queued"
        /\ \A q \in Task \ {t} : tasks'[q] = tasks[q]
        /\ unwritten' = unwritten \ {t} /\ Serving /\ Serving'
    BY <1>1 DEF ServiceInv, TypeOK, Start, Fresh, Enter, Show, Absent, Snapshot, Serving
  <2>2. Phase(t) = "none" /\ Phase(t)' = "pending"
    BY <2>1 DEF Phase, Live
  <2>3. Durable!Accept(t)
    BY <2>1, <2>2, SeenAsOneTask DEF Durable!Accept, Durable!Turn, Durable!Write
  <2> QED
    BY <2>3 DEF Durable!Next
<1>2. CASE Retry(t)
  <2>1. /\ tasks[t].state \in Terminal /\ tasks'[t].state = "Queued"
        /\ \A q \in Task \ {t} : tasks'[q] = tasks[q]
        /\ unwritten' = unwritten \ {t} /\ Serving /\ Serving'
    BY <1>2 DEF ServiceInv, TypeOK, Retry, Settled, Enter, Show, Snapshot, Serving
  <2>2. Phase(t) \in Terminal /\ Phase(t)' = "pending"
    BY <2>1 DEF Phase, Live, Terminal
  <2>3. Durable!Repeat(t)
    BY <2>1, <2>2, SeenAsOneTask DEF Durable!Repeat, Durable!Turn, Durable!Write
  <2> QED
    BY <2>3 DEF Durable!Next
<1>3. CASE Delete(t)
  <2>1. /\ tasks[t].state \in Terminal /\ tasks'[t].state = "deleted"
        /\ \A q \in Task \ {t} : tasks'[q] = tasks[q]
        /\ unwritten' = unwritten \ {t} /\ Serving /\ Serving'
    BY <1>3 DEF ServiceInv, TypeOK, Delete, Settled, Show, Deleted, Snapshot, Serving
  <2>2. Phase(t) \in Terminal /\ Phase(t)' = "deleted"
    BY <2>1 DEF Phase, Live, Terminal
  <2>3. Durable!Delete(t)
    BY <2>1, <2>2, SeenAsOneTask DEF Durable!Delete, Durable!Turn, Durable!Write
  <2> QED
    BY <2>3 DEF Durable!Next
<1>4. CASE DropWrite(t)
  BY <1>4, SeenAsKeep DEF DropWrite
<1>5. CASE Schedule(t) \/ Cancel(t) \/ DropRequest(t)
  BY <1>5, SeenAsKeep DEF Schedule, Cancel, DropRequest, store, faults
<1> QED
  BY <1>1, <1>2, <1>3, <1>4, <1>5 DEF Request

LEMMA WorkIsDurable ==
  ASSUME ServiceInv, NEW t \in Task, Work(t)
  PROVE  [Durable!Next]_(Durable!durable)
<1>1. CASE GiveUp(t) \/ RunFails(t) \/ Conclude(t)
  BY <1>1, SeenAsKeep DEF GiveUp, RunFails, Conclude, Settle
<1>2. CASE Run(t) \/ Progress(t)
  <2>1. /\ tasks[t].state \in Live /\ tasks'[t].state \in Live
        /\ \A q \in Task \ {t} : tasks'[q] = tasks[q]
        /\ unwritten' = unwritten /\ Serving /\ core' = core
    BY <1>2 DEF ServiceInv, TypeOK, SnapshotOf, TaskInv, OneOwner, Run, Acquire, Progress, Show,
                Snapshot, faults, Live, Terminal
  <2>2. Phase(t)' = Phase(t)
    BY <2>1 DEF Phase, Live
  <2>3. Durable!Keep(t)
    BY <2>1, <2>2, SeenAsOneTask DEF Durable!Keep, Durable!Write, Serving
  <2> QED
    BY <2>3 DEF Durable!Next
<1>3. CASE SaveProgress(t) \/ Fetch(t) \/ Release(t)
  BY <1>3, SeenAsKeep DEF SaveProgress, Fetch, Release, store, faults
<1>4. CASE Publish(t)
  <2>1. /\ tasks[t].state \in Live /\ tasks'[t].state \in Terminal
        /\ \A q \in Task \ {t} : tasks'[q] = tasks[q]
        /\ unwritten' \in {unwritten, unwritten \ {t}} /\ Serving /\ Serving'
    BY <1>4 DEF ServiceInv, TypeOK, TaskInv, OneOwner, InHand, Publish, Show, Serving, Ending
  <2>2. Phase(t) = "pending" /\ Phase(t)' \in Terminal
    BY <2>1 DEF Phase, Live, Terminal
  <2>3. Durable!Settle(t)
    BY <2>1, <2>2, SeenAsOneTask DEF Durable!Settle, Durable!Turn, Durable!Write
  <2> QED
    BY <2>3 DEF Durable!Next
<1> QED
  BY <1>1, <1>2, <1>3, <1>4 DEF Work

\* What a restart finds of a task is what the abstract service may find.
LEMMA OpenFinds ==
  ASSUME ServiceInv, FilesAreKept, Open, NEW t \in Task
  PROVE  Phase(t)' \in Durable!Found(t)
<1>1. /\ tasks[t].state \in TaskState /\ disk[t].state \in TaskState
      /\ tasks'[t].state = IF disk[t].state = "Running" THEN "Failed" ELSE disk[t].state
  <2>1. tasks[t].state \in TaskState /\ disk[t].state \in TaskState
    BY DEF ServiceInv, TypeOK, SnapshotOf, TaskState
  <2>2. Snapshot("Failed", disk[t].revision + 1).state = "Failed"
    BY DEF Snapshot
  <2>3. /\ tasks'[t] = disk'[t]
        /\ disk[t].state = "Running" => disk'[t] = Snapshot("Failed", disk[t].revision + 1)
        /\ disk[t].state # "Running" => disk'[t] = disk[t]
    BY WhatOpenReads
  <2> QED
    BY <2>1, <2>2, <2>3
<1>2. CASE tasks[t].state = "deleted"
  BY <1>1, <1>2 DEF FilesAreKept, FileIsKept, Phase, Durable!Found, Live
<1>3. CASE tasks[t].state \in Live
  <2>1. disk[t].state \in Live \cup Terminal
    BY <1>3 DEF FilesAreKept, FileIsKept
  <2> QED
    BY <1>1, <1>3, <2>1 DEF Phase, Durable!Found, Live, Terminal
<1>4. CASE tasks[t].state = "absent"
  BY <1>1, <1>4 DEF FilesAreKept, FileIsKept, Phase, Durable!Found, Live, Terminal
<1>5. CASE tasks[t].state \in Terminal
  <2>1. t \notin unwritten => disk[t] = tasks[t]
    BY <1>5 DEF ServiceInv, TaskInv, FileAgrees
  <2>2. disk[t].state # "absent" /\ (disk[t].state = "Completed" => tasks[t].state = "Completed")
    BY <1>5 DEF FilesAreKept, FileIsKept
  <2> QED
    BY <1>1, <1>5, <2>1, <2>2 DEF Phase, Durable!Found, TaskState, Live, Terminal
<1> QED
  BY <1>1, <1>2, <1>3, <1>4, <1>5 DEF TaskState

LEMMA StepIsDurable ==
  ASSUME ServiceInv, FilesAreKept, [Next]_vars
  PROVE  [Durable!Next]_(Durable!durable)
<1>1. CASE BeginShutdown
  <2>1. Serving' = Serving /\ tasks' = tasks /\ unwritten' = unwritten
    BY <1>1 DEF BeginShutdown, Serving, store, faults
  <2> QED
    BY <2>1, SeenAsNothing DEF Durable!durable
<1>2. CASE UNCHANGED vars
  <2>1. Serving' = Serving /\ tasks' = tasks /\ unwritten' = unwritten
    BY <1>2 DEF vars, Serving, store, faults
  <2> QED
    BY <2>1, SeenAsNothing DEF Durable!durable
<1>3. CASE Close
  <2>1. Serving /\ ~Serving' /\ tasks' = tasks /\ unwritten' = unwritten
    BY <1>3 DEF Close, Serving, store
  <2>2. Durable!Close
    BY <2>1, SeenAsNothing DEF Durable!Close
  <2> QED
    BY <2>2 DEF Durable!Next
<1>4. CASE Open
  <2>1. ~Serving /\ Serving' /\ unwritten' \subseteq unwritten
    BY <1>4 DEF Open, Serving
  <2>2. Durable!Open
    BY <1>4, <2>1, OpenFinds DEF Durable!Open
  <2> QED
    BY <2>2 DEF Durable!Next
<1> QED
  BY <1>1, <1>2, <1>3, <1>4, RequestIsDurable, WorkIsDurable DEF Next

\* The image downloads are durable tasks: through crashes, lost writes and dropped requests
\* no accepted task is forgotten, none is settled unasked, and a restart finds what was
\* settled, deleted or never asked for as it was, unless a fault has put the task in doubt.
THEOREM DownloadsAreDurable == Spec => ImplementsDurableTasks
<1>1. Init => Durable!Init
  BY DEF Init, Durable!Init, Serving, Phase, Absent, Snapshot, Live
<1>2. ServiceInv /\ FilesAreKept /\ [Next]_vars => [Durable!Next]_(Durable!durable)
  BY StepIsDurable
<1> QED
  BY <1>1, <1>2, FilesAreAlwaysKept, PTL DEF Spec, ImplementsDurableTasks, Durable!Spec

\* The files show what was settled and what was running.
THEOREM FilesStayCurrent == Spec => []FilesAreCurrent
BY SettledTasksAreDurable, RecoveryPointsAreSaved, PTL DEF FilesAreCurrent
=============================================================================

------------------------------- MODULE CoreProofs -------------------------------
(***************************************************************************)
(* Whatever works on the files of a storage root belongs to the Core that  *)
(* has the lock, for any number of Cores; and what a frontend is told of a *)
(* request, and whoever asks for the storage, does not go past the actor and *)
(* the lock.  What was saved of the configuration is found again:          *)
(* config.json, replaced in steps that a crash may cut, and the            *)
(* credentials of the two files, after any number of updates and restarts, *)
(* but for the cases Overridden names.  The four specifications are proved *)
(* one after the other.                                                    *)
(***************************************************************************)
EXTENDS CoreRuntime, CoreHandle, ConfigStore, Credentials, SequenceTheorems, TLAPS

(* CoreRuntime. *)

\* A Core that has opened its storage and not given it up.
Opened(r) == stage[r] \notin {"storage", "gone", Failed}

\* It has the lock, so that there is at most one.
OpenedHoldsTheLock == \A r \in Instance : Opened(r) => lock = r

\* The parts that are over, if all goes well, when shutdown() comes to a stage.
WaitedFor(s) ==
  CASE s = "stop_actor"     -> {"control", "requests"}
    [] s = "stop_archives"  -> {"control", "requests", "actor"}
    [] s = "stop_downloads" -> {"control", "requests", "actor", "archives"}
    [] s = "stop_images"    -> {"control", "requests", "actor", "archives", "downloads"}
    [] s = "stop_storage"   -> Part \ {"calls", "threads"}
    [] OTHER                -> {}

\* None of them runs, unless a deadline was missed or it was started again.
WaitedForIsOver ==
  \A r \in Instance : alive[r] \cap WaitedFor(stage[r]) # {} => r \in late

\* The server ends after its requests, unless it is aborted.
ServerWaits ==
  \A r \in Instance :
    "requests" \in alive[r] /\ "control" \notin alive[r] =>
      r \in late \/ stage[r] \in {"gone", Failed}

\* A thread belongs to somebody who awaits it, or to nobody.
ThreadsAreAwaited ==
  \A r \in Instance :
    "threads" \in alive[r] => alive[r] \cap Callers # {} \/ r \in orphaned

\* A Core that has no storage has nothing that runs, unless it gave up.
NothingIsLeft ==
  \A r \in Instance :
    stage[r] = "storage" \/ (stage[r] \in {"gone", Failed} /\ r \notin abandoned) => alive[r] = {}

RuntimeInv ==
  /\ RuntimeTypeOK /\ OpenedHoldsTheLock /\ WaitedForIsOver /\ ServerWaits /\ ThreadsAreAwaited
  /\ NothingIsLeft

-----------------------------------------------------------------------------
\* The successor of a stage that occurs once.
LEMMA NextInOrder ==
  ASSUME NEW order, NEW n \in Nat, Len(order) = n + 1, NEW i \in 1..n,
         \A j \in 1..n : order[j] = order[i] => j = i
  PROVE  After(order, order[i]) = order[i + 1]
<1> DEFINE k == CHOOSE j \in 1..(Len(order) - 1) : order[j] = order[i]
<1>1. 1..(Len(order) - 1) = 1..n
  OBVIOUS
<1>2. k \in 1..n /\ order[k] = order[i]
  BY <1>1
<1>3. k = i
  BY <1>2
<1>4. After(order, order[i]) = order[1 + k]
  BY DEF After
<1> QED
  BY <1>3, <1>4

\* What comes after each stage of build() and of shutdown().
LEMMA StagesOfBuild ==
  /\ After(Building, "storage") = "profiles"
  /\ After(Building, "profiles") = "images"
  /\ After(Building, "images") = "downloads"
  /\ After(Building, "downloads") = "archives"
  /\ After(Building, "archives") = "galleries"
  /\ After(Building, "galleries") = "actor"
  /\ After(Building, "actor") = "control"
  /\ After(Building, "control") = "address"
  /\ After(Building, "address") = "up"
<1>1. Len(Building) = 10
  BY DEF Building
<1>2. /\ Building[1] = "storage"
      /\ Building[2] = "profiles"
      /\ Building[3] = "images"
      /\ Building[4] = "downloads"
      /\ Building[5] = "archives"
      /\ Building[6] = "galleries"
      /\ Building[7] = "actor"
      /\ Building[8] = "control"
      /\ Building[9] = "address"
      /\ Building[10] = "up"
  BY DEF Building
<1>3. \A i, j \in 1..9 : Building[j] = Building[i] => j = i
  BY <1>2
<1>4. ASSUME NEW i \in 1..9 PROVE After(Building, Building[i]) = Building[i + 1]
  <2>1. Len(Building) = 9 + 1 /\ 9 \in Nat
    BY <1>1
  <2>2. \A j \in 1..9 : Building[j] = Building[i] => j = i
    BY <1>3
  <2> QED
    BY <2>1, <2>2, NextInOrder
<1> QED
  BY <1>2, <1>4

LEMMA StagesOfShutdown ==
  /\ After(Stopping, "stop_control") = "stop_actor"
  /\ After(Stopping, "stop_actor") = "stop_archives"
  /\ After(Stopping, "stop_archives") = "stop_downloads"
  /\ After(Stopping, "stop_downloads") = "stop_images"
  /\ After(Stopping, "stop_images") = "stop_storage"
  /\ After(Stopping, "stop_storage") = "gone"
<1>1. Len(Stopping) = 7
  BY DEF Stopping
<1>2. /\ Stopping[1] = "stop_control"
      /\ Stopping[2] = "stop_actor"
      /\ Stopping[3] = "stop_archives"
      /\ Stopping[4] = "stop_downloads"
      /\ Stopping[5] = "stop_images"
      /\ Stopping[6] = "stop_storage"
      /\ Stopping[7] = "gone"
  BY DEF Stopping
<1>3. \A i, j \in 1..6 : Stopping[j] = Stopping[i] => j = i
  BY <1>2
<1>4. ASSUME NEW i \in 1..6 PROVE After(Stopping, Stopping[i]) = Stopping[i + 1]
  <2>1. Len(Stopping) = 6 + 1 /\ 6 \in Nat
    BY <1>1
  <2>2. \A j \in 1..6 : Stopping[j] = Stopping[i] => j = i
    BY <1>3
  <2> QED
    BY <2>1, <2>2, NextInOrder
<1> QED
  BY <1>2, <1>4

\* The stages, in one set, and what they are not.
LEMMA StageSet ==
  Range(Building) \cup Range(Stopping) \cup {Failed} =
    {"storage", "profiles", "images", "downloads", "archives", "galleries", "actor", "control",
     "address", "up", "stop_control", "stop_actor", "stop_archives", "stop_downloads",
     "stop_images", "stop_storage", "gone", "failed"}
<1>1. DOMAIN Building = 1..10 /\ DOMAIN Stopping = 1..7
  BY DEF Building, Stopping
<1>2. Range(Building) = {"storage", "profiles", "images", "downloads", "archives", "galleries",
                         "actor", "control", "address", "up"}
  BY <1>1 DEF Range, Building
<1>3. Range(Stopping) = {"stop_control", "stop_actor", "stop_archives", "stop_downloads",
                         "stop_images", "stop_storage", "gone"}
  BY <1>1 DEF Range, Stopping
<1> QED
  BY <1>2, <1>3 DEF Failed

LEMMA StoppingStages ==
  Range(Stopping) = {"stop_control", "stop_actor", "stop_archives", "stop_downloads",
                     "stop_images", "stop_storage", "gone"}
<1>1. DOMAIN Stopping = 1..7
  BY DEF Stopping
<1> QED
  BY <1>1 DEF Range, Stopping

LEMMA RuntimeBegins == RuntimeInit => RuntimeInv
BY StageSet DEF RuntimeInit, RuntimeInv, RuntimeTypeOK, OpenedHoldsTheLock, Opened,
                WaitedForIsOver, ServerWaits, ThreadsAreAwaited, NothingIsLeft, WaitedFor

\* The invariant of one Core, but for the lock.
CoreInv(r) ==
  /\ alive[r] \cap WaitedFor(stage[r]) # {} => r \in late
  /\ "requests" \in alive[r] /\ "control" \notin alive[r] =>
       r \in late \/ stage[r] \in {"gone", Failed}
  /\ "threads" \in alive[r] => alive[r] \cap Callers # {} \/ r \in orphaned
  /\ stage[r] = "storage" \/ (stage[r] \in {"gone", Failed} /\ r \notin abandoned) => alive[r] = {}

LEMMA EachCore ==
  RuntimeInv <=> RuntimeTypeOK /\ OpenedHoldsTheLock /\ \A r \in Instance : CoreInv(r)
<1> HIDE DEF WaitedFor
<1> QED
  BY DEF RuntimeInv, CoreInv, WaitedForIsOver, ServerWaits, ThreadsAreAwaited, NothingIsLeft

LEMMA EachCoreAfter ==
  RuntimeTypeOK' /\ OpenedHoldsTheLock' /\ (\A r \in Instance : CoreInv(r)') => RuntimeInv'
BY DEF RuntimeInv, CoreInv, WaitedForIsOver, ServerWaits, ThreadsAreAwaited, NothingIsLeft

\* A step of Core r leaves the others as they are.
LEMMA OthersRest ==
  ASSUME RuntimeInv, NEW r \in Instance,
         late \subseteq late', abandoned \subseteq abandoned', orphaned \ {r} \subseteq orphaned',
         \A q \in Instance \ {r} : stage'[q] = stage[q] /\ alive'[q] = alive[q]
  PROVE  \A q \in Instance \ {r} : CoreInv(q)'
<1> TAKE q \in Instance \ {r}
<1>1. CoreInv(q)
  BY EachCore
<1>2. stage'[q] = stage[q] /\ alive'[q] = alive[q]
  OBVIOUS
<1>3. /\ q \in late => q \in late'
      /\ q \in abandoned => q \in abandoned'
      /\ q \in orphaned => q \in orphaned'
  OBVIOUS
<1> QED
  BY <1>1, <1>2, <1>3 DEF CoreInv

\* A step of Core r that leaves the lock where it is, the invariant holding of r afterwards.
LEMMA OneCoreMoves ==
  ASSUME RuntimeInv, NEW r \in Instance, RuntimeTypeOK',
         UNCHANGED lock, late \subseteq late', abandoned \subseteq abandoned',
         orphaned \ {r} \subseteq orphaned',
         \A q \in Instance \ {r} : stage'[q] = stage[q] /\ alive'[q] = alive[q],
         Opened(r)' => Opened(r), CoreInv(r)'
  PROVE  RuntimeInv'
<1>1. OpenedHoldsTheLock'
  BY DEF RuntimeInv, OpenedHoldsTheLock, Opened
<1>2. \A q \in Instance : CoreInv(q)'
  BY OthersRest
<1> QED
  BY <1>1, <1>2, EachCoreAfter

\* A Core that has the storage gives it up, and leaves behind nothing that it has not
\* given up.
LEMMA OneCoreLeaves ==
  ASSUME RuntimeInv, NEW r \in Instance, RuntimeTypeOK',
         late \subseteq late', abandoned \subseteq abandoned', UNCHANGED orphaned,
         \A q \in Instance \ {r} : stage'[q] = stage[q] /\ alive'[q] = alive[q],
         Opened(r), stage'[r] \in {"gone", Failed}, lock' = NoCore,
         alive'[r] \cap Callers = alive[r] \cap Callers,
         "threads" \in alive'[r] => "threads" \in alive[r],
         r \notin abandoned' => alive'[r] = {}
  PROVE  RuntimeInv'
<1>1. lock = r
  BY DEF RuntimeInv, OpenedHoldsTheLock
<1>2. OpenedHoldsTheLock'
  BY <1>1 DEF RuntimeInv, OpenedHoldsTheLock, Opened
<1>3. CoreInv(r)'
  <2>1. WaitedFor(stage'[r]) = {} /\ stage'[r] # "storage"
    BY DEF WaitedFor, Failed
  <2>2. "threads" \in alive'[r] => alive'[r] \cap Callers # {} \/ r \in orphaned'
    BY EachCore DEF CoreInv
  <2> QED
    BY <2>1, <2>2 DEF CoreInv
<1> QED
  BY <1>2, <1>3, OthersRest, EachCoreAfter

-----------------------------------------------------------------------------
\* What is known of a Core before a step.
LEMMA CoreKnown ==
  ASSUME RuntimeInv, NEW r \in Instance
  PROVE  /\ stage \in [Instance -> Range(Building) \cup Range(Stopping) \cup {Failed}]
         /\ alive \in [Instance -> SUBSET Part]
         /\ {halted, told, late, orphaned, abandoned} \subseteq SUBSET Instance
         /\ lock \in Instance \cup {NoCore}
         /\ CoreInv(r) /\ (Opened(r) => lock = r)
BY EachCore DEF RuntimeTypeOK, OpenedHoldsTheLock

LEMMA OpenStorageKeeps ==
  ASSUME RuntimeInv, NEW r \in Instance, OpenStorage(r)
  PROVE  RuntimeInv'
<1>1. /\ stage \in [Instance -> Range(Building) \cup Range(Stopping) \cup {Failed}] /\ stage[r] = "storage"
      /\ alive[r] = {} /\ UNCHANGED <<alive, halted, told, late, orphaned, abandoned>>
  BY CoreKnown DEF CoreInv, OpenStorage
<1>2. CASE lock = NoCore /\ lock' = r /\ Advance(r, Building)
  <2>1. stage' = [stage EXCEPT ![r] = "profiles"]
    BY <1>1, <1>2, StagesOfBuild DEF Advance
  <2>2. RuntimeTypeOK'
    BY <1>1, <1>2, <2>1, StageSet DEF RuntimeInv, RuntimeTypeOK
  <2>3. \A q \in Instance \ {r} : ~Opened(q)
    BY <1>2, RuntimeAssumption DEF RuntimeInv, OpenedHoldsTheLock
  <2>4. OpenedHoldsTheLock'
    BY <1>1, <1>2, <2>1, <2>3 DEF OpenedHoldsTheLock, Opened
  <2>5. CoreInv(r)'
    BY <1>1, <2>1 DEF CoreInv, Failed
  <2>6. \A q \in Instance \ {r} : CoreInv(q)'
    BY <1>1, <2>1, OthersRest
  <2> QED
    BY <2>2, <2>4, <2>5, <2>6, EachCoreAfter
<1>3. CASE stage' = [stage EXCEPT ![r] = Failed] /\ UNCHANGED lock
  <2>1. RuntimeTypeOK'
    BY <1>1, <1>3, StageSet DEF RuntimeInv, RuntimeTypeOK
  <2>2. CoreInv(r)'
    BY <1>1, <1>3 DEF CoreInv
  <2> QED
    BY <1>1, <1>3, <2>1, <2>2, OneCoreMoves DEF Opened
<1> QED
  BY <1>2, <1>3 DEF OpenStorage

\* A step in build(), in which nothing is waited for, that only starts parts.
LEMMA BuildingKeeps ==
  ASSUME RuntimeInv, NEW r \in Instance, RuntimeTypeOK', Opened(r),
         UNCHANGED <<lock, late, orphaned, abandoned>>,
         NEW parts \in SUBSET {"writer", "downloads", "archives", "actor", "control"},
         alive' = [alive EXCEPT ![r] = @ \cup parts],
         NEW s \in {"images", "downloads", "archives", "galleries", "actor", "control", "address", "up"},
         stage' = [stage EXCEPT ![r] = s]
  PROVE  RuntimeInv'
<1>1. alive'[r] = alive[r] \cup parts /\ stage'[r] = s
  BY CoreKnown
<1>2. \A q \in Instance \ {r} : stage'[q] = stage[q] /\ alive'[q] = alive[q]
  BY CoreKnown
<1>3. WaitedFor(s) = {} /\ s \notin {"storage", "gone", Failed}
  BY DEF WaitedFor, Failed
<1>4. CoreInv(r)'
  <2>1. stage[r] \notin {"gone", Failed}
    BY DEF Opened
  <2>2. "threads" \in alive'[r] => alive'[r] \cap Callers # {} \/ r \in orphaned'
    BY <1>1, CoreKnown DEF CoreInv
  <2>3. "requests" \in alive'[r] /\ "control" \notin alive'[r] => r \in late'
    BY <1>1, <2>1, CoreKnown DEF CoreInv
  <2> QED
    BY <1>1, <1>3, <2>2, <2>3 DEF CoreInv
<1> QED
  BY <1>2, <1>4, OneCoreMoves

LEMMA OpenNextKeeps ==
  ASSUME RuntimeInv, NEW r \in Instance, OpenNext(r)
  PROVE  RuntimeInv'
<1>1. /\ stage[r] \in {"profiles", "images", "downloads", "archives", "galleries", "actor"}
      /\ UNCHANGED <<halted, told, lock, late, orphaned, abandoned>>
      /\ Advance(r, Building) /\ Opened(r)
  BY DEF OpenNext, Opened, Failed
<1>2. PICK parts \in SUBSET {"writer", "downloads", "archives", "actor", "control"} : Starts(r, parts)
  BY <1>1 DEF OpenNext
<1>3. PICK s \in {"images", "downloads", "archives", "galleries", "actor", "control"} :
        stage' = [stage EXCEPT ![r] = s]
  BY <1>1, StagesOfBuild DEF Advance
<1>4. RuntimeTypeOK'
  BY <1>1, <1>2, <1>3, StageSet DEF RuntimeInv, RuntimeTypeOK, Starts, Part
<1> QED
  BY <1>1, <1>2, <1>3, <1>4, BuildingKeeps DEF Starts

\* A Core that leaves when it has its storage.
LEMMA LeavingKeeps ==
  ASSUME RuntimeInv, NEW r \in Instance, Opened(r), NEW last \in {"gone", Failed}, Leaves(r, last),
         NEW p \in {"control", "actor"}, alive' \in {alive, [alive EXCEPT ![r] = @ \ {p}]},
         halted' \subseteq Instance, told' \subseteq Instance, UNCHANGED <<late, orphaned>>
  PROVE  RuntimeInv'
<1>1. /\ stage \in [Instance -> Range(Building) \cup Range(Stopping) \cup {Failed}]
      /\ alive \in [Instance -> SUBSET Part]
      /\ lock = r /\ {abandoned, late, orphaned} \subseteq SUBSET Instance
  BY CoreKnown
<1>2. /\ stage' = [stage EXCEPT ![r] = last] /\ lock' = NoCore
      /\ abandoned \subseteq abandoned' /\ abandoned' \subseteq Instance
      /\ r \notin abandoned' => alive'[r] = {}
  BY <1>1 DEF Leaves
<1>3. /\ alive' \in [Instance -> SUBSET Part]
      /\ \A q \in Instance \ {r} : stage'[q] = stage[q] /\ alive'[q] = alive[q]
      /\ alive'[r] \in {alive[r], alive[r] \ {p}} /\ stage'[r] = last
  BY <1>1, <1>2
<1>4. RuntimeTypeOK'
  BY <1>1, <1>2, <1>3, StageSet DEF RuntimeTypeOK
<1>5. /\ alive'[r] \cap Callers = alive[r] \cap Callers
      /\ "threads" \in alive'[r] => "threads" \in alive[r]
  BY <1>3 DEF Callers
<1> QED
  BY <1>1, <1>2, <1>3, <1>4, <1>5, OneCoreLeaves

LEMMA OpenFailsKeeps ==
  ASSUME RuntimeInv, NEW r \in Instance, OpenFails(r)
  PROVE  RuntimeInv'
BY LeavingKeeps, CoreKnown DEF OpenFails, Opened, Failed

LEMMA StartControlKeeps ==
  ASSUME RuntimeInv, NEW r \in Instance, StartControl(r)
  PROVE  RuntimeInv'
<1>1. /\ stage \in [Instance -> Range(Building) \cup Range(Stopping) \cup {Failed}]
      /\ alive \in [Instance -> SUBSET Part]
      /\ stage[r] = "control" /\ UNCHANGED <<halted, told, lock, late, orphaned, abandoned>>
  BY CoreKnown DEF StartControl
<1>2. PICK s \in {"address", "up"} : stage' = [stage EXCEPT ![r] = s]
  BY <1>1, StagesOfBuild DEF StartControl, Advance
<1>3. PICK parts \in SUBSET {"control"} : alive' = [alive EXCEPT ![r] = @ \cup parts]
  <2>1. CASE Starts(r, {"control"})
    BY <2>1 DEF Starts
  <2>2. CASE UNCHANGED alive
    <3>1. alive' = [alive EXCEPT ![r] = @ \cup {}]
      BY <1>1, <2>2
    <3> QED
      BY <3>1
  <2> QED
    BY <2>1, <2>2 DEF StartControl
<1>4. RuntimeTypeOK'
  BY <1>1, <1>2, <1>3, StageSet DEF RuntimeInv, RuntimeTypeOK, Part
<1>5. Opened(r) /\ parts \in SUBSET {"writer", "downloads", "archives", "actor", "control"}
  BY <1>1, <1>3 DEF Opened, Failed
<1> QED
  BY <1>1, <1>2, <1>3, <1>4, <1>5, BuildingKeeps

\* Cancelling the token and telling the writer move nothing by themselves.
LEMMA SignalKeeps ==
  ASSUME RuntimeInv, NEW r \in Instance,
         UNCHANGED <<stage, alive, lock, late, orphaned, abandoned>>,
         halted' \in {halted, halted \cup {r}}, told' \in {told, told \cup {r}}
  PROVE  RuntimeInv'
<1>1. RuntimeTypeOK'
  BY DEF RuntimeInv, RuntimeTypeOK
<1>2. OpenedHoldsTheLock' /\ \A q \in Instance : CoreInv(q)'
  BY EachCore DEF OpenedHoldsTheLock, Opened, CoreInv
<1> QED
  BY <1>1, <1>2, EachCoreAfter

LEMMA TellingKeeps ==
  ASSUME RuntimeInv, NEW r \in Instance, RequestShutdown(r) \/ TellWriter(r)
  PROVE  RuntimeInv'
BY SignalKeeps DEF RequestShutdown, TellWriter

LEMMA ControlFailsKeeps ==
  ASSUME RuntimeInv, NEW r \in Instance, ControlFails(r)
  PROVE  RuntimeInv'
<1>1. CASE r \in halted
  BY <1>1, LeavingKeeps, CoreKnown DEF ControlFails, Opened, Failed
<1>2. CASE r \notin halted
  BY <1>2, SignalKeeps DEF ControlFails
<1> QED
  BY <1>1, <1>2

LEMMA ReportAddressKeeps ==
  ASSUME RuntimeInv, NEW r \in Instance, ReportAddress(r)
  PROVE  RuntimeInv'
<1>1. /\ alive \in [Instance -> SUBSET Part] /\ Opened(r)
      /\ stage' = [stage EXCEPT ![r] = "up"]
      /\ UNCHANGED <<alive, halted, told, lock, late, orphaned, abandoned>>
  BY StagesOfBuild, CoreKnown DEF ReportAddress, Advance, Opened, Failed
<1>2. RuntimeTypeOK'
  BY <1>1, StageSet DEF RuntimeInv, RuntimeTypeOK
<1>3. alive' = [alive EXCEPT ![r] = @ \cup {}]
  BY <1>1
<1> QED
  BY <1>1, <1>2, <1>3, BuildingKeeps

-----------------------------------------------------------------------------
(* What runs. *)

\* A step in which parts of a Core start or end, at a stage that stays.
LEMMA PartsChange ==
  ASSUME RuntimeInv, NEW r \in Instance, NEW parts \in SUBSET Part,
         alive' = [alive EXCEPT ![r] = parts],
         UNCHANGED <<stage, halted, told, lock>>,
         {late', orphaned', abandoned'} \subseteq SUBSET Instance,
         late \subseteq late', abandoned \subseteq abandoned', orphaned \ {r} \subseteq orphaned',
         parts \cap WaitedFor(stage[r]) # {} => r \in late',
         "requests" \in parts /\ "control" \notin parts => r \in late' \/ stage[r] \in {"gone", Failed},
         "threads" \in parts => parts \cap Callers # {} \/ r \in orphaned',
         stage[r] = "storage" \/ (stage[r] \in {"gone", Failed} /\ r \notin abandoned') => parts = {}
  PROVE  RuntimeInv'
<1>1. RuntimeTypeOK'
  BY DEF RuntimeInv, RuntimeTypeOK
<1>2. alive'[r] = parts /\ \A q \in Instance \ {r} : stage'[q] = stage[q] /\ alive'[q] = alive[q]
  BY CoreKnown
<1>3. CoreInv(r)' /\ (Opened(r)' => Opened(r))
  BY <1>2 DEF CoreInv, Opened
<1> QED
  BY <1>1, <1>2, <1>3, OneCoreMoves

LEMMA BeginRequestKeeps ==
  ASSUME RuntimeInv, NEW r \in Instance, BeginRequest(r)
  PROVE  RuntimeInv'
<1> DEFINE parts == alive[r] \cup {"requests"}
<1>1. /\ "control" \in alive[r] /\ alive' = [alive EXCEPT ![r] = parts]
      /\ UNCHANGED <<stage, halted, told, lock, late, orphaned, abandoned>>
  BY CoreKnown DEF BeginRequest, Starts
<1>2. parts \in SUBSET Part
  BY CoreKnown DEF Part
<1>3. parts \cap WaitedFor(stage[r]) # {} => r \in late
  <2>1. "requests" \in WaitedFor(stage[r]) => "control" \in WaitedFor(stage[r])
    BY DEF WaitedFor, Part
  <2> QED
    BY <1>1, <2>1, CoreKnown DEF CoreInv
<1>4. "threads" \in parts => parts \cap Callers # {} \/ r \in orphaned
  BY DEF Callers
<1>5. stage[r] = "storage" \/ (stage[r] \in {"gone", Failed} /\ r \notin abandoned) => parts = {}
  BY <1>1, CoreKnown DEF CoreInv
<1> HIDE DEF parts
<1>6. "control" \in parts
  BY <1>1 DEF parts
<1> QED
  BY <1>1, <1>2, <1>3, <1>4, <1>5, <1>6, CoreKnown, PartsChange

LEMMA BeginCallKeeps ==
  ASSUME RuntimeInv, NEW r \in Instance, BeginCall(r)
  PROVE  RuntimeInv'
<1> DEFINE parts == alive[r] \cup {"calls"}
<1>1. /\ stage[r] = "up" \/ stage[r] \in Range(Stopping)
      /\ alive' = [alive EXCEPT ![r] = parts]
      /\ UNCHANGED <<stage, halted, told, lock, late, orphaned>>
      /\ abandoned' = IF stage[r] = "gone" THEN abandoned \cup {r} ELSE abandoned
  BY CoreKnown DEF BeginCall, Starts
<1>2. parts \in SUBSET Part
  BY CoreKnown DEF Part
<1>3. parts \cap WaitedFor(stage[r]) # {} => r \in late
  <2>1. "calls" \notin WaitedFor(stage[r])
    BY DEF WaitedFor, Part
  <2> QED
    BY <2>1, CoreKnown DEF CoreInv
<1>4. "threads" \in parts => parts \cap Callers # {} \/ r \in orphaned
  BY DEF Callers
<1>5. "requests" \in parts /\ "control" \notin parts => r \in late \/ stage[r] \in {"gone", Failed}
  BY CoreKnown DEF CoreInv
<1>6. stage[r] \notin {"storage", Failed}
  BY <1>1, StoppingStages DEF Failed
<1>7. {late', orphaned', abandoned'} \subseteq SUBSET Instance /\ abandoned \subseteq abandoned'
  BY <1>1, CoreKnown
<1> HIDE DEF parts
<1> QED
  BY <1>1, <1>2, <1>3, <1>4, <1>5, <1>6, <1>7, PartsChange

LEMMA StartWorkKeeps ==
  ASSUME RuntimeInv, NEW r \in Instance, StartWork(r)
  PROVE  RuntimeInv'
<1>1. PICK p \in {"downloads", "archives", "threads"} :
        /\ alive' = [alive EXCEPT ![r] = alive[r] \cup {p}]
        /\ late' = IF \/ p = "archives" /\ stage[r] \in {"stop_downloads", "stop_images", "stop_storage"}
                      \/ p = "downloads" /\ stage[r] \in {"stop_images", "stop_storage"}
                   THEN late \cup {r} ELSE late
  BY CoreKnown DEF StartWork, Starts
<1> DEFINE parts == alive[r] \cup {p}
<1>2. /\ alive[r] \cap Callers # {}
      /\ UNCHANGED <<stage, halted, told, lock, orphaned, abandoned>>
  BY DEF StartWork
<1>3. parts \in SUBSET Part
  BY CoreKnown DEF Part
<1>4. {late', orphaned', abandoned'} \subseteq SUBSET Instance /\ late \subseteq late'
  BY <1>1, <1>2, CoreKnown
<1>5. parts \cap WaitedFor(stage[r]) # {} => r \in late'
  <2>1. p \in WaitedFor(stage[r]) => r \in late'
    BY <1>1 DEF WaitedFor
  <2> QED
    BY <1>4, <2>1, CoreKnown DEF CoreInv
<1>6. "requests" \in parts /\ "control" \notin parts => r \in late' \/ stage[r] \in {"gone", Failed}
  BY <1>4, CoreKnown DEF CoreInv
<1>7. parts \cap Callers # {}
  BY <1>2
<1>8. stage[r] = "storage" \/ (stage[r] \in {"gone", Failed} /\ r \notin abandoned') => parts = {}
  BY <1>2, CoreKnown DEF CoreInv
<1> HIDE DEF parts
<1>9. alive' = [alive EXCEPT ![r] = parts]
  BY <1>1 DEF parts
<1> QED
  BY <1>2, <1>3, <1>4, <1>5, <1>6, <1>7, <1>8, <1>9, PartsChange

\* A part that ends takes nothing from what was shown of the others; if a thread loses the
\* last that awaits it, that is noted.
LEMMA EndPartKeeps ==
  ASSUME RuntimeInv, NEW r \in Instance, NEW p \in Part, EndPart(r, p)
  PROVE  RuntimeInv'
<1> DEFINE parts == alive[r] \ {p}
<1>1. /\ p \in alive[r] /\ alive' = [alive EXCEPT ![r] = parts]
      /\ UNCHANGED <<stage, halted, told, lock, late, abandoned>>
      /\ orphaned' = CASE p = "threads" -> orphaned \ {r}
                        [] "threads" \in alive[r] /\ alive[r] \cap Callers = {p} -> orphaned \cup {r}
                        [] OTHER -> orphaned
      /\ p = "control" => "requests" \notin alive[r]
  BY CoreKnown DEF EndPart, Callers
<1>2. parts \in SUBSET Part
  BY CoreKnown
<1>3. {late', orphaned', abandoned'} \subseteq SUBSET Instance /\ orphaned \ {r} \subseteq orphaned'
  BY <1>1, CoreKnown
<1>4. parts \cap WaitedFor(stage[r]) # {} => r \in late
  BY CoreKnown DEF CoreInv
<1>5. "requests" \in parts /\ "control" \notin parts => r \in late \/ stage[r] \in {"gone", Failed}
  BY <1>1, CoreKnown DEF CoreInv
<1>6. "threads" \in parts => parts \cap Callers # {} \/ r \in orphaned'
  BY <1>1, CoreKnown DEF CoreInv
<1>7. stage[r] = "storage" \/ (stage[r] \in {"gone", Failed} /\ r \notin abandoned) => parts = {}
  BY CoreKnown DEF CoreInv
<1> HIDE DEF parts
<1> QED
  BY <1>1, <1>2, <1>3, <1>4, <1>5, <1>6, <1>7, CoreKnown, PartsChange

-----------------------------------------------------------------------------
(* shutdown() *)

LEMMA BeginStopKeeps ==
  ASSUME RuntimeInv, NEW r \in Instance, BeginStop(r)
  PROVE  RuntimeInv'
<1>1. /\ stage \in [Instance -> Range(Building) \cup Range(Stopping) \cup {Failed}] /\ stage[r] = "up"
      /\ stage' = [stage EXCEPT ![r] = "stop_control"] /\ halted' = halted \cup {r}
      /\ UNCHANGED <<alive, told, lock, late, orphaned, abandoned>>
  BY CoreKnown DEF BeginStop
<1>2. RuntimeTypeOK'
  BY <1>1, StageSet DEF RuntimeInv, RuntimeTypeOK
<1>3. CoreInv(r)'
  BY <1>1, CoreKnown DEF CoreInv, WaitedFor, Failed
<1> QED
  BY <1>1, <1>2, <1>3, OneCoreMoves DEF Opened, Failed

\* After a wait the part is over, or the Core is late.
LEMMA AwaitKeeps ==
  ASSUME RuntimeInv, NEW r \in Instance, Await(r)
  PROVE  RuntimeInv'
<1> DEFINE p == StoppedPart[stage[r]]
           s == After(Stopping, stage[r])
<1>1. /\ stage \in [Instance -> Range(Building) \cup Range(Stopping) \cup {Failed}]
      /\ alive \in [Instance -> SUBSET Part] /\ {late, orphaned, abandoned} \subseteq SUBSET Instance
      /\ stage[r] \in {"stop_control", "stop_actor", "stop_archives", "stop_downloads",
                       "stop_images"}
      /\ stage' = [stage EXCEPT ![r] = s]
      /\ UNCHANGED <<halted, told, lock, orphaned, abandoned>>
  BY CoreKnown DEF Await, StoppedPart, Advance
<1>2. /\ s \in {"stop_actor", "stop_archives", "stop_downloads", "stop_images", "stop_storage"}
      /\ WaitedFor(s) \subseteq WaitedFor(stage[r]) \cup {p} \cup (IF p = "control" THEN {"requests"} ELSE {})
      /\ p \notin {"threads", "calls", "requests"}
  BY <1>1, StagesOfShutdown DEF StoppedPart, WaitedFor, Part
<1>3. /\ alive' \in [Instance -> SUBSET Part]
      /\ \A q \in Instance \ {r} : stage'[q] = stage[q] /\ alive'[q] = alive[q]
      /\ alive'[r] \in {alive[r], alive[r] \ {p}}
      /\ late \subseteq late' /\ late' \subseteq late \cup {r}
      /\ p \in alive'[r] => r \in late'
      /\ p = "control" => p \notin alive[r] \/ r \in late'
      /\ stage'[r] = s
  BY <1>1 DEF Await
<1> HIDE DEF p, s
<1>4. RuntimeTypeOK'
  <2>1. s \in Range(Building) \cup Range(Stopping) \cup {Failed}
    BY <1>2, StageSet
  <2>2. stage' \in [Instance -> Range(Building) \cup Range(Stopping) \cup {Failed}]
    BY <1>1, <2>1
  <2>3. late' \subseteq Instance
    BY <1>1, <1>3
  <2> QED
    BY <1>1, <1>3, <2>2, <2>3, CoreKnown DEF RuntimeTypeOK
<1>5. stage[r] \notin {"gone", Failed, "storage"} /\ s \notin {"gone", Failed, "storage"}
  BY <1>1, <1>2 DEF Failed
<1>6. "requests" \in alive'[r] /\ "control" \notin alive'[r] => r \in late'
  BY <1>2, <1>3, <1>5, CoreKnown DEF CoreInv
<1>7. alive'[r] \cap WaitedFor(stage'[r]) # {} => r \in late'
  <2>1. ASSUME NEW x \in alive'[r], x \in WaitedFor(s), r \notin late' PROVE FALSE
    <3>1. x \in alive[r] /\ r \notin late
      BY <1>3, <2>1
    <3>2. x \notin WaitedFor(stage[r])
      BY <3>1, CoreKnown DEF CoreInv
    <3>3. x = p \/ (p = "control" /\ x = "requests")
      BY <1>2, <2>1, <3>2
    <3>4. p = "control" => "requests" \notin alive'[r]
      BY <1>3, <1>6, <2>1
    <3> QED
      BY <1>3, <2>1, <3>3, <3>4
  <2> QED
    BY <1>3, <2>1
<1>8. "threads" \in alive'[r] => alive'[r] \cap Callers # {} \/ r \in orphaned'
  BY <1>1, <1>2, <1>3, CoreKnown DEF CoreInv, Callers
<1>9. CoreInv(r)'
  BY <1>3, <1>5, <1>6, <1>7, <1>8 DEF CoreInv
<1> QED
  BY <1>1, <1>3, <1>4, <1>5, <1>9, OneCoreMoves DEF Opened

LEMMA PanicsKeeps ==
  ASSUME RuntimeInv, NEW r \in Instance, Panics(r)
  PROVE  RuntimeInv'
<1>1. PICK p \in {"control", "actor"} : alive' = [alive EXCEPT ![r] = @ \ {p}]
  BY DEF Panics, StoppedPart
<1> QED
  BY <1>1, LeavingKeeps, CoreKnown DEF Panics, Opened, Failed

\* All parts were waited for: what still runs has made the Core late, or nobody awaits it.
LEMMA CloseStorageKeeps ==
  ASSUME RuntimeInv, NEW r \in Instance, CloseStorage(r)
  PROVE  RuntimeInv'
<1>1. /\ stage \in [Instance -> Range(Building) \cup Range(Stopping) \cup {Failed}]
      /\ alive \in [Instance -> SUBSET Part] /\ abandoned \subseteq Instance
      /\ stage[r] = "stop_storage" /\ lock' = NoCore
      /\ UNCHANGED <<alive, halted, told, late, orphaned>>
      /\ abandoned' = IF r \in late \cup orphaned \/ "calls" \in alive[r]
                      THEN abandoned \cup {r} ELSE abandoned
  BY CoreKnown DEF CloseStorage
<1>2. stage' = [stage EXCEPT ![r] = "gone"]
  BY <1>1, StagesOfShutdown DEF CloseStorage, Advance
<1>3. r \notin late \cup orphaned /\ "calls" \notin alive[r] => alive[r] = {}
  <2>1. WaitedFor(stage[r]) = Part \ {"calls", "threads"}
    BY <1>1 DEF WaitedFor
  <2>2. alive[r] \cap WaitedFor(stage[r]) # {} => r \in late
    BY CoreKnown DEF CoreInv
  <2>3. "threads" \in alive[r] => alive[r] \cap Callers # {} \/ r \in orphaned
    BY CoreKnown DEF CoreInv
  <2>4. Callers = {"requests", "calls"} /\ "requests" \in Part
    BY DEF Callers, Part
  <2>5. ASSUME r \notin late \cup orphaned, "calls" \notin alive[r] PROVE alive[r] = {}
    <3>1. alive[r] \subseteq {"calls", "threads"}
      BY <1>1, <2>1, <2>2, <2>5
    <3>2. "threads" \notin alive[r]
      BY <2>3, <2>4, <2>5, <3>1
    <3> QED
      BY <2>5, <3>1, <3>2
  <2> QED
    BY <2>5
<1>4. RuntimeTypeOK'
  BY <1>1, <1>2, StageSet DEF RuntimeInv, RuntimeTypeOK
<1>5. r \notin abandoned' => alive'[r] = {}
  BY <1>1, <1>3
<1>6. /\ Opened(r) /\ stage'[r] = "gone" /\ abandoned \subseteq abandoned'
      /\ \A q \in Instance \ {r} : stage'[q] = stage[q] /\ alive'[q] = alive[q]
  BY <1>1, <1>2 DEF Opened, Failed
<1> QED
  BY <1>1, <1>4, <1>5, <1>6, OneCoreLeaves

LEMMA DropCoreKeeps ==
  ASSUME RuntimeInv, NEW r \in Instance, DropCore(r)
  PROVE  RuntimeInv'
BY LeavingKeeps, CoreKnown DEF DropCore, Opened, Failed

-----------------------------------------------------------------------------
LEMMA RuntimeKeeps == RuntimeInv /\ [RuntimeNext]_runtimeVars => RuntimeInv'
<1> SUFFICES ASSUME RuntimeInv, [RuntimeNext]_runtimeVars PROVE RuntimeInv'
  OBVIOUS
<1>1. CASE UNCHANGED runtimeVars
  BY <1>1 DEF RuntimeInv, RuntimeTypeOK, OpenedHoldsTheLock, Opened, WaitedForIsOver, ServerWaits,
              ThreadsAreAwaited, NothingIsLeft, runtimeVars
<1> QED
  BY <1>1, OpenStorageKeeps, OpenNextKeeps, OpenFailsKeeps, StartControlKeeps,
     ControlFailsKeeps, ReportAddressKeeps, BeginRequestKeeps, BeginCallKeeps, StartWorkKeeps,
     EndPartKeeps, TellingKeeps, BeginStopKeeps, AwaitKeeps, PanicsKeeps, CloseStorageKeeps,
     DropCoreKeeps
     DEF RuntimeNext

\* The stages, parts and lock of all Cores keep their types.
THEOREM RuntimeTypes == RuntimeSpec => []RuntimeTypeOK
<1>1. RuntimeInv => RuntimeTypeOK
  BY DEF RuntimeInv
<1> QED
  BY <1>1, RuntimeBegins, RuntimeKeeps, PTL DEF RuntimeSpec

\* However many Cores are opened on a storage root, and whatever fails or is late in build()
\* and shutdown(), only the one with the lock has a task, a request, a call or a thread that
\* works on its files, but for those that gave up without waiting, or that had a call or
\* the thread of a dropped request to leave behind.
THEOREM OnlyOneCoreWorks == RuntimeSpec => []WorkersHoldTheLock
<1>1. RuntimeInv => WorkersHoldTheLock
  BY DEF RuntimeInv, OpenedHoldsTheLock, Opened, NothingIsLeft, WorkersHoldTheLock, Failed
<1> QED
  BY <1>1, RuntimeBegins, RuntimeKeeps, PTL DEF RuntimeSpec

-----------------------------------------------------------------------------
(* CoreHandle. *)

Rest(f) == visit[f].steps

\* How far a request has come with the change it asks for.
RequestInv(f) ==
  /\ visit[f].answer \in {"pending", "queued", "writing"} =>
       IF Rest(f) = <<>>
       THEN visit[f].wants <=> applied[f] = 1
       ELSE applied[f] = 0 /\ (visit[f].wants <=> "change" \in Range(Rest(f)))
  /\ visit[f].answer \in {"queued", "writing"} => Rest(f) # <<>>
  /\ visit[f].answer = "writing" => Head(Rest(f)) = "write"
  /\ visit[f].answer \in {"none", "streaming"} => ~visit[f].wants
  /\ visit[f].answer \in {"none", "streaming"} \cup Refusals => applied[f] = 0
  /\ visit[f].answer = "ok" /\ visit[f].wants => applied[f] = 1
  /\ applied[f] \in {0, 1}

\* A command in the channel is the only one of its sender, who waits for it or is gone,
\* and a change in it is still to be made.
CommandInv(i) ==
  LET f == mailbox[i].from
  IN  /\ visit[f].answer \in {"queued", "broken"}
      /\ visit[f].answer = "queued" => mailbox[i].does = Head(Rest(f))
      /\ mailbox[i].does = "change" => applied[f] = 0
CommandsAreOwned ==
  \A i \in DOMAIN mailbox :
    /\ CommandInv(i)
    /\ \A j \in DOMAIN mailbox : mailbox[i].from = mailbox[j].from => i = j

\* The lock goes last, and a control plane that went down in time has no handler left, if a
\* thread perhaps.
NobodyIsLeft ==
  /\ released => server = "down"
  /\ server = "down" /\ host = "program" /\ ~overdue => \A f \in Frontend : ~InHandler(f)
  /\ "handler" \in unguarded => overdue \/ host = "app"

\* What a step may do with the writes: no handler writes when the lock is gone.
WritesAreAllowed ==
  /\ stray' \in BOOLEAN /\ unguarded' \subseteq {"handler", "thread"}
  /\ "handler" \in unguarded' => "handler" \in unguarded \/ overdue \/ host = "app"

Does == {"read", "change", "subscribe"}
Visit == [steps : Rests, answer : Answers, wants : BOOLEAN]

HandleShape ==
  HandleTypeOK /\ visit \in [Frontend -> Visit] /\ mailbox \in Seq([from : Frontend, does : Does])

HandleInv ==
  /\ HandleShape
  /\ \A f \in Frontend : RequestInv(f)
  /\ CommandsAreOwned
  /\ NobodyIsLeft

-----------------------------------------------------------------------------
(* What may be left of a request: the rest of a list of steps. *)

LEMMA RestIsASuffix ==
  ASSUME NEW s \in Rests, s # <<>>
  PROVE  \E r \in RequestsOf.program \cup RequestsOf.app : \E l \in 1..Len(r) :
           /\ r \in Seq(STRING) /\ ChangeComesLast(r)
           /\ s = SubSeq(r, l, Len(r)) /\ s \in Seq(STRING)
           /\ Len(s) = Len(r) - l + 1 /\ \A i \in 1..Len(s) : s[i] = r[l + i - 1]
<1>1. PICK r \in RequestsOf.program \cup RequestsOf.app : s \in Suffixes(r)
  BY DEF Rests
<1>2. r \in Seq(STRING) /\ ChangeComesLast(r) /\ Len(r) \in Nat
  BY RouteAssumption, LenProperties
<1>3. PICK l \in 1..Len(r) : s = SubSeq(r, l, Len(r))
  BY <1>1 DEF Suffixes
<1>4. l \in Int /\ Len(r) \in Int /\ l <= Len(r) /\ \A i \in l..Len(r) : r[i] \in STRING
  BY <1>2, <1>3, ElementOfSeq
<1>5. /\ s \in Seq(STRING) /\ Len(s) = Len(r) - l + 1
      /\ \A i \in 1..(Len(r) - l + 1) : s[i] = r[l + i - 1]
  BY <1>3, <1>4, SubSeqProperties
<1> QED
  BY <1>2, <1>3, <1>5

LEMMA NothingMayBeLeft == <<>> \in Rests
<1>1. <<>> \in ControlRoutes
  <2>1. <<>> \in StatusRoutes
    BY DEF StatusRoutes
  <2> QED
    BY <2>1 DEF ControlRoutes
<1>2. RouteSteps(<<>>) \in RequestsOf.program
  BY <1>1 DEF RequestsOf
<1>3. <<>> \in Suffixes(RouteSteps(<<>>))
  BY DEF Suffixes
<1> QED
  BY <1>2, <1>3 DEF Rests

\* A handler goes on with what is left after its first step; after the change nothing is,
\* and a step that may end the request well is not followed by a change.
LEMMA RestGoesOn ==
  ASSUME NEW s \in Rests, s # <<>>
  PROVE  /\ Tail(s) \in Rests
         /\ Head(s) = "change" => Tail(s) = <<>>
         /\ Head(s) = "change" => "change" \in Range(s)
         /\ Head(s) # "change" => ("change" \in Range(s) <=> "change" \in Range(Tail(s)))
         /\ Head(s) \in {"judge", "state", "subscribe"} => "change" \notin Range(s)
<1>0. PICK r \in RequestsOf.program \cup RequestsOf.app : \E l \in 1..Len(r) :
           /\ r \in Seq(STRING) /\ ChangeComesLast(r)
           /\ s = SubSeq(r, l, Len(r)) /\ s \in Seq(STRING)
           /\ Len(s) = Len(r) - l + 1 /\ \A i \in 1..Len(s) : s[i] = r[l + i - 1]
  BY RestIsASuffix
<1>1. PICK l \in 1..Len(r) :
           /\ r \in Seq(STRING) /\ ChangeComesLast(r)
           /\ s = SubSeq(r, l, Len(r)) /\ s \in Seq(STRING)
           /\ Len(s) = Len(r) - l + 1 /\ \A i \in 1..Len(s) : s[i] = r[l + i - 1]
  BY <1>0
<1>2. /\ Len(r) \in Nat /\ DOMAIN r = 1..Len(r) /\ DOMAIN s = 1..Len(s) /\ Len(s) \in Nat \ {0}
      /\ Head(s) = s[1]
  BY <1>1, LenProperties
<1>3. /\ Tail(s) \in Seq(STRING) /\ Len(Tail(s)) = Len(s) - 1
      /\ \A i \in 1..Len(Tail(s)) : Tail(s)[i] = s[i + 1]
      /\ DOMAIN Tail(s) = 1..(Len(s) - 1)
  BY <1>1, HeadTailProperties, LenProperties
<1>4. "change" \in Range(s) =>
        \A i \in 1..Len(s) : /\ s[i] = "change" <=> i = Len(s)
                             /\ s[i] \notin {"judge", "state", "subscribe"}
  <2> SUFFICES ASSUME NEW j \in 1..Len(s), s[j] = "change", NEW i \in 1..Len(s)
               PROVE  /\ s[i] = "change" <=> i = Len(s)
                      /\ s[i] \notin {"judge", "state", "subscribe"}
    BY <1>2 DEF Range
  <2>1. l + j - 1 \in DOMAIN r /\ l + i - 1 \in DOMAIN r /\ (i = Len(s) <=> l + i - 1 = Len(r))
    BY <1>1, <1>2
  <2>2. s[i] = r[l + i - 1] /\ s[j] = r[l + j - 1]
    BY <1>1
  <2>3. "change" \in Range(r)
    BY <2>1, <2>2 DEF Range
  <2> QED
    BY <1>1, <2>1, <2>2, <2>3 DEF ChangeComesLast
<1>5. Tail(s) \in Rests
  <2>1. CASE l = Len(r)
    <3>1. Tail(s) = <<>>
      BY <2>1, <1>1, <1>2, <1>3, EmptySeq
    <3> QED
      BY <3>1, <1>0 DEF Rests, Suffixes
  <2>2. CASE l # Len(r)
    <3>1. l \in 1..Len(r) /\ Len(r) \in l..Len(r) /\ l + 1 \in 1..Len(r)
      <4>1. Len(r) \in Nat
        BY <1>2
      <4> QED
        BY <2>2, <4>1
    <3>2. Tail(s) = SubSeq(r, l + 1, Len(r))
      BY <3>1, <1>1, HeadTailOfSubSeq
    <3> QED
      BY <3>1, <3>2, <1>0 DEF Rests, Suffixes
  <2> QED
    BY <2>1, <2>2
<1>6. Head(s) = "change" => Tail(s) = <<>> /\ "change" \in Range(s)
  <2> SUFFICES ASSUME s[1] = "change" PROVE Tail(s) = <<>> /\ "change" \in Range(s)
    BY <1>2
  <2>1. 1 \in 1..Len(s) /\ "change" \in Range(s)
    BY <1>2 DEF Range
  <2>2. 1 = Len(s)
    BY <2>1, <1>4
  <2> QED
    BY <2>1, <2>2, <1>3, EmptySeq
<1>7. Head(s) # "change" => ("change" \in Range(s) <=> "change" \in Range(Tail(s)))
  <2> SUFFICES ASSUME s[1] # "change" PROVE "change" \in Range(s) <=> "change" \in Range(Tail(s))
    BY <1>2
  <2>1. ASSUME NEW i \in 1..Len(s), s[i] = "change" PROVE "change" \in Range(Tail(s))
    <3>1. i - 1 \in 1..(Len(s) - 1) /\ (i - 1) + 1 = i
      BY <2>1, <1>2
    <3>2. Tail(s)[i - 1] = "change" /\ i - 1 \in DOMAIN Tail(s)
      BY <2>1, <3>1, <1>3
    <3> QED
      BY <3>2 DEF Range
  <2>2. ASSUME NEW i \in 1..(Len(s) - 1), Tail(s)[i] = "change" PROVE "change" \in Range(s)
    <3>1. i + 1 \in 1..Len(s) /\ s[i + 1] = "change"
      BY <2>2, <1>2, <1>3
    <3> QED
      BY <3>1, <1>2 DEF Range
  <2> QED
    BY <2>1, <2>2, <1>2, <1>3 DEF Range
<1>8. Head(s) \in {"judge", "state", "subscribe"} => "change" \notin Range(s)
  <2>1. 1 \in 1..Len(s) /\ Head(s) = s[1]
    BY <1>2
  <2> QED
    BY <2>1, <1>4
<1> QED
  BY <1>5, <1>6, <1>7, <1>8

-----------------------------------------------------------------------------
\* The commands in the channel.
LEMMA CommandTypes ==
  ASSUME HandleShape
  PROVE  /\ Len(mailbox) \in Nat /\ DOMAIN mailbox = 1..Len(mailbox)
         /\ \A i \in DOMAIN mailbox : mailbox[i].from \in Frontend /\ mailbox[i].does \in Does
<1>1. mailbox \in Seq([from : Frontend, does : Does])
  BY DEF HandleShape
<1>2. Len(mailbox) \in Nat /\ DOMAIN mailbox = 1..Len(mailbox)
  BY <1>1, LenProperties
<1>3. \A i \in 1..Len(mailbox) : mailbox[i] \in [from : Frontend, does : Does]
  BY <1>1, ElementOfSeq
<1> QED
  BY <1>2, <1>3

\* What a request becomes, and that the others stay as they are.
LEMMA RequestBecomes ==
  ASSUME HandleInv, NEW f \in Frontend, NEW steps \in Rests, NEW answer \in Answers,
         Becomes(f, steps, answer)
  PROVE  /\ visit' \in [Frontend -> Visit]
         /\ visit'[f].steps = steps /\ visit'[f].answer = answer
         /\ visit'[f].wants = visit[f].wants
         /\ \A g \in Frontend \ {f} : visit'[g] = visit[g]
<1> DEFINE v == [visit[f] EXCEPT !.steps = steps, !.answer = answer]
<1>1. visit \in [Frontend -> Visit] /\ visit[f] \in Visit
  BY DEF HandleInv, HandleShape
<1>2. visit' = [visit EXCEPT ![f] = v]
  BY DEF Becomes
<1>3. v \in Visit /\ v.steps = steps /\ v.answer = answer /\ v.wants = visit[f].wants
  BY <1>1 DEF Visit
<1> QED
  BY <1>1, <1>2, <1>3

LEMMA NoWriteIsAllowed == HandleInv /\ UNCHANGED writeVars => WritesAreAllowed
BY DEF HandleInv, HandleShape, HandleTypeOK, WritesAreAllowed, writeVars

\* A handler that is still in the control plane finds the lock held.
LEMMA HandlerMayWrite ==
  ASSUME HandleInv, NEW f \in Frontend, InHandler(f), UNCHANGED stray, WriteBy("handler")
  PROVE  WritesAreAllowed
<1>1. HandleTypeOK
  BY DEF HandleInv, HandleShape
<1>2. released => overdue \/ host = "app"
  BY <1>1 DEF HandleInv, NobodyIsLeft, HandleTypeOK
<1> QED
  BY <1>1, <1>2 DEF HandleTypeOK, WritesAreAllowed, WriteBy

\* A step of a request that sends no command: it must keep what is true of the request,
\* and wait in the handler only if it did before or the control plane serves.
LEMMA RequestMoves ==
  ASSUME HandleInv, NEW f \in Frontend, visit' \in [Frontend -> Visit],
         \A g \in Frontend \ {f} : visit'[g] = visit[g],
         visit[f].answer # "queued" \/ visit'[f].answer = "broken",
         visit[f].answer # "broken",
         RequestInv(f)',
         InHandler(f)' => InHandler(f) \/ host = "app" \/ server = "serves",
         UNCHANGED <<leaveVars, mailbox, applied>>, WritesAreAllowed
  PROVE  HandleInv'
<1>1. HandleShape'
  BY DEF HandleInv, HandleShape, HandleTypeOK, WritesAreAllowed, leaveVars, Visit
<1>2. \A g \in Frontend : RequestInv(g)'
  BY DEF HandleInv, RequestInv, Rest
<1>3. CommandsAreOwned'
  <2>1. mailbox' = mailbox /\ applied' = applied /\ \A i \in DOMAIN mailbox : mailbox[i].from \in Frontend
    BY CommandTypes DEF HandleInv
  <2>2. ASSUME NEW i \in DOMAIN mailbox PROVE CommandInv(i)'
    <3>1. CommandInv(i)
      BY DEF HandleInv, CommandsAreOwned
    <3>2. CASE mailbox[i].from # f
      BY <2>1, <3>1, <3>2 DEF CommandInv, Rest
    <3>3. CASE mailbox[i].from = f
      BY <2>1, <3>1, <3>3 DEF CommandInv, Rest
    <3> QED
      BY <3>2, <3>3
  <2> QED
    BY <2>1, <2>2 DEF HandleInv, CommandsAreOwned
<1>4. NobodyIsLeft'
  BY DEF HandleInv, NobodyIsLeft, WritesAreAllowed, InHandler, leaveVars
<1> QED
  BY <1>1, <1>2, <1>3, <1>4 DEF HandleInv

\* What a handler goes on with after its step.
LEMMA StepDoneGoesOn ==
  ASSUME HandleInv, NEW f \in Frontend, StepDone(f), Rest(f) # <<>>
  PROVE  /\ visit' \in [Frontend -> Visit]
         /\ visit'[f].steps = Tail(Rest(f)) /\ visit'[f].answer = "pending"
         /\ visit'[f].wants = visit[f].wants
         /\ \A g \in Frontend \ {f} : visit'[g] = visit[g]
<1>1. Rest(f) \in Rests
  BY DEF HandleInv, HandleShape, Visit, Rest
<1>2. Tail(Rest(f)) \in Rests /\ "pending" \in Answers
  BY <1>1, RestGoesOn DEF Answers
<1> QED
  BY <1>2, RequestBecomes DEF StepDone, Rest

LEMMA AnswerWithEnds ==
  ASSUME HandleInv, NEW f \in Frontend, NEW answer \in Answers, AnswerWith(f, answer)
  PROVE  /\ visit' \in [Frontend -> Visit]
         /\ visit'[f].steps = <<>> /\ visit'[f].answer = answer
         /\ visit'[f].wants = visit[f].wants
         /\ \A g \in Frontend \ {f} : visit'[g] = visit[g]
<1> QED
  BY NothingMayBeLeft, RequestBecomes DEF AnswerWith

\* The request has answered well: it is over, and with the change it asked for.
LEMMA AnswersKeep ==
  ASSUME HandleInv, NEW f \in Frontend, NEW answer \in Answers, AnswerWith(f, answer),
         InHandler(f),
         answer \in {"ok", "broken"} \cup Refusals,
         visit[f].answer = "queued" => answer = "broken",
         answer = "ok" => visit[f].answer # "writing",
         answer = "ok" => visit[f].wants = (applied[f] = 1),
         answer \in Refusals => applied[f] = 0,
         UNCHANGED <<leaveVars, mailbox, applied>>, WritesAreAllowed
  PROVE  HandleInv'
<1>1. /\ visit' \in [Frontend -> Visit]
      /\ visit'[f].steps = <<>> /\ visit'[f].answer = answer
      /\ visit'[f].wants = visit[f].wants
      /\ \A g \in Frontend \ {f} : visit'[g] = visit[g]
  BY AnswerWithEnds
<1>2. RequestInv(f)'
  BY <1>1 DEF HandleInv, RequestInv, Refusals
<1>3. visit[f].answer # "broken"
  BY DEF InHandler
<1> QED
  BY <1>1, <1>2, <1>3, RequestMoves

\* A step that is not the change is done.
LEMMA StepDoneKeeps ==
  ASSUME HandleInv, NEW f \in Frontend, StepDone(f),
         visit[f].answer \in {"pending", "writing"}, Rest(f) # <<>>, Head(Rest(f)) # "change",
         UNCHANGED <<leaveVars, mailbox, applied>>, WritesAreAllowed
  PROVE  HandleInv'
<1>1. /\ visit' \in [Frontend -> Visit]
      /\ visit'[f].steps = Tail(Rest(f)) /\ visit'[f].answer = "pending"
      /\ visit'[f].wants = visit[f].wants
      /\ \A g \in Frontend \ {f} : visit'[g] = visit[g]
  BY StepDoneGoesOn
<1>2. Rest(f) \in Rests
  BY DEF HandleInv, HandleShape, Visit, Rest
<1>3. "change" \in Range(Rest(f)) <=> "change" \in Range(Tail(Rest(f)))
  BY <1>2, RestGoesOn
<1>4. "change" \notin Range(<<>>)
  BY DEF Range
<1>5. RequestInv(f)'
  <2>1. applied'[f] = 0 /\ (visit[f].wants <=> "change" \in Range(Tail(Rest(f))))
    BY <1>3 DEF HandleInv, RequestInv
  <2>2. visit'[f].wants <=> "change" \in Range(Rest(f)')
    BY <1>1, <2>1 DEF Rest
  <2>3. Rest(f)' = <<>> => ~visit'[f].wants /\ applied'[f] # 1
    BY <1>4, <2>1, <2>2
  <2> QED
    BY <1>1, <2>1, <2>2, <2>3 DEF RequestInv, Refusals
<1>6. InHandler(f)' => InHandler(f)
  BY DEF InHandler
<1> QED
  BY <1>1, <1>5, <1>6, RequestMoves

\* A step that a handler has before it, and that nothing was carried out of yet.
LEMMA NothingDoneYet ==
  ASSUME HandleInv, NEW f \in Frontend, NEW duty, Doing(f, duty)
  PROVE  /\ visit[f].answer = "pending" /\ Rest(f) # <<>> /\ Head(Rest(f)) = duty
         /\ Rest(f) \in Rests
         /\ applied[f] = 0
         /\ duty \in {"judge", "state", "subscribe"} => ~visit[f].wants
<1>1. visit[f].answer = "pending" /\ Rest(f) # <<>> /\ Head(Rest(f)) = duty
  BY DEF Doing, Rest
<1>2. Rest(f) \in Rests
  BY DEF HandleInv, HandleShape, Visit, Rest
<1>3. applied[f] = 0 /\ (visit[f].wants <=> "change" \in Range(Rest(f)))
  BY <1>1 DEF HandleInv, RequestInv
<1>4. Head(Rest(f)) \in {"judge", "state", "subscribe"} => "change" \notin Range(Rest(f))
  BY <1>1, <1>2, RestGoesOn
<1> QED
  BY <1>1, <1>2, <1>3, <1>4

\* The steps of a handler that need no answer of the actor.
LEMMA HandlerStepKeeps ==
  ASSUME HandleInv, NEW f \in Frontend,
         TakeInput(f) \/ JudgeOperation(f) \/ EnsureRunning(f) \/ AskState(f) \/ AskOutside(f)
           \/ Record(f)
  PROVE  HandleInv'
<1>0. UNCHANGED <<leaveVars, mailbox, applied>> /\ WritesAreAllowed
  <2>1. CASE ~Record(f)
    <3>1. UNCHANGED <<leaveVars, mailbox, applied>> /\ UNCHANGED writeVars
      BY <2>1 DEF TakeInput, JudgeOperation, EnsureRunning, AskState, AskOutside
    <3> QED
      BY <3>1, NoWriteIsAllowed
  <2>2. CASE Record(f)
    <3>1. InHandler(f)
      BY <2>2 DEF Record, Doing, InHandler
    <3> QED
      BY <2>2, <3>1, HandlerMayWrite DEF Record
  <2> QED
    BY <2>1, <2>2
<1>1. PICK duty \in {"input", "within", "judge", "ensure_running", "state", "query", "ask",
                     "record"} :
        /\ Doing(f, duty)
        /\ \/ StepDone(f)
           \/ \E answer \in {"invalid", "not ready", "refused"} : AnswerWith(f, answer)
           \/ duty \in {"judge", "state"} /\ AnswerWith(f, "ok")
  BY DEF TakeInput, JudgeOperation, EnsureRunning, AskState, AskOutside, Record
<1>2. /\ visit[f].answer = "pending" /\ Rest(f) # <<>> /\ Head(Rest(f)) = duty
      /\ applied[f] = 0 /\ InHandler(f)
      /\ duty \in {"judge", "state"} => ~visit[f].wants
  BY <1>1, NothingDoneYet DEF InHandler
<1>3. visit[f].wants \in BOOLEAN
  BY DEF HandleInv, HandleShape, Visit
<1>4. CASE StepDone(f)
  BY <1>0, <1>2, <1>4, StepDoneKeeps
<1>5. ASSUME NEW answer \in {"invalid", "not ready", "refused"}, AnswerWith(f, answer)
      PROVE  HandleInv'
  <2>1. answer \in Answers /\ answer \in Refusals /\ answer # "ok"
    BY DEF Answers, Refusals
  <2> QED
    BY <1>0, <1>2, <1>5, <2>1, AnswersKeep
<1>6. CASE duty \in {"judge", "state"} /\ AnswerWith(f, "ok")
  <2>1. "ok" \in Answers /\ "ok" \notin Refusals
    BY DEF Answers, Refusals
  <2>2. visit[f].wants = (applied[f] = 1)
    BY <1>2, <1>3, <1>6
  <2> QED
    BY <1>0, <1>2, <1>6, <2>1, <2>2, AnswersKeep
<1> QED
  BY <1>1, <1>4, <1>5, <1>6

\* A write begins, and ends well or not while the handler waits for it.
LEMMA StartWriteKeeps ==
  ASSUME HandleInv, NEW f \in Frontend, StartWrite(f) PROVE HandleInv'
<1>1. /\ visit[f].answer = "pending" /\ Rest(f) # <<>> /\ Head(Rest(f)) = "write"
      /\ Rest(f) \in Rests /\ applied[f] = 0
  BY NothingDoneYet DEF StartWrite
<1>2. /\ visit' \in [Frontend -> Visit]
      /\ visit'[f].steps = Rest(f) /\ visit'[f].answer = "writing"
      /\ visit'[f].wants = visit[f].wants
      /\ \A g \in Frontend \ {f} : visit'[g] = visit[g]
  <2>1. "writing" \in Answers
    BY DEF Answers
  <2> QED
    BY <1>1, <2>1, RequestBecomes DEF StartWrite, Rest
<1>3. UNCHANGED <<leaveVars, mailbox, applied>> /\ WritesAreAllowed
  BY NoWriteIsAllowed DEF StartWrite
<1>4. RequestInv(f)'
  BY <1>1, <1>2, <1>3 DEF HandleInv, RequestInv, Rest, Refusals
<1>5. InHandler(f)
  BY <1>1 DEF InHandler
<1> QED
  BY <1>1, <1>2, <1>3, <1>4, <1>5, RequestMoves

LEMMA FinishWriteKeeps ==
  ASSUME HandleInv, NEW f \in Frontend, FinishWrite(f) PROVE HandleInv'
<1>1. /\ visit[f].answer = "writing" /\ Rest(f) # <<>> /\ Head(Rest(f)) # "change"
      /\ applied[f] = 0 /\ InHandler(f)
  BY DEF HandleInv, RequestInv, FinishWrite, InHandler
<1>2. UNCHANGED <<leaveVars, mailbox, applied>> /\ WritesAreAllowed
  BY <1>1, HandlerMayWrite DEF FinishWrite
<1>3. CASE StepDone(f)
  BY <1>1, <1>2, <1>3, StepDoneKeeps
<1>4. CASE AnswerWith(f, "refused")
  <2>1. "refused" \in Answers /\ "refused" \in Refusals
    BY DEF Answers, Refusals
  <2> QED
    BY <1>1, <1>2, <1>4, <2>1, AnswersKeep
<1> QED
  BY <1>3, <1>4 DEF FinishWrite

LEMMA AnswerOkKeeps ==
  ASSUME HandleInv, NEW f \in Frontend, AnswerOk(f) PROVE HandleInv'
<1>1. /\ UNCHANGED <<leaveVars, mailbox, applied>> /\ WritesAreAllowed /\ InHandler(f)
      /\ visit[f].answer = "pending" /\ Rest(f) = <<>> /\ AnswerWith(f, "ok")
  BY NoWriteIsAllowed DEF AnswerOk, Rest, InHandler
<1>2. visit[f].wants \in BOOLEAN
  BY DEF HandleInv, HandleShape, Visit
<1>3. visit[f].wants = (applied[f] = 1)
  BY <1>1, <1>2 DEF HandleInv, RequestInv
<1>4. "ok" \in Answers /\ "ok" \notin Refusals
  BY DEF Answers, Refusals
<1> QED
  BY <1>1, <1>2, <1>3, <1>4, AnswersKeep

LEMMA EndStreamKeeps ==
  ASSUME HandleInv, NEW f \in Frontend, EndStream(f) PROVE HandleInv'
<1>1. /\ UNCHANGED <<leaveVars, mailbox, applied>> /\ WritesAreAllowed /\ InHandler(f)
      /\ visit[f].answer = "streaming" /\ AnswerWith(f, "ok")
  BY NoWriteIsAllowed DEF EndStream, InHandler
<1>2. visit[f].wants \in BOOLEAN
  BY DEF HandleInv, HandleShape, Visit
<1>3. visit[f].wants = (applied[f] = 1)
  BY <1>1, <1>2 DEF HandleInv, RequestInv
<1>4. "ok" \in Answers /\ "ok" \notin Refusals
  BY DEF Answers, Refusals
<1> QED
  BY <1>1, <1>2, <1>3, <1>4, AnswersKeep

LEMMA HangUpKeeps ==
  ASSUME HandleInv, NEW f \in Frontend, HangUp(f) PROVE HandleInv'
<1>1. /\ UNCHANGED <<leaveVars, mailbox, applied>> /\ InHandler(f) /\ AnswerWith(f, "broken")
      /\ UNCHANGED unguarded /\ stray' = (stray \/ visit[f].answer = "writing")
  BY DEF HangUp, InHandler
<1>2. WritesAreAllowed
  BY <1>1 DEF HandleInv, HandleShape, HandleTypeOK, WritesAreAllowed
<1>3. "broken" \in Answers /\ "broken" \notin Refusals
  BY DEF Answers, Refusals
<1> QED
  BY <1>1, <1>2, <1>3, AnswersKeep

\* A request that was never made, or was refused as too much, begins.
LEMMA VisitingKeeps ==
  ASSUME HandleInv, NEW f \in Frontend, Visiting(f) PROVE HandleInv'
<1>1. PICK steps \in RequestsOf[host] :
        visit' = [visit EXCEPT ![f] = [steps |-> steps, answer |-> "pending",
                                       wants |-> "change" \in Range(steps)]]
  BY DEF Visiting
<1>2. steps \in Rests
  <2>1. steps \in RequestsOf.program \cup RequestsOf.app
    BY DEF HandleInv, HandleShape, HandleTypeOK, RequestsOf
  <2>2. steps \in Seq(STRING) /\ Len(steps) \in Nat
    BY <2>1, RouteAssumption, LenProperties
  <2>3. steps \in Suffixes(steps)
    <3>1. CASE steps = <<>>
      BY <3>1 DEF Suffixes
    <3>2. CASE steps # <<>>
      <4>1. 1 \in 1..Len(steps)
        BY <2>2, <3>2, EmptySeq
      <4>2. steps = SubSeq(steps, 1, Len(steps))
        BY <2>2, SubSeqFull
      <4> QED
        BY <4>1, <4>2 DEF Suffixes
    <3> QED
      BY <3>1, <3>2
  <2> QED
    BY <2>1, <2>3 DEF Rests
<1>3. /\ visit' \in [Frontend -> Visit]
      /\ visit'[f].steps = steps /\ visit'[f].answer = "pending"
      /\ visit'[f].wants = ("change" \in Range(steps))
      /\ \A g \in Frontend \ {f} : visit'[g] = visit[g]
  <2>1. visit \in [Frontend -> Visit] /\ "pending" \in Answers
    BY DEF HandleInv, HandleShape, Answers
  <2>2. [steps |-> steps, answer |-> "pending", wants |-> "change" \in Range(steps)] \in Visit
    BY <1>2, <2>1 DEF Visit
  <2> QED
    BY <1>1, <2>1, <2>2
<1>4. visit[f].answer \in {"none", "overloaded"} /\ applied[f] = 0
  BY DEF HandleInv, RequestInv, Visiting, Refusals
<1>5. RequestInv(f)'
  <2>1. "change" \notin Range(<<>>)
    BY DEF Range
  <2>2. applied'[f] = 0
    BY <1>4 DEF Visiting
  <2>3. Rest(f)' = steps /\ (visit'[f].wants <=> "change" \in Range(Rest(f)'))
    BY <1>3 DEF Rest
  <2>4. Rest(f)' = <<>> => ~visit'[f].wants /\ applied'[f] # 1
    BY <2>1, <2>2, <2>3
  <2> QED
    BY <1>3, <2>2, <2>3, <2>4 DEF RequestInv, Refusals
<1>6. /\ UNCHANGED <<leaveVars, mailbox, applied>>
      /\ host = "app" \/ server = "serves"
  BY DEF HandleInv, HandleShape, HandleTypeOK, Visiting
<1>7. WritesAreAllowed
  BY NoWriteIsAllowed DEF Visiting
<1> QED
  BY <1>3, <1>4, <1>5, <1>6, <1>7, RequestMoves

\* A command goes into the channel, where there was none of its sender.
LEMMA SendCommandKeeps ==
  ASSUME HandleInv, NEW f \in Frontend, SendCommand(f) PROVE HandleInv'
<1>1. PICK duty \in Does : Doing(f, duty)
  BY DEF SendCommand, Does
<1>2. /\ visit[f].answer = "pending" /\ Rest(f) # <<>> /\ Head(Rest(f)) = duty
      /\ Rest(f) \in Rests /\ applied[f] = 0
  BY <1>1, NothingDoneYet
<1>3. UNCHANGED <<leaveVars, applied, stray, unguarded>> /\ WritesAreAllowed /\ InHandler(f)
  BY <1>2, NoWriteIsAllowed DEF SendCommand, writeVars, InHandler
<1>6. PICK n \in Nat : n = Len(mailbox)
  BY CommandTypes DEF HandleInv
<1>4. CASE mailbox' = mailbox /\ \E answer \in {"not ready", "overloaded"} : AnswerWith(f, answer)
  <2>1. PICK answer \in {"not ready", "overloaded"} : AnswerWith(f, answer)
    BY <1>4
  <2>2. answer \in Answers /\ answer \in Refusals /\ answer # "ok"
    BY DEF Answers, Refusals
  <2> QED
    BY <1>2, <1>3, <1>4, <2>1, <2>2, AnswersKeep
<1>5. CASE /\ Len(mailbox) # MailboxLimit
           /\ Becomes(f, visit[f].steps, "queued")
           /\ mailbox' = Append(mailbox, [from |-> f, does |-> duty])
  <2>1. /\ visit' \in [Frontend -> Visit]
        /\ visit'[f].steps = Rest(f) /\ visit'[f].answer = "queued"
        /\ visit'[f].wants = visit[f].wants
        /\ \A g \in Frontend \ {f} : visit'[g] = visit[g]
    <3>1. "queued" \in Answers
      BY DEF Answers
    <3> QED
      BY <1>2, <1>5, <3>1, RequestBecomes DEF Rest
  <2>2. /\ DOMAIN mailbox = 1..n
        /\ \A i \in DOMAIN mailbox : mailbox[i].from \in Frontend /\ mailbox[i].does \in Does
    BY <1>6, CommandTypes DEF HandleInv
  <2>3. /\ mailbox' \in Seq([from : Frontend, does : Does])
        /\ Len(mailbox') = n + 1 /\ DOMAIN mailbox' = 1..(n + 1)
        /\ \A i \in 1..n : mailbox'[i] = mailbox[i]
        /\ mailbox'[n + 1] = [from |-> f, does |-> duty]
    <3>1. mailbox \in Seq([from : Frontend, does : Does])
      BY DEF HandleInv, HandleShape
    <3>2. [from |-> f, does |-> duty] \in [from : Frontend, does : Does]
      OBVIOUS
    <3> QED
      BY <1>6, <1>5, <3>1, <3>2, AppendProperties, LenProperties
  <2>4. HandleShape'
    <3>1. Len(mailbox') <= MailboxLimit
      <4>1. n <= MailboxLimit /\ n # MailboxLimit
        BY <1>6, <1>5 DEF HandleInv, HandleShape, HandleTypeOK
      <4> QED
        BY <2>3, <4>1, HandleAssumption
    <3>2. \A i \in DOMAIN mailbox' : mailbox'[i] \in [from : Frontend, does : Does]
      BY <2>3, ElementOfSeq, LenProperties
    <3> QED
      BY <1>3, <2>1, <2>3, <3>1, <3>2
         DEF HandleInv, HandleShape, HandleTypeOK, leaveVars, Visit, Does
  <2>5. \A g \in Frontend : RequestInv(g)'
    <3>1. RequestInv(f)'
      BY <1>2, <1>3, <2>1 DEF HandleInv, RequestInv, Rest, Refusals
    <3> QED
      BY <1>3, <2>1, <3>1 DEF HandleInv, RequestInv, Rest
  <2>6. ASSUME NEW i \in 1..n PROVE CommandInv(i)' /\ mailbox[i].from # f
    <3>1. CommandInv(i) /\ mailbox[i].from \in Frontend
      BY <2>2 DEF HandleInv, CommandsAreOwned
    <3>2. mailbox[i].from # f
      BY <1>2, <3>1 DEF CommandInv
    <3> QED
      BY <1>3, <2>1, <2>3, <3>1, <3>2 DEF CommandInv, Rest
  <2>7. CommandInv(n + 1)'
    BY <1>2, <1>3, <2>1, <2>3 DEF CommandInv, Rest
  <2>8. CommandsAreOwned'
    <3>1. \A i \in DOMAIN mailbox' : CommandInv(i)'
      BY <2>2, <2>3, <2>6, <2>7
    <3>2. ASSUME NEW i \in DOMAIN mailbox', NEW j \in DOMAIN mailbox',
                 mailbox'[i].from = mailbox'[j].from
          PROVE  i = j
      <4>1. CASE i \in 1..n /\ j \in 1..n
        BY <2>2, <2>3, <3>2, <4>1 DEF HandleInv, CommandsAreOwned
      <4>2. CASE i = n + 1 \/ j = n + 1
        BY <2>2, <2>3, <2>6, <3>2, <4>2
      <4> QED
        BY <2>2, <2>3, <4>1, <4>2
    <3> QED
      BY <3>1, <3>2 DEF CommandsAreOwned
  <2>9. NobodyIsLeft'
    BY <1>2, <1>3, <2>1 DEF HandleInv, NobodyIsLeft, InHandler, leaveVars
  <2> QED
    BY <2>4, <2>5, <2>8, <2>9 DEF HandleInv
<1> QED
  BY <1>2, <1>4, <1>5 DEF SendCommand, Rest

LEMMA RequestStepKeeps ==
  ASSUME HandleInv, NEW f \in Frontend, RequestStep(f) PROVE HandleInv'
BY VisitingKeeps, AnswerOkKeeps, HandlerStepKeeps, SendCommandKeeps, StartWriteKeeps,
   FinishWriteKeeps, HangUpKeeps, EndStreamKeeps DEF RequestStep

\* The thread of a dropped handler writes, and no handler moves.
LEMMA StrayWriteKeeps ==
  ASSUME HandleInv, StrayWrite PROVE HandleInv'
<1>1. /\ UNCHANGED <<host, owned, server, actor, released, overdue, mailbox, visit, applied>>
      /\ stray' \in BOOLEAN /\ unguarded' \subseteq {"handler", "thread"}
      /\ "handler" \in unguarded' => "handler" \in unguarded
  BY DEF HandleInv, HandleShape, HandleTypeOK, StrayWrite, WriteBy, leaveVars
<1>2. HandleShape'
  BY <1>1 DEF HandleInv, HandleShape, HandleTypeOK
<1>3. \A f \in Frontend : RequestInv(f)'
  BY <1>1 DEF HandleInv, RequestInv, Rest
<1>4. CommandsAreOwned'
  BY <1>1 DEF HandleInv, CommandsAreOwned, CommandInv, Rest
<1>5. NobodyIsLeft'
  BY <1>1 DEF HandleInv, NobodyIsLeft, InHandler
<1> QED
  BY <1>2, <1>3, <1>4, <1>5 DEF HandleInv

-----------------------------------------------------------------------------
(* The actor. *)

\* The first command goes, and its sender gets an answer if it still waits.
LEMMA HandleCommandKeeps ==
  ASSUME HandleInv, HandleCommand PROVE HandleInv'
<1>1. /\ Len(mailbox) \in Nat /\ DOMAIN mailbox = 1..Len(mailbox)
      /\ \A i \in DOMAIN mailbox : mailbox[i].from \in Frontend /\ mailbox[i].does \in Does
  BY CommandTypes DEF HandleInv
<1>2. /\ mailbox' \in Seq([from : Frontend, does : Does])
      /\ 1 \in DOMAIN mailbox /\ Head(mailbox) = mailbox[1]
      /\ Len(mailbox') = Len(mailbox) - 1 /\ DOMAIN mailbox' = 1..(Len(mailbox) - 1)
      /\ \A i \in 1..(Len(mailbox) - 1) : mailbox'[i] = mailbox[i + 1]
  <2>1. mailbox \in Seq([from : Frontend, does : Does]) /\ mailbox # <<>> /\ mailbox' = Tail(mailbox)
    BY DEF HandleInv, HandleShape, HandleCommand
  <2>2. 1 \in DOMAIN mailbox
    BY <1>1, <2>1, EmptySeq
  <2> QED
    BY <1>1, <2>1, <2>2, HeadTailProperties, LenProperties
<1>20. PICK c \in [from : Frontend, does : Does] : c = Head(mailbox)
  <2>1. mailbox \in Seq([from : Frontend, does : Does])
    BY DEF HandleInv, HandleShape
  <2> QED
    BY <1>2, <2>1, ElementOfSeq, LenProperties
<1>21. PICK f \in Frontend : f = c.from
  OBVIOUS
<1>3. /\ f = mailbox[1].from /\ visit[f].answer \in {"queued", "broken"}
      /\ visit[f].answer = "queued" => c.does = Head(Rest(f)) /\ Rest(f) # <<>> /\ applied[f] = 0
      /\ c.does = "change" => applied[f] = 0
      /\ applied[f] \in {0, 1} /\ Rest(f) \in Rests
  <2>1. CommandInv(1) /\ f = mailbox[1].from /\ c = mailbox[1]
    BY <1>1, <1>2, <1>20, <1>21 DEF HandleInv, CommandsAreOwned
  <2>2. RequestInv(f) /\ Rest(f) \in Rests
    BY <2>1 DEF HandleInv, HandleShape, Visit, Rest
  <2> QED
    BY <1>2, <2>1, <2>2 DEF CommandInv, RequestInv
<1>4. UNCHANGED <<leaveVars, stray, unguarded>>
  BY DEF HandleCommand, writeVars
<1>5. \E fine \in BOOLEAN :
        /\ Replies(c, fine)
        /\ applied' = IF fine /\ c.does = "change" THEN [applied EXCEPT ![f] = 1] ELSE applied
  <2>1. CASE Carried(c) /\ Replies(c, TRUE)
    <3>1. applied' = [applied EXCEPT ![f] = IF c.does = "change" THEN @ + 1 ELSE @]
      BY <1>21, <2>1 DEF Carried
    <3>2. applied \in [Frontend -> Nat]
      BY DEF HandleInv, HandleShape, HandleTypeOK
    <3>3. applied' = IF c.does = "change" THEN [applied EXCEPT ![f] = 1] ELSE applied
      <4>1. CASE c.does = "change"
        <5>1. applied[f] = 0
          BY <1>3, <4>1
        <5>2. applied' = [applied EXCEPT ![f] = applied[f] + 1]
          BY <3>1, <4>1
        <5> QED
          BY <4>1, <5>1, <5>2
      <4>2. CASE c.does # "change"
        <5>1. applied' = [applied EXCEPT ![f] = applied[f]]
          BY <3>1, <4>2
        <5> QED
          BY <3>2, <4>2, <5>1
      <4> QED
        BY <4>1, <4>2
    <3> QED
      BY <2>1, <3>3
  <2>2. CASE UNCHANGED applied /\ Replies(c, FALSE)
    BY <2>2
  <2> QED
    BY <1>20, <2>1, <2>2 DEF HandleCommand
<1>6. PICK fine \in BOOLEAN :
        /\ Replies(c, fine)
        /\ applied' = IF fine /\ c.does = "change" THEN [applied EXCEPT ![f] = 1] ELSE applied
  BY <1>5
<1>7. /\ applied' \in [Frontend -> Nat]
      /\ \A g \in Frontend \ {f} : applied'[g] = applied[g]
      /\ applied'[f] = IF fine /\ c.does = "change" THEN 1 ELSE applied[f]
  BY <1>3, <1>6 DEF HandleInv, HandleShape, HandleTypeOK
<1>8. /\ visit' \in [Frontend -> Visit]
      /\ \A g \in Frontend \ {f} : visit'[g] = visit[g]
      /\ RequestInv(f)'
      /\ InHandler(f)' => InHandler(f)
  <2>1. CASE visit[f].answer = "broken"
    <3>1. visit' = visit
      BY <1>21, <1>6, <2>1 DEF Replies
    <3> QED
      BY <1>3, <1>7, <2>1, <3>1 DEF HandleInv, HandleShape, RequestInv, InHandler, Refusals
  <2>2. CASE visit[f].answer = "queued" /\ ~fine
    <3>1. AnswerWith(f, "refused") /\ "refused" \in Answers
      BY <1>21, <1>6, <2>2 DEF Replies, Answers
    <3>2. /\ visit' \in [Frontend -> Visit]
          /\ visit'[f].steps = <<>> /\ visit'[f].answer = "refused"
          /\ \A g \in Frontend \ {f} : visit'[g] = visit[g]
      BY <1>3, <3>1, AnswerWithEnds
    <3> QED
      BY <1>3, <1>7, <2>2, <3>2 DEF RequestInv, InHandler, Refusals
  <2>3. CASE visit[f].answer = "queued" /\ fine /\ c.does = "subscribe"
    <3>1. Becomes(f, <<>>, "streaming") /\ "streaming" \in Answers
      BY <1>21, <1>6, <2>3 DEF Replies, Answers
    <3>2. /\ visit' \in [Frontend -> Visit]
          /\ visit'[f].steps = <<>> /\ visit'[f].answer = "streaming"
          /\ visit'[f].wants = visit[f].wants
          /\ \A g \in Frontend \ {f} : visit'[g] = visit[g]
      BY <1>3, <3>1, NothingMayBeLeft, RequestBecomes
    <3>3. ~visit[f].wants
      <4>1. "change" \notin Range(Rest(f))
        BY <1>3, <2>3, RestGoesOn
      <4> QED
        BY <1>3, <2>3, <4>1 DEF HandleInv, RequestInv
    <3> QED
      BY <1>3, <1>7, <2>3, <3>2, <3>3 DEF RequestInv, InHandler, Refusals
  <2>4. CASE visit[f].answer = "queued" /\ fine /\ c.does # "subscribe"
    <3>1. StepDone(f) /\ Rest(f) # <<>>
      BY <1>21, <1>3, <1>6, <2>4 DEF Replies, Rest
    <3>2. /\ visit' \in [Frontend -> Visit]
          /\ visit'[f].steps = Tail(Rest(f)) /\ visit'[f].answer = "pending"
          /\ visit'[f].wants = visit[f].wants
          /\ \A g \in Frontend \ {f} : visit'[g] = visit[g]
      BY <1>3, <3>1, StepDoneGoesOn
    <3>3. visit[f].wants <=> "change" \in Range(Rest(f))
      BY <1>3, <2>4 DEF HandleInv, RequestInv
    <3>4. "change" \notin Range(<<>>)
      BY DEF Range
    <3>5. CASE c.does = "change"
      <4>1. Tail(Rest(f)) = <<>> /\ "change" \in Range(Rest(f))
        BY <1>3, <2>4, <3>5, RestGoesOn
      <4> QED
        BY <1>3, <1>7, <2>4, <3>2, <3>3, <3>5, <4>1 DEF RequestInv, InHandler, Refusals, Rest
    <3>6. CASE c.does # "change"
      <4>1. "change" \in Range(Rest(f)) <=> "change" \in Range(Tail(Rest(f)))
        BY <1>3, <2>4, <3>6, RestGoesOn
      <4>2. applied'[f] = 0 /\ (visit'[f].wants <=> "change" \in Range(Tail(Rest(f))))
        BY <1>3, <1>7, <2>4, <3>2, <3>3, <3>6, <4>1
      <4>3. Tail(Rest(f)) = <<>> => ~visit'[f].wants /\ applied'[f] # 1
        <5>1. Tail(Rest(f)) = <<>> => "change" \notin Range(Tail(Rest(f)))
          BY <3>4
        <5> QED
          BY <4>2, <5>1
      <4>4. Rest(f)' = Tail(Rest(f))
        BY <3>2 DEF Rest
      <4> QED
        BY <2>4, <3>2, <4>2, <4>3, <4>4 DEF RequestInv, InHandler, Refusals
    <3> QED
      BY <3>5, <3>6
  <2> QED
    BY <1>3, <2>1, <2>2, <2>3, <2>4
<1>9. HandleShape'
  <2>1. Len(mailbox') <= MailboxLimit
    BY <1>1, <1>2, HandleAssumption DEF HandleInv, HandleShape, HandleTypeOK
  <2>2. \A i \in DOMAIN mailbox' : mailbox'[i] \in [from : Frontend, does : Does]
    BY <1>2, ElementOfSeq, LenProperties
  <2> QED
    BY <1>2, <1>4, <1>7, <1>8, <2>1, <2>2
       DEF HandleInv, HandleShape, HandleTypeOK, leaveVars, Visit, Does
<1>10. \A g \in Frontend : RequestInv(g)'
  BY <1>3, <1>7, <1>8 DEF HandleInv, RequestInv, Rest
<1>11. CommandsAreOwned'
  <2>1. ASSUME NEW i \in 1..(Len(mailbox) - 1) PROVE CommandInv(i)'
    <3>1. i + 1 \in DOMAIN mailbox /\ i + 1 # 1 /\ mailbox'[i] = mailbox[i + 1]
      BY <1>1, <1>2
    <3>2. /\ CommandInv(i + 1) /\ mailbox[i + 1].from \in Frontend
          /\ mailbox[i + 1].from # f
      BY <1>1, <1>2, <1>3, <3>1 DEF HandleInv, CommandsAreOwned
    <3> QED
      BY <1>7, <1>8, <3>1, <3>2 DEF CommandInv, Rest
  <2>2. ASSUME NEW i \in 1..(Len(mailbox) - 1), NEW j \in 1..(Len(mailbox) - 1),
               mailbox'[i].from = mailbox'[j].from
        PROVE  i = j
    <3>1. i + 1 \in DOMAIN mailbox /\ j + 1 \in DOMAIN mailbox
      BY <1>1
    <3>2. mailbox[i + 1].from = mailbox[j + 1].from
      BY <1>2, <2>2
    <3>3. i + 1 = j + 1
      BY <3>1, <3>2 DEF HandleInv, CommandsAreOwned
    <3> QED
      BY <3>3
  <2> QED
    BY <1>2, <2>1, <2>2 DEF CommandsAreOwned
<1>12. NobodyIsLeft'
  BY <1>4, <1>8 DEF HandleInv, NobodyIsLeft, InHandler, leaveVars
<1> QED
  BY <1>9, <1>10, <1>11, <1>12 DEF HandleInv

LEMMA LeaveLoopKeeps == HandleInv /\ LeaveLoop => HandleInv'
BY DEF HandleInv, HandleShape, HandleTypeOK, LeaveLoop, RequestInv, Rest, CommandsAreOwned,
       CommandInv, NobodyIsLeft, InHandler, writeVars

\* The channel goes with its commands; who waits for an answer gets an error.
LEMMA DropChannelKeeps ==
  ASSUME HandleInv, DropChannel PROVE HandleInv'
<1>1. /\ visit \in [Frontend -> Visit] /\ visit' = [f \in Frontend |-> Dismissed(f)]
      /\ UNCHANGED <<host, owned, server, applied, released, overdue, stray, unguarded>>
      /\ actor' = "gone" /\ mailbox' = <<>>
  BY DEF HandleInv, HandleShape, DropChannel, writeVars
<1>2. ASSUME NEW f \in Frontend
      PROVE  visit'[f] \in Visit /\ RequestInv(f)' /\ (InHandler(f)' => InHandler(f))
  <2>1. visit'[f] = Dismissed(f) /\ visit[f] \in Visit /\ RequestInv(f) /\ applied'[f] = applied[f]
    BY <1>1 DEF HandleInv
  <2>2. CASE visit[f].answer = "queued"
    <3>1. visit'[f] = [visit[f] EXCEPT !.steps = <<>>, !.answer = "internal"]
      BY <2>1, <2>2 DEF Dismissed
    <3>2. /\ visit'[f] \in Visit
          /\ visit'[f].steps = <<>> /\ visit'[f].answer = "internal"
      BY <2>1, <3>1, NothingMayBeLeft DEF Visit, Answers
    <3>3. applied[f] = 0
      BY <2>1, <2>2 DEF RequestInv
    <3> QED
      BY <2>1, <3>2, <3>3 DEF RequestInv, InHandler, Refusals
  <2>3. CASE visit[f].answer = "streaming"
    <3>1. visit'[f] = [visit[f] EXCEPT !.answer = "ok"]
      BY <2>1, <2>3 DEF Dismissed
    <3>2. /\ visit'[f] \in Visit /\ visit'[f].answer = "ok"
          /\ visit'[f].wants = visit[f].wants
      BY <2>1, <3>1 DEF Visit, Answers
    <3>3. applied[f] = 0 /\ ~visit[f].wants
      BY <2>1, <2>3 DEF RequestInv
    <3> QED
      BY <2>1, <3>2, <3>3 DEF RequestInv, InHandler, Refusals
  <2>4. CASE visit[f].answer \notin {"queued", "streaming"}
    <3>1. visit'[f] = visit[f]
      BY <2>1, <2>4 DEF Dismissed
    <3> QED
      BY <2>1, <3>1 DEF RequestInv, InHandler, Rest
  <2> QED
    BY <2>2, <2>3, <2>4
<1>3. HandleShape'
  <2>1. /\ mailbox' \in Seq([from : Frontend, does : Does]) /\ Len(mailbox') = 0
        /\ DOMAIN mailbox' = {}
    BY <1>1
  <2>2. visit' \in [Frontend -> Visit]
    BY <1>1, <1>2
  <2> QED
    BY <1>1, <2>1, <2>2, HandleAssumption DEF HandleInv, HandleShape, HandleTypeOK, Visit
<1>4. CommandsAreOwned'
  BY <1>1 DEF CommandsAreOwned
<1>5. NobodyIsLeft'
  BY <1>1, <1>2 DEF HandleInv, NobodyIsLeft
<1> QED
  BY <1>2, <1>3, <1>4, <1>5 DEF HandleInv

-----------------------------------------------------------------------------
(* The shutdown, which touches no request. *)

LEMMA LeavingTouchesNoRequest ==
  ASSUME HandleInv, UNCHANGED <<host, mailbox, visit, applied, stray, unguarded>>,
         owned' \in BOOLEAN, server' \in {"serves", "drains", "down"}, actor' \in {"runs", "left", "gone"},
         released' \in BOOLEAN, overdue' \in BOOLEAN, NobodyIsLeft'
  PROVE  HandleInv'
<1>1. HandleShape'
  BY DEF HandleInv, HandleShape, HandleTypeOK
<1>2. \A f \in Frontend : RequestInv(f)'
  BY DEF HandleInv, RequestInv, Rest
<1>3. CommandsAreOwned'
  BY DEF HandleInv, CommandsAreOwned, CommandInv, Rest
<1> QED
  BY <1>1, <1>2, <1>3 DEF HandleInv

LEMMA LeavingKeepsRequests ==
  ASSUME HandleInv, BeginLeave \/ ServerDrained \/ MissDrain \/ ReleaseLock
  PROVE  HandleInv'
<1>1. HandleTypeOK /\ NobodyIsLeft
  BY DEF HandleInv, HandleShape
<1>2. CASE BeginLeave
  <2>1. NobodyIsLeft'
    BY <1>1, <1>2 DEF BeginLeave, NobodyIsLeft, InHandler, writeVars
  <2>2. /\ owned' \in BOOLEAN /\ server' \in {"serves", "drains", "down"} /\ actor' = actor
        /\ released' = released /\ overdue' = overdue
        /\ UNCHANGED <<host, mailbox, visit, applied, stray, unguarded>>
    BY <1>1, <1>2 DEF BeginLeave, HandleTypeOK, writeVars
  <2> QED
    BY <1>1, <2>1, <2>2, LeavingTouchesNoRequest DEF HandleTypeOK
<1>3. CASE ServerDrained
  <2>1. NobodyIsLeft'
    BY <1>1, <1>3 DEF ServerDrained, NobodyIsLeft, InHandler, writeVars
  <2> QED
    BY <1>1, <1>3, <2>1, LeavingTouchesNoRequest DEF ServerDrained, HandleTypeOK, writeVars
<1>4. CASE MissDrain
  <2>1. NobodyIsLeft'
    BY <1>1, <1>4 DEF MissDrain, NobodyIsLeft, writeVars
  <2> QED
    BY <1>1, <1>4, <2>1, LeavingTouchesNoRequest DEF MissDrain, HandleTypeOK, writeVars
<1>5. CASE ReleaseLock
  <2>1. NobodyIsLeft'
    BY <1>1, <1>5 DEF ReleaseLock, NobodyIsLeft, InHandler, writeVars
  <2> QED
    BY <1>1, <1>5, <2>1, LeavingTouchesNoRequest DEF ReleaseLock, HandleTypeOK, writeVars
<1> QED
  BY <1>2, <1>3, <1>4, <1>5

-----------------------------------------------------------------------------
LEMMA HandleBegins == HandleInit => HandleInv
<1> SUFFICES ASSUME HandleInit PROVE HandleInv
  OBVIOUS
<1>1. NoVisit \in Visit /\ NoVisit.steps = <<>> /\ NoVisit.answer = "none" /\ ~NoVisit.wants
  BY NothingMayBeLeft DEF NoVisit, Visit, Answers
<1>2. /\ visit \in [Frontend -> Visit] /\ \A f \in Frontend : visit[f] = NoVisit /\ applied[f] = 0
      /\ applied \in [Frontend -> Nat] /\ mailbox = <<>>
  BY <1>1 DEF HandleInit
<1>3. HandleShape
  <2>1. mailbox \in Seq([from : Frontend, does : Does]) /\ Len(mailbox) = 0 /\ DOMAIN mailbox = {}
    BY <1>2
  <2> QED
    <3>1. \A f \in Frontend :
            visit[f].steps \in Rests /\ visit[f].answer \in Answers /\ visit[f].wants \in BOOLEAN
      BY <1>2 DEF Visit
    <3>2. server \in {"serves", "drains", "down"} /\ Len(mailbox) <= MailboxLimit
      BY <2>1, HandleAssumption DEF HandleInit
    <3> QED
      BY <1>2, <2>1, <3>1, <3>2 DEF HandleInit, HandleShape, HandleTypeOK
<1>4. \A f \in Frontend : RequestInv(f)
  BY <1>1, <1>2 DEF RequestInv, Refusals
<1>5. CommandsAreOwned
  BY <1>2 DEF CommandsAreOwned
<1>6. NobodyIsLeft
  BY <1>1, <1>2 DEF HandleInit, NobodyIsLeft, InHandler
<1> QED
  BY <1>3, <1>4, <1>5, <1>6 DEF HandleInv

LEMMA HandleKeeps == HandleInv /\ [HandleNext]_handleVars => HandleInv'
<1> SUFFICES ASSUME HandleInv, [HandleNext]_handleVars PROVE HandleInv'
  OBVIOUS
<1>1. CASE UNCHANGED handleVars
  <2>1. /\ UNCHANGED <<host, mailbox, visit, applied, stray, unguarded>>
        /\ UNCHANGED <<owned, server, actor, released, overdue>>
    BY <1>1 DEF handleVars
  <2>2. NobodyIsLeft'
    BY <2>1 DEF HandleInv, NobodyIsLeft, InHandler
  <2> QED
    BY <2>1, <2>2, LeavingTouchesNoRequest DEF HandleInv, HandleShape, HandleTypeOK
<1>2. CASE HandleNext
  BY <1>2, RequestStepKeeps, StrayWriteKeeps, HandleCommandKeeps, LeaveLoopKeeps, DropChannelKeeps,
     LeavingKeepsRequests DEF HandleNext
<1> QED
  BY <1>1, <1>2

LEMMA HandleInvariant == HandleSpec => []HandleInv
<1> QED
  BY HandleBegins, HandleKeeps, PTL DEF HandleSpec

\* The channel and the requests keep their shape; what is left of a request is always the
\* rest of a route.
THEOREM HandleTypes == HandleSpec => []HandleTypeOK
<1>1. HandleInv => HandleTypeOK
  BY DEF HandleInv, HandleShape
<1> QED
  BY <1>1, HandleInvariant, PTL

\* What a front end is told of the change it asks the actor for is true, for any number of
\* front ends and any capacity of the command channel.
THEOREM FrontendsAreToldTheTruth == HandleSpec => []AnswersAreTrue
<1>1. HandleInv => AnswersAreTrue
  BY DEF HandleInv, RequestInv, AnswersAreTrue
<1> QED
  BY <1>1, HandleInvariant, PTL

\* However many front ends there are, no handler of the control plane writes to a storage that
\* was given up, unless the deadline left it behind; the thread of one that was dropped may.
THEOREM StorageIsGuarded == HandleSpec => []WritesAreGuarded
<1>1. HandleInv => WritesAreGuarded
  BY DEF HandleInv, HandleShape, HandleTypeOK, NobodyIsLeft, WritesAreGuarded
<1> QED
  BY <1>1, HandleInvariant, PTL

-----------------------------------------------------------------------------
(* ConfigStore. *)

\* What a process does under the lock of the directory, and the end of a replacement.
AtWork == {"load", "create", "check", "stage", "back up", "publish", "clean", "recover", "restore"}
Steps  == AtWork \cup {"out", "running"}

\* The lock orders the processes.
LockOrders == \A p \in Process : step[p] \in AtWork <=> dirLock = p

\* What a replacement of the file has reached.
ReplacementInv ==
  /\ stored <= version /\ misread <= version
  /\ \A p \in Process :
       /\ step[p] \in {"stage", "back up", "publish", "clean"} => version >= 1
       /\ step[p] \in {"back up", "publish"} => staged = version
       /\ step[p] = "publish" => file = NoFile
       /\ step[p] = "clean" => file = version
       /\ step[p] = "restore" =>
            /\ file = NoFile /\ backup # NoFile /\ aside # NoFile
            /\ ~mistyped => misread = version

\* Until the user breaks the file, nothing else does.
Unbroken == ~mistyped => file # Invalid /\ backup # Invalid /\ aside # Invalid

ConfigInv == ConfigTypeOK /\ LockOrders /\ ReplacementInv /\ Unbroken /\ SavedConfigSurvives

LEMMA ConfigBounds ==
  /\ MaxVersion \in Nat /\ Nobody \notin Process /\ CoreProcess \cap CommandProcess = {}
  /\ NoFile = 0 /\ Invalid \in Int /\ Invalid < NoFile
  /\ NoFile \in Invalid..MaxVersion /\ Invalid \in Invalid..MaxVersion
  /\ \A content \in Invalid..MaxVersion :
       Valid(content) \/ content = NoFile \/ content = Invalid
BY ConfigAssumption DEF NoFile, Invalid, Valid

\* The numbers of the contents, as plain facts of arithmetic.
LEMMA VersionBounds ==
  ASSUME ConfigInv
  PROVE  /\ version \in Int /\ 0 <= version /\ version <= MaxVersion
         /\ stored \in Int /\ 0 <= stored /\ stored <= version
         /\ staged \in 0..MaxVersion
         /\ misread \in Int /\ 0 <= misread /\ misread <= version
         /\ file \in Invalid..MaxVersion /\ backup \in Invalid..MaxVersion
         /\ aside \in Invalid..MaxVersion
<1>1. version \in 0..MaxVersion /\ stored \in 0..MaxVersion /\ staged \in 0..MaxVersion
      /\ misread \in 0..MaxVersion
  BY DEF ConfigInv, ConfigTypeOK
<1>2. file \in Invalid..MaxVersion /\ backup \in Invalid..MaxVersion /\ aside \in Invalid..MaxVersion
  BY DEF ConfigInv, ConfigTypeOK
<1>3. stored <= version /\ misread <= version
  BY DEF ConfigInv, ReplacementInv
<1> QED
  BY <1>1, <1>2, <1>3, ConfigBounds

LEMMA ConfigBegins == ConfigInit => ConfigInv
<1> SUFFICES ASSUME ConfigInit PROVE ConfigInv
  OBVIOUS
<1>1. ConfigTypeOK
  <2>1. step \in [Process -> Steps] /\ mistyped \in BOOLEAN /\ dirLock \in Process \cup {Nobody}
    BY DEF ConfigInit, Steps
  <2>2. /\ {file, backup, aside} \subseteq Invalid..MaxVersion
        /\ {staged, version, stored, misread} \subseteq 0..MaxVersion
    <3>1. 0 \in 0..MaxVersion
      BY ConfigBounds
    <3> QED
      BY <3>1, ConfigBounds DEF ConfigInit
  <2> QED
    BY <2>1, <2>2 DEF ConfigTypeOK, Steps, AtWork
<1>2. LockOrders /\ ReplacementInv /\ Unbroken /\ SavedConfigSurvives
  BY ConfigBounds DEF ConfigInit, LockOrders, AtWork, ReplacementInv, Unbroken,
                      SavedConfigSurvives, AfterRecovery, Valid
<1> QED
  BY <1>1, <1>2 DEF ConfigInv

-----------------------------------------------------------------------------
\* Where a process goes, and whether it keeps the lock.
LEMMA ProcessGoes ==
  ASSUME ConfigInv, NEW p \in Process, NEW next \in Steps, GoOn(p, next),
         dirLock = p \/ dirLock = Nobody \/ (dirLock' = dirLock /\ step[p] \notin AtWork /\ next \notin AtWork),
         dirLock = p \/ dirLock = Nobody => dirLock' = IF next \in AtWork THEN p ELSE Nobody
  PROVE  /\ step' \in [Process -> Steps] /\ dirLock' \in Process \cup {Nobody}
         /\ step'[p] = next /\ \A q \in Process \ {p} : step'[q] = step[q]
         /\ LockOrders'
         /\ dirLock = p \/ dirLock = Nobody => \A q \in Process \ {p} : step'[q] \notin AtWork
<1>1. step \in [Process -> Steps] /\ dirLock \in Process \cup {Nobody}
  BY DEF ConfigInv, ConfigTypeOK, Steps, AtWork
<1>2. step' \in [Process -> Steps] /\ step'[p] = next /\ \A q \in Process \ {p} : step'[q] = step[q]
  BY <1>1 DEF GoOn
<1>3. \A q \in Process : step[q] \in AtWork <=> dirLock = q
  BY DEF ConfigInv, LockOrders
<1>4. dirLock = p \/ dirLock = Nobody => \A q \in Process \ {p} : step'[q] \notin AtWork
  BY <1>2, <1>3, ConfigBounds
<1>5. LockOrders'
  BY <1>2, <1>3, <1>4, ConfigBounds DEF LockOrders
<1>6. dirLock' \in Process \cup {Nobody}
  BY <1>1
<1> QED
  BY <1>2, <1>4, <1>5, <1>6

\* The files in the hands of nobody else.
LEMMA OnlyOneReplaces ==
  ASSUME NEW p \in Process, \A q \in Process \ {p} : step'[q] \notin AtWork,
         stored' <= version',
         step'[p] \in {"stage", "back up", "publish", "clean"} => version' >= 1,
         step'[p] \in {"back up", "publish"} => staged' = version',
         step'[p] = "publish" => file' = NoFile,
         step'[p] = "clean" => file' = version',
         misread' <= version',
         step'[p] = "restore" =>
           /\ file' = NoFile /\ backup' # NoFile /\ aside' # NoFile
           /\ ~mistyped' => misread' = version'
  PROVE  ReplacementInv'
BY DEF ReplacementInv, AtWork

LEMMA StepIsUnder ==
  ASSUME ConfigInv, NEW p \in Process, step[p] \in AtWork
  PROVE  dirLock = p
BY DEF ConfigInv, LockOrders

\* Recovery chooses what it has read as valid.
LEMMA RecoverKeeps ==
  ASSUME ConfigInv, NEW p \in Process, Enter(p) \/ Recover(p) \/ Restored(p) PROVE ConfigInv'
<1>0. /\ ConfigTypeOK /\ LockOrders /\ ReplacementInv /\ Unbroken /\ SavedConfigSurvives
      /\ MaxVersion \in Nat
  BY ConfigBounds DEF ConfigInv
<1>1. PICK next \in {"recover", "restore", "load", "create", "check", "out"} :
        /\ GoOn(p, next) /\ (dirLock = p \/ dirLock = Nobody)
        /\ dirLock' = IF next = "out" THEN Nobody ELSE p
        /\ next = "restore" =>
             /\ Recover(p) /\ file # NoFile /\ backup # NoFile
             /\ file' = NoFile /\ backup' = backup /\ aside' = file
             /\ misread' = IF Valid(file) THEN version ELSE misread
  <2>1. CASE Enter(p)
    BY <2>1 DEF Enter
  <2>2. CASE Recover(p)
    <3>1. dirLock = p
      BY <2>2, StepIsUnder DEF Recover, AtWork
    <3> QED
      BY <2>2, <3>1 DEF Recover, Ends, Tasks
  <2>3. CASE Restored(p)
    <3>1. dirLock = p
      BY <2>3, StepIsUnder DEF Restored, AtWork
    <3> QED
      BY <2>3, <3>1 DEF Restored, Ends, Tasks
  <2> QED
    BY <2>1, <2>2, <2>3
<1>2. /\ step' \in [Process -> Steps] /\ dirLock' \in Process \cup {Nobody}
      /\ step'[p] = next /\ \A q \in Process \ {p} : step'[q] = step[q]
      /\ LockOrders'
      /\ \A q \in Process \ {p} : step'[q] \notin AtWork
  <2>1. next \in Steps /\ (next \in AtWork <=> next # "out")
    BY DEF Steps, AtWork
  <2> QED
    BY <1>1, <2>1, ProcessGoes
<1>3. UNCHANGED <<staged, version, stored, mistyped>> /\ misread' \in {misread, version}
  BY DEF Enter, Recover, Restored, configFiles, configHistory
<1>4. /\ file \in Invalid..MaxVersion /\ backup \in Invalid..MaxVersion /\ aside \in Invalid..MaxVersion
      /\ stored \in Int /\ 0 <= stored /\ stored <= version
      /\ version \in Int /\ misread \in Int /\ misread <= version
  BY VersionBounds
<1>5. /\ file' \in Invalid..MaxVersion /\ backup' \in Invalid..MaxVersion
      /\ aside' \in Invalid..MaxVersion
      /\ {file', backup', aside'} \subseteq {file, backup, aside, NoFile}
      /\ SavedConfigSurvives'
  <2>1. CASE Enter(p)
    BY <1>0, <1>3, <1>4, <2>1 DEF Enter, configFiles, configHistory, SavedConfigSurvives,
                                  AfterRecovery, Valid
  <2>2. CASE Recover(p)
    <3>1. ~mistyped => /\ file # Invalid /\ backup # Invalid
                       /\ stored > 0 => Valid(AfterRecovery)
                       /\ stored > misread => AfterRecovery >= stored
      BY <1>0 DEF Unbroken, SavedConfigSurvives
    <3>2. CASE UNCHANGED <<file, backup, aside, misread>>
      BY <1>0, <1>3, <1>4, <3>2 DEF SavedConfigSurvives, AfterRecovery, Valid
    <3>3. CASE backup # NoFile /\ Valid(file) /\ backup' = NoFile /\ UNCHANGED <<file, aside, misread>>
      BY <1>3, <1>4, <3>1, <3>3, ConfigBounds DEF SavedConfigSurvives, AfterRecovery, Valid
    <3>4. CASE /\ backup # NoFile /\ file = NoFile /\ file' = backup /\ backup' = NoFile
               /\ UNCHANGED <<aside, misread>>
      BY <1>3, <1>4, <3>1, <3>4, ConfigBounds DEF SavedConfigSurvives, AfterRecovery, Valid
    <3>5. CASE /\ backup # NoFile /\ file # NoFile /\ aside' = file /\ file' = NoFile
               /\ misread' = (IF Valid(file) THEN version ELSE misread) /\ backup' = backup
      <4>1. Valid(file) \/ file = Invalid
        BY <1>4, <3>5, ConfigBounds
      <4>2. ~mistyped => Valid(file) /\ Valid(backup) /\ misread' = version
        <5>1. Valid(backup) \/ backup = Invalid
          BY <1>4, <3>5, ConfigBounds
        <5> QED
          BY <3>1, <3>5, <4>1, <5>1
      <4>3. AfterRecovery' = backup
        BY <3>5, ConfigBounds DEF AfterRecovery, Valid
      <4>4. ~mistyped => ~(stored' > misread')
        BY <1>3, <1>4, <4>2
      <4>5. SavedConfigSurvives'
        BY <1>3, <4>2, <4>3, <4>4 DEF SavedConfigSurvives, Valid
      <4> QED
        BY <1>4, <3>5, <4>5, ConfigBounds
    <3> QED
      BY <1>4, <2>2, <3>2, <3>3, <3>4, <3>5 DEF Recover
  <2>3. CASE Restored(p)
    <3>1. /\ file = NoFile /\ backup # NoFile /\ aside # NoFile /\ (~mistyped => misread = version)
          /\ UNCHANGED misread
      BY <1>0, <2>3 DEF Restored, ReplacementInv, configHistory
    <3>2. ~mistyped => Valid(backup) /\ Valid(aside) /\ ~(stored' > misread')
      <4>1. /\ Valid(backup) \/ backup = Invalid
            /\ Valid(aside) \/ aside = Invalid
        BY <1>4, <3>1, ConfigBounds
      <4>2. ~mistyped => ~(stored' > misread')
        BY <1>3, <1>4, <3>1
      <4> QED
        BY <1>0, <4>1, <4>2 DEF Unbroken
    <3>3. \/ file' = backup /\ backup' = NoFile /\ aside' \in {NoFile, aside}
          \/ file' = aside /\ aside' = NoFile /\ backup' = backup
          \/ UNCHANGED <<file, aside, backup>>
      BY <2>3 DEF Restored
    <3>4. ~mistyped => Valid(AfterRecovery')
      BY <3>1, <3>2, <3>3, ConfigBounds DEF AfterRecovery, Valid
    <3>5. SavedConfigSurvives'
      BY <1>3, <3>2, <3>4 DEF SavedConfigSurvives, Valid
    <3> QED
      BY <1>4, <3>3, <3>5, ConfigBounds
  <2> QED
    BY <2>1, <2>2, <2>3
<1>6. ConfigTypeOK'
  <2>1. misread' \in 0..MaxVersion
    BY <1>0, <1>3 DEF ConfigTypeOK
  <2> QED
    BY <1>0, <1>2, <1>3, <1>5, <2>1 DEF ConfigTypeOK, Steps, AtWork
<1>7. Unbroken'
  <2>1. NoFile # Invalid
    BY ConfigBounds
  <2> QED
    BY <1>0, <1>3, <1>5, <2>1 DEF Unbroken
<1>8. ReplacementInv'
  <2>1. step'[p] = "restore" =>
          /\ file' = NoFile /\ backup' # NoFile /\ aside' # NoFile
          /\ ~mistyped' => misread' = version'
    <3>1. SUFFICES ASSUME next = "restore"
                   PROVE  /\ file' = NoFile /\ backup' # NoFile /\ aside' # NoFile
                          /\ ~mistyped' => misread' = version'
      BY <1>2
    <3>2. Valid(file) \/ file = Invalid
      BY <1>1, <1>4, <3>1, ConfigBounds
    <3> QED
      BY <1>0, <1>1, <1>3, <3>1, <3>2 DEF Unbroken
  <2>2. stored' <= version' /\ misread' <= version'
    BY <1>3, <1>4
  <2> QED
    BY <1>1, <1>2, <2>1, <2>2, OnlyOneReplaces
<1> QED
  BY <1>2, <1>5, <1>6, <1>7, <1>8 DEF ConfigInv

\* A process that has the lock, or takes it, does its work alone.
LEMMA WorkerGoes ==
  ASSUME ConfigInv, NEW p \in Process, NEW next \in Steps, GoOn(p, next),
         dirLock = p \/ dirLock = Nobody,
         dirLock' = IF next \in AtWork THEN p ELSE Nobody
  PROVE  /\ step' \in [Process -> Steps] /\ dirLock' \in Process \cup {Nobody}
         /\ step'[p] = next /\ LockOrders'
         /\ \A q \in Process \ {p} : step'[q] \notin AtWork
BY ProcessGoes

\* The steps that leave the files alone.
LEMMA FilesRest ==
  ASSUME ConfigInv, NEW p \in Process, Load(p) \/ Check(p) \/ Persist(p) \/ Create(p)
  PROVE  ConfigInv'
<1>0. /\ ConfigTypeOK /\ LockOrders /\ ReplacementInv /\ Unbroken /\ SavedConfigSurvives
      /\ MaxVersion \in Nat
  BY ConfigBounds DEF ConfigInv
<1>1. PICK next \in {"running", "out", "stage"} :
        /\ GoOn(p, next) /\ (dirLock = p \/ dirLock = Nobody)
        /\ dirLock' = IF next = "stage" THEN p ELSE Nobody
        /\ IF next = "stage" THEN version < MaxVersion /\ version' = version + 1
                             ELSE version' = version
  <2>1. CASE Load(p) \/ Check(p)
    <3>1. dirLock = p
      BY <2>1, StepIsUnder DEF Load, Check, AtWork
    <3> QED
      BY <2>1, <3>1 DEF Load, Check, Ends
  <2>2. CASE Persist(p)
    BY <2>2 DEF Persist
  <2>3. CASE Create(p)
    <3>1. dirLock = p
      BY <2>3, StepIsUnder DEF Create, AtWork
    <3> QED
      BY <2>3, <3>1 DEF Create, Ends
  <2> QED
    BY <2>1, <2>2, <2>3
<1>2. UNCHANGED <<file, backup, staged, aside, stored, misread, mistyped>>
  BY DEF Load, Check, Persist, Create, configFiles, configHistory
<1>3. /\ step' \in [Process -> Steps] /\ dirLock' \in Process \cup {Nobody}
      /\ step'[p] = next /\ LockOrders'
      /\ \A q \in Process \ {p} : step'[q] \notin AtWork
  <2>1. next \in Steps /\ (next \in AtWork <=> next = "stage")
    BY DEF Steps, AtWork
  <2> QED
    BY <1>1, <2>1, WorkerGoes
<1>4. /\ version' \in 0..MaxVersion /\ stored <= version' /\ misread <= version'
      /\ next = "stage" => version' >= 1
  <2>1. CASE next = "stage"
    BY <1>0, <1>1, <2>1, VersionBounds
  <2>2. CASE next # "stage"
    <3>1. version' = version
      BY <1>1, <2>2
    <3> QED
      BY <1>0, <2>2, <3>1, VersionBounds
  <2> QED
    BY <2>1, <2>2
<1>5. ConfigTypeOK'
  BY <1>0, <1>2, <1>3, <1>4 DEF ConfigTypeOK, Steps, AtWork
<1>6. ReplacementInv'
  BY <1>2, <1>3, <1>4, OnlyOneReplaces
<1>7. Unbroken' /\ SavedConfigSurvives'
  BY <1>0, <1>2, <1>3 DEF Unbroken, SavedConfigSurvives, AfterRecovery, AtWork
<1> QED
  BY <1>3, <1>5, <1>6, <1>7 DEF ConfigInv

-----------------------------------------------------------------------------
(* The replacement of the file, step by step. *)

\* What is true of the files when the process that replaces them goes on to its next step.
Reaches(p, next) ==
  /\ GoOn(p, next) /\ next # "restore"
  /\ dirLock' = IF next \in AtWork THEN p ELSE Nobody
  /\ {file', backup'} \subseteq Invalid..MaxVersion
  /\ UNCHANGED <<aside, misread>>
  /\ staged' \in 0..MaxVersion /\ stored' \in 0..version
  /\ next \in {"back up", "publish"} => staged' = version
  /\ next = "publish" => file' = NoFile
  /\ next = "clean" => file' = version
  /\ ~mistyped => file' # Invalid /\ backup' # Invalid
  /\ SavedConfigSurvives'

LEMMA ReachingKeeps ==
  ASSUME ConfigInv, NEW p \in Process, NEW next \in Steps, Reaches(p, next), dirLock = p,
         version >= 1, UNCHANGED <<version, mistyped>>
  PROVE  ConfigInv'
<1>0. ConfigTypeOK /\ MaxVersion \in Nat
  BY ConfigBounds DEF ConfigInv
<1>1. /\ step' \in [Process -> Steps] /\ dirLock' \in Process \cup {Nobody}
      /\ step'[p] = next /\ LockOrders'
      /\ \A q \in Process \ {p} : step'[q] \notin AtWork
  BY WorkerGoes DEF Reaches
<1>2. /\ version \in 0..MaxVersion /\ stored' \in 0..MaxVersion /\ stored' <= version'
      /\ misread' <= version'
  <2>1. stored' \in 0..version /\ misread' = misread
    BY DEF Reaches
  <2> QED
    BY <1>0, <2>1, VersionBounds
<1>3. ConfigTypeOK'
  BY <1>0, <1>1, <1>2 DEF Reaches, ConfigTypeOK, Steps, AtWork
<1>4. ReplacementInv'
  BY <1>1, <1>2, OnlyOneReplaces DEF Reaches
<1>5. Unbroken' /\ SavedConfigSurvives'
  BY DEF Reaches, ConfigInv, Unbroken
<1> QED
  BY <1>1, <1>3, <1>4, <1>5 DEF ConfigInv

LEMMA VersionsAreValid ==
  ASSUME ConfigInv, version >= 1
  PROVE  version \in 0..MaxVersion /\ Valid(version) /\ stored \in 0..version
<1>1. version \in Int /\ MaxVersion \in Nat
  BY VersionBounds, ConfigBounds
<1>2. Valid(version)
  BY <1>1 DEF Valid, NoFile
<1>3. version \in 0..MaxVersion
  BY <1>1, VersionBounds
<1>4. stored \in 0..version
  BY <1>1, VersionBounds
<1> QED
  BY <1>2, <1>3, <1>4

\* A valid file that is new enough is found; and so is what was, if nothing is lost.
LEMMA NewestIsFound ==
  ASSUME Valid(file'), file' >= stored' PROVE SavedConfigSurvives'
BY DEF SavedConfigSurvives, AfterRecovery, Valid

LEMMA SameIsFound ==
  ASSUME SavedConfigSurvives, ~mistyped => AfterRecovery' = AfterRecovery,
         UNCHANGED <<stored, misread, mistyped>>
  PROVE  SavedConfigSurvives'
BY DEF SavedConfigSurvives, Valid

\* What is true when a process begins a step of a replacement.
LEMMA Replacing ==
  ASSUME ConfigInv, NEW p \in Process, step[p] \in {"stage", "back up", "publish", "clean"}
  PROVE  /\ dirLock = p /\ version \in 0..MaxVersion /\ version >= 1 /\ Valid(version)
         /\ file \in Invalid..MaxVersion /\ backup \in Invalid..MaxVersion
         /\ staged \in 0..MaxVersion /\ stored \in 0..version
         /\ step[p] \in {"back up", "publish"} => staged = version
         /\ step[p] = "publish" => file = NoFile
         /\ step[p] = "clean" => file = version
         /\ ~mistyped => file # Invalid /\ backup # Invalid
         /\ SavedConfigSurvives
<1>1. ConfigTypeOK /\ ReplacementInv /\ Unbroken /\ SavedConfigSurvives /\ MaxVersion \in Nat
  BY ConfigBounds DEF ConfigInv
<1>2. dirLock = p
  BY StepIsUnder DEF AtWork
<1>3. /\ version >= 1
      /\ step[p] \in {"back up", "publish"} => staged = version
      /\ step[p] = "publish" => file = NoFile
      /\ step[p] = "clean" => file = version
  BY <1>1 DEF ReplacementInv
<1>4. version \in 0..MaxVersion /\ Valid(version) /\ stored \in 0..version
  BY <1>3, VersionsAreValid
<1>5. ~mistyped => file # Invalid /\ backup # Invalid
  BY <1>1 DEF Unbroken
<1> QED
  BY <1>1, <1>2, <1>3, <1>4, <1>5, VersionBounds

\* Where a process goes in a replacement.
LEMMA ReplacementSteps ==
  ASSUME NEW p \in Process
  PROVE  /\ Out(p) \in Steps \ AtWork /\ Out(p) # "restore"
         /\ {"back up", "publish", "clean"} \subseteq AtWork /\ AtWork \subseteq Steps
         /\ Out(p) \notin {"back up", "publish", "clean"}
BY DEF Out, Steps, AtWork

LEMMA StageConfigKeeps ==
  ASSUME ConfigInv, NEW p \in Process, StageConfig(p) PROVE ConfigInv'
<1>1. /\ step[p] = "stage" /\ UNCHANGED <<version, mistyped, file, backup, aside, misread>>
      /\ \/ staged' = version /\ GoOn(p, "back up") /\ UNCHANGED <<dirLock, stored>>
         \/ GoOn(p, Out(p)) /\ dirLock' = Nobody /\ UNCHANGED <<stored, staged>>
  BY DEF StageConfig, Gives, Ends
<1>2. SavedConfigSurvives'
  BY <1>1, Replacing, SameIsFound DEF AfterRecovery
<1>3. Reaches(p, "back up") \/ Reaches(p, Out(p))
  BY <1>1, <1>2, Replacing, ReplacementSteps DEF Reaches
<1> QED
  BY <1>1, <1>3, Replacing, ReplacementSteps, ReachingKeeps

LEMMA BackUpKeeps ==
  ASSUME ConfigInv, NEW p \in Process, BackUp(p) PROVE ConfigInv'
<1>1. /\ step[p] = "back up" /\ UNCHANGED <<version, mistyped, aside, misread>>
      /\ \/ /\ file' = staged /\ staged' = NoFile /\ UNCHANGED backup
            /\ GoOn(p, Out(p)) /\ dirLock' = Nobody /\ stored' \in {stored, staged}
         \/ /\ file # NoFile /\ backup' = file /\ file' = NoFile
            /\ GoOn(p, "publish") /\ UNCHANGED <<staged, dirLock, stored>>
         \/ /\ staged' = NoFile /\ UNCHANGED <<file, backup>>
            /\ GoOn(p, Out(p)) /\ dirLock' = Nobody /\ UNCHANGED stored
  BY DEF BackUp, Gives, Saved, Ends
<1>2. /\ version \in 0..MaxVersion /\ Valid(version) /\ file \in Invalid..MaxVersion
      /\ backup \in Invalid..MaxVersion /\ stored \in 0..version /\ staged = version /\ dirLock = p
      /\ ~mistyped => file # Invalid /\ backup # Invalid
      /\ SavedConfigSurvives
  BY <1>1, Replacing
<1>3. CASE /\ file' = staged /\ staged' = NoFile /\ UNCHANGED backup
           /\ GoOn(p, Out(p)) /\ dirLock' = Nobody /\ stored' \in {stored, staged}
  <2>1. /\ {file', backup'} \subseteq Invalid..MaxVersion /\ staged' \in 0..MaxVersion
        /\ stored' \in 0..version /\ file' # Invalid /\ Valid(file') /\ file' >= stored'
    BY <1>2, <1>3, ConfigBounds DEF Valid
  <2>2. SavedConfigSurvives'
    BY <2>1, NewestIsFound
  <2>9. Reaches(p, Out(p))
    BY <1>1, <1>2, <1>3, <2>1, <2>2, ReplacementSteps DEF Reaches
  <2> QED
    BY <1>1, <2>9, Replacing, ReplacementSteps, ReachingKeeps
<1>4. CASE /\ file # NoFile /\ backup' = file /\ file' = NoFile
           /\ GoOn(p, "publish") /\ UNCHANGED <<staged, dirLock, stored>>
  <2>1. /\ {file', backup'} \subseteq Invalid..MaxVersion /\ staged' \in 0..MaxVersion
        /\ stored' \in 0..version
    BY <1>2, <1>4, ConfigBounds
  <2>2. ~mistyped => file' # Invalid /\ backup' # Invalid /\ AfterRecovery' = AfterRecovery
    BY <1>2, <1>4, ConfigBounds DEF AfterRecovery, Valid
  <2>3. SavedConfigSurvives'
    BY <1>1, <1>2, <1>4, <2>2, SameIsFound
  <2>9. Reaches(p, "publish")
    BY <1>1, <1>2, <1>4, <2>1, <2>2, <2>3, ReplacementSteps DEF Reaches
  <2> QED
    BY <1>1, <2>9, Replacing, ReplacementSteps, ReachingKeeps
<1>5. CASE /\ staged' = NoFile /\ UNCHANGED <<file, backup>>
           /\ GoOn(p, Out(p)) /\ dirLock' = Nobody /\ UNCHANGED stored
  <2>1. staged' \in 0..MaxVersion
    BY <1>5, ConfigBounds
  <2>2. SavedConfigSurvives'
    BY <1>1, <1>2, <1>5, SameIsFound DEF AfterRecovery
  <2>9. Reaches(p, Out(p))
    BY <1>1, <1>2, <1>5, <2>1, <2>2, ReplacementSteps DEF Reaches
  <2> QED
    BY <1>1, <2>9, Replacing, ReplacementSteps, ReachingKeeps
<1> QED
  BY <1>1, <1>3, <1>4, <1>5

LEMMA PublishConfigKeeps ==
  ASSUME ConfigInv, NEW p \in Process, PublishConfig(p) PROVE ConfigInv'
<1>1. /\ step[p] = "publish" /\ UNCHANGED <<version, mistyped, aside, misread>> /\ staged' = NoFile
      /\ \/ /\ file' = staged /\ GoOn(p, "clean") /\ UNCHANGED <<backup, dirLock, stored>>
         \/ /\ (file' = backup /\ backup' = NoFile) \/ UNCHANGED <<file, backup>>
            /\ GoOn(p, Out(p)) /\ dirLock' = Nobody /\ UNCHANGED stored
  BY DEF PublishConfig, Gives, Ends
<1>2. /\ version \in 0..MaxVersion /\ Valid(version) /\ file = NoFile /\ dirLock = p
      /\ backup \in Invalid..MaxVersion /\ stored \in 0..version /\ staged = version
      /\ ~mistyped => backup # Invalid
      /\ SavedConfigSurvives
  BY <1>1, Replacing
<1>3. staged' \in 0..MaxVersion
  BY <1>1, ConfigBounds
<1>4. CASE file' = staged /\ GoOn(p, "clean") /\ UNCHANGED <<backup, dirLock, stored>>
  <2>1. file' \in Invalid..MaxVersion /\ Valid(file') /\ file' # Invalid /\ file' >= stored
    BY <1>2, <1>4, ConfigBounds DEF Valid
  <2>2. SavedConfigSurvives'
    BY <1>4, <2>1, NewestIsFound
  <2>9. Reaches(p, "clean")
    BY <1>1, <1>2, <1>3, <1>4, <2>1, <2>2, ReplacementSteps DEF Reaches
  <2> QED
    BY <1>1, <2>9, Replacing, ReplacementSteps, ReachingKeeps
<1>5. CASE /\ (file' = backup /\ backup' = NoFile) \/ UNCHANGED <<file, backup>>
           /\ GoOn(p, Out(p)) /\ dirLock' = Nobody /\ UNCHANGED stored
  <2>1. {file', backup'} \subseteq Invalid..MaxVersion
    BY <1>2, <1>5, ConfigBounds
  <2>2. ~mistyped => file' # Invalid /\ backup' # Invalid
    BY <1>2, <1>5, ConfigBounds
  <2>3. AfterRecovery' = AfterRecovery
    BY <1>2, <1>5, ConfigBounds DEF AfterRecovery, Valid
  <2>4. SavedConfigSurvives'
    BY <1>1, <1>2, <1>5, <2>3, SameIsFound
  <2>9. Reaches(p, Out(p))
    BY <1>1, <1>2, <1>3, <1>5, <2>1, <2>2, <2>4, ReplacementSteps DEF Reaches
  <2> QED
    BY <1>1, <2>9, Replacing, ReplacementSteps, ReachingKeeps
<1> QED
  BY <1>1, <1>4, <1>5

LEMMA CleanKeeps ==
  ASSUME ConfigInv, NEW p \in Process, Clean(p) PROVE ConfigInv'
<1>1. /\ step[p] = "clean" /\ UNCHANGED <<version, mistyped, file, staged, aside, misread>>
      /\ backup' \in {NoFile, backup}
      /\ GoOn(p, Out(p)) /\ dirLock' = Nobody /\ stored' \in {stored, file}
  BY DEF Clean, Gives, Saved, Ends
<1>2. /\ version \in 0..MaxVersion /\ Valid(version) /\ file = version /\ dirLock = p
      /\ backup \in Invalid..MaxVersion /\ stored \in 0..version /\ staged \in 0..MaxVersion
      /\ ~mistyped => backup # Invalid
  BY <1>1, Replacing
<1>3. /\ {file', backup'} \subseteq Invalid..MaxVersion /\ stored' \in 0..version
      /\ file' # Invalid /\ Valid(file') /\ file' >= stored'
  BY <1>1, <1>2, ConfigBounds DEF Valid
<1>4. ~mistyped => backup' # Invalid
  BY <1>1, <1>2, ConfigBounds
<1>5. SavedConfigSurvives'
  BY <1>3, NewestIsFound
<1>6. Reaches(p, Out(p))
  BY <1>1, <1>2, <1>3, <1>4, <1>5, ReplacementSteps DEF Reaches
<1> QED
  BY <1>1, <1>6, Replacing, ReplacementSteps, ReachingKeeps

-----------------------------------------------------------------------------
LEMMA KillKeeps ==
  ASSUME ConfigInv, NEW p \in Process, Kill(p) PROVE ConfigInv'
<1>1. /\ step \in [Process -> Steps] /\ step' = [step EXCEPT ![p] = "out"]
      /\ UNCHANGED <<file, backup, staged, aside, version, stored, misread, mistyped>>
      /\ dirLock' = IF dirLock = p THEN Nobody ELSE dirLock
  BY DEF ConfigInv, ConfigTypeOK, Kill, GoOn, configFiles, configHistory, Steps, AtWork
<1>2. step' \in [Process -> Steps] /\ \A q \in Process : step'[q] = IF q = p THEN "out" ELSE step[q]
  BY <1>1 DEF Steps
<1>3. ConfigTypeOK'
  BY <1>1, <1>2 DEF ConfigInv, ConfigTypeOK, Steps, AtWork
<1>4. LockOrders'
  BY <1>1, <1>2, ConfigBounds DEF ConfigInv, LockOrders, AtWork
<1>5. ReplacementInv'
  BY <1>1, <1>2 DEF ConfigInv, ReplacementInv
<1>6. Unbroken' /\ SavedConfigSurvives'
  BY <1>1, <1>2 DEF ConfigInv, Unbroken, SavedConfigSurvives, AfterRecovery
<1> QED
  BY <1>3, <1>4, <1>5, <1>6 DEF ConfigInv

\* The user's edit, which no process under the lock can meet.
LEMMA EditKeeps == ASSUME ConfigInv, Edit PROVE ConfigInv'
<1>1. /\ dirLock = Nobody /\ version < MaxVersion /\ version' = version + 1
      /\ UNCHANGED <<backup, staged, aside, step, dirLock, misread>>
      /\ \/ file' = version' /\ stored' = version' /\ UNCHANGED mistyped
         \/ file' = Invalid /\ mistyped' = TRUE /\ UNCHANGED stored
  BY DEF Edit
<1>2. /\ version \in 0..MaxVersion /\ stored \in 0..version /\ stored \in 0..MaxVersion /\ MaxVersion \in Nat
      /\ misread \in 0..MaxVersion /\ misread <= version
  BY ConfigBounds, VersionBounds
<1>3. version' \in 0..MaxVersion /\ version' \in Invalid..MaxVersion /\ Valid(version') /\ version' # Invalid
  BY <1>1, <1>2, ConfigBounds DEF Valid
<1>4. ConfigTypeOK'
  BY <1>1, <1>2, <1>3, ConfigBounds DEF ConfigInv, ConfigTypeOK
<1>5. LockOrders' /\ \A p \in Process : step[p] \notin AtWork
  BY <1>1, ConfigBounds DEF ConfigInv, LockOrders
<1>6. ReplacementInv'
  <2>1. stored' <= version' /\ misread' <= version'
    BY <1>1, <1>2
  <2> QED
    BY <1>1, <1>5, <2>1 DEF ReplacementInv, AtWork
<1>7. Unbroken'
  BY <1>1, <1>3 DEF ConfigInv, Unbroken
<1>8. SavedConfigSurvives'
  <2>1. CASE file' = version' /\ stored' = version'
    BY <1>2, <1>3, <2>1, NewestIsFound
  <2>2. CASE mistyped' = TRUE
    BY <2>2 DEF SavedConfigSurvives
  <2> QED
    BY <1>1, <2>1, <2>2
<1> QED
  BY <1>4, <1>5, <1>6, <1>7, <1>8 DEF ConfigInv

LEMMA ConfigKeeps == ConfigInv /\ [ConfigNext]_configVars => ConfigInv'
<1> SUFFICES ASSUME ConfigInv, [ConfigNext]_configVars PROVE ConfigInv'
  OBVIOUS
<1>1. CASE UNCHANGED configVars
  BY <1>1 DEF configVars, configFiles, configHistory, ConfigInv, ConfigTypeOK, LockOrders, ReplacementInv, Unbroken,
              SavedConfigSurvives, AfterRecovery
<1> QED
  BY <1>1, RecoverKeeps, FilesRest, StageConfigKeeps, BackUpKeeps, PublishConfigKeeps, CleanKeeps,
     KillKeeps, EditKeeps DEF ConfigNext

LEMMA ConfigInvariant == ConfigSpec => []ConfigInv
<1> QED
  BY ConfigBegins, ConfigKeeps, PTL DEF ConfigSpec

\* The files hold contents, and at most one of any number of processes has the lock of
\* their directory.
THEOREM ConfigTypes == ConfigSpec => []ConfigTypeOK
<1>1. ConfigInv => ConfigTypeOK
  BY DEF ConfigInv
<1> QED
  BY <1>1, ConfigInvariant, PTL

\* Wherever a write fails or one of any number of processes is killed, the next command finds
\* a valid configuration that is no older than the newest one reported as saved, unless a
\* recovery could not read a valid file since, or the user has broken it.
THEOREM ConfigSurvives == ConfigSpec => []SavedConfigSurvives
<1>1. ConfigInv => SavedConfigSurvives
  BY DEF ConfigInv
<1> QED
  BY <1>1, ConfigInvariant, PTL

-----------------------------------------------------------------------------
(* Credentials. *)

\* A value that a start or a new session generation makes of field f is the saved one.
Agrees(f, value) == value = saved[f] \/ Overridden(f)

\* What the next start makes of the files.
FilesAgree == \A f \in Field : Agrees(f, Effective(Merged(f)))

\* What the next generation makes of the configuration in memory.
MemoryAgrees == up => \A f \in Field : Agrees(f, Effective(config[f]))

\* The last generation has what was in memory when it was made.
SessionFollows == up /\ update = Quiet => \A f \in Field : session[f] = Effective(config[f])

\* An embedded Core writes all plain values it has in memory; this changes nothing of a
\* field that is not updated, because a value in memory that the embedder did not give is
\* the one in secrets.json.
MemoryIsSaved ==
  up /\ embedded => \A f \in Field : given[f].plain = None => config[f].plain = secrets[f]

CredentialInv ==
  CredentialTypeOK /\ FilesAgree /\ MemoryAgrees /\ SessionFollows /\ MemoryIsSaved

-----------------------------------------------------------------------------
LEMMA SecretBounds == MaxSecret \in Nat /\ 1 \in Plain /\ None \notin Plain /\ Quiet \notin Field
BY SecretAssumption DEF Plain, None, Quiet, Field

\* Both operators on settings return what their types say.
LEMMA SettingTypes ==
  ASSUME CredentialTypeOK
  PROVE  \A f \in Field : /\ Merged(f) \in Setting
                          /\ Effective(Merged(f)) \in {None, Environment} \cup Plain
                          /\ Effective(config[f]) \in {None, Environment} \cup Plain
<1> SUFFICES ASSUME NEW f \in Field
             PROVE  /\ Merged(f) \in Setting
                    /\ Effective(Merged(f)) \in {None, Environment} \cup Plain
                    /\ Effective(config[f]) \in {None, Environment} \cup Plain
  OBVIOUS
<1>1. given[f] \in Setting /\ config[f] \in Setting /\ secrets[f] \in {None} \cup Plain
  BY DEF CredentialTypeOK
<1>2. Merged(f) \in Setting
  BY <1>1 DEF Merged, Setting
<1>3. \A s \in Setting : Effective(s) \in {None, Environment} \cup Plain
  BY DEF Setting, Effective
<1> QED
  BY <1>1, <1>2, <1>3

-----------------------------------------------------------------------------
LEMMA CredentialsBegin == CredentialInit => CredentialInv
<1> SUFFICES ASSUME CredentialInit PROVE CredentialInv
  OBVIOUS
<1>1. /\ embedded \in BOOLEAN /\ up \in BOOLEAN /\ made \in Plain /\ dropped \subseteq Field
      /\ update \in Field \cup {Quiet}
      /\ given \in [Field -> Setting]
      /\ secrets \in [Field -> {None} \cup Plain]
      /\ config \in [Field -> Setting]
      /\ session \in [Field -> {None, Environment} \cup Plain]
  BY SecretBounds DEF CredentialInit, Setting, Closed, Blank
<1>2. \A f \in Field : Effective(Merged(f)) \in {None, Environment} \cup Plain
  BY <1>1 DEF Merged, Setting, Effective
<1>3. saved \in [Field -> {None, Environment} \cup Plain]
  BY <1>2 DEF CredentialInit
<1>4. CredentialTypeOK
  BY <1>1, <1>3 DEF CredentialTypeOK
<1>5. FilesAgree
  BY DEF CredentialInit, FilesAgree, Agrees
<1> QED
  BY <1>4, <1>5 DEF CredentialInv, MemoryAgrees, SessionFollows, MemoryIsSaved, CredentialInit

\* A start makes of the files what the files were to give.
LEMMA StartCoreKeeps == CredentialInv /\ StartCore => CredentialInv'
<1> SUFFICES ASSUME CredentialInv, StartCore PROVE CredentialInv'
  OBVIOUS
<1>1. CredentialTypeOK'
  BY SettingTypes DEF CredentialInv, CredentialTypeOK, StartCore
<1>2. \A f \in Field : config'[f] = Merged(f) /\ session'[f] = Effective(config'[f])
  BY DEF StartCore
<1>3. UNCHANGED <<embedded, given, secrets, update, saved, made, dropped>>
  BY DEF StartCore
<1>4. \A f \in Field : (Merged(f))' = Merged(f) /\ (Overridden(f))' = Overridden(f)
  BY <1>3 DEF Merged, Overridden
<1>5. FilesAgree'
  BY <1>3, <1>4 DEF CredentialInv, FilesAgree, Agrees
<1>6. MemoryAgrees'
  BY <1>2, <1>3, <1>4 DEF CredentialInv, FilesAgree, MemoryAgrees, Agrees
<1>7. SessionFollows'
  BY <1>2 DEF SessionFollows
<1>8. MemoryIsSaved'
  <2> SUFFICES ASSUME NEW f \in Field, given[f].plain = None PROVE Merged(f).plain = secrets[f]
    BY <1>2, <1>3 DEF MemoryIsSaved
  <2>1. given[f] \in Setting
    BY DEF CredentialInv, CredentialTypeOK
  <2> QED
    BY <2>1 DEF Merged, Setting
<1> QED
  BY <1>1, <1>5, <1>6, <1>7, <1>8 DEF CredentialInv

\* A new generation uses what is in memory.
LEMMA UseCredentialsKeeps == CredentialInv /\ UseCredentials => CredentialInv'
<1> SUFFICES ASSUME CredentialInv, UseCredentials PROVE CredentialInv'
  OBVIOUS
<1>1. CredentialTypeOK'
  BY SettingTypes DEF CredentialInv, CredentialTypeOK, UseCredentials
<1>2. UNCHANGED <<embedded, given, secrets, up, config, saved, made, dropped>>
      /\ \A f \in Field : session'[f] = Effective(config'[f])
  BY DEF UseCredentials
<1>3. \A f \in Field : (Merged(f))' = Merged(f) /\ (Overridden(f))' = Overridden(f)
  BY <1>2 DEF Merged, Overridden
<1> QED
  BY <1>1, <1>2, <1>3
     DEF CredentialInv, FilesAgree, MemoryAgrees, Agrees, SessionFollows, MemoryIsSaved

LEMMA EndCoreKeeps == CredentialInv /\ EndCore => CredentialInv'
<1> SUFFICES ASSUME CredentialInv, EndCore PROVE CredentialInv'
  OBVIOUS
<1>1. CredentialTypeOK'
  BY DEF CredentialInv, CredentialTypeOK, EndCore, Closed, Blank, Setting
<1>2. UNCHANGED <<embedded, given, secrets, saved, made, dropped>> /\ ~up'
  BY DEF EndCore
<1>3. \A f \in Field : (Merged(f))' = Merged(f) /\ (Overridden(f))' = Overridden(f)
  BY <1>2 DEF Merged, Overridden
<1> QED
  BY <1>1, <1>2, <1>3
     DEF CredentialInv, FilesAgree, MemoryAgrees, Agrees, SessionFollows, MemoryIsSaved

\* An update of a field writes it, and of the other field only what is there already,
\* what the embedder gave, or the lack of a value where a variable was.
LEMMA SaveCredentialsKeeps ==
  ASSUME CredentialInv, NEW f \in Field, SaveCredentials(f)
  PROVE  CredentialInv'
<1>1. PICK value \in {None, made + 1} :
        /\ value = None \/ made < MaxSecret
        /\ made' = IF value = None THEN made ELSE value
        /\ WriteCredentials(f, value)
        /\ saved' = [saved EXCEPT ![f] = value]
        /\ config' = Replacement(f, value)
  BY DEF SaveCredentials
<1>2. /\ up /\ UNCHANGED <<embedded, up, session>> /\ update' = f
      /\ dropped' = IF embedded THEN dropped
                    ELSE (dropped \cup {g \in Field \ {f} :
                                      config[g].env /\ config[g].plain = None})
                         \ {f}
  BY DEF SaveCredentials
<1>3. /\ given \in [Field -> Setting] /\ config \in [Field -> Setting]
      /\ secrets \in [Field -> {None} \cup Plain]
      /\ saved \in [Field -> {None, Environment} \cup Plain]
      /\ made \in Plain /\ dropped \subseteq Field /\ embedded \in BOOLEAN
  BY DEF CredentialInv, CredentialTypeOK
<1>4. value \in {None} \cup Plain /\ made' \in Plain
  BY <1>1, <1>3, SecretBounds DEF Plain
<1>5. /\ config' \in [Field -> Setting]
      /\ config'[f] = [plain |-> value, env |-> FALSE]
      /\ \A g \in Field \ {f} : config'[g] = config[g]
  BY <1>1, <1>3, <1>4 DEF Replacement, Setting
<1>6. /\ saved' \in [Field -> {None, Environment} \cup Plain]
      /\ saved'[f] = value
      /\ \A g \in Field \ {f} : saved'[g] = saved[g]
  BY <1>1, <1>3, <1>4
<1>7. \A g \in Field : Replacement(f, value)[g].plain = config'[g].plain
  BY <1>1
<1>8. /\ embedded  => /\ given' = given
                      /\ secrets' = [g \in Field |-> config'[g].plain]
      /\ ~embedded => /\ secrets' = secrets
                      /\ given' = [g \in Field |-> [plain |-> config'[g].plain, env |-> FALSE]]
  BY <1>1, <1>7 DEF WriteCredentials
<1>9. CredentialTypeOK'
  <2>1. given' \in [Field -> Setting] /\ secrets' \in [Field -> {None} \cup Plain]
    <3>1. \A g \in Field : /\ config'[g].plain \in {None} \cup Plain
                            /\ [plain |-> config'[g].plain, env |-> FALSE] \in Setting
      BY <1>5 DEF Setting
    <3>2. CASE embedded
      BY <3>1, <3>2, <1>3, <1>8
    <3>3. CASE ~embedded
      BY <3>1, <3>3, <1>3, <1>8
    <3> QED
      BY <3>2, <3>3
  <2>2. dropped' \subseteq Field
    BY <1>2, <1>3
  <2> QED
    BY <2>1, <2>2, <1>2, <1>4, <1>5, <1>6 DEF CredentialInv, CredentialTypeOK
<1>10. ASSUME NEW g \in Field
       PROVE  Agrees(g, Effective(config[g]))
  BY <1>2 DEF CredentialInv, MemoryAgrees
\* What is in memory: the updated field is saved, and the other is overridden as before.
<1>11. MemoryAgrees'
  <2> SUFFICES ASSUME NEW g \in Field PROVE Agrees(g, Effective(config[g]))'
    BY DEF MemoryAgrees
  <2>1. CASE g = f
    BY <2>1, <1>5, <1>6 DEF Agrees, Effective
  <2>2. CASE g # f
    <3>1. Overridden(g) => Overridden(g)'
      BY <2>2, <1>2, <1>6, <1>8 DEF Overridden
    <3> QED
      BY <2>2, <3>1, <1>5, <1>6, <1>10 DEF Agrees
  <2> QED
    BY <2>1, <2>2
<1>12. FilesAgree'
  <2> SUFFICES ASSUME NEW g \in Field PROVE Agrees(g, Effective(Merged(g)))'
    BY DEF FilesAgree
  <2> DEFINE now == Effective(config[g])'
  <2>1. Agrees(g, Effective(config[g]))'
    BY <1>11, <1>2 DEF MemoryAgrees
  <2>2. config'[g] \in Setting /\ given[g] \in Setting /\ config[g] \in Setting
    BY <1>3, <1>5
  <2>3. CASE embedded
    <3>1. CASE given[g].plain # None
      BY <2>3, <3>1, <1>2, <1>8 DEF Agrees, Overridden
    <3>2. CASE given[g].plain = None /\ g = f
      <4>1. Effective(Merged(g))' = Effective([plain |-> value, env |-> given[g].env])
        BY <2>2, <2>3, <3>2, <1>5, <1>8 DEF Merged, Setting, Effective
      <4> QED
        BY <4>1, <2>3, <3>2, <1>2, <1>6, <1>8 DEF Effective, Agrees, Overridden
    <3>3. CASE given[g].plain = None /\ g # f
      <4>1. secrets'[g] = secrets[g]
        BY <2>3, <3>3, <1>2, <1>5, <1>8 DEF CredentialInv, MemoryIsSaved
      <4>2. (Merged(g))' = Merged(g)
        BY <2>3, <4>1, <1>8 DEF Merged
      <4>3. Overridden(g) => Overridden(g)'
        BY <3>3, <1>2, <1>6, <1>8 DEF Overridden
      <4> QED
        BY <4>2, <4>3, <3>3, <1>6 DEF CredentialInv, FilesAgree, Agrees
    <3> QED
      BY <3>1, <3>2, <3>3
  <2>4. CASE ~embedded
    <3>1. given'[g] = [plain |-> config'[g].plain, env |-> FALSE] /\ secrets'[g] = secrets[g]
      BY <2>4, <1>8
    <3>2. CASE g # f /\ config[g].env /\ config[g].plain = None
      <4>1. g \in dropped'
        BY <2>4, <3>2, <1>2
      <4> QED
        BY <4>1 DEF Agrees, Overridden
    <3>3. CASE ~(g # f /\ config[g].env /\ config[g].plain = None)
      <4>1. Effective(config[g])' = config'[g].plain
        BY <3>3, <1>5, <2>2 DEF Effective, Setting
      <4>2. CASE config'[g].plain # None
        <5>1. Effective(Merged(g))' = config'[g].plain
          BY <3>1, <4>2 DEF Merged, Effective
        <5> QED
          BY <5>1, <4>1, <2>1
      <4>3. CASE config'[g].plain = None
        <5>1. Effective(Merged(g))' = secrets[g]
          BY <3>1, <4>3 DEF Merged, Effective
        <5>2. CASE secrets[g] = None
          BY <5>1, <5>2, <4>1, <4>3, <2>1
        <5>3. CASE secrets[g] # None
          BY <5>3, <4>1, <4>3, <2>1, <2>4, <3>1, <1>2 DEF Agrees, Overridden
        <5> QED
          BY <5>2, <5>3
      <4> QED
        BY <4>2, <4>3
    <3> QED
      BY <3>2, <3>3
  <2> QED
    BY <2>3, <2>4, <1>3
<1>13. SessionFollows'
  BY <1>2, SecretBounds DEF SessionFollows
<1>14. MemoryIsSaved'
  BY <1>2, <1>8 DEF MemoryIsSaved
<1> QED
  BY <1>9, <1>11, <1>12, <1>13, <1>14 DEF CredentialInv

-----------------------------------------------------------------------------
LEMMA CredentialsKeep == CredentialInv /\ [CredentialNext]_credentialVars => CredentialInv'
<1> SUFFICES ASSUME CredentialInv, [CredentialNext]_credentialVars PROVE CredentialInv'
  OBVIOUS
<1>1. CASE UNCHANGED credentialVars
  <2>1. \A f \in Field : (Merged(f))' = Merged(f) /\ (Overridden(f))' = Overridden(f)
    BY <1>1 DEF Merged, Overridden, credentialVars
  <2> QED
    BY <1>1, <2>1 DEF CredentialInv, CredentialTypeOK, FilesAgree, MemoryAgrees, Agrees,
                      SessionFollows, MemoryIsSaved, credentialVars
<1> QED
  BY <1>1, StartCoreKeeps, UseCredentialsKeeps, EndCoreKeeps, SaveCredentialsKeeps
     DEF CredentialNext

\* Files, memory and sessions keep their types.
THEOREM CredentialTypes == CredentialSpec => []CredentialTypeOK
<1>1. CredentialInv => CredentialTypeOK
  BY DEF CredentialInv
<1> QED
  BY <1>1, CredentialsBegin, CredentialsKeep, PTL DEF CredentialSpec

\* For any number of updates and restarts, of an executable's Core and an embedded one, a
\* session uses the credentials that update_profile_credentials() saved last, but for the
\* cases of Overridden.
THEOREM CredentialsAreRestored == CredentialSpec => []SavedIsRestored
<1>1. CredentialInv => SavedIsRestored
  BY DEF CredentialInv, MemoryAgrees, SessionFollows, Agrees, SavedIsRestored
<1> QED
  BY <1>1, CredentialsBegin, CredentialsKeep, PTL DEF CredentialSpec
=============================================================================

------------------------------ MODULE CoreRuntime ------------------------------
(***************************************************************************)
(* The life of Cores on one storage root: CoreBuilder::build() and         *)
(* CoreRuntime::shutdown() of runtime.rs, StorageService::open().  A Core  *)
(* opens its services one after the other, and several of them leave tasks *)
(* running in the background; it stops them in another order and waits for *)
(* each until a deadline.  The instance lock is to keep two Cores from     *)
(* working on the same files.                                              *)
(***************************************************************************)
EXTENDS Naturals, FiniteSets, SequencesExt

CONSTANT Instance    \* the Cores, each opened once

VARIABLES
  stage,      \* what build() or shutdown() of each Core does next
  alive,      \* the background parts of each Core that run
  halted,     \* the Cores whose shutdown token is cancelled
  told,       \* the Cores whose image writer was told to stop
  lock,       \* the Core that has .fvcore.lock
  late,       \* the Cores that run what their shutdown() has waited for
  orphaned,   \* the Cores with threads whose requests and calls have all been dropped
  abandoned   \* history: the Cores that gave up without waiting for their parts

runtimeVars == <<stage, alive, halted, told, lock, late, orphaned, abandoned>>

NoCore == "no_core"

ASSUME RuntimeAssumption == NoCore \notin Instance

\* What runs of a Core: its tasks, the requests of open connections, the calls that the
\* application makes through a CoreHandle, and the blocking threads of both, in which the
\* library changes galleries and the image cache is cleaned.
Part == {"writer", "downloads", "archives", "actor", "control", "requests", "calls", "threads"}
Callers == {"requests", "calls"}

\* The stages of build(), each named for what it opens.
Building == <<"storage", "profiles", "images", "downloads", "archives", "galleries", "actor",
              "control", "address", "up">>
Failed == "failed"

\* The stages of shutdown(), each named for what it waits for; the faulty one gives
\* the storage up before the image writer has drained.
FaultyStopping == <<"stop_control", "stop_actor", "stop_archives", "stop_downloads",
                    "stop_storage", "stop_images", "gone">>
Stopping == <<"stop_control", "stop_actor", "stop_archives", "stop_downloads", "stop_images",
              "stop_storage", "gone">>

StoppedPart == [s \in {"stop_control", "stop_actor", "stop_archives", "stop_downloads",
                       "stop_images"} |->
                  CASE s = "stop_control"   -> "control"
                    [] s = "stop_actor"     -> "actor"
                    [] s = "stop_archives"  -> "archives"
                    [] s = "stop_downloads" -> "downloads"
                    [] s = "stop_images"    -> "writer"]

RuntimeInit ==
  /\ stage = [r \in Instance |-> "storage"]
  /\ alive = [r \in Instance |-> {}]
  /\ halted = {} /\ told = {}
  /\ lock = NoCore
  /\ late = {} /\ orphaned = {} /\ abandoned = {}

-----------------------------------------------------------------------------
After(order, s) == order[1 + CHOOSE i \in 1..(Len(order) - 1) : order[i] = s]

Advance(r, order) == stage' = [stage EXCEPT ![r] = After(order, stage[r])]
Starts(r, parts) == alive' = [alive EXCEPT ![r] = @ \cup parts]

\* The Core is gone, with the storage that it owned; whatever of it runs is left alone.
Leaves(r, last) ==
  /\ stage' = [stage EXCEPT ![r] = last]
  /\ lock' = IF lock = r THEN NoCore ELSE lock
  /\ abandoned' = IF alive'[r] = {} THEN abandoned ELSE abandoned \cup {r}

-----------------------------------------------------------------------------
(* build() *)

\* The domains, the lock and the database; registries refer to the database weakly, so
\* that it goes with the storage.
OpenStorage(r) ==
  /\ stage[r] = "storage"
  /\ \/ lock = NoCore /\ lock' = r /\ Advance(r, Building)
     \/ stage' = [stage EXCEPT ![r] = Failed] /\ UNCHANGED lock
  /\ UNCHANGED <<alive, halted, told, late, orphaned, abandoned>>

\* Secrets and sessions leave nothing behind; the image service has a writer, the
\* download services a worker for each task that goes on, and then there is the actor.
OpenNext(r) ==
  /\ stage[r] \in {"profiles", "images", "downloads", "archives", "galleries", "actor"}
  /\ \E parts \in CASE stage[r] = "images"                    -> {{"writer"}}
                    [] stage[r] \in {"downloads", "archives"} -> {{}, {stage[r]}}
                    [] stage[r] = "actor"                     -> {{"actor"}}
                    [] OTHER                                  -> {{}} :
       Starts(r, parts)
  /\ Advance(r, Building)
  /\ UNCHANGED <<halted, told, lock, late, orphaned, abandoned>>

\* A service cannot be opened: build() returns at once, and cancels nothing.
OpenFails(r) ==
  /\ stage[r] \in {"profiles", "images", "downloads", "archives", "galleries"}
  /\ UNCHANGED alive
  /\ Leaves(r, Failed)
  /\ UNCHANGED <<halted, told, late, orphaned>>

\* The HTTP server starts, if there is to be one.
StartControl(r) ==
  /\ stage[r] = "control" /\ r \notin halted
  /\ \/ Advance(r, Building) /\ Starts(r, {"control"})
     \/ stage' = [stage EXCEPT ![r] = "up"] /\ UNCHANGED alive
  /\ UNCHANGED <<halted, told, lock, late, orphaned, abandoned>>

\* Its address cannot be bound or reported: now the token is cancelled, and the server
\* and the actor are waited for, but no service is.
ControlFails(r) ==
  /\ stage[r] \in {"control", "address"}
  /\ IF r \in halted
     THEN /\ alive[r] \cap {"control", "actor"} = {}
          /\ UNCHANGED alive
          /\ Leaves(r, Failed)
          /\ UNCHANGED halted
     ELSE /\ halted' = halted \cup {r}
          /\ UNCHANGED <<stage, alive, lock, abandoned>>
  /\ UNCHANGED <<told, late, orphaned>>

ReportAddress(r) ==
  /\ stage[r] = "address" /\ r \notin halted
  /\ Advance(r, Building)
  /\ UNCHANGED <<alive, halted, told, lock, late, orphaned, abandoned>>

-----------------------------------------------------------------------------
(* What runs. *)

\* A request comes in.  The server that is told to stop still serves what it has accepted.
BeginRequest(r) ==
  /\ "control" \in alive[r]
  /\ Starts(r, {"requests"})
  /\ UNCHANGED <<stage, halted, told, lock, late, orphaned, abandoned>>

\* The application calls a method of a CoreHandle, which outlives the Core.
BeginCall(r) ==
  /\ stage[r] = "up" \/ stage[r] \in Range(Stopping)
  /\ Starts(r, {"calls"})
  /\ abandoned' = IF stage[r] = "gone" THEN abandoned \cup {r} ELSE abandoned
  /\ UNCHANGED <<stage, halted, told, lock, late, orphaned>>

\* A request or a call starts a download or a thread.  It looks at no shutdown token.
StartWork(r) ==
  /\ alive[r] \cap Callers # {}
  /\ \E p \in {"downloads", "archives", "threads"} :
       /\ Starts(r, {p})
       /\ late' = IF \/ /\ p = "archives"
                        /\ stage[r] \in {"stop_downloads", "stop_images", "stop_storage"}
                     \/ p = "downloads" /\ stage[r] \in {"stop_images", "stop_storage"}
                  THEN late \cup {r} ELSE late
  /\ UNCHANGED <<stage, halted, told, lock, orphaned, abandoned>>

\* Workers end when they are done or cancelled, the actor when it is cancelled, the server
\* when it has also answered its requests, the writer when it was told to stop and has
\* drained its queue.  The last request or call to go while a thread runs was dropped.
EndPart(r, p) ==
  /\ p \in alive[r]
  /\ \/ p \in {"downloads", "archives", "threads"} \cup Callers
     \/ p = "actor" /\ r \in halted
     \/ p = "control" /\ r \in halted /\ "requests" \notin alive[r]
     \/ p = "writer" /\ r \in told
  /\ alive' = [alive EXCEPT ![r] = @ \ {p}]
  /\ orphaned' = CASE p = "threads" -> orphaned \ {r}
                    [] "threads" \in alive[r] /\ alive[r] \cap Callers = {p} -> orphaned \cup {r}
                    [] OTHER -> orphaned
  /\ UNCHANGED <<stage, halted, told, lock, late, abandoned>>

\* CoreHandle::request_shutdown: the token is cancelled and nobody waits.
RequestShutdown(r) ==
  /\ stage[r] = "up" /\ r \notin halted
  /\ halted' = halted \cup {r}
  /\ UNCHANGED <<stage, alive, told, lock, late, orphaned, abandoned>>

-----------------------------------------------------------------------------
(* shutdown() *)

BeginStop(r) ==
  /\ stage[r] = "up"
  /\ halted' = halted \cup {r}
  /\ stage' = [stage EXCEPT ![r] = "stop_control"]
  /\ UNCHANGED <<alive, told, lock, late, orphaned, abandoned>>

\* The image writer is told when its turn comes.
TellWriter(r) ==
  /\ stage[r] = "stop_images" /\ r \notin told
  /\ told' = told \cup {r}
  /\ UNCHANGED <<stage, alive, halted, lock, late, orphaned, abandoned>>

\* A part has ended, or the deadline comes first: the actor and the server are aborted
\* then, the services left as they are.  The connections of the server are tasks of their
\* own, which its end does not stop.
Await(r) ==
  /\ stage[r] \in DOMAIN StoppedPart
  /\ stage[r] = "stop_images" => r \in told
  /\ LET p == StoppedPart[stage[r]]
     IN  \/ /\ p \notin alive[r]
            /\ UNCHANGED <<alive, late>>
         \/ /\ p \in alive[r]
            /\ alive' = [alive EXCEPT ![r] =
                             IF p \in {"control", "actor"} THEN @ \ {p} ELSE @]
            /\ late' = IF p = "actor" THEN late ELSE late \cup {r}
  /\ Advance(r, Stopping)
  /\ UNCHANGED <<halted, told, lock, orphaned, abandoned>>

\* shutdown() gives up at once when the server or the actor has panicked.
Panics(r) ==
  /\ stage[r] \in {"stop_control", "stop_actor"}
  /\ alive' = [alive EXCEPT ![r] = @ \ {StoppedPart[stage[r]]}]
  /\ Leaves(r, "gone")
  /\ UNCHANGED <<halted, told, late, orphaned>>

\* The storage goes last, whether or not the deadline was met, and whoever still calls.
CloseStorage(r) ==
  /\ stage[r] = "stop_storage"
  /\ Advance(r, Stopping)
  /\ lock' = NoCore
  /\ abandoned' = IF r \in late \cup orphaned \/ "calls" \in alive[r]
                  THEN abandoned \cup {r} ELSE abandoned
  /\ UNCHANGED <<alive, halted, told, late, orphaned>>

\* CoreRuntime::drop without shutdown(): the token, and no wait.
DropCore(r) ==
  /\ stage[r] = "up"
  /\ halted' = halted \cup {r}
  /\ UNCHANGED alive
  /\ Leaves(r, "gone")
  /\ UNCHANGED <<told, late, orphaned>>

RuntimeNext ==
  \E r \in Instance :
    \/ OpenStorage(r) \/ OpenNext(r) \/ OpenFails(r) \/ StartControl(r) \/ ControlFails(r)
    \/ ReportAddress(r) \/ BeginRequest(r) \/ BeginCall(r) \/ StartWork(r)
    \/ RequestShutdown(r) \/ BeginStop(r) \/ TellWriter(r) \/ Await(r) \/ Panics(r)
    \/ CloseStorage(r) \/ DropCore(r)
    \/ \E p \in Part : EndPart(r, p)

RuntimeSpec == RuntimeInit /\ [][RuntimeNext]_runtimeVars
-----------------------------------------------------------------------------
(* Properties. *)

RuntimeTypeOK ==
  /\ stage \in [Instance -> Range(Building) \cup Range(Stopping) \cup {Failed}]
  /\ alive \in [Instance -> SUBSET Part]
  /\ {halted, told, late, orphaned, abandoned} \subseteq SUBSET Instance
  /\ lock \in Instance \cup {NoCore}

\* FVCORE.md:92 allows only one Core on a storage root.  Whatever works on its files
\* belongs to the Core that has the lock, unless that Core could not be opened, panicked or
\* was dropped, or its shutdown() was late, or left behind a call, or the thread of a
\* request that was dropped.
WorkersHoldTheLock == \A r \in Instance \ abandoned : alive[r] # {} => lock = r
=============================================================================

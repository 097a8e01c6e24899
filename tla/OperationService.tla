--------------------------- MODULE OperationService ---------------------------
(***************************************************************************)
(* The operation actor of the Core runtime: OperationService of            *)
(* operation_service.rs driven by run_actor of runtime.rs.                 *)
(*                                                                         *)
(* One actor owns the operations.  It handles commands (start, cancel) and *)
(* the messages of the worker tasks it has spawned, one at a time, each    *)
(* handler running to its end.  Workers run concurrently and reach the     *)
(* actor only through a bounded FIFO channel: progress is offered with     *)
(* try_send and may be lost, completion is sent with an awaited send.      *)
(*                                                                         *)
(* schedule() is a loop that starts queued operations while a slot is      *)
(* free.  QueueConsistent below holds after every handler, so a slot and a  *)
(* waiting operation coexist only inside a handler that has just freed one *)
(* slot or queued one operation, and the loop body runs at most once.      *)
(***************************************************************************)
EXTENDS EventHub, FiniteSets

CONSTANTS
  Op,                \* operation identifiers
  MaxActive,         \* OperationConfig.max_active
  MaxQueued,         \* OperationConfig.max_queued
  RetainedTerminal,  \* OperationConfig.retained_terminal
  ChannelCapacity,   \* capacity of the message channel, command_capacity
  MaxReports,        \* bound: progress messages one worker gets through
  MaxTaskEvents,     \* bound: task snapshots the download services send
  WorkersMayPanic    \* whether a worker task may panic

ASSUME OperationAssumption ==
  /\ MaxActive \in Nat \ {0}
  /\ MaxQueued \in Nat
  /\ RetainedTerminal \in Nat \ {0}
  /\ ChannelCapacity \in Nat \ {0}
  /\ IsFiniteSet(Op)
  /\ MaxReports \in Nat
  /\ MaxTaskEvents \in Nat
  /\ WorkersMayPanic \in BOOLEAN

VARIABLES
  runtime,    \* RuntimeState as the actor sees it
  state,      \* OperationSnapshot.state; "absent" before start, "evicted" after
  revision,   \* OperationSnapshot.revision
  cancelled,  \* operations whose CancellationToken is cancelled
  queued,     \* OperationService.queued
  terminal,   \* OperationService.terminal
  active,     \* OperationService.active
  worker,     \* the spawned task of each operation
  outcome,    \* the WorkerResult a finished worker is about to send
  reports,    \* progress messages each worker has got through
  taskEvents, \* task snapshots the download services have sent
  messages    \* the message channel

opVars == <<runtime, state, revision, cancelled, queued, terminal, active,
            worker, outcome, reports, taskEvents, messages>>
workerVars == <<worker, outcome, reports>>
vars == <<opVars, hubVars>>

Outcome  == {"Completed", "Failed", "Cancelled"}
Known    == {"Queued", "Running"} \cup Outcome   \* keys of the operations map
WorkerState == {"none", "working", "sending", "done", "panicked"}
OpState  == Known \cup {"absent", "evicted"}
InState(S) == {o \in Op : state[o] \in S}
Running == InState({"Running"})

Init ==
  /\ runtime = "Ready"
  /\ state = [o \in Op |-> "absent"]
  /\ revision = [o \in Op |-> 0]
  /\ cancelled = {}
  /\ queued = <<>>
  /\ terminal = <<>>
  /\ active = 0
  /\ worker = [o \in Op |-> "none"]
  /\ outcome = [o \in Op |-> "Failed"]
  /\ reports = [o \in Op |-> 0]
  /\ taskEvents = 0
  /\ messages = <<>>
  /\ HubInit

-----------------------------------------------------------------------------
(* What the handlers are made of. *)

(* A definition named Faulty... is its namesake with a slip one could make in   *)
(* the code.  Nothing uses it but the check that a property notices the slip.  *)

\* One slot too many.
FaultyPromoted(q, a) == IF a <= MaxActive THEN First(q) ELSE {}

\* One slot too few.
FaultyPromotedLate(q, a) == IF a + 1 < MaxActive THEN First(q) ELSE {}

\* schedule(): the operation that gets the free slot, if there are both.
Promoted(q, a) == IF a < MaxActive THEN First(q) ELSE {}

\* retain_terminal(): the operation that falls out of the retained ones.
Expired(t) == IF Len(t) > RetainedTerminal THEN {Head(t)} ELSE {}

\* A queue after the elements of S, its head if any, have been popped.
Popped(seq, S) == IF S = {} THEN seq ELSE Tail(seq)

Event(o, st, rev) ==
  [subject |-> "Operation", op |-> o, state |-> st, revision |-> rev]

\* transition_running, the count, the event and the spawn for the promoted
\* operation; before is what the handler has done to it and published so far.
Schedule(q, a, stateBefore, revisionBefore, eventsBefore) ==
  LET started == Promoted(q, a)
  IN  /\ queued' = Popped(q, started)
      /\ active' = a + Cardinality(started)
      /\ state' = [o \in Op |-> IF o \in started THEN "Running" ELSE stateBefore[o]]
      /\ revision' = [o \in Op |-> IF o \in started THEN revisionBefore[o] + 1
                                                    ELSE revisionBefore[o]]
      /\ worker' = [o \in Op |-> IF o \in started THEN "working" ELSE worker[o]]
      /\ Publish(IF started = {} THEN eventsBefore
                 ELSE Append(eventsBefore,
                             Event(Head(q), "Running", revisionBefore[Head(q)] + 1)))

\* transition_terminal, its event, retain_terminal and schedule, as cancel and
\* complete run them for operation o with result r.
Conclude(o, r, q, a) ==
  LET kept    == Append(terminal, o)
      expired == Expired(kept)
  IN  /\ terminal' = Popped(kept, expired)
      /\ Schedule(q, a,
                  [x \in Op |-> CASE x \in expired -> "evicted"
                                  [] x = o -> r
                                  [] OTHER -> state[x]],
                  [revision EXCEPT ![o] = @ + 1],
                  <<Event(o, r, revision[o] + 1)>>)

-----------------------------------------------------------------------------
(* Faulty variants of the handlers below. *)

\* The new operation is pushed at the front of the queue.
FaultyStart(o) ==
  /\ runtime = "Ready"
  /\ state[o] = "absent"
  /\ ~(active >= MaxActive /\ Len(queued) >= MaxQueued)
  /\ Schedule(<<o>> \o queued, active,
              [state EXCEPT ![o] = "Queued"], [revision EXCEPT ![o] = 1],
              <<Event(o, "Queued", 1)>>)
  /\ UNCHANGED <<runtime, cancelled, terminal, outcome, reports, taskEvents,
                 messages, subscriberVars>>

\* A running operation is settled without waiting for its worker.
FaultyCancelRunning(o) ==
  /\ runtime = "Ready"
  /\ state[o] = "Running"
  /\ cancelled' = cancelled \cup {o}
  /\ Conclude(o, "Cancelled", queued, active - 1)
  /\ UNCHANGED <<runtime, outcome, reports, taskEvents, messages,
                 subscriberVars>>

\* Progress changes the snapshot and is not announced.
FaultyHandleProgress ==
  /\ runtime = "Ready"
  /\ messages # <<>>
  /\ Head(messages).type = "Progress"
  /\ messages' = Tail(messages)
  /\ LET o == Head(messages).op
     IN  revision' = [revision EXCEPT ![o] = IF state[o] = "Running" THEN @ + 1 ELSE @]
  /\ UNCHANGED <<runtime, state, cancelled, queued, terminal, active,
                 workerVars, taskEvents, hubVars>>

\* The channel has no bound.
FaultyChannelOpen == runtime = "Ready"

-----------------------------------------------------------------------------
(* Commands handled by the actor. *)

\* start(): refused when every slot is taken and the queue is full, otherwise
\* registered, announced, queued and scheduled.
Start(o) ==
  /\ runtime = "Ready"
  /\ state[o] = "absent"
  /\ ~(active >= MaxActive /\ Len(queued) >= MaxQueued)
  /\ Schedule(Append(queued, o), active,
              [state EXCEPT ![o] = "Queued"], [revision EXCEPT ![o] = 1],
              <<Event(o, "Queued", 1)>>)
  /\ UNCHANGED <<runtime, cancelled, terminal, outcome, reports, taskEvents,
                 messages, subscriberVars>>

\* cancel() of an operation still in the queue settles it at once.
CancelQueued(o) ==
  /\ runtime = "Ready"
  /\ state[o] = "Queued"
  /\ cancelled' = cancelled \cup {o}
  /\ Conclude(o, "Cancelled", Without(queued, o), active)
  /\ UNCHANGED <<runtime, outcome, reports, taskEvents, messages,
                 subscriberVars>>

\* cancel() of a running operation only asks its worker to stop.
CancelRunning(o) ==
  /\ runtime = "Ready"
  /\ state[o] = "Running"
  /\ cancelled' = cancelled \cup {o}
  /\ UNCHANGED <<runtime, state, revision, queued, terminal, active, workerVars,
                 taskEvents, messages, hubVars>>

\* The shutdown token wins the actor's select.  The runtime's data is dropped
\* with the messages not yet handled, and every operation's token is a child.
Shutdown ==
  /\ runtime = "Ready"
  /\ runtime' = "Stopped"
  /\ cancelled' = cancelled \cup InState({"Queued", "Running"})
  /\ messages' = <<>>
  /\ UNCHANGED <<state, revision, queued, terminal, active, workerVars,
                 taskEvents, hubVars>>

-----------------------------------------------------------------------------
(* Messages handled by the actor. *)

\* progress(): a report for an operation that is still running.
HandleProgress ==
  /\ runtime = "Ready"
  /\ messages # <<>>
  /\ Head(messages).type = "Progress"
  /\ messages' = Tail(messages)
  /\ LET o == Head(messages).op
     IN  IF state[o] = "Running"
         THEN /\ revision' = [revision EXCEPT ![o] = @ + 1]
              /\ Publish(<<Event(o, "Running", revision[o] + 1)>>)
         ELSE UNCHANGED <<revision, nextSequence, journal, live>>
  /\ UNCHANGED <<runtime, state, cancelled, queued, terminal, active,
                 workerVars, taskEvents, subscriberVars>>

\* complete(): the result of a worker settles its operation and frees a slot.
HandleCompletion ==
  /\ runtime = "Ready"
  /\ messages # <<>>
  /\ Head(messages).type = "Completion"
  /\ messages' = Tail(messages)
  /\ LET o == Head(messages).op
     IN  IF state[o] = "Running"
         THEN Conclude(o, Head(messages).result, queued, active - 1)
         ELSE UNCHANGED <<state, revision, queued, terminal, active, worker,
                          nextSequence, journal, live>>
  /\ UNCHANGED <<runtime, cancelled, outcome, reports, taskEvents,
                 subscriberVars>>

\* archive_event() and image_download_event(): the snapshot is published as it is.
HandleTask ==
  /\ runtime = "Ready"
  /\ messages # <<>>
  /\ Head(messages).type = "Task"
  /\ messages' = Tail(messages)
  /\ Publish(<<[subject |-> "Task"]>>)
  /\ UNCHANGED <<runtime, state, revision, cancelled, queued, terminal, active,
                 workerVars, taskEvents, subscriberVars>>

-----------------------------------------------------------------------------
(* Worker tasks. *)

ChannelOpen == runtime = "Ready" /\ Len(messages) < ChannelCapacity

\* try_send of a progress report; a full channel loses it, which changes nothing.
Report(o) ==
  /\ worker[o] = "working"
  /\ ChannelOpen
  /\ reports[o] < MaxReports
  /\ reports' = [reports EXCEPT ![o] = @ + 1]
  /\ messages' = Append(messages, [type |-> "Progress", op |-> o])
  /\ UNCHANGED <<runtime, state, revision, cancelled, queued, terminal, active,
                 worker, outcome, taskEvents, hubVars>>

\* The fetch succeeds or fails, sees its cancellation, or meets its deadline.
\* A cancelled worker may still have got its result first.
Finish(o) ==
  /\ worker[o] = "working"
  /\ worker' = [worker EXCEPT ![o] = "sending"]
  /\ \E r \in Outcome : outcome' = [outcome EXCEPT ![o] = r]
  /\ UNCHANGED <<runtime, state, revision, cancelled, queued, terminal, active,
                 reports, taskEvents, messages, hubVars>>

\* The awaited send of the completion; once the runtime has stopped it fails.
SendCompletion(o) ==
  /\ worker[o] = "sending"
  /\ worker' = [worker EXCEPT ![o] = "done"]
  /\ \/ /\ ChannelOpen
        /\ messages' = Append(messages, [type |-> "Completion", op |-> o,
                                         result |-> outcome[o]])
     \/ runtime = "Stopped" /\ UNCHANGED messages
  /\ UNCHANGED <<runtime, state, revision, cancelled, queued, terminal, active,
                 outcome, reports, taskEvents, hubVars>>

\* A worker task panics: tokio catches the panic in a handle nobody keeps.
Panic(o) ==
  /\ WorkersMayPanic
  /\ worker[o] = "working"
  /\ worker' = [worker EXCEPT ![o] = "panicked"]
  /\ UNCHANGED <<runtime, state, revision, cancelled, queued, terminal, active,
                 outcome, reports, taskEvents, messages, hubVars>>

\* ArchiveService and ImageDownloadService await their send of a task snapshot.
SendTask ==
  /\ ChannelOpen
  /\ taskEvents < MaxTaskEvents
  /\ taskEvents' = taskEvents + 1
  /\ messages' = Append(messages, [type |-> "Task"])
  /\ UNCHANGED <<runtime, state, revision, cancelled, queued, terminal, active,
                 workerVars, hubVars>>

-----------------------------------------------------------------------------
\* Subscribing takes a reply of the actor; what a subscription still holds can
\* be read after the actor has gone.
Client(s) ==
  /\ \/ runtime = "Ready" /\ Subscribe(s)
     \/ Receive(s)
     \/ Disconnect(s)
  /\ UNCHANGED opVars

Command(o) == Start(o) \/ CancelQueued(o) \/ CancelRunning(o)
HandleMessage == HandleProgress \/ HandleCompletion \/ HandleTask
Work(o) == Report(o) \/ Finish(o) \/ SendCompletion(o) \/ Panic(o)

Next ==
  \/ \E o \in Op : Command(o) \/ Work(o)
  \/ HandleMessage
  \/ SendTask
  \/ Shutdown
  \/ \E s \in Subscriber : Client(s)

Spec == Init /\ [][Next]_vars

(***************************************************************************)
(* A worker ends because its request runs under a deadline.  The channel   *)
(* serves waiting senders in order, so a completion that waits for room    *)
(* gets it (strong fairness).  The actor's select prefers commands, but a  *)
(* client waits for each reply, so commands do not arrive forever without  *)
(* a pause and messages are handled.                                       *)
(***************************************************************************)
Fairness ==
  /\ WF_vars(HandleMessage)
  /\ \A o \in Op : WF_vars(Finish(o)) /\ SF_vars(SendCompletion(o))

FairSpec == Spec /\ Fairness
-----------------------------------------------------------------------------
(* Properties. *)

Message ==
  [type : {"Progress"}, op : Op] \cup [type : {"Task"}]
    \cup [type : {"Completion"}, op : Op, result : Outcome]

\* What the hub is given to publish.
Body ==
  [subject : {"Operation"}, op : Op, state : Known, revision : Nat]
    \cup [subject : {"Task"}]

\* The shape of the actor's data, with the channel inside its capacity.
TypeOK ==
  /\ runtime \in {"Ready", "Stopped"}
  /\ state \in [Op -> OpState]
  /\ revision \in [Op -> Nat]
  /\ cancelled \in SUBSET Op
  /\ queued \in Seq(Op)
  /\ terminal \in Seq(Op)
  /\ active \in Nat
  /\ worker \in [Op -> WorkerState]
  /\ outcome \in [Op -> Outcome]
  /\ reports \in [Op -> 0..MaxReports]
  /\ taskEvents \in 0..MaxTaskEvents
  /\ messages \in Seq(Message)
  /\ Len(messages) <= ChannelCapacity
  /\ HubTypeOK(Body)

\* The completion of an operation waits in the channel at this index.
Completes(i, o) == messages[i].type = "Completion" /\ messages[i].op = o

\* Slot accounting: the count of slots taken that admission and schedule() rely
\* on is the number of running operations and never exceeds the slots.
SlotsCounted ==
  /\ active = Cardinality(Running)
  /\ active <= MaxActive

\* Until the runtime stops, an operation is running exactly as long as it has
\* something that will end it: a live worker or its one completion in the
\* channel, and never two, so no completion is lost and none settles it twice.
RunningIsBacked ==
  runtime = "Ready" =>
    \A o \in Op :
      LET completions == {i \in DOMAIN messages : Completes(i, o)}
          alive == worker[o] \in {"working", "sending"}
      IN  /\ Cardinality(completions) + (IF alive THEN 1 ELSE 0) <= 1
          /\ state[o] = "Running" /\ worker[o] # "panicked"
               <=> alive \/ completions # {}

\* The queue and the operations map agree, the queue stays within its limit, and
\* no operation waits while a slot is free.
QueueConsistent ==
  /\ Distinct(queued)
  /\ Range(queued) = InState({"Queued"})
  /\ Len(queued) <= MaxQueued
  /\ active < MaxActive => queued = <<>>

\* Retention forgets whole operations, oldest settled first: those still in the
\* map and settled are those of the terminal list, each once, within the limit.
RetentionConsistent ==
  /\ Distinct(terminal)
  /\ Range(terminal) = InState(Outcome)
  /\ Len(terminal) <= RetainedTerminal

\* What the actor keeps in several places agrees: the count of slots with the running
\* operations, the queue and the list of the settled ones with the map, all within their
\* limits, however admissions, completions, cancellations and retention take turns.
AccountsAgree == SlotsCounted /\ QueueConsistent /\ RetentionConsistent

\* The indices of the journal events of an operation.
EventsOf(o) ==
  {i \in DOMAIN journal : /\ journal[i].body.subject = "Operation"
                           /\ journal[i].body.op = o}

\* No change of an operation goes unannounced: its journaled events carry
\* consecutive revisions, and the last one is the snapshot a query returns.
JournalFollowsOperations ==
  \A o \in Op : \A i \in EventsOf(o) :
    LET later == {j \in EventsOf(o) : i < j}
    IN  /\ revision[o] = journal[i].body.revision + Cardinality(later)
        /\ later = {} /\ state[o] # "evicted" => journal[i].body.state = state[o]

\* The actor is a first-in first-out server that keeps its slots busy, refuses
\* only when full and settles each operation once.
Fifo == INSTANCE FifoServer WITH
  Job <- Op, Slots <- MaxActive, Room <- MaxQueued,
  waiting <- queued, serving <- Running,
  settled <- InState(Outcome \cup {"evicted"})

ImplementsFifoServer == Fifo!Spec

\* Every accepted operation is settled, unless the runtime stops or a worker
\* panics, which keeps its slot.
AcceptedSettles ==
  \A o \in Op :
    state[o] \in {"Queued", "Running"}
      ~> \/ state[o] \in Outcome \cup {"evicted"}
         \/ runtime = "Stopped"
         \/ \E p \in Op : worker[p] = "panicked"

\* What FVCORE.md:304 says of background tasks: a panic is picked up by a
\* supervisor and shows in the snapshot of the operation.
PanicIsReflected ==
  \A o \in Op : worker[o] = "panicked"
                  ~> state[o] # "Running" \/ runtime = "Stopped"
=============================================================================

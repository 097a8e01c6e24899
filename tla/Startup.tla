-------------------------------- MODULE Startup --------------------------------
(***************************************************************************)
(* The messages of the services while CoreBuilder::build() of runtime.rs   *)
(* opens a Core.  Consuming an Archive and running an image task both send *)
(* snapshots on the bounded message channel.  GalleryService::open         *)
(* consumes what it finds completed, and queued image tasks run already;   *)
(* the actor, which takes the messages, is spawned after that.             *)
(***************************************************************************)
EXTENDS Naturals

CONSTANTS
  Completed,       \* the Archive tasks found completed
  Queued,          \* the image tasks found queued
  MessageLimit,    \* command_capacity, the capacity of the message channel
  MaxReports       \* bound: snapshots of an image task

VARIABLES
  opening,    \* whether the Core is down, build() opens the library, or it is ready
  left,       \* the completed tasks that are not consumed yet
  sending,    \* the consumed ones whose snapshot is not sent yet, at most one
  reports,    \* the snapshots each image task has sent
  messages    \* the messages in the channel

startupVars == <<opening, left, sending, reports, messages>>

StartupInit ==
  /\ opening = "down"
  /\ left = Completed
  /\ sending = {}
  /\ reports = [t \in Queued |-> 0]
  /\ messages = 0

\* build() resumes the queued image tasks, and then opens the library.
Build ==
  /\ opening = "down"
  /\ opening' = "library"
  /\ UNCHANGED <<left, sending, reports, messages>>

\* send() waits for room.
Sent == messages < MessageLimit /\ messages' = messages + 1

\* consume_pending() takes one task after the other.  Whether it could be consumed or not,
\* that is marked; only where it cannot be saved there is no message.
Consume ==
  /\ opening = "library" /\ sending = {}
  /\ \E t \in left : left' = left \ {t} /\ sending' \in {{t}, {}}
  /\ UNCHANGED <<opening, reports, messages>>

PublishConsumed ==
  /\ sending # {}
  /\ Sent
  /\ sending' = {}
  /\ UNCHANGED <<opening, left, reports>>

\* consume_progress() and run() of an image task.
ReportImage(t) ==
  /\ opening # "down" /\ reports[t] < MaxReports
  /\ Sent
  /\ reports' = [reports EXCEPT ![t] = @ + 1]
  /\ UNCHANGED <<opening, left, sending>>

\* The messages are to be taken first.
FaultySpawnActor ==
  /\ opening = "library" /\ left = {} /\ sending = {} /\ messages = 0
  /\ opening' = "ready"
  /\ UNCHANGED <<left, sending, reports, messages>>

\* The library is open: the actor is spawned, and build() waits until it is ready.
SpawnActor ==
  /\ opening = "library" /\ left = {} /\ sending = {}
  /\ opening' = "ready"
  /\ UNCHANGED <<left, sending, reports, messages>>

ReceiveMessage ==
  /\ opening = "ready" /\ messages > 0
  /\ messages' = messages - 1
  /\ UNCHANGED <<opening, left, sending, reports>>

StartupNext ==
  \/ Build \/ Consume \/ PublishConsumed \/ SpawnActor \/ ReceiveMessage
  \/ \E t \in Queued : ReportImage(t)

\* A Core is opened in the end (FVCORE.md:109), or the channel is full for ever: the code opens
\* the library before there is anyone to take the messages, and nothing but too many of them
\* keeps it from opening.
OpeningEndsOrJams ==
  opening = "library" ~> opening = "ready" \/ [](messages = MessageLimit)
=============================================================================

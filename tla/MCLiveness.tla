------------------------------ MODULE MCLiveness ------------------------------
(* What must happen in the end in the parts of a Core, each by itself: a behaviour is one *)
(* of the part in focus, whose fairness is assumed, and the other parts stand still.      *)
EXTENDS Session, ImageService, CoreHandle, Startup

VARIABLE focus   \* the part that moves

livenessVars == <<sessionVars, imageVars, handleVars, startupVars, focus>>

\* Of several beginnings, a part that is not in focus takes one.
LivenessInit ==
  /\ focus \in {"session", "images", "handle", "startup"}
  /\ SessionInit /\ ImageInit /\ HandleInit /\ StartupInit
  /\ focus # "handle" => host = "app"

SessionMoves ==
  /\ focus = "session" /\ TimedNext
  /\ UNCHANGED <<imageVars, handleVars, startupVars, focus>>

ImageMoves ==
  /\ focus = "images" /\ ImageNext
  /\ UNCHANGED <<sessionVars, handleVars, startupVars, focus>>

HandleMoves ==
  /\ focus = "handle" /\ HandleNext
  /\ UNCHANGED <<sessionVars, imageVars, startupVars, focus>>

StartupMoves ==
  /\ focus = "startup" /\ StartupNext
  /\ UNCHANGED <<sessionVars, imageVars, handleVars, focus>>

LivenessNext == SessionMoves \/ ImageMoves \/ HandleMoves \/ StartupMoves

(***************************************************************************)
(* The network is awaited with a timeout.  Permits, the mutex of the rate  *)
(* limit and the bytes of the budget are given in the order in which they  *)
(* were asked for (strong fairness).  The caller takes the response it has *)
(* asked for; nobody has to cancel.                                        *)
(***************************************************************************)
SessionFairness ==
  /\ WF_sessionVars(focus = "session" /\ Awaited /\ Tick)
  /\ \A r \in Exchange :
       /\ SF_sessionVars(focus = "session" /\ (LeaveQueue(r) \/ Pace(r) \/ TakeBytes(r)))
       /\ WF_sessionVars(/\ focus = "session"
                         /\ \/ Wake(r) \/ NoticeCancel(r) \/ Respond(r) \/ Chunk(r)
                            \/ Complete(r) \/ Fail(r) \/ TakeBody(r))

(***************************************************************************)
(* The runtime polls every task that can go on.  A transfer ends: the      *)
(* network has timeouts, and only a jam of the byte budget (see Session)   *)
(* can outlast them.  disk_maintenance is a mutex that serves its waiters  *)
(* in order (strong fairness).  Nobody has to cancel, leave or shut down.  *)
(***************************************************************************)
ImageFairness ==
  /\ \A v \in Viewer :
       WF_imageVars(/\ focus = "images"
                    /\ LookInMemory(v) \/ LookOnDisk(v) \/ Join(v) \/ Receive(v))
  /\ \A i \in Image :
       WF_imageVars(focus = "images" /\ (Arrive(i) \/ Enqueue(i) \/ Post(i) \/ Retire(i)))
  /\ SF_imageVars(focus = "images" /\ (BeginWrite \/ SaveAlias))
  /\ WF_imageVars(focus = "images" /\ (TakeWrite \/ EndWrite \/ ReleaseWrite \/ EndWriter))
  /\ WF_imageVars(focus = "images" /\ EndMaintain)

\* The runtime polls the handlers and the actor.  What a handler asks outside of the actor
\* has a timeout or is a read or write of files.
HandleFairness ==
  /\ \A f \in Frontend :
       WF_handleVars(/\ focus = "handle"
                     /\ \/ AnswerOk(f) \/ TakeInput(f) \/ JudgeOperation(f) \/ EnsureRunning(f)
                        \/ AskState(f) \/ SendCommand(f) \/ AskOutside(f)
                        \/ StartWrite(f) \/ FinishWrite(f) \/ Record(f))
  /\ WF_handleVars(focus = "handle" /\ HandleCommand)
  /\ WF_handleVars(focus = "handle" /\ (LeaveLoop \/ DropChannel))

\* The runtime polls every task that can go on, and the channel serves its senders in order.
StartupFairness ==
  /\ WF_startupVars(focus = "startup" /\ (Consume \/ SpawnActor \/ ReceiveMessage))
  /\ SF_startupVars(focus = "startup" /\ PublishConsumed)

FairParts ==
  /\ LivenessInit
  /\ [][LivenessNext]_livenessVars
  /\ SessionFairness
  /\ ImageFairness
  /\ HandleFairness
  /\ StartupFairness
=============================================================================

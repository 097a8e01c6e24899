------------------------------ MODULE CoreHandle ------------------------------
(***************************************************************************)
(* How front ends reach a Core and how it takes leave of them: the command *)
(* channel between CoreHandle and run_actor() of runtime.rs, the handlers  *)
(* of the control plane and of the WebUI, the Flutter bridge, and          *)
(* CoreRuntime::shutdown() as they see it.  Frontends says what each route *)
(* does; here the steps of several of them interleave with the shutdown.   *)
(*                                                                         *)
(* A Core is hosted by a program, with the control plane, or by an app,    *)
(* with the bridge.  OperationService and the other modules have what the  *)
(* commands do.                                                            *)
(***************************************************************************)
EXTENDS Frontends, FiniteSets

CONSTANTS
  Frontend,       \* those who make requests, one at a time
  MailboxLimit    \* the capacity of the command channel

ASSUME HandleAssumption == MailboxLimit \in Nat \ {0}

VARIABLES
  host,        \* what hosts the Core, "program" or "app"
  owned,       \* whether nobody has taken the CoreRuntime to shut it down
  server,      \* whether the control plane serves, drains or is down
  actor,       \* whether run_actor() is in its loop, has left it, or is gone
  mailbox,     \* the commands in the channel: who sent each, and what it does
  visit,       \* the steps each front end's request has still to make, its answer, and
               \* whether it asks the actor for a change
  applied,     \* history: how often the actor has carried out the change it asks for
  released,    \* whether the lock on the storage is given up
  overdue,     \* whether the control plane was left behind at the deadline
  stray,       \* whether a thread goes on with the write of a handler that was dropped
  unguarded    \* history: who has written to the storage after its lock was given up

handleVars ==
  <<host, owned, server, actor, mailbox, visit, applied, released, overdue, stray, unguarded>>
writeVars == <<stray, unguarded>>
leaveVars == <<host, owned, server, actor, released, overdue>>

NoVisit == [steps |-> <<>>, answer |-> "none", wants |-> FALSE]

\* Only what a request still does matters, so routes of the same steps are one.
RequestsOf ==
  [program |-> {RouteSteps(route) : route \in ControlRoutes \cup WebRoutes},
   app     |-> {RouteSteps(route) : route \in BridgeRoutes}]

\* The change a handler asks the actor for is the last thing it does, and nothing before
\* that ends its request well.
ChangeComesLast(steps) ==
  "change" \in Range(steps) =>
    \A i \in DOMAIN steps :
      /\ steps[i] = "change" <=> i = Len(steps)
      /\ steps[i] \notin {"judge", "state", "subscribe"}

\* About the routes as Frontends lists them; it has no constant.
ASSUME RouteAssumption ==
  \A steps \in RequestsOf.program \cup RequestsOf.app :
    steps \in Seq(STRING) /\ ChangeComesLast(steps)

\* What may be left of a request.
Rests == UNION {Suffixes(r) : r \in RequestsOf.program \cup RequestsOf.app}

Answers == {"none", "pending", "queued", "writing", "streaming", "ok", "refused", "invalid",
            "overloaded", "not ready", "internal", "broken"}

\* The answers that say that nothing was done.
Refusals == {"refused", "invalid", "overloaded", "not ready", "internal"}

HandleInit ==
  /\ host \in {"program", "app"}
  /\ owned = TRUE
  /\ server = IF host = "program" THEN "serves" ELSE "down"
  /\ actor = "runs"
  /\ mailbox = <<>>
  /\ visit = [f \in Frontend |-> NoVisit]
  /\ applied = [f \in Frontend |-> 0]
  /\ released = FALSE /\ overdue = FALSE
  /\ stray = FALSE /\ unguarded = {}

-----------------------------------------------------------------------------
(* A request and its steps. *)

Doing(f, step) ==
  /\ visit[f].answer = "pending"
  /\ visit[f].steps # <<>>
  /\ Head(visit[f].steps) = step

Becomes(f, steps, answer) ==
  visit' = [visit EXCEPT ![f] = [@ EXCEPT !.steps = steps, !.answer = answer]]
AnswerWith(f, answer) == Becomes(f, <<>>, answer)
StepDone(f) == Becomes(f, Tail(visit[f].steps), "pending")

\* A request arrives: at the control plane while it accepts connections, at the bridge
\* whenever the app makes a call.  One that was refused as too much is repeated.
Visiting(f) ==
  /\ visit[f].answer \in {"none", "overloaded"}
  /\ host = "program" => server = "serves"
  /\ \E steps \in RequestsOf[host] :
       visit' = [visit EXCEPT ![f] = [steps |-> steps, answer |-> "pending",
                                      wants |-> "change" \in Range(steps)]]
  /\ UNCHANGED <<leaveVars, mailbox, applied, writeVars>>

\* The handler has done everything.
AnswerOk(f) ==
  /\ visit[f].answer = "pending" /\ visit[f].steps = <<>>
  /\ AnswerWith(f, "ok")
  /\ UNCHANGED <<leaveVars, mailbox, applied, writeVars>>

\* An extractor or the handler looks at the input; the reader at the number of the page.
TakeInput(f) ==
  /\ Doing(f, "input") \/ Doing(f, "within")
  /\ StepDone(f) \/ AnswerWith(f, "invalid")
  /\ UNCHANGED <<leaveVars, mailbox, applied, writeVars>>

\* eh_reader(): the operation is of another page, runs still, or is over.
JudgeOperation(f) ==
  /\ Doing(f, "judge")
  /\ StepDone(f) \/ AnswerWith(f, "invalid") \/ AnswerWith(f, "ok")
  /\ UNCHANGED <<leaveVars, mailbox, applied, writeVars>>

EnsureRunning(f) ==
  /\ Doing(f, "ensure_running")
  /\ IF owned THEN StepDone(f) ELSE AnswerWith(f, "not ready")
  /\ UNCHANGED <<leaveVars, mailbox, applied, writeVars>>

\* readiness(), from the state the actor has published.
AskState(f) ==
  /\ Doing(f, "state")
  /\ AnswerWith(f, IF actor = "runs" THEN "ok" ELSE "not ready")
  /\ UNCHANGED <<leaveVars, mailbox, applied, writeVars>>

\* request(): the command is offered to the channel and never waits for a place.
SendCommand(f) ==
  /\ \E step \in {"read", "change", "subscribe"} : Doing(f, step)
  /\ IF actor = "gone"
     THEN AnswerWith(f, "not ready") /\ UNCHANGED mailbox
     ELSE IF Len(mailbox) = MailboxLimit
          THEN AnswerWith(f, "overloaded") /\ UNCHANGED mailbox
          ELSE /\ Becomes(f, visit[f].steps, "queued")
               /\ mailbox' = Append(mailbox, [from |-> f, does |-> Head(visit[f].steps)])
  /\ UNCHANGED <<leaveVars, applied, writeVars>>

\* A query of a provider, or a read of a service or registry, which may fail.
AskOutside(f) ==
  /\ Doing(f, "query") \/ Doing(f, "ask")
  /\ StepDone(f) \/ AnswerWith(f, "refused")
  /\ UNCHANGED <<leaveVars, mailbox, applied, writeVars>>

WriteBy(who) == unguarded' = IF released THEN unguarded \cup {who} ELSE unguarded

\* A write by a service or registry takes its time: blocking threads and the runtime's file
\* operations do it while the handler waits.  It may fail.
StartWrite(f) ==
  /\ Doing(f, "write")
  /\ Becomes(f, visit[f].steps, "writing")
  /\ UNCHANGED <<leaveVars, mailbox, applied, writeVars>>

FinishWrite(f) ==
  /\ visit[f].answer = "writing"
  /\ StepDone(f) \/ AnswerWith(f, "refused")
  /\ WriteBy("handler")
  /\ UNCHANGED <<leaveVars, mailbox, applied, stray>>

\* The history is written by the handler itself, and a failure only logged.
Record(f) ==
  /\ Doing(f, "record")
  /\ StepDone(f)
  /\ WriteBy("handler")
  /\ UNCHANGED <<leaveVars, mailbox, applied, stray>>

\* The connection breaks: the handler is dropped where it waits.  What it has sent stays in
\* the channel, and a write that has begun goes on.  The bridge drops no call.
HangUp(f) ==
  /\ host = "program"
  /\ visit[f].answer \in {"pending", "queued", "writing", "streaming"}
  /\ AnswerWith(f, "broken")
  /\ stray' = (stray \/ visit[f].answer = "writing")
  /\ UNCHANGED <<leaveVars, mailbox, applied, unguarded>>

\* The thread of such a write does a part of it, and is done or not.
StrayWrite ==
  /\ stray
  /\ stray' \in BOOLEAN
  /\ WriteBy("thread")
  /\ UNCHANGED <<leaveVars, mailbox, visit, applied>>

\* events(), next_event_json(): a lagging stream ends, and the bridge takes one event.
EndStream(f) ==
  /\ visit[f].answer = "streaming"
  /\ AnswerWith(f, "ok")
  /\ UNCHANGED <<leaveVars, mailbox, applied, writeVars>>

RequestStep(f) ==
  \/ Visiting(f) \/ AnswerOk(f) \/ TakeInput(f) \/ JudgeOperation(f) \/ EnsureRunning(f)
  \/ AskState(f) \/ SendCommand(f) \/ AskOutside(f)
  \/ StartWrite(f) \/ FinishWrite(f) \/ Record(f) \/ HangUp(f) \/ EndStream(f)

-----------------------------------------------------------------------------
(* The actor. *)

\* The actor carries a command out, also for a sender who is gone, or finds that it cannot.
Carried(command) ==
  applied' = [applied EXCEPT ![command.from] = IF command.does = "change" THEN @ + 1 ELSE @]

\* reply.send(), which fails unnoticed when nobody waits for it.
Replies(command, fine) ==
  LET f == command.from
  IN  IF visit[f].answer # "queued"
      THEN UNCHANGED visit
      ELSE IF ~fine
           THEN AnswerWith(f, "refused")
           ELSE IF command.does = "subscribe"
                THEN Becomes(f, <<>>, "streaming")
                ELSE StepDone(f)

HandleCommand ==
  /\ actor = "runs" /\ owned
  /\ mailbox # <<>>
  /\ mailbox' = Tail(mailbox)
  /\ \/ Carried(Head(mailbox)) /\ Replies(Head(mailbox), TRUE)
     \/ UNCHANGED applied /\ Replies(Head(mailbox), FALSE)
  /\ UNCHANGED <<leaveVars, writeVars>>

\* The streams end, and those who wait for an answer go on waiting.
FaultyDismissed(f) ==
  CASE visit[f].answer = "streaming" -> [visit[f] EXCEPT !.answer = "ok"]
    [] OTHER                         -> visit[f]

\* Those who wait for an answer of the actor get an error when it is gone, and the streams
\* end, as the event hub goes with it.
Dismissed(f) ==
  CASE visit[f].answer = "queued"    -> [visit[f] EXCEPT !.steps = <<>>, !.answer = "internal"]
    [] visit[f].answer = "streaming" -> [visit[f] EXCEPT !.answer = "ok"]
    [] OTHER                         -> visit[f]

\* The token is looked at before the channel, so what is queued is not carried out.
LeaveLoop ==
  /\ actor = "runs" /\ ~owned
  /\ actor' = "left"
  /\ UNCHANGED <<host, owned, server, mailbox, visit, applied, released, overdue, writeVars>>

\* What is queued is carried out for nobody.
FaultyDropChannel ==
  /\ actor = "left"
  /\ actor' = "gone"
  /\ mailbox' = <<>>
  /\ visit' = [f \in Frontend |-> Dismissed(f)]
  /\ applied' = [f \in Frontend |->
                   applied[f] + Cardinality({i \in DOMAIN mailbox :
                                  mailbox[i] = [from |-> f, does |-> "change"]})]
  /\ UNCHANGED <<host, owned, server, released, overdue, writeVars>>

DropChannel ==
  /\ actor = "left"
  /\ actor' = "gone"
  /\ mailbox' = <<>>
  /\ visit' = [f \in Frontend |-> Dismissed(f)]
  /\ UNCHANGED <<host, owned, server, applied, released, overdue, writeVars>>

-----------------------------------------------------------------------------
(* The shutdown. *)

\* shutdown() takes the Core from its owner and cancels the token, on which the control
\* plane stops to accept and the actor to work.
BeginLeave ==
  /\ owned
  /\ owned' = FALSE
  /\ server' = IF server = "serves" THEN "drains" ELSE server
  /\ UNCHANGED <<host, actor, mailbox, visit, applied, released, overdue, writeVars>>

InHandler(f) == visit[f].answer \in {"pending", "queued", "writing", "streaming"}

FaultyServerDrained ==
  /\ server = "drains"
  /\ server' = "down"
  /\ UNCHANGED <<host, owned, actor, mailbox, visit, applied, released, overdue, writeVars>>

\* axum's graceful shutdown: the control plane is down when every handler has answered.
ServerDrained ==
  /\ server = "drains"
  /\ \A f \in Frontend : ~InHandler(f)
  /\ server' = "down"
  /\ UNCHANGED <<host, owned, actor, mailbox, visit, applied, released, overdue, writeVars>>

\* The deadline passes.  The task that accepts is aborted, those of the connections are not.
MissDrain ==
  /\ server = "drains"
  /\ server' = "down" /\ overdue' = TRUE
  /\ UNCHANGED <<host, owned, actor, mailbox, visit, applied, released, writeVars>>

\* The control plane, the actor and the services are waited for before the lock goes.
ReleaseLock ==
  /\ ~owned /\ server = "down" /\ actor = "gone" /\ ~released
  /\ released' = TRUE
  /\ UNCHANGED <<host, owned, server, actor, mailbox, visit, applied, overdue, writeVars>>

HandleNext ==
  \/ \E f \in Frontend : RequestStep(f)
  \/ StrayWrite \/ HandleCommand \/ LeaveLoop \/ DropChannel
  \/ BeginLeave \/ ServerDrained \/ MissDrain \/ ReleaseLock

HandleSpec == HandleInit /\ [][HandleNext]_handleVars

-----------------------------------------------------------------------------
HandleTypeOK ==
  /\ host \in {"program", "app"} /\ owned \in BOOLEAN
  /\ server \in {"serves", "drains", "down"} /\ actor \in {"runs", "left", "gone"}
  /\ Len(mailbox) <= MailboxLimit
  /\ \A i \in DOMAIN mailbox :
       mailbox[i] \in [from : Frontend, does : {"read", "change", "subscribe"}]
  /\ \A f \in Frontend :
       visit[f].steps \in Rests /\ visit[f].answer \in Answers /\ visit[f].wants \in BOOLEAN
  /\ applied \in [Frontend -> Nat]
  /\ {released, overdue, stray} \subseteq BOOLEAN
  /\ unguarded \subseteq {"handler", "thread"}

\* What a front end is told of a change it asks the actor for is true, whatever was full,
\* closed or dropped on the way: refused is not carried out, done is carried out once, and
\* repeating what was refused as too much carries nothing out twice.
AnswersAreTrue ==
  \A f \in Frontend :
    /\ visit[f].answer \in Refusals => applied[f] = 0
    /\ visit[f].answer = "ok" /\ visit[f].wants => applied[f] = 1
    /\ applied[f] <= 1

\* The storage is not written when its lock is given up, but by the thread of a handler that
\* was dropped, which shutdown() cannot wait for, or by handlers that the deadline has left
\* behind.  (The bridge waits for none of its calls.)
WritesAreGuarded == unguarded \subseteq {"thread"} \/ overdue \/ host = "app"

Unanswered(f) == visit[f].answer \in {"pending", "queued", "writing"}

\* Every request is answered, or its stream begins, also one whose command is in the channel
\* when the actor leaves its loop.
RequestsAreAnswered == \A f \in Frontend : Unanswered(f) ~> ~Unanswered(f)
=============================================================================

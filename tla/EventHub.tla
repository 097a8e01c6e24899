------------------------------- MODULE EventHub -------------------------------
(***************************************************************************)
(* The event hub of the Core runtime: EventHub of operation_service.rs and *)
(* the EventSubscription of operation.rs that reads it.                    *)
(*                                                                         *)
(* Every change of an operation or of a download task is published once,   *)
(* under the next sequence number.  The hub keeps the last Retained events *)
(* in a journal, for subscribers that come back with a cursor, and sends   *)
(* each event on a bounded broadcast channel, for subscribers that are     *)
(* connected.  A subscriber first drains the journal events replayed to it *)
(* and then reads the channel; when either window has moved past it, it is *)
(* told to resynchronise instead of being handed a sequence with a hole.   *)
(***************************************************************************)
EXTENDS Naturals, Queues

CONSTANTS
  Subscriber,  \* clients of subscribe_events
  Retained,    \* EventConfig.retained: length of the journal
  Capacity     \* EventConfig.capacity, rounded up to a power of two by tokio

ASSUME HubAssumption == Retained \in Nat \ {0} /\ Capacity \in Nat \ {0}

VARIABLES
  nextSequence,  \* EventHub.next_sequence
  journal,       \* EventHub.journal, a sequence of [sequence, body]
  live,          \* EventHub.live, the events the broadcast channel still holds
  subscription,  \* the EventSubscription each connected client reads
  cursor         \* the last sequence each client has seen, 0 for none

hubVars == <<nextSequence, journal, live, subscription, cursor>>
subscriberVars == <<subscription, cursor>>

Closed == [open |-> FALSE, replay |-> <<>>, position |-> 0, resync |-> FALSE]

HubInit ==
  /\ nextSequence = 1
  /\ journal = <<>>
  /\ live = <<>>
  /\ subscription = [s \in Subscriber |-> Closed]
  /\ cursor = [s \in Subscriber |-> 0]

-----------------------------------------------------------------------------
(* The hub. *)

\* EventHub::push, once for each of the bodies a handler publishes.
Publish(bodies) ==
  LET numbered == [i \in 1..Len(bodies) |->
                     [sequence |-> nextSequence + i - 1, body |-> bodies[i]]]
  IN  /\ nextSequence' = nextSequence + Len(bodies)
      /\ journal' = Youngest(journal \o numbered, Retained)
      /\ live' = Youngest(live \o numbered, Capacity)

\* The first sequence the journal can still replay.
Earliest == IF journal = <<>> THEN nextSequence ELSE Head(journal).sequence

\* A cursor is taken to be too old one event late, a slip one could make in the
\* code.  Nothing uses the Faulty... definitions but the checks of the properties.
FaultyResyncRequired(c) == c > 0 /\ c + 2 < Earliest

\* EventHub::batch_after: the journal cannot bring this cursor up to date.
ResyncRequired(c) == c > 0 /\ c + 1 < Earliest

\* EventHub::batch_after: the journal events after this cursor.  The journal is
\* numbered without holes, so they are what is left when the others are skipped.
BatchAfter(c) ==
  LET skipped == IF c < Earliest THEN 0 ELSE c - Earliest + 1
  IN  IF ResyncRequired(c) THEN <<>>
                           ELSE SubSeq(journal, skipped + 1, Len(journal))

-----------------------------------------------------------------------------
(* Clients of subscribe_events. *)

\* The actor handles SubscribeEvents: replay and live receiver are taken in
\* the same turn, so no event is published between the two.
Subscribe(s) ==
  /\ ~subscription[s].open
  /\ subscription' =
       [subscription EXCEPT ![s] = [open     |-> TRUE,
                                    replay   |-> BatchAfter(cursor[s]),
                                    position |-> nextSequence,
                                    resync   |-> ResyncRequired(cursor[s])]]
  /\ UNCHANGED <<nextSequence, journal, live, cursor>>

\* The stream ends after a resync item; the client forgets its cursor and
\* queries the snapshots before it subscribes again.
Resynchronise(s) ==
  /\ subscription' = [subscription EXCEPT ![s] = Closed]
  /\ cursor' = [cursor EXCEPT ![s] = 0]

\* EventSubscription::next finds the flag its subscription was created with.
NextResync(s) ==
  /\ subscription[s].open
  /\ subscription[s].resync
  /\ Resynchronise(s)
  /\ UNCHANGED <<nextSequence, journal, live>>

\* EventSubscription::next pops the oldest replayed event.
NextReplayed(s) ==
  /\ subscription[s].open
  /\ ~subscription[s].resync
  /\ subscription[s].replay # <<>>
  /\ cursor' = [cursor EXCEPT ![s] = Head(subscription[s].replay).sequence]
  /\ subscription' = [subscription EXCEPT ![s].replay = Tail(@)]
  /\ UNCHANGED <<nextSequence, journal, live>>

Draining(s) ==
  /\ subscription[s].open
  /\ ~subscription[s].resync
  /\ subscription[s].replay = <<>>
  /\ subscription[s].position < nextSequence

\* EventSubscription::next receives the next live event.
NextLive(s) ==
  /\ Draining(s)
  /\ subscription[s].position >= Head(live).sequence
  /\ LET index == subscription[s].position - Head(live).sequence + 1
     IN  cursor' = [cursor EXCEPT ![s] = live[index].sequence]
  /\ subscription' = [subscription EXCEPT ![s].position = @ + 1]
  /\ UNCHANGED <<nextSequence, journal, live>>

\* EventSubscription::next: RecvError::Lagged becomes a resync item.
NextLagged(s) ==
  /\ Draining(s)
  /\ subscription[s].position < Head(live).sequence
  /\ Resynchronise(s)
  /\ UNCHANGED <<nextSequence, journal, live>>

\* The connection drops; the client reconnects with the cursor it has.
Disconnect(s) ==
  /\ subscription[s].open
  /\ subscription' = [subscription EXCEPT ![s] = Closed]
  /\ UNCHANGED <<nextSequence, journal, live, cursor>>

Receive(s) == NextResync(s) \/ NextReplayed(s) \/ NextLive(s) \/ NextLagged(s)

SubscriberNext(s) == Subscribe(s) \/ Receive(s) \/ Disconnect(s)

\* A step of the hub: somebody publishes, or a client moves.
HubStep(Body) ==
  \/ \E bodies \in Seq(Body) : Publish(bodies) /\ UNCHANGED subscriberVars
  \/ \E s \in Subscriber : SubscriberNext(s)

-----------------------------------------------------------------------------
(* Properties. *)

HubEvent(Body) == [sequence : Nat, body : Body]

Subscription(Body) ==
  [open : BOOLEAN, replay : Seq(HubEvent(Body)), position : Nat, resync : BOOLEAN]

\* The shape of the hub's data, for the bodies a specification publishes.
HubTypeOK(Body) ==
  /\ nextSequence \in Nat \ {0}
  /\ journal \in Seq(HubEvent(Body))
  /\ live \in Seq(HubEvent(Body))
  /\ subscription \in [Subscriber -> Subscription(Body)]
  /\ cursor \in [Subscriber -> Nat]

\* A window numbered without holes that ends just before sequence number n.
EndsBefore(window, n) ==
  /\ Len(window) < n
  /\ \A i \in DOMAIN window : window[i].sequence = n - Len(window) + i - 1

\* Journal, channel and replays are windows of the one numbering, and a client
\* with a cursor has, in its replay and its channel position, exactly the events
\* that come after it.  The strengthening NoSilentGap follows from.
StreamsContiguous ==
  /\ EndsBefore(journal, nextSequence)
  /\ EndsBefore(live, nextSequence)
  /\ nextSequence > 1 => live # <<>>
  /\ \A s \in Subscriber :
       LET sub == subscription[s]
       IN  /\ cursor[s] < nextSequence
           /\ sub.open /\ ~sub.resync =>
                /\ sub.position <= nextSequence
                /\ EndsBefore(sub.replay, sub.position)
                /\ cursor[s] # 0 => cursor[s] + 1 = sub.position - Len(sub.replay)

\* A client is never handed an event after a hole: once it has a cursor, the next
\* thing it gets is the event that follows, or the notice to resynchronise,
\* however often it reconnects and however far the windows have moved.
NoSilentGap ==
  [][\A s \in Subscriber :
       cursor[s] # 0 => cursor'[s] \in {0, cursor[s], cursor[s] + 1}]_hubVars
=============================================================================

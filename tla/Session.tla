-------------------------------- MODULE Session --------------------------------
(***************************************************************************)
(* One provider profile of SessionRegistry (session.rs).  Each request      *)
(* keeps the generation it has found: waits for one of its permits, then   *)
(* for its turn under the rate limit, and reads the response chunk by      *)
(* chunk, taking bytes from a budget that all image transfers share.       *)
(* Bytes are counted in chunks, time in steps of the clock.                *)
(***************************************************************************)
EXTENDS Integers, Sequences, FiniteSets, FiniteSetsExt

CONSTANTS
  Exchange,          \* the requests, each of them made once
  Permits,           \* max_concurrent_requests
  Interval,          \* min_request_interval_ms, in steps of the clock
  MaxBody,           \* max_bytes of a body, in chunks
  Budget,            \* max_inflight_bytes, in chunks
  MaxTime,           \* bound of the clock
  MaxGeneration      \* bound of the generations

ASSUME SessionAssumption ==
  /\ IsFiniteSet(Exchange)
  /\ {Permits, MaxBody, MaxGeneration} \subseteq Nat \ {0}
  /\ {Interval, MaxTime} \subseteq Nat
  /\ Budget \in Nat /\ MaxBody <= Budget   \* ImageConfig::validate

VARIABLES
  generation,    \* the generation that new requests use
  exchange,      \* where each request is, in which generation, and the chunks it holds
  cancelled,     \* the requests whose token is cancelled
  queuedCount,   \* queued_requests of each generation
  nextStart,     \* rate_limit of each generation, 0 before the first request
  clock,         \* the time
  sentAt,        \* history: when each request was sent, Never before that
  leaked         \* history: the requests a generation still counts as queued

sessionVars ==
  <<generation, exchange, cancelled, queuedCount, nextStart, clock, sentAt, leaked>>

Generation == 1..MaxGeneration
Never      == -1

\* With a permit: everything between acquire() and the end of execute().
Permitted == {"pacing", "sleeping", "sending", "body", "budget"}

SessionInit ==
  /\ generation = 1
  /\ exchange = [r \in Exchange |-> [at |-> "idle", gen |-> 1, held |-> 0]]
  /\ cancelled = {}
  /\ queuedCount = [g \in Generation |-> 0]
  /\ nextStart = [g \in Generation |-> 0]
  /\ clock = 0
  /\ sentAt = [r \in Exchange |-> Never]
  /\ leaked = [g \in Generation |-> 0]

-----------------------------------------------------------------------------
In(r, phase) == exchange[r].at = phase

Active(g) == {r \in Exchange : exchange[r].gen = g /\ exchange[r].at \in Permitted}

\* Who holds the mutex of the rate limit, which is kept while its holder sleeps.
Pacer(g) == {r \in Active(g) : In(r, "sleeping")}

Held == MapThenSumSet(LAMBDA r : exchange[r].held, Exchange)
Free == Budget - Held

Goto(r, phase) == exchange' = [exchange EXCEPT ![r].at = phase]

\* The bytes it holds are forgotten.
FaultyEnd(r) ==
  /\ exchange' = [exchange EXCEPT ![r].at = "over"]
  /\ cancelled' = cancelled \ {r}

\* A request ends without a response; its permits of both kinds go back.
End(r) ==
  /\ exchange' = [exchange EXCEPT ![r].at = "over", ![r].held = 0]
  /\ cancelled' = cancelled \ {r}

-----------------------------------------------------------------------------
\* session() finds the current generation, and the request is counted as queued.
Ask(r) ==
  /\ In(r, "idle")
  /\ exchange' = [exchange EXCEPT ![r] = [at |-> "queued", gen |-> generation, held |-> 0]]
  /\ queuedCount' = [queuedCount EXCEPT ![generation] = @ + 1]
  /\ UNCHANGED <<generation, cancelled, nextStart, clock, sentAt, leaked>>

\* acquire() against a cancellation, which goes first.
LeaveQueue(r) ==
  /\ In(r, "queued")
  /\ queuedCount' = [queuedCount EXCEPT ![exchange[r].gen] = @ - 1]
  /\ \/ /\ r \notin cancelled
        /\ Cardinality(Active(exchange[r].gen)) < Permits
        /\ Goto(r, "pacing")
        /\ UNCHANGED cancelled
     \/ r \in cancelled /\ End(r)
  /\ UNCHANGED <<generation, nextStart, clock, sentAt, leaked>>

\* The turns are an interval apart, whenever they are taken.
FaultySend(r) ==
  LET g == exchange[r].gen
  IN  /\ Goto(r, "sending")
      /\ nextStart' = [nextStart EXCEPT ![g] = @ + Interval]
      /\ sentAt' = [sentAt EXCEPT ![r] = clock]

\* The request is sent, and the next one has to wait.
Send(r) ==
  LET g == exchange[r].gen
  IN  /\ Goto(r, "sending")
      /\ nextStart' = [nextStart EXCEPT ![g] = clock + Interval]
      /\ sentAt' = [sentAt EXCEPT ![r] = clock]

\* wait_for_rate_limit(): the mutex is awaited, with no look at the cancellation.
Pace(r) ==
  /\ In(r, "pacing")
  /\ LET g == exchange[r].gen
     IN  /\ Pacer(g) = {}
         /\ IF clock >= nextStart[g] THEN Send(r)
            ELSE Goto(r, "sleeping") /\ UNCHANGED <<nextStart, sentAt>>
  /\ UNCHANGED <<generation, cancelled, queuedCount, clock, leaked>>

\* The sleep is over; a cancellation would have ended it.
Wake(r) ==
  /\ In(r, "sleeping")
  /\ r \notin cancelled
  /\ clock >= nextStart[exchange[r].gen]
  /\ Send(r)
  /\ UNCHANGED <<generation, cancelled, queuedCount, clock, leaked>>

\* The header of a successful response arrives.
Respond(r) ==
  /\ In(r, "sending") /\ r \notin cancelled
  /\ Goto(r, "body")
  /\ UNCHANGED <<generation, cancelled, queuedCount, nextStart, clock, sentAt, leaked>>

\* The length is checked against the chunks before this one.
FaultyChunk(r) ==
  /\ In(r, "body") /\ r \notin cancelled
  /\ exchange[r].held <= MaxBody
  /\ Goto(r, "budget")
  /\ UNCHANGED <<generation, cancelled, queuedCount, nextStart, clock, sentAt, leaked>>

\* One more chunk arrives and waits for its bytes, unless the body gets too long.
Chunk(r) ==
  /\ In(r, "body") /\ r \notin cancelled
  /\ exchange[r].held < MaxBody
  /\ Goto(r, "budget")
  /\ UNCHANGED <<generation, cancelled, queuedCount, nextStart, clock, sentAt, leaked>>

TakeBytes(r) ==
  /\ In(r, "budget") /\ r \notin cancelled
  /\ Free > 0
  /\ exchange' = [exchange EXCEPT ![r].at = "body", ![r].held = @ + 1]
  /\ UNCHANGED <<generation, cancelled, queuedCount, nextStart, clock, sentAt, leaked>>

\* The body is complete: the concurrency permit goes, the bytes stay with the response.
Complete(r) ==
  /\ In(r, "body") /\ r \notin cancelled
  /\ Goto(r, "response")
  /\ UNCHANGED <<generation, cancelled, queuedCount, nextStart, clock, sentAt, leaked>>

\* map_status(), map_transport_error(), a timeout or a body too long: wherever the
\* network is awaited, and not where the budget is.
Fail(r) ==
  /\ exchange[r].at \in {"sending", "body"} /\ r \notin cancelled
  /\ End(r)
  /\ UNCHANGED <<generation, queuedCount, nextStart, clock, sentAt, leaked>>

\* The caller has the image in its memory cache and gives the bytes back.
TakeBody(r) ==
  /\ In(r, "response")
  /\ End(r)
  /\ UNCHANGED <<generation, queuedCount, nextStart, clock, sentAt, leaked>>

CancelExchange(r) ==
  /\ exchange[r].at \in Permitted \cup {"queued"}
  /\ cancelled' = cancelled \cup {r}
  /\ UNCHANGED <<generation, exchange, queuedCount, nextStart, clock, sentAt, leaked>>

\* Every await but that of the mutex is a biased select.
NoticeCancel(r) ==
  /\ r \in cancelled
  /\ exchange[r].at \in Permitted \ {"pacing"}
  /\ End(r)
  /\ UNCHANGED <<generation, queuedCount, nextStart, clock, sentAt, leaked>>

\* The future is dropped with the connection it serves: what it holds is released, but
\* nothing takes it off queued_requests.
DropExchange(r) ==
  /\ exchange[r].at \in Permitted \cup {"queued"}
  /\ End(r)
  /\ leaked' = [leaked EXCEPT ![exchange[r].gen] = IF In(r, "queued") THEN @ + 1 ELSE @]
  /\ UNCHANGED <<generation, queuedCount, nextStart, clock, sentAt>>

\* replace(): a new generation, with counters and a rate limit of its own.
ReplaceProfile ==
  /\ generation < MaxGeneration
  /\ generation' = generation + 1
  /\ UNCHANGED <<exchange, cancelled, queuedCount, nextStart, clock, sentAt, leaked>>

Tick ==
  /\ clock < MaxTime
  /\ clock' = clock + 1
  /\ UNCHANGED <<generation, exchange, cancelled, queuedCount, nextStart, sentAt, leaked>>

Proceeds(r) ==
  \/ LeaveQueue(r) \/ Pace(r) \/ Wake(r) \/ Respond(r) \/ Chunk(r) \/ TakeBytes(r)
  \/ Complete(r) \/ Fail(r) \/ NoticeCancel(r)

SessionNext ==
  \/ \E r \in Exchange :
       Ask(r) \/ Proceeds(r) \/ TakeBody(r) \/ CancelExchange(r) \/ DropExchange(r)
  \/ ReplaceProfile
  \/ Tick

SessionSpec == SessionInit /\ [][SessionNext]_sessionVars

\* A sleeper whose turn has not come: only then time has to go on, and so little of it is
\* enough.
Awaited == \E r \in Exchange : In(r, "sleeping") /\ clock < nextStart[exchange[r].gen]

TimedNext == SessionNext /\ (clock' # clock => Awaited)
-----------------------------------------------------------------------------
(* Properties. *)

SessionTypeOK ==
  /\ generation \in Generation
  /\ exchange \in [Exchange -> [at : Permitted \cup {"idle", "queued", "response", "over"},
                               gen : Generation, held : 0..MaxBody]]
  /\ cancelled \in SUBSET Exchange
  /\ queuedCount \in [Generation -> Nat]
  /\ nextStart \in [Generation -> Nat]
  /\ clock \in 0..MaxTime
  /\ sentAt \in [Exchange -> {Never} \cup 0..MaxTime]
  /\ leaked \in [Generation -> Nat]

\* The provider never sees two requests of a generation closer than the interval, also
\* when some are cancelled or dropped while others wait behind them.
RequestsAreSpaced ==
  \A r, q \in Exchange :
    r # q /\ exchange[r].gen = exchange[q].gen /\ Never < sentAt[q] /\ sentAt[q] <= sentAt[r]
      => sentAt[r] - sentAt[q] >= Interval

\* queued_requests, which a snapshot shows, counts the requests that wait for a permit,
\* and for ever those dropped while they waited.
QueuedIsExact ==
  \A g \in Generation :
    queuedCount[g] =
      leaked[g] + Cardinality({r \in Exchange : In(r, "queued") /\ exchange[r].gen = g})

\* max_inflight_bytes need only be as large as one image: transfers can wait for each
\* other with the budget used up, but none waits for bytes that it alone holds.
NobodyBlocksItself == \A r \in Exchange : In(r, "budget") => exchange[r].held < Budget

\* What a session counts and shares stays true when requests are cancelled or dropped at
\* any await, and when their profile is replaced under them.
SessionAccounts == QueuedIsExact /\ NobodyBlocksItself

\* The one thing that can stop requests for good: all bytes are held by responses that
\* wait for more.
Jammed == Free = 0 /\ \A r \in Exchange : exchange[r].held > 0 => In(r, "budget")

\* Nobody waits for ever behind others, for a permit, a turn or bytes, whoever is cancelled,
\* dropped or slow, unless the byte budget is jammed.
RequestsEndOrJam == \A r \in Exchange : In(r, "queued") ~> In(r, "over") \/ Jammed

\* FVCORE.md:210 has a response stop being read with a stable error when the budget is
\* exceeded.  The code waits for it, keeping what it has: a request may never end.
RequestsEnd == \A r \in Exchange : In(r, "queued") ~> In(r, "over")
=============================================================================

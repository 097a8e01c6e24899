---------------------------- MODULE ProviderProofs ----------------------------
(***************************************************************************)
(* What the requests of a profile's session keep to, for any number of     *)
(* requests and permits; what a reader who turns the pages of a feed with  *)
(* them has seen, for any number of items and any size of page; and which  *)
(* page's key a worker asks a provider for.                                *)
(***************************************************************************)
EXTENDS Session, Browsing, ImageOperation, FiniteSetTheorems, TLAPS

-----------------------------------------------------------------------------
(* Sessions. *)

Unsent == {"idle", "queued", "pacing", "sleeping"}

\* A request that was sent lies behind the clock, and an interval behind the next one.
SentAreBehind ==
  \A r \in Exchange :
    /\ exchange[r].at \in Unsent => sentAt[r] = Never
    /\ sentAt[r] # Never => /\ sentAt[r] <= clock
                            /\ sentAt[r] + Interval <= nextStart[exchange[r].gen]

\* The length of a body is checked before its bytes are taken.
ChunksFit == \A r \in Exchange : In(r, "budget") => exchange[r].held < MaxBody

SessionInv ==
  SessionTypeOK /\ SentAreBehind /\ RequestsAreSpaced /\ ChunksFit /\ QueuedIsExact

Stages == Permitted \cup {"idle", "queued", "response", "over"}
Inquiry == [at : Stages, gen : Generation, held : 0..MaxBody]

\* The requests of a generation that wait for a permit.
Queued(g) == {r \in Exchange : In(r, "queued") /\ exchange[r].gen = g}

-----------------------------------------------------------------------------
LEMMA SessionBounds ==
  /\ IsFiniteSet(Exchange)
  /\ Permits \in Nat /\ MaxBody \in Nat /\ MaxBody >= 1 /\ MaxGeneration \in Nat
  /\ MaxGeneration >= 1 /\ Interval \in Nat /\ MaxTime \in Nat /\ Budget \in Nat
  /\ MaxBody <= Budget
BY SessionAssumption

\* The forms of a request's steps.
LEMMA RequestGoes ==
  ASSUME SessionTypeOK, NEW r \in Exchange, NEW phase \in Stages, Goto(r, phase)
  PROVE  /\ exchange' \in [Exchange -> Inquiry]
         /\ exchange'[r] = [at |-> phase, gen |-> exchange[r].gen, held |-> exchange[r].held]
         /\ \A q \in Exchange \ {r} : exchange'[q] = exchange[q]
<1>1. exchange \in [Exchange -> Inquiry]
  BY DEF SessionTypeOK, Inquiry, Stages
<1>2. exchange' = [exchange EXCEPT ![r].at = phase]
  BY DEF Goto
<1> QED
  BY <1>1, <1>2 DEF Inquiry

LEMMA RequestEnds ==
  ASSUME SessionTypeOK, NEW r \in Exchange, End(r)
  PROVE  /\ exchange' \in [Exchange -> Inquiry]
         /\ exchange'[r] = [at |-> "over", gen |-> exchange[r].gen, held |-> 0]
         /\ \A q \in Exchange \ {r} : exchange'[q] = exchange[q]
         /\ cancelled' = cancelled \ {r}
<1>1. exchange \in [Exchange -> Inquiry]
  BY DEF SessionTypeOK, Inquiry, Stages
<1>2. exchange' = [exchange EXCEPT ![r].at = "over", ![r].held = 0]
  BY DEF End
<1>3. "over" \in Stages /\ 0 \in 0..MaxBody
  BY SessionBounds DEF Stages
<1> QED
  BY <1>1, <1>2, <1>3 DEF Inquiry, End

-----------------------------------------------------------------------------
LEMMA SessionBegins == SessionInit => SessionInv
<1> SUFFICES ASSUME SessionInit PROVE SessionInv
  OBVIOUS
<1>1. 1 \in Generation /\ 0 \in 0..MaxBody /\ 0 \in 0..MaxTime
  BY SessionBounds DEF Generation
<1>2. SessionTypeOK
  BY <1>1 DEF SessionInit, SessionTypeOK
<1>3. SentAreBehind /\ RequestsAreSpaced /\ ChunksFit
  BY DEF SessionInit, SentAreBehind, RequestsAreSpaced, ChunksFit, In, Never
<1>4. QueuedIsExact
  <2>1. \A g \in Generation : Queued(g) = {}
    BY DEF SessionInit, Queued, In
  <2>2. \A g \in Generation : queuedCount[g] = 0 /\ leaked[g] = 0
    BY DEF SessionInit
  <2> QED
    BY <2>1, <2>2, FS_EmptySet DEF QueuedIsExact, Queued
<1> QED
  BY <1>2, <1>3, <1>4 DEF SessionInv

-----------------------------------------------------------------------------
(* The parts of the invariant under a step of one request. *)

\* The step sends nothing.
LEMMA NothingIsSent ==
  ASSUME SessionInv, NEW r \in Exchange,
         exchange' \in [Exchange -> Inquiry],
         \A q \in Exchange \ {r} : exchange'[q] = exchange[q],
         exchange'[r].gen = exchange[r].gen,
         exchange'[r].at \in Unsent => exchange[r].at \in Unsent,
         exchange'[r].at = "budget" => exchange'[r].held < MaxBody,
         UNCHANGED <<nextStart, clock, sentAt>>
  PROVE  SentAreBehind' /\ RequestsAreSpaced' /\ ChunksFit'
<1>1. \A q \in Exchange : exchange'[q].gen = exchange[q].gen
  OBVIOUS
<1>2. SentAreBehind'
  BY <1>1 DEF SessionInv, SentAreBehind
<1>3. RequestsAreSpaced'
  BY <1>1 DEF SessionInv, RequestsAreSpaced
<1>4. ChunksFit'
  BY DEF SessionInv, ChunksFit, In
<1> QED
  BY <1>2, <1>3, <1>4

\* The request was not in the queue and is not in it afterwards.
LEMMA QueueStays ==
  ASSUME SessionInv, NEW r \in Exchange,
         \A q \in Exchange \ {r} : exchange'[q] = exchange[q],
         ~In(r, "queued"), ~In(r, "queued")',
         UNCHANGED <<queuedCount, leaked>>
  PROVE  QueuedIsExact'
<1>1. \A g \in Generation : Queued(g)' = Queued(g)
  BY DEF Queued, In
<1> QED
  BY <1>1 DEF SessionInv, QueuedIsExact, Queued

\* Queues are finite, so that they have a length.
LEMMA QueueLength ==
  ASSUME NEW g \in Generation
  PROVE  IsFiniteSet(Queued(g)) /\ Cardinality(Queued(g)) \in Nat
<1>1. Queued(g) \in SUBSET Exchange
  BY DEF Queued
<1>2. IsFiniteSet(Queued(g))
  BY <1>1, SessionBounds, FS_Subset
<1> QED
  BY <1>2, FS_CardinalityType

\* The request leaves the queue: it is counted off, or for ever as queued.
LEMMA QueueShrinks ==
  ASSUME SessionInv, NEW r \in Exchange,
         \A q \in Exchange \ {r} : exchange'[q] = exchange[q],
         In(r, "queued"), ~In(r, "queued")',
         \/ /\ queuedCount' = [queuedCount EXCEPT ![exchange[r].gen] = @ - 1]
            /\ UNCHANGED leaked
         \/ /\ leaked' = [leaked EXCEPT ![exchange[r].gen] = @ + 1]
            /\ UNCHANGED queuedCount
  PROVE  /\ QueuedIsExact'
         /\ queuedCount' \in [Generation -> Nat] /\ leaked' \in [Generation -> Nat]
<1>0. PICK h \in Generation : h = exchange[r].gen
  BY DEF SessionInv, SessionTypeOK
<1>1. /\ queuedCount \in [Generation -> Nat] /\ leaked \in [Generation -> Nat]
  BY DEF SessionInv, SessionTypeOK
<1>2. ASSUME NEW g \in Generation
      PROVE  queuedCount[g] = leaked[g] + Cardinality(Queued(g))
  BY DEF SessionInv, QueuedIsExact, Queued
<1>3. Queued(h)' = Queued(h) \ {r} /\ r \in Queued(h)
  BY <1>0 DEF Queued, In
<1>4. \A g \in Generation \ {h} : Queued(g)' = Queued(g)
  BY <1>0 DEF Queued, In
<1>5. Cardinality(Queued(h)') = Cardinality(Queued(h)) - 1
      /\ Cardinality(Queued(h)) \in Nat /\ Cardinality(Queued(h)') \in Nat
  <2>1. IsFiniteSet(Queued(h)) /\ Cardinality(Queued(h)) \in Nat
    BY <1>1, QueueLength
  <2>2. IsFiniteSet(Queued(h) \ {r}) /\ Cardinality(Queued(h) \ {r}) = Cardinality(Queued(h)) - 1
    BY <2>1, <1>3, FS_RemoveElement
  <2>3. Cardinality(Queued(h) \ {r}) \in Nat
    BY <2>2, FS_CardinalityType
  <2> QED
    BY <2>1, <2>2, <2>3, <1>3
<1>6. /\ queuedCount[h] = leaked[h] + Cardinality(Queued(h))
      /\ queuedCount[h] \in Nat /\ leaked[h] \in Nat
  BY <1>1, <1>2
<1>7. CASE queuedCount' = [queuedCount EXCEPT ![h] = @ - 1] /\ UNCHANGED leaked
  <2>1. queuedCount[h] - 1 \in Nat /\ queuedCount[h] - 1 = leaked[h] + Cardinality(Queued(h)')
    BY <1>5, <1>6
  <2>2. queuedCount' \in [Generation -> Nat] /\ leaked' \in [Generation -> Nat]
    BY <1>1, <1>7, <2>1
  <2>3. \A g \in Generation : queuedCount'[g] = leaked'[g] + Cardinality(Queued(g)')
    BY <1>1, <1>2, <1>4, <1>7, <2>1
  <2> QED
    BY <2>2, <2>3 DEF QueuedIsExact, Queued
<1>8. CASE leaked' = [leaked EXCEPT ![h] = @ + 1] /\ UNCHANGED queuedCount
  <2>1. leaked[h] + 1 \in Nat /\ queuedCount[h] = leaked[h] + 1 + Cardinality(Queued(h)')
    BY <1>5, <1>6
  <2>2. queuedCount' \in [Generation -> Nat] /\ leaked' \in [Generation -> Nat]
    BY <1>1, <1>8, <2>1
  <2>3. \A g \in Generation : queuedCount'[g] = leaked'[g] + Cardinality(Queued(g)')
    BY <1>1, <1>2, <1>4, <1>8, <2>1
  <2> QED
    BY <2>2, <2>3 DEF QueuedIsExact, Queued
<1> QED
  BY <1>0, <1>7, <1>8

-----------------------------------------------------------------------------
LEMMA AskKeeps ==
  ASSUME SessionInv, NEW r \in Exchange, Ask(r)
  PROVE  SessionInv'
<1>1. /\ exchange \in [Exchange -> Inquiry] /\ generation \in Generation
      /\ queuedCount \in [Generation -> Nat] /\ leaked \in [Generation -> Nat]
      /\ In(r, "idle")
      /\ exchange' = [exchange EXCEPT ![r] = [at |-> "queued", gen |-> generation, held |-> 0]]
      /\ queuedCount' = [queuedCount EXCEPT ![generation] = @ + 1]
      /\ UNCHANGED <<generation, cancelled, nextStart, clock, sentAt, leaked>>
  BY DEF SessionInv, SessionTypeOK, Ask, Inquiry, Stages
<1>2. 0 \in 0..MaxBody
  BY SessionBounds
<1>3. /\ exchange' \in [Exchange -> Inquiry]
      /\ exchange'[r] = [at |-> "queued", gen |-> generation, held |-> 0]
      /\ \A q \in Exchange \ {r} : exchange'[q] = exchange[q]
  BY <1>1, <1>2 DEF Inquiry, Stages
<1>4. SessionTypeOK'
  BY <1>1, <1>3 DEF SessionInv, SessionTypeOK, Inquiry, Stages
<1>5. sentAt[r] = Never
  BY <1>1 DEF SessionInv, SentAreBehind, In, Unsent
<1>6. SentAreBehind'
  BY <1>1, <1>3, <1>5 DEF SessionInv, SentAreBehind
<1>7. RequestsAreSpaced'
  <2> SUFFICES ASSUME NEW a \in Exchange, NEW b \in Exchange, a # b,
                      exchange'[a].gen = exchange'[b].gen,
                      Never < sentAt[b], sentAt[b] <= sentAt[a]
               PROVE  sentAt[a] - sentAt[b] >= Interval
    BY <1>1 DEF RequestsAreSpaced
  <2>1. sentAt[a] \in {Never} \cup 0..MaxTime /\ sentAt[b] \in {Never} \cup 0..MaxTime
    BY DEF SessionInv, SessionTypeOK
  <2>2. a # r /\ b # r
    BY <1>5, <2>1, SessionBounds DEF Never
  <2> QED
    BY <2>2, <1>3 DEF SessionInv, RequestsAreSpaced
<1>8. ChunksFit'
  BY <1>1, <1>3 DEF SessionInv, ChunksFit, In
<1>9. QueuedIsExact'
  <2>1. Queued(generation)' = Queued(generation) \cup {r} /\ r \notin Queued(generation)
    BY <1>1, <1>3 DEF Queued, In
  <2>2. \A g \in Generation \ {generation} : Queued(g)' = Queued(g)
    BY <1>1, <1>3 DEF Queued, In
  <2>3. Cardinality(Queued(generation)') = Cardinality(Queued(generation)) + 1
        /\ Cardinality(Queued(generation)) \in Nat
    BY <1>1, <2>1, QueueLength, FS_AddElement
  <2>4. ASSUME NEW g \in Generation
        PROVE  queuedCount[g] = leaked[g] + Cardinality(Queued(g))
    BY DEF SessionInv, QueuedIsExact, Queued
  <2>5. queuedCount[generation] + 1 = leaked[generation] + Cardinality(Queued(generation)')
    BY <1>1, <2>3, <2>4
  <2>6. \A g \in Generation : queuedCount'[g] = leaked'[g] + Cardinality(Queued(g)')
    BY <1>1, <2>2, <2>4, <2>5
  <2> QED
    BY <2>6 DEF QueuedIsExact, Queued
<1> QED
  BY <1>4, <1>6, <1>7, <1>8, <1>9 DEF SessionInv

LEMMA LeaveQueueKeeps ==
  ASSUME SessionInv, NEW r \in Exchange, LeaveQueue(r)
  PROVE  SessionInv'
<1>1. /\ In(r, "queued")
      /\ queuedCount' = [queuedCount EXCEPT ![exchange[r].gen] = @ - 1]
      /\ UNCHANGED <<generation, nextStart, clock, sentAt, leaked>>
      /\ (Goto(r, "pacing") /\ UNCHANGED cancelled) \/ End(r)
      /\ SessionTypeOK
  BY DEF LeaveQueue, SessionInv
<1>2. /\ exchange' \in [Exchange -> Inquiry]
      /\ exchange'[r].at \in {"pacing", "over"} /\ exchange'[r].gen = exchange[r].gen
      /\ \A q \in Exchange \ {r} : exchange'[q] = exchange[q]
      /\ cancelled' \in SUBSET Exchange
  <2>0. cancelled \in SUBSET Exchange
    BY <1>1 DEF SessionTypeOK
  <2>1. CASE Goto(r, "pacing") /\ UNCHANGED cancelled
    <3>1. "pacing" \in Stages
      BY DEF Stages, Permitted
    <3>2. /\ exchange' \in [Exchange -> Inquiry]
          /\ exchange'[r] = [at |-> "pacing", gen |-> exchange[r].gen, held |-> exchange[r].held]
          /\ \A q \in Exchange \ {r} : exchange'[q] = exchange[q]
      BY <1>1, <2>1, <3>1, RequestGoes
    <3> QED
      BY <2>0, <2>1, <3>2
  <2>2. CASE End(r)
    <3>1. /\ exchange' \in [Exchange -> Inquiry]
          /\ exchange'[r] = [at |-> "over", gen |-> exchange[r].gen, held |-> 0]
          /\ \A q \in Exchange \ {r} : exchange'[q] = exchange[q]
          /\ cancelled' = cancelled \ {r}
      BY <1>1, <2>2, RequestEnds
    <3> QED
      BY <2>0, <3>1
  <2> QED
    BY <1>1, <2>1, <2>2
<1>3. SentAreBehind' /\ RequestsAreSpaced' /\ ChunksFit'
  BY <1>1, <1>2, NothingIsSent DEF Unsent, In
<1>4. QueuedIsExact' /\ queuedCount' \in [Generation -> Nat]
  BY <1>1, <1>2, QueueShrinks DEF In
<1>5. SessionTypeOK'
  BY <1>1, <1>2, <1>4 DEF SessionTypeOK, Inquiry, Stages
<1> QED
  BY <1>3, <1>4, <1>5 DEF SessionInv

\* A request is sent when the interval after the last one is over, so that it is as far
\* behind all requests of its generation.
LEMMA SendKeeps ==
  ASSUME SessionInv, NEW r \in Exchange, exchange[r].at \in {"pacing", "sleeping"},
         clock >= nextStart[exchange[r].gen], Send(r),
         UNCHANGED <<generation, cancelled, queuedCount, clock, leaked>>
  PROVE  SessionInv'
<1> DEFINE g == exchange[r].gen
<1>1. /\ SessionTypeOK /\ clock \in 0..MaxTime /\ g \in Generation
      /\ nextStart \in [Generation -> Nat]
      /\ sentAt \in [Exchange -> {Never} \cup 0..MaxTime]
  BY DEF SessionInv, SessionTypeOK
<1>2. /\ exchange' \in [Exchange -> Inquiry]
      /\ exchange'[r] = [at |-> "sending", gen |-> g, held |-> exchange[r].held]
      /\ \A q \in Exchange \ {r} : exchange'[q] = exchange[q]
  BY <1>1, RequestGoes DEF Send, Stages, Permitted
<1>3. /\ nextStart' = [nextStart EXCEPT ![g] = clock + Interval]
      /\ sentAt' = [sentAt EXCEPT ![r] = clock]
  BY DEF Send
<1>4. clock + Interval \in Nat /\ clock \in Int /\ Interval \in Nat /\ MaxTime \in Nat
  BY <1>1, SessionBounds
<1>5. SessionTypeOK'
  BY <1>1, <1>2, <1>3, <1>4 DEF SessionTypeOK, Inquiry, Stages
<1>6. \A q \in Exchange : exchange'[q].gen = exchange[q].gen
  BY <1>2
<1>7. ASSUME NEW q \in Exchange \ {r}, sentAt[q] # Never, exchange[q].gen = g
      PROVE  sentAt[q] + Interval <= clock
  <2>1. sentAt[q] + Interval <= nextStart[g] /\ sentAt[q] \in 0..MaxTime /\ nextStart[g] \in Nat
    BY <1>1, <1>7 DEF SessionInv, SentAreBehind
  <2> QED
    BY <2>1, <1>4
<1> HIDE DEF g
<1>8. SentAreBehind'
  <2> SUFFICES ASSUME NEW q \in Exchange
               PROVE  /\ exchange'[q].at \in Unsent => sentAt'[q] = Never
                      /\ sentAt'[q] # Never => /\ sentAt'[q] <= clock
                                               /\ sentAt'[q] + Interval
                                                  <= nextStart'[exchange'[q].gen]
    BY DEF SentAreBehind
  <2>1. CASE q = r
    BY <2>1, <1>1, <1>2, <1>3, <1>4 DEF Unsent
  <2>2. CASE q # r /\ exchange[q].gen = g
    <3>1. /\ sentAt'[q] = sentAt[q] /\ exchange'[q] = exchange[q]
          /\ nextStart'[exchange'[q].gen] = clock + Interval
      BY <2>2, <1>1, <1>2, <1>3
    <3>2. sentAt[q] # Never => sentAt[q] <= clock /\ sentAt[q] \in 0..MaxTime
      BY <1>1 DEF SessionInv, SentAreBehind
    <3>3. sentAt[q] # Never => sentAt[q] + Interval <= clock + Interval
      BY <3>2, <1>4
    <3> QED
      BY <3>1, <3>2, <3>3 DEF SessionInv, SentAreBehind
  <2>3. CASE q # r /\ exchange[q].gen # g
    <3>1. sentAt'[q] = sentAt[q] /\ exchange'[q] = exchange[q]
          /\ nextStart'[exchange'[q].gen] = nextStart[exchange[q].gen]
      BY <2>3, <1>1, <1>2, <1>3 DEF SessionTypeOK
    <3> QED
      BY <3>1 DEF SessionInv, SentAreBehind
  <2> QED
    BY <2>1, <2>2, <2>3
<1>9. RequestsAreSpaced'
  <2> SUFFICES ASSUME NEW a \in Exchange, NEW b \in Exchange, a # b,
                      exchange[a].gen = exchange[b].gen,
                      Never < sentAt'[b], sentAt'[b] <= sentAt'[a]
               PROVE  sentAt'[a] - sentAt'[b] >= Interval
    BY <1>6 DEF RequestsAreSpaced
  <2>1. CASE a # r /\ b # r
    BY <2>1, <1>1, <1>3 DEF SessionInv, RequestsAreSpaced
  <2>2. CASE a = r
    <3>1. sentAt'[a] = clock /\ sentAt'[b] = sentAt[b] /\ sentAt[b] # Never
          /\ sentAt[b] \in 0..MaxTime
      BY <2>2, <1>1, <1>3 DEF Never
    <3>2. sentAt[b] + Interval <= clock
      BY <2>2, <3>1, <1>7 DEF g
    <3> QED
      BY <3>1, <3>2, <1>4
  <2>3. CASE b = r
    <3>1. sentAt'[b] = clock /\ sentAt'[a] = sentAt[a]
      BY <2>3, <1>1, <1>3
    <3>2. sentAt[a] # Never /\ sentAt[a] \in 0..MaxTime
      BY <3>1, <1>1, <1>4 DEF Never
    <3>3. sentAt[a] + Interval <= clock
      BY <2>3, <3>2, <1>7 DEF g
    <3> QED
      BY <3>1, <3>2, <3>3, <1>4
  <2> QED
    BY <2>1, <2>2, <2>3
<1>10. ChunksFit'
  BY <1>2 DEF SessionInv, ChunksFit, In
<1>11. QueuedIsExact'
  BY <1>2, QueueStays DEF In
<1> QED
  BY <1>5, <1>8, <1>9, <1>10, <1>11 DEF SessionInv

-----------------------------------------------------------------------------
\* A request outside the queue goes on, and nothing is sent.
LEMMA GoesOnKeeps ==
  ASSUME SessionInv, NEW r \in Exchange, NEW phase \in Stages \ {"queued"},
         ~In(r, "queued"), Goto(r, phase),
         phase \in Unsent => exchange[r].at \in Unsent,
         phase = "budget" => exchange[r].held < MaxBody,
         UNCHANGED <<generation, cancelled, queuedCount, nextStart, clock, sentAt, leaked>>
  PROVE  SessionInv'
<1>1. SessionTypeOK
  BY DEF SessionInv
<1>2. /\ exchange' \in [Exchange -> Inquiry]
      /\ exchange'[r] = [at |-> phase, gen |-> exchange[r].gen, held |-> exchange[r].held]
      /\ \A q \in Exchange \ {r} : exchange'[q] = exchange[q]
  BY <1>1, RequestGoes
<1>3. SentAreBehind' /\ RequestsAreSpaced' /\ ChunksFit'
  BY <1>2, NothingIsSent
<1>4. QueuedIsExact'
  BY <1>2, QueueStays DEF In
<1>5. SessionTypeOK'
  BY <1>1, <1>2 DEF SessionTypeOK, Inquiry, Stages
<1> QED
  BY <1>3, <1>4, <1>5 DEF SessionInv

\* A request outside the queue ends.
LEMMA EndsKeeps ==
  ASSUME SessionInv, NEW r \in Exchange, ~In(r, "queued"), End(r),
         UNCHANGED <<generation, queuedCount, nextStart, clock, sentAt, leaked>>
  PROVE  SessionInv'
<1>1. SessionTypeOK
  BY DEF SessionInv
<1>2. /\ exchange' \in [Exchange -> Inquiry]
      /\ exchange'[r] = [at |-> "over", gen |-> exchange[r].gen, held |-> 0]
      /\ \A q \in Exchange \ {r} : exchange'[q] = exchange[q]
      /\ cancelled' = cancelled \ {r}
  BY <1>1, RequestEnds
<1>3. SentAreBehind' /\ RequestsAreSpaced' /\ ChunksFit'
  BY <1>2, NothingIsSent DEF Unsent
<1>4. QueuedIsExact'
  BY <1>2, QueueStays DEF In
<1>5. SessionTypeOK'
  BY <1>1, <1>2 DEF SessionTypeOK, Inquiry, Stages
<1> QED
  BY <1>3, <1>4, <1>5 DEF SessionInv

LEMMA PaceKeeps ==
  ASSUME SessionInv, NEW r \in Exchange, Pace(r)
  PROVE  SessionInv'
<1>1. /\ exchange[r].at = "pacing"
      /\ UNCHANGED <<generation, cancelled, queuedCount, clock, leaked>>
      /\ clock \in Int /\ nextStart[exchange[r].gen] \in Int
  BY DEF Pace, In, SessionInv, SessionTypeOK
<1>2. CASE clock >= nextStart[exchange[r].gen]
  BY <1>1, <1>2, SendKeeps DEF Pace
<1>3. CASE ~(clock >= nextStart[exchange[r].gen])
  <2>1. Goto(r, "sleeping") /\ UNCHANGED <<nextStart, sentAt>>
    BY <1>3 DEF Pace
  <2>2. "sleeping" \in Stages \ {"queued"}
    BY DEF Stages, Permitted
  <2> QED
    BY <1>1, <2>1, <2>2, GoesOnKeeps DEF In, Unsent
<1> QED
  BY <1>2, <1>3

LEMMA WakeKeeps ==
  ASSUME SessionInv, NEW r \in Exchange, Wake(r)
  PROVE  SessionInv'
BY SendKeeps DEF Wake, In

\* The response and its chunks; a chunk waits for its bytes when the body is not too long.
LEMMA BodyKeeps ==
  ASSUME SessionInv, NEW r \in Exchange, Respond(r) \/ Chunk(r) \/ Complete(r)
  PROVE  SessionInv'
<1>1. /\ exchange[r].at \in {"sending", "body"}
      /\ UNCHANGED <<generation, cancelled, queuedCount, nextStart, clock, sentAt, leaked>>
  BY DEF Respond, Chunk, Complete, In
<1>2. PICK phase \in {"body", "budget", "response"} :
        Goto(r, phase) /\ (phase = "budget" => exchange[r].held < MaxBody)
  BY DEF Respond, Chunk, Complete
<1>3. phase \in Stages \ {"queued"} /\ phase \notin Unsent
  BY DEF Stages, Permitted, Unsent
<1> QED
  BY <1>1, <1>2, <1>3, GoesOnKeeps DEF In

LEMMA TakeBytesKeeps ==
  ASSUME SessionInv, NEW r \in Exchange, TakeBytes(r)
  PROVE  SessionInv'
<1>1. /\ SessionTypeOK /\ exchange \in [Exchange -> Inquiry]
      /\ exchange[r].at = "budget" /\ exchange[r].held < MaxBody
      /\ exchange' = [exchange EXCEPT ![r].at = "body", ![r].held = @ + 1]
      /\ UNCHANGED <<generation, cancelled, queuedCount, nextStart, clock, sentAt, leaked>>
  BY DEF SessionInv, SessionTypeOK, ChunksFit, TakeBytes, In, Inquiry, Stages
<1>2. exchange[r].held \in 0..MaxBody /\ exchange[r].held + 1 \in 0..MaxBody
  BY <1>1, SessionBounds DEF Inquiry
<1>3. "body" \in Stages
  BY DEF Stages, Permitted
<1>4. /\ exchange' \in [Exchange -> Inquiry]
      /\ exchange'[r] = [at |-> "body", gen |-> exchange[r].gen, held |-> exchange[r].held + 1]
      /\ \A q \in Exchange \ {r} : exchange'[q] = exchange[q]
  BY <1>1, <1>2, <1>3 DEF Inquiry
<1>5. SentAreBehind' /\ RequestsAreSpaced' /\ ChunksFit'
  BY <1>1, <1>4, NothingIsSent DEF Unsent
<1>6. QueuedIsExact'
  BY <1>1, <1>4, QueueStays DEF In
<1>7. SessionTypeOK'
  BY <1>1, <1>4 DEF SessionTypeOK, Inquiry, Stages
<1> QED
  BY <1>5, <1>6, <1>7 DEF SessionInv

\* What ends a request with its permit or its response.
LEMMA SessionEndKeeps ==
  ASSUME SessionInv, NEW r \in Exchange, Fail(r) \/ TakeBody(r)
  PROVE  SessionInv'
BY EndsKeeps DEF Fail, TakeBody, In

LEMMA NoticeCancelKeeps ==
  ASSUME SessionInv, NEW r \in Exchange, NoticeCancel(r)
  PROVE  SessionInv'
BY EndsKeeps DEF NoticeCancel, In, Permitted

\* A dropped request gives back what it holds, and its place in the count if it has none.
LEMMA DropExchangeKeeps ==
  ASSUME SessionInv, NEW r \in Exchange, DropExchange(r)
  PROVE  SessionInv'
<1>1. /\ SessionTypeOK /\ End(r)
      /\ UNCHANGED <<generation, queuedCount, nextStart, clock, sentAt>>
      /\ leaked' = [leaked EXCEPT ![exchange[r].gen] = IF In(r, "queued") THEN @ + 1 ELSE @]
      /\ leaked \in [Generation -> Nat]
  BY DEF SessionInv, SessionTypeOK, DropExchange
<1>2. CASE ~In(r, "queued")
  <2>1. UNCHANGED leaked
    BY <1>1, <1>2
  <2> QED
    BY <1>1, <1>2, <2>1, EndsKeeps
<1>3. CASE In(r, "queued")
  <2>1. /\ exchange' \in [Exchange -> Inquiry]
        /\ exchange'[r] = [at |-> "over", gen |-> exchange[r].gen, held |-> 0]
        /\ \A q \in Exchange \ {r} : exchange'[q] = exchange[q]
        /\ cancelled' = cancelled \ {r}
    BY <1>1, RequestEnds
  <2>2. SentAreBehind' /\ RequestsAreSpaced' /\ ChunksFit'
    BY <1>1, <2>1, NothingIsSent DEF Unsent
  <2>3. leaked' = [leaked EXCEPT ![exchange[r].gen] = @ + 1]
    BY <1>1, <1>3
  <2>4. QueuedIsExact' /\ leaked' \in [Generation -> Nat]
    <3>1. ~In(r, "queued")'
      BY <2>1 DEF In
    <3> QED
      BY <1>1, <1>3, <2>1, <2>3, <3>1, QueueShrinks
  <2>5. SessionTypeOK'
    BY <1>1, <2>1, <2>4 DEF SessionTypeOK, Inquiry, Stages
  <2> QED
    BY <2>2, <2>4, <2>5 DEF SessionInv
<1> QED
  BY <1>2, <1>3

\* Steps that leave the requests where they are: a cancellation, a new generation, the clock.
LEMMA OthersKeep ==
  ASSUME SessionInv, (\E r \in Exchange : CancelExchange(r)) \/ ReplaceProfile \/ Tick
  PROVE  SessionInv'
<1>1. /\ UNCHANGED <<exchange, queuedCount, nextStart, sentAt, leaked>>
      /\ cancelled' \in SUBSET Exchange /\ generation' \in Generation
      /\ clock \in 0..MaxTime /\ clock' \in 0..MaxTime /\ clock' >= clock
  <2>1. cancelled \in SUBSET Exchange /\ generation \in Generation /\ clock \in 0..MaxTime
    BY DEF SessionInv, SessionTypeOK
  <2>2. clock >= clock
    BY <2>1, SessionBounds
  <2>3. CASE \E r \in Exchange : CancelExchange(r)
    BY <2>1, <2>2, <2>3 DEF CancelExchange
  <2>4. CASE ReplaceProfile
    <3>1. generation' \in Generation
      BY <2>1, <2>4, SessionBounds DEF ReplaceProfile, Generation
    <3> QED
      BY <2>1, <2>2, <2>4, <3>1 DEF ReplaceProfile
  <2>5. CASE Tick
    <3>1. clock' \in 0..MaxTime /\ clock' >= clock
      BY <2>1, <2>5, SessionBounds DEF Tick
    <3> QED
      BY <2>1, <2>5, <3>1 DEF Tick
  <2> QED
    BY <2>3, <2>4, <2>5
<1>2. SessionTypeOK'
  BY <1>1 DEF SessionInv, SessionTypeOK
<1>3. SentAreBehind'
  <2>1. \A r \in Exchange : sentAt[r] \in {Never} \cup 0..MaxTime
    BY DEF SessionInv, SessionTypeOK
  <2>2. \A r \in Exchange : sentAt[r] # Never /\ sentAt[r] <= clock => sentAt[r] <= clock'
    BY <1>1, <2>1, SessionBounds
  <2> QED
    BY <1>1, <2>2 DEF SessionInv, SentAreBehind
<1>4. RequestsAreSpaced' /\ ChunksFit' /\ QueuedIsExact'
  BY <1>1 DEF SessionInv, RequestsAreSpaced, ChunksFit, QueuedIsExact, In
<1> QED
  BY <1>2, <1>3, <1>4 DEF SessionInv

-----------------------------------------------------------------------------
LEMMA SessionKeeps == SessionInv /\ [SessionNext]_sessionVars => SessionInv'
<1> SUFFICES ASSUME SessionInv, [SessionNext]_sessionVars PROVE SessionInv'
  OBVIOUS
<1>1. CASE UNCHANGED sessionVars
  BY <1>1 DEF SessionInv, SessionTypeOK, SentAreBehind, RequestsAreSpaced, ChunksFit,
              QueuedIsExact, In, sessionVars
<1> QED
  BY <1>1, AskKeeps, LeaveQueueKeeps, PaceKeeps, WakeKeeps, BodyKeeps, TakeBytesKeeps,
     SessionEndKeeps, NoticeCancelKeeps, DropExchangeKeeps, OthersKeep DEF SessionNext, Proceeds

\* Requests, counters and times keep their types.
THEOREM SessionTypes == SessionSpec => []SessionTypeOK
<1>1. SessionInv => SessionTypeOK
  BY DEF SessionInv
<1> QED
  BY <1>1, SessionBegins, SessionKeeps, PTL DEF SessionSpec

\* wait_for_rate_limit() keeps two requests of a generation an interval apart, whichever of
\* them are cancelled or dropped, and whatever the permits are.
THEOREM Spacing == SessionSpec => []RequestsAreSpaced
<1>1. SessionInv => RequestsAreSpaced
  BY DEF SessionInv
<1> QED
  BY <1>1, SessionBegins, SessionKeeps, PTL DEF SessionSpec

\* queued_requests is what execute() makes it, dropped futures included, and no request
\* waits for bytes that it alone holds, because a body is not longer than the budget.
THEOREM Accounting == SessionSpec => []SessionAccounts
<1>1. SessionInv => SessionAccounts
  <2> SUFFICES ASSUME SessionInv PROVE SessionAccounts
    OBVIOUS
  <2>1. ASSUME NEW r \in Exchange, In(r, "budget")
        PROVE  exchange[r].held < Budget
    <3>1. exchange[r].held < MaxBody /\ exchange[r].held \in 0..MaxBody
      BY <2>1 DEF SessionInv, SessionTypeOK, ChunksFit
    <3> QED
      BY <3>1, SessionBounds
  <2> QED
    BY <2>1 DEF SessionInv, SessionAccounts, NobodyBlocksItself
<1> QED
  BY <1>1, SessionBegins, SessionKeeps, PTL DEF SessionSpec

-----------------------------------------------------------------------------
(* Ranks of numbers in a finite set. *)

AtLeast(S, i) == {j \in S : j >= i}

LEMMA RankGrows ==
  ASSUME NEW S, IsFiniteSet(S), S \subseteq Nat
  PROVE  /\ Cardinality(S) \in Nat
         /\ \A i : /\ IsFiniteSet(AtLeast(S, i))
                   /\ Cardinality(AtLeast(S, i)) \in 0..Cardinality(S)
         /\ \A i \in S : Cardinality(AtLeast(S, i)) >= 1
         /\ \A i \in S, k \in S :
              i < k => Cardinality(AtLeast(S, k)) < Cardinality(AtLeast(S, i))
<1>1. Cardinality(S) \in Nat
  BY FS_CardinalityType
<1>2. ASSUME NEW i
      PROVE  /\ IsFiniteSet(AtLeast(S, i))
             /\ Cardinality(AtLeast(S, i)) \in Nat
             /\ Cardinality(AtLeast(S, i)) <= Cardinality(S)
  <2>1. AtLeast(S, i) \in SUBSET S
    BY DEF AtLeast
  <2> QED
    BY <2>1, FS_Subset, FS_CardinalityType
<1>3. ASSUME NEW i \in S PROVE Cardinality(AtLeast(S, i)) # 0
  <2>1. i \in AtLeast(S, i)
    BY DEF AtLeast
  <2> QED
    BY <1>2, <2>1, FS_EmptySet
<1>4. ASSUME NEW i \in S, NEW k \in S, i < k
      PROVE  Cardinality(AtLeast(S, k)) < Cardinality(AtLeast(S, i))
  <2>0. i \in Nat /\ k \in Nat /\ \A j \in S : j \in Nat
    OBVIOUS
  <2>1. /\ AtLeast(S, k) \in SUBSET AtLeast(S, i)
        /\ i \in AtLeast(S, i) /\ i \notin AtLeast(S, k)
    <3>1. \A j \in S : j >= k => j >= i
      BY <1>4, <2>0
    <3>2. i >= i /\ ~(i >= k)
      BY <1>4, <2>0
    <3> QED
      BY <3>1, <3>2 DEF AtLeast
  <2>2. /\ Cardinality(AtLeast(S, k)) <= Cardinality(AtLeast(S, i))
        /\ Cardinality(AtLeast(S, k)) # Cardinality(AtLeast(S, i))
    BY <1>2, <2>1, FS_Subset
  <2> QED
    BY <1>2, <2>2
<1>5. \A i \in S : Cardinality(AtLeast(S, i)) >= 1
  BY <1>2, <1>3
<1> QED
  BY <1>1, <1>2, <1>4, <1>5

\* As many elements as ranks: every rank is that of an element.
LEMMA RanksAreTaken ==
  ASSUME NEW S, IsFiniteSet(S), S \subseteq Nat, NEW lo \in Nat \ {0}, NEW hi \in Nat,
         hi <= Cardinality(S), lo <= hi + 1
  PROVE  Cardinality({i \in S : Cardinality(AtLeast(S, i)) \in lo..hi}) = hi - lo + 1
<1> DEFINE n == Cardinality(S)
           r == [i \in S |-> Cardinality(AtLeast(S, i))]
           R == {r[i] : i \in S}
           T == {i \in S : Cardinality(AtLeast(S, i)) \in lo..hi}
<1>1. n \in Nat
  BY RankGrows
<1>2. \A i \in S : r[i] = Cardinality(AtLeast(S, i)) /\ r[i] \in 1..n
  <2> SUFFICES ASSUME NEW i \in S PROVE r[i] = Cardinality(AtLeast(S, i)) /\ r[i] \in 1..n
    OBVIOUS
  <2>1. Cardinality(AtLeast(S, i)) \in 0..n /\ Cardinality(AtLeast(S, i)) >= 1
    BY RankGrows
  <2> QED
    BY <1>1, <2>1
<1>3. \A i \in S, k \in S : r[i] = r[k] => i = k
  <2> SUFFICES ASSUME NEW i \in S, NEW k \in S, r[i] = r[k] PROVE i = k
    OBVIOUS
  <2>1. i \in Nat /\ k \in Nat /\ r[i] \in Nat /\ r[k] \in Nat
    BY <1>1, <1>2
  <2>2. i < k => r[k] < r[i]
    BY <1>2, RankGrows
  <2>3. k < i => r[i] < r[k]
    BY <1>2, RankGrows
  <2> QED
    BY <2>1, <2>2, <2>3
<1>4. T = {i \in S : r[i] \in lo..hi} /\ DOMAIN r = S /\ r \in [S -> R]
  OBVIOUS
<1> HIDE DEF r
<1>5. Cardinality(R) = n
  <2>1. r \in Bijection(S, R)
    BY <1>3, <1>4 DEF Bijection, Injection, Surjection, IsInjective
  <2> QED
    BY <2>1, FS_Bijection DEF ExistsBijection
<1>6. R = 1..n
  <2>1. R \in SUBSET (1..n)
    BY <1>2
  <2>2. IsFiniteSet(1..n) /\ Cardinality(1..n) = n
    <3>1. 1 \in Int /\ n \in Int
      BY <1>1
    <3>2. IsFiniteSet(1..n) /\ Cardinality(1..n) = IF 1 > n THEN 0 ELSE n - 1 + 1
      BY <3>1, FS_Interval
    <3> QED
      BY <1>1, <3>2
  <2> QED
    BY <1>5, <2>1, <2>2, FS_Subset
<1>7. Cardinality(lo..hi) = Cardinality(T)
  <2>1. IsFiniteSet(T)
    <3>1. T \in SUBSET S
      OBVIOUS
    <3> QED
      BY <3>1, FS_Subset
  <2> DEFINE f == [i \in T |-> r[i]]
  <2>2. \A m \in lo..hi : \E i \in T : r[i] = m
    <3> SUFFICES ASSUME NEW m \in lo..hi PROVE \E i \in T : r[i] = m
      OBVIOUS
    <3>1. m \in 1..n
      BY <1>1
    <3>2. PICK i \in S : r[i] = m
      BY <1>6, <3>1
    <3> QED
      BY <1>4, <3>2
  <2>3. f \in Bijection(T, lo..hi)
    <3>1. f \in [T -> lo..hi] /\ DOMAIN f = T /\ \A i \in T : i \in S /\ f[i] = r[i]
      BY <1>4
    <3> HIDE DEF f
    <3> QED
      BY <1>3, <2>2, <3>1 DEF Bijection, Injection, Surjection, IsInjective
  <2> QED
    BY <2>1, <2>3, FS_Bijection DEF ExistsBijection
<1>8. Cardinality(lo..hi) = hi - lo + 1
  <2>1. lo \in Int /\ hi \in Int
    OBVIOUS
  <2>2. Cardinality(lo..hi) = IF lo > hi THEN 0 ELSE hi - lo + 1
    BY <2>1, FS_Interval
  <2> QED
    BY <2>2
<1> QED
  BY <1>7, <1>8

\* A finite set of numbers has a least one.
LEMMA LeastOfFinite ==
  ASSUME NEW S, IsFiniteSet(S), S \subseteq Nat, S # {}
  PROVE  Min(S) \in S /\ \A j \in S : Min(S) <= j
<1> DEFINE n == Cardinality(S)
<1>1. n \in Nat \ {0}
  BY FS_CardinalityType, FS_EmptySet
<1>2. Cardinality({i \in S : Cardinality(AtLeast(S, i)) \in n..n}) = 1
  <2> HIDE DEF n
  <2>1. n \in Nat /\ n <= n /\ n <= n + 1 /\ n - n + 1 = 1
    BY <1>1
  <2>2. n <= Cardinality(S)
    BY <2>1 DEF n
  <2> QED
    BY <1>1, <2>1, <2>2, RanksAreTaken
<1>3. PICK i \in S : Cardinality(AtLeast(S, i)) = n
  <2>1. {i \in S : Cardinality(AtLeast(S, i)) \in n..n} # {}
    BY <1>2, FS_EmptySet
  <2>2. PICK i \in S : Cardinality(AtLeast(S, i)) \in n..n
    BY <2>1
  <2>3. n..n = {n}
    <3> HIDE DEF n
    <3> QED
      BY <1>1
  <2> QED
    BY <2>2, <2>3
<1>4. AtLeast(S, i) = S
  <2>1. AtLeast(S, i) \in SUBSET S
    BY DEF AtLeast
  <2> QED
    BY <1>3, <2>1, FS_Subset
<1>5. \A j \in S : i <= j
  <2>1. \A j \in S : j >= i
    BY <1>4 DEF AtLeast
  <2>2. i \in Nat /\ \A j \in S : j \in Nat
    OBVIOUS
  <2> QED
    BY <2>1, <2>2
<1> QED
  BY <1>5 DEF Min

-----------------------------------------------------------------------------
\* The items on the pages already turned.
Behind(i) == IF feed = "eh" THEN i >= asksFor ELSE Rank(i) <= Passed

\* How the code numbers pages.
Numbered ==
  /\ asksFor \in Int
  /\ asksFor # Exhausted => asksFor >= 0 /\ (feed \in Feeds \ {"gelbooru", "bookmarks"} => asksFor >= 1)

\* What lasts on a page already turned has been seen.
TurnedIsSeen ==
  excused = {} =>
    \A i \in lasting \ damaged : asksFor = Exhausted \/ Behind(i) => i \in seen

BrowseInv ==
  /\ feed \in Feeds
  /\ newest \in Nat /\ offered \subseteq 1..newest /\ lasting \subseteq offered
  /\ Numbered
  /\ TurnedIsSeen

LEMMA BrowseBounds ==
  ASSUME BrowseInv
  PROVE  /\ PageSize \in Nat \ {0} /\ MaxItems \in Nat
         /\ IsFiniteSet(offered) /\ offered \subseteq Nat \ {0}
         /\ asksFor # Exhausted => Passed \in Nat
         /\ Cardinality(offered) \in Nat
         /\ \A i \in offered : Rank(i) \in 1..Cardinality(offered)
         /\ \A i \in offered, k \in offered : i < k => Rank(k) < Rank(i)
<1>1. PageSize \in Nat \ {0} /\ MaxItems \in Nat
  BY BrowseAssumption
<1>2. IsFiniteSet(offered) /\ offered \subseteq Nat \ {0}
  <2>1. newest \in Nat /\ offered \in SUBSET (1..newest)
    BY DEF BrowseInv
  <2>2. IsFiniteSet(1..newest)
    <3>1. 1 \in Int /\ newest \in Int
      BY <2>1
    <3> QED
      BY <3>1, FS_Interval
  <2>3. 1..newest \subseteq Nat \ {0}
    BY <2>1
  <2> QED
    BY <2>1, <2>2, <2>3, FS_Subset
<1>3. offered \subseteq Nat
  BY <1>2
<1>4. /\ Cardinality(offered) \in Nat
      /\ \A i \in offered : Rank(i) \in 1..Cardinality(offered)
      /\ \A i \in offered, k \in offered : i < k => Rank(k) < Rank(i)
  <2>1. \A i : Rank(i) = Cardinality(AtLeast(offered, i))
    BY DEF Rank, AtLeast
  <2>2. Cardinality(offered) \in Nat
    BY <1>2, FS_CardinalityType
  <2>3. ASSUME NEW i \in offered PROVE Rank(i) \in 1..Cardinality(offered)
    <3>1. /\ Cardinality(AtLeast(offered, i)) \in 0..Cardinality(offered)
          /\ Cardinality(AtLeast(offered, i)) >= 1
      BY <1>2, <1>3, RankGrows
    <3> QED
      BY <2>1, <2>2, <3>1
  <2>4. \A i \in offered, k \in offered : i < k => Rank(k) < Rank(i)
    BY <1>2, <1>3, <2>1, RankGrows
  <2> QED
    BY <2>2, <2>3, <2>4
<1>5. ASSUME asksFor # Exhausted PROVE Passed \in Nat
  <2>1. asksFor \in Nat /\ (feed \notin {"gelbooru", "bookmarks"} => asksFor - 1 \in Nat)
    BY <1>5 DEF BrowseInv, Numbered
  <2>2. CASE feed = "eh"
    <3>1. Cardinality(AtLeast(offered, asksFor)) \in 0..Cardinality(offered)
      BY <1>2, <1>3, RankGrows
    <3> QED
      BY <1>4, <2>2, <3>1 DEF Passed, AtLeast
  <2>3. CASE feed = "gelbooru"
    <3>1. asksFor * PageSize \in Nat
      BY <1>1, <2>1
    <3> QED
      BY <2>3, <3>1 DEF Passed
  <2>4. CASE feed = "bookmarks"
    BY <2>1, <2>4 DEF Passed
  <2>5. CASE feed \notin {"gelbooru", "bookmarks", "eh"}
    <3>1. (asksFor - 1) * PageSize \in Nat
      BY <1>1, <2>1, <2>5
    <3> QED
      BY <2>5, <3>1 DEF Passed
  <2> QED
    BY <2>2, <2>3, <2>4, <2>5
<1> QED
  BY <1>1, <1>2, <1>4, <1>5

\* What a page has, and what there is behind it.
LEMMA PageOfFeed ==
  ASSUME BrowseInv, asksFor # Exhausted
  PROVE  /\ Page \subseteq offered
         /\ \A i \in offered : Rank(i) <= Passed + PageSize => Rank(i) <= Passed \/ i \in Page
         /\ Cardinality(Page) # PageSize => \A i \in offered : Rank(i) <= Passed + PageSize
         /\ Page = {} => \A i \in offered : Rank(i) <= Passed
         /\ ~Older => \A i \in offered : Rank(i) <= Passed + PageSize
<1>1. PICK p \in Nat, s \in Nat \ {0}, n \in Nat :
        p = Passed /\ s = PageSize /\ n = Cardinality(offered)
  BY BrowseBounds
<1>2. /\ IsFiniteSet(offered) /\ offered \subseteq Nat
      /\ \A i \in offered : Rank(i) \in 1..n
  BY <1>1, BrowseBounds
<1>3. Page = {i \in offered : Rank(i) \in (p + 1)..(p + s)}
  BY <1>1 DEF Page
<1>4. ASSUME NEW i \in offered, Rank(i) <= p + s PROVE Rank(i) <= p \/ i \in Page
  BY <1>2, <1>3, <1>4
<1>5. ASSUME NEW i \in offered, ~(Rank(i) <= p + s) PROVE Cardinality(Page) = s
  <2>1. p + s <= n /\ p + 1 \in Nat \ {0} /\ p + s \in Nat /\ p + 1 <= p + s + 1
    BY <1>2, <1>5
  <2>2. Cardinality({k \in offered : Cardinality(AtLeast(offered, k)) \in (p + 1)..(p + s)})
          = (p + s) - (p + 1) + 1
    BY <1>1, <1>2, <2>1, RanksAreTaken
  <2>3. Page = {k \in offered : Cardinality(AtLeast(offered, k)) \in (p + 1)..(p + s)}
    BY <1>3 DEF Rank, AtLeast
  <2> QED
    BY <2>2, <2>3
<1>6. ASSUME NEW i \in offered, ~(Rank(i) <= p) PROVE Page # {}
  <2>1. p + 1 <= n /\ p + 1 \in Nat \ {0} /\ p + 1 <= p + 1 + 1
    BY <1>2, <1>6
  <2>2. Cardinality({k \in offered : Cardinality(AtLeast(offered, k)) \in (p + 1)..(p + 1)})
          = (p + 1) - (p + 1) + 1
    BY <1>1, <1>2, <2>1, RanksAreTaken
  <2>3. PICK k \in offered : Cardinality(AtLeast(offered, k)) \in (p + 1)..(p + 1)
    <3>1. {k \in offered : Cardinality(AtLeast(offered, k)) \in (p + 1)..(p + 1)} # {}
      BY <2>2, FS_EmptySet
    <3> QED
      BY <3>1
  <2>4. Rank(k) \in (p + 1)..(p + s)
    BY <2>3 DEF Rank, AtLeast
  <2> QED
    BY <1>3, <2>4
<1>7. ~Older => \A i \in offered : Rank(i) <= p + s
  <2> SUFFICES ASSUME ~Older, NEW i \in offered PROVE Rank(i) <= p + s
    OBVIOUS
  <2>1. ~(p + s < n)
    BY <1>1 DEF Older
  <2> QED
    BY <1>2, <2>1
<1> QED
  BY <1>1, <1>3, <1>4, <1>5, <1>6, <1>7

LEMMA BrowseBegins == BrowseInit => BrowseInv
<1> SUFFICES ASSUME BrowseInit PROVE BrowseInv
  OBVIOUS
<1>1. /\ feed \in Feeds /\ newest \in Nat /\ newest <= MaxItems /\ MaxItems \in Nat
      /\ offered = 1..newest /\ lasting = offered
      /\ asksFor \in FirstPlaces /\ PageSize \in Nat \ {0}
  <2>1. MaxItems \in Nat \ {0} /\ PageSize \in Nat \ {0}
    BY BrowseAssumption
  <2>2. newest \in 0..(MaxItems - 1)
    BY DEF BrowseInit
  <2>3. newest \in Nat /\ newest <= MaxItems
    BY <2>1, <2>2
  <2> QED
    BY <2>1, <2>3 DEF BrowseInit
<1>2. Numbered
  BY <1>1 DEF FirstPlaces, Numbered, Exhausted, Feeds
<1>3. TurnedIsSeen
  <2> SUFFICES ASSUME excused = {}, NEW i \in lasting \ damaged PROVE asksFor # Exhausted /\ ~Behind(i)
    BY DEF TurnedIsSeen
  <2>1. asksFor # Exhausted
    BY <1>1 DEF FirstPlaces, Exhausted
  <2>2. i \in 1..newest
    BY <1>1
  <2>3. CASE feed = "eh"
    <3>1. asksFor = MaxItems + 1
      BY <1>1, <2>3 DEF FirstPlaces
    <3>2. ~(i >= asksFor)
      BY <1>1, <2>2, <3>1
    <3> QED
      BY <2>1, <2>3, <3>2 DEF Behind
  <2>4. CASE feed # "eh"
    <3>1. Passed = 0
      <4>1. CASE feed = "gelbooru"
        <5>1. asksFor = 0
          BY <1>1, <4>1 DEF BrowseInit, FirstPlaces
        <5> QED
          BY <1>1, <4>1, <5>1 DEF Passed
      <4>2. CASE feed = "bookmarks"
        BY <1>1, <4>2 DEF FirstPlaces, Passed
      <4>3. CASE feed \notin {"gelbooru", "bookmarks"}
        <5>1. asksFor = 1
          BY <1>1, <2>4, <4>3 DEF FirstPlaces
        <5> QED
          BY <1>1, <2>4, <4>3, <5>1 DEF Passed
      <4> QED
        BY <4>1, <4>2, <4>3
    <3>2. Rank(i) \in Nat /\ Rank(i) >= 1
      <4>1. 1 \in Int /\ newest \in Int /\ offered \subseteq Nat /\ i \in offered
        BY <1>1
      <4>2. IsFiniteSet(offered)
        BY <1>1, <4>1, FS_Interval
      <4>3. Rank(i) = Cardinality(AtLeast(offered, i))
        BY DEF Rank, AtLeast
      <4>4. /\ Cardinality(offered) \in Nat
            /\ Cardinality(AtLeast(offered, i)) \in 0..Cardinality(offered)
            /\ Cardinality(AtLeast(offered, i)) >= 1
        BY <4>1, <4>2, RankGrows
      <4> QED
        BY <4>3, <4>4
    <3> QED
      <4>1. ~(Rank(i) <= Passed)
        BY <3>1, <3>2
      <4> QED
        BY <2>1, <2>4, <4>1 DEF Behind
  <2> QED
    BY <2>1, <2>3, <2>4
<1> QED
  BY <1>1, <1>2, <1>3 DEF BrowseInv

-----------------------------------------------------------------------------
(* A page is turned. *)

LEMMA RanksStay ==
  ASSUME UNCHANGED offered
  PROVE  \A i : Rank(i)' = Rank(i)
BY DEF Rank

\* The reader has passed what a cursor says it has.
LEMMA CursorCounts ==
  ASSUME BrowseInv, asksFor # Exhausted, feed = "eh"
  PROVE  \A i \in offered : Rank(i) <= Passed => i >= asksFor
<1> SUFFICES ASSUME NEW i \in offered, ~(i >= asksFor) PROVE ~(Rank(i) <= Passed)
  OBVIOUS
<1>1. /\ IsFiniteSet(offered) /\ offered \subseteq Nat
      /\ i \in Nat /\ asksFor \in Int
  BY BrowseBounds DEF BrowseInv, Numbered
<1>2. /\ Rank(i) = Cardinality(AtLeast(offered, i))
      /\ Passed = Cardinality(AtLeast(offered, asksFor))
  BY DEF Rank, Passed, AtLeast
<1>3. /\ IsFiniteSet(AtLeast(offered, i))
      /\ Cardinality(AtLeast(offered, i)) \in 0..Cardinality(offered)
      /\ Cardinality(AtLeast(offered, asksFor)) \in 0..Cardinality(offered)
      /\ Cardinality(offered) \in Nat
  BY <1>1, RankGrows
<1>4. /\ AtLeast(offered, asksFor) \in SUBSET AtLeast(offered, i)
      /\ i \in AtLeast(offered, i) /\ i \notin AtLeast(offered, asksFor)
  <2>1. \A j \in offered : j >= asksFor => j >= i
    BY <1>1
  <2>2. i >= i
    BY <1>1
  <2> QED
    BY <2>1, <2>2 DEF AtLeast
<1>5. /\ Cardinality(AtLeast(offered, asksFor)) <= Cardinality(AtLeast(offered, i))
      /\ Cardinality(AtLeast(offered, asksFor)) # Cardinality(AtLeast(offered, i))
  BY <1>3, <1>4, FS_Subset
<1> QED
  BY <1>2, <1>3, <1>5

\* If what the reader has passed when it goes on is within the page, or it has come to the
\* end and the page has the end of the feed, what it has passed it has seen.
LEMMA PageTurned ==
  ASSUME BrowseInv, asksFor # Exhausted, NEW more, NEW next \in Nat, Shows(more, next),
         feed \in Feeds \ {"gelbooru", "bookmarks"} => next >= 1,
         excused' = {} => excused = {},
         excused' = {} =>
           \A i \in offered : ~more \/ Behind(i)' => Rank(i) <= Passed + PageSize
  PROVE  BrowseInv'
<1>1. /\ UNCHANGED <<feed, offered, newest, damaged, lasting>>
      /\ seen' = seen \cup Readable
      /\ asksFor' = IF more THEN next ELSE Exhausted
  BY DEF Shows
<1>2. Numbered'
  BY <1>1 DEF Numbered, Exhausted
<1>3. TurnedIsSeen'
  <2> SUFFICES ASSUME excused' = {}, NEW i \in lasting \ damaged,
                      asksFor' = Exhausted \/ Behind(i)'
               PROVE  i \in seen'
    BY <1>1 DEF TurnedIsSeen
  <2>1. i \in offered /\ i \notin damaged
    BY DEF BrowseInv
  <2>2. Rank(i) <= Passed + PageSize
    <3>1. next # Exhausted
      BY DEF Exhausted
    <3> QED
      BY <1>1, <2>1, <3>1
  <2>3. CASE Rank(i) <= Passed
    <3>1. Behind(i)
      BY <2>1, <2>3, CursorCounts DEF Behind
    <3>2. excused = {}
      OBVIOUS
    <3> QED
      BY <1>1, <3>1, <3>2 DEF BrowseInv, TurnedIsSeen
  <2>4. CASE i \in Page
    BY <1>1, <2>1, <2>4 DEF Readable
  <2> QED
    BY <2>1, <2>2, <2>3, <2>4, PageOfFeed
<1> QED
  BY <1>1, <1>2, <1>3 DEF BrowseInv

\* Counting on by one page.
LEMMA PagesCount ==
  ASSUME BrowseInv, asksFor # Exhausted, feed # "eh", UNCHANGED <<feed, offered>>,
         asksFor' = asksFor + (IF feed = "bookmarks" THEN PageSize ELSE 1)
  PROVE  \A i : Behind(i)' => Rank(i) <= Passed + PageSize
<1>1. PageSize \in Nat /\ asksFor \in Int
  BY BrowseBounds DEF BrowseInv, Numbered
<1>2. /\ (asksFor + 1) * PageSize = asksFor * PageSize + PageSize
      /\ asksFor * PageSize = (asksFor - 1) * PageSize + PageSize
  BY <1>1
<1>3. Passed' = Passed + PageSize
  <2>1. CASE feed = "gelbooru"
    <3>1. Passed = asksFor * PageSize /\ Passed' = asksFor' * PageSize /\ asksFor' = asksFor + 1
      BY <2>1 DEF Passed
    <3> QED
      BY <1>2, <3>1
  <2>2. CASE feed = "bookmarks"
    BY <2>2 DEF Passed
  <2>3. CASE feed \notin {"gelbooru", "bookmarks"}
    <3>1. /\ Passed = (asksFor - 1) * PageSize /\ Passed' = (asksFor' - 1) * PageSize
          /\ asksFor' = asksFor + 1
      BY <2>3 DEF Passed
    <3>2. asksFor' - 1 = asksFor
      BY <1>1, <3>1
    <3>3. Passed' = asksFor * PageSize
      BY <3>1, <3>2
    <3> QED
      BY <1>2, <3>1, <3>3
  <2> QED
    BY <2>1, <2>2, <2>3
<1> QED
  BY <1>3, RanksStay DEF Behind

\* A feed that is read in pages.
LEMMA CountedPage ==
  ASSUME BrowseInv, asksFor # Exhausted, feed # "eh", NEW more \in BOOLEAN,
         Shows(more, asksFor + (IF feed = "bookmarks" THEN PageSize ELSE 1)),
         excused' = {} => excused = {},
         excused' = {} /\ ~more => \A i \in offered : Rank(i) <= Passed + PageSize
  PROVE  BrowseInv'
<1> DEFINE next == asksFor + (IF feed = "bookmarks" THEN PageSize ELSE 1)
<1>1. asksFor \in Nat /\ PageSize \in Nat \ {0}
  BY BrowseBounds DEF BrowseInv, Numbered
<1>2. next \in Nat /\ next >= 1
  BY <1>1
<1>3. UNCHANGED <<feed, offered>> /\ (more => asksFor' = next)
  BY DEF Shows
<1>4. ASSUME excused' = {}, NEW i \in offered, ~more \/ Behind(i)'
      PROVE  Rank(i) <= Passed + PageSize
  BY <1>3, <1>4, PagesCount
<1> HIDE DEF next
<1>5. Shows(more, next)
  BY DEF next
<1> QED
  BY <1>2, <1>4, <1>5, PageTurned

LEMMA PageIsLast ==
  ASSUME BrowseInv, asksFor # Exhausted, Page = {}
  PROVE  \A i \in offered : Rank(i) <= Passed + PageSize
<1>1. /\ \A i \in offered : Rank(i) <= Passed /\ Rank(i) \in Nat
      /\ Passed \in Nat /\ PageSize \in Nat
  BY PageOfFeed, BrowseBounds
<1> QED
  BY <1>1

LEMMA BooruPages ==
  ASSUME BrowseInv, SearchBooru \/ SearchGelbooru \/ SearchPaheal
  PROVE  BrowseInv'
<1>1. CASE SearchBooru \/ SearchGelbooru
  <2>1. /\ asksFor # Exhausted /\ feed \notin {"eh", "bookmarks"} /\ UNCHANGED excused
        /\ Shows(ReachedLimit, asksFor + 1)
    BY <1>1 DEF SearchBooru, SearchGelbooru
  <2>2. ReachedLimit \in BOOLEAN
    BY DEF ReachedLimit
  <2>3. ~ReachedLimit => \A i \in offered : Rank(i) <= Passed + PageSize
    BY <2>1, PageOfFeed DEF ReachedLimit
  <2> QED
    BY <2>1, <2>2, <2>3, CountedPage
<1>2. CASE SearchPaheal
  <2> DEFINE full == Cardinality(Readable) = PageSize
  <2>1. /\ asksFor # Exhausted /\ feed \notin {"eh", "bookmarks"}
        /\ Shows(full, asksFor + 1)
        /\ excused' = {} => excused = {} /\ Readable = Page
    BY <1>2 DEF SearchPaheal
  <2>2. full \in BOOLEAN
    OBVIOUS
  <2>3. excused' = {} /\ ~full => \A i \in offered : Rank(i) <= Passed + PageSize
    BY <2>1, PageOfFeed
  <2> HIDE DEF full
  <2> QED
    BY <2>1, <2>2, <2>3, CountedPage
<1> QED
  BY <1>1, <1>2

LEMMA PixivPages ==
  ASSUME BrowseInv, SearchPixiv \/ Ranking \/ Following \/ Bookmarks
  PROVE  BrowseInv'
<1>1. /\ feed # "eh"
      /\ PixivPage(asksFor + (IF feed = "bookmarks" THEN PageSize ELSE 1))
  BY DEF SearchPixiv, Ranking, Following, Bookmarks
<1>2. /\ asksFor # Exhausted
      /\ Shows(GoesOn, asksFor + (IF feed = "bookmarks" THEN PageSize ELSE 1))
      /\ excused' = {} => excused = {} /\ (Readable = {} => Page = {})
  BY <1>1 DEF PixivPage
<1>3. GoesOn \in BOOLEAN
  BY DEF GoesOn
<1>4. excused' = {} /\ ~GoesOn => \A i \in offered : Rank(i) <= Passed + PageSize
  BY <1>2, PageIsLast, PageOfFeed DEF GoesOn
<1> QED
  BY <1>1, <1>2, <1>3, <1>4, CountedPage

LEMMA EhPages ==
  ASSUME BrowseInv, SearchEh
  PROVE  BrowseInv'
<1>1. /\ feed = "eh" /\ asksFor # Exhausted /\ Page # {} /\ UNCHANGED excused
      /\ Shows(Older, NextCursor)
  BY DEF SearchEh, Recognized, Readable
<1>2. /\ IsFiniteSet(offered) /\ offered \subseteq Nat \ {0} /\ PageSize \in Nat
      /\ \A i \in offered : Rank(i) \in Nat
      /\ \A i \in offered, k \in offered : i < k => Rank(k) < Rank(i)
      /\ Passed \in Nat
  BY <1>1, BrowseBounds
<1>3. Page \in SUBSET offered /\ \A i \in Page : Rank(i) <= Passed + PageSize
  BY <1>2 DEF Page
<1>4. NextCursor \in Page
  <2>1. IsFiniteSet(Page) /\ Page \subseteq Nat
    BY <1>2, <1>3, FS_Subset
  <2> QED
    BY <1>1, <2>1, LeastOfFinite DEF NextCursor
<1>5. NextCursor \in Nat /\ NextCursor >= 1
  BY <1>2, <1>3, <1>4
<1>6. ASSUME NEW i \in offered, ~Older \/ Behind(i)' PROVE Rank(i) <= Passed + PageSize
  <2>1. CASE ~Older
    BY <1>1, <2>1, PageOfFeed
  <2>2. CASE Older
    <3>1. asksFor' = NextCursor /\ feed' = "eh"
      BY <1>1, <2>2 DEF Shows
    <3>2. i >= NextCursor
      BY <1>6, <2>2, <3>1 DEF Behind
    <3>3. i = NextCursor \/ Rank(i) < Rank(NextCursor)
      BY <1>2, <1>3, <1>4, <3>2
    <3>4. Rank(NextCursor) <= Passed + PageSize /\ Rank(NextCursor) \in Nat /\ Rank(i) \in Nat
      BY <1>2, <1>3, <1>4
    <3> QED
      BY <1>2, <3>3, <3>4
  <2> QED
    BY <2>1, <2>2
<1> QED
  BY <1>1, <1>5, <1>6, PageTurned

-----------------------------------------------------------------------------
(* The server changes what it lists. *)

LEMMA Posts ==
  ASSUME BrowseInv, PostItem
  PROVE  BrowseInv'
<1>1. /\ asksFor # Exhausted /\ newest' = newest + 1 /\ offered' = offered \cup {newest + 1}
      /\ UNCHANGED <<feed, damaged, asksFor, seen, lasting, excused>>
  BY DEF PostItem
<1>2. newest \in Nat /\ offered \subseteq 1..newest
  BY DEF BrowseInv
<1>3. newest' \in Nat /\ offered' \subseteq 1..newest' /\ lasting' \subseteq offered'
  BY <1>1, <1>2 DEF BrowseInv
<1>4. ASSUME NEW i \in offered, Behind(i)' PROVE Behind(i)
  <2>1. CASE feed = "eh"
    BY <1>1, <1>4, <2>1 DEF Behind
  <2>2. CASE feed # "eh"
    <3>1. Passed' = Passed
      BY <1>1, <2>2 DEF Passed, BrowseInv, Feeds
    <3>2. Rank(i)' <= Passed
      BY <1>1, <1>4, <2>2, <3>1 DEF Behind
    <3>3. /\ IsFiniteSet(AtLeast(offered, i)) /\ offered \subseteq Nat /\ IsFiniteSet(offered)
          /\ Rank(i) \in Nat /\ Passed \in Nat
      BY <1>1, BrowseBounds, RankGrows
    <3>4. Rank(i)' = Rank(i) + 1
      <4>1. newest + 1 \notin AtLeast(offered, i) /\ newest + 1 >= i
        BY <1>2 DEF AtLeast
      <4>2. {j \in offered' : j >= i} = AtLeast(offered, i) \cup {newest + 1}
        BY <1>1, <4>1 DEF AtLeast
      <4>3. Cardinality(AtLeast(offered, i) \cup {newest + 1}) = Cardinality(AtLeast(offered, i)) + 1
        BY <3>3, <4>1, FS_AddElement
      <4>4. Rank(i) = Cardinality(AtLeast(offered, i))
        BY DEF Rank, AtLeast
      <4>5. Rank(i)' = Cardinality({j \in offered' : j >= i})
        BY DEF Rank
      <4> QED
        BY <4>2, <4>3, <4>4, <4>5
    <3>5. Rank(i) <= Passed
      BY <3>2, <3>3, <3>4
    <3> QED
      BY <2>2, <3>5 DEF Behind
  <2> QED
    BY <2>1, <2>2
<1>5. TurnedIsSeen'
  BY <1>1, <1>4 DEF BrowseInv, TurnedIsSeen
<1> QED
  BY <1>1, <1>3, <1>5 DEF BrowseInv, Numbered

LEMMA Removes ==
  ASSUME BrowseInv, NEW k \in offered, RemoveItem(k)
  PROVE  BrowseInv'
<1>1. /\ asksFor # Exhausted /\ offered' = offered \ {k} /\ lasting' = lasting \ {k}
      /\ excused' = {} => excused = {} /\ (feed # "eh" => ~(Rank(k) <= Passed))
      /\ UNCHANGED <<feed, newest, damaged, asksFor, seen>>
  BY DEF RemoveItem
<1>2. ASSUME excused' = {}, NEW i \in lasting', Behind(i)' PROVE Behind(i)
  <2>1. CASE feed = "eh"
    BY <1>1, <1>2, <2>1 DEF Behind
  <2>2. CASE feed # "eh"
    <3>1. Passed' = Passed
      BY <1>1, <2>2 DEF Passed, BrowseInv, Feeds
    <3>2. Rank(i)' <= Passed
      BY <1>1, <1>2, <2>2, <3>1 DEF Behind
    <3>3. i \in offered /\ i # k
      BY <1>1 DEF BrowseInv
    <3>4. /\ IsFiniteSet(AtLeast(offered, i)) /\ offered \subseteq Nat /\ IsFiniteSet(offered)
          /\ Rank(i) \in Nat /\ Rank(k) \in Nat /\ Passed \in Nat
          /\ i < k => Rank(k) < Rank(i)
      BY <1>1, <3>3, BrowseBounds, RankGrows
    <3>5. /\ Rank(i) = Cardinality(AtLeast(offered, i))
          /\ Rank(i)' = Cardinality(AtLeast(offered, i) \ {k})
      <4>1. {j \in offered' : j >= i} = AtLeast(offered, i) \ {k}
        BY <1>1 DEF AtLeast
      <4>2. Rank(i)' = Cardinality({j \in offered' : j >= i})
        BY DEF Rank
      <4>3. Rank(i) = Cardinality(AtLeast(offered, i))
        BY DEF Rank, AtLeast
      <4> QED
        BY <4>1, <4>2, <4>3
    <3>6. CASE i < k
      <4>1. k \in AtLeast(offered, i)
        BY <3>3, <3>4, <3>6 DEF AtLeast
      <4>2. Rank(i)' = Rank(i) - 1
        BY <3>4, <3>5, <4>1, FS_RemoveElement
      <4>3. ~(Rank(k) <= Passed)
        BY <1>1, <1>2, <2>2
      <4> QED
        BY <3>2, <3>4, <3>6, <4>2, <4>3
    <3>7. CASE ~(i < k)
      <4>1. k \notin AtLeast(offered, i)
        BY <3>3, <3>4, <3>7 DEF AtLeast
      <4>2. Rank(i)' = Rank(i)
        BY <3>5, <4>1
      <4> QED
        BY <2>2, <3>2, <4>2 DEF Behind
    <3> QED
      BY <3>6, <3>7
  <2> QED
    BY <2>1, <2>2
<1>3. TurnedIsSeen'
  BY <1>1, <1>2 DEF BrowseInv, TurnedIsSeen
<1> QED
  BY <1>1, <1>3 DEF BrowseInv, Numbered

LEMMA BrowseKeeps == BrowseInv /\ [BrowseNext]_browseVars => BrowseInv'
<1> SUFFICES ASSUME BrowseInv, [BrowseNext]_browseVars PROVE BrowseInv'
  OBVIOUS
<1>1. CASE TurnPage
  BY <1>1, BooruPages, PixivPages, EhPages DEF TurnPage
<1>2. CASE PostItem
  BY <1>2, Posts
<1>3. CASE \E i \in offered : RemoveItem(i)
  BY <1>3, Removes
<1>4. CASE UNCHANGED browseVars
  BY <1>4, RanksStay DEF browseVars, BrowseInv, Numbered, TurnedIsSeen, Behind, Passed
<1> QED
  BY <1>1, <1>2, <1>3, <1>4 DEF BrowseNext

\* A reader who has come to the end of a feed has seen every readable item that was there all
\* the time, for any number of items and any size of page, but for the gaps of next_page and
\* next_offset in provider/ that the model names.
THEOREM FeedsAreRead == BrowseSpec => []NothingIsPassedOver
<1>1. BrowseInv => NothingIsPassedOver
  BY DEF BrowseInv, TurnedIsSeen, NothingIsPassedOver
<1> QED
  BY <1>1, BrowseBegins, BrowseKeeps, PTL DEF BrowseSpec

-----------------------------------------------------------------------------
(* Types of a feed. *)

\* What is damaged was once to be posted, and what the reader has seen was posted and whole.
SeenWasPosted ==
  /\ newest <= MaxItems
  /\ damaged \subseteq 1..MaxItems
  /\ seen \subseteq (1..newest) \ damaged
  /\ excused \subseteq {"second page first", "short page", "barren page", "removed before"}

LEMMA SeenBegins == BrowseInit => SeenWasPosted
<1> SUFFICES ASSUME BrowseInit PROVE SeenWasPosted
  OBVIOUS
<1>1. newest <= MaxItems
  <2>1. MaxItems \in Nat /\ newest \in 0..(MaxItems - 1)
    BY BrowseAssumption DEF BrowseInit
  <2> QED
    BY <2>1
<1> QED
  BY <1>1 DEF BrowseInit, SeenWasPosted

LEMMA SeenKeeps == BrowseInv /\ SeenWasPosted /\ [BrowseNext]_browseVars => SeenWasPosted'
<1> SUFFICES ASSUME BrowseInv, SeenWasPosted, [BrowseNext]_browseVars PROVE SeenWasPosted'
  OBVIOUS
<1>0. newest \in Nat /\ MaxItems \in Nat /\ offered \subseteq 1..newest
  BY BrowseAssumption DEF BrowseInv
<1>1. CASE TurnPage
  <2>1. UNCHANGED <<newest, damaged>> /\ seen' = seen \cup Readable
    BY <1>1 DEF TurnPage, SearchBooru, SearchGelbooru, SearchPaheal, SearchPixiv, Ranking,
                Following, Bookmarks, SearchEh, PixivPage, Shows
  <2>2. excused' \in {excused, excused \cup {"short page"}, excused \cup {"barren page"}}
    BY <1>1 DEF TurnPage, SearchBooru, SearchGelbooru, SearchPaheal, SearchPixiv, Ranking,
                Following, Bookmarks, SearchEh, PixivPage
  <2>3. Readable \subseteq (1..newest) \ damaged
    BY <1>0 DEF Readable, Page
  <2>4. excused' \subseteq {"second page first", "short page", "barren page", "removed before"}
    BY <2>2 DEF SeenWasPosted
  <2> QED
    BY <2>1, <2>3, <2>4 DEF SeenWasPosted
<1>2. CASE PostItem
  <2>1. newest < MaxItems /\ newest' = newest + 1 /\ UNCHANGED <<damaged, seen, excused>>
    BY <1>2 DEF PostItem
  <2>2. newest' <= MaxItems /\ 1..newest \subseteq 1..newest'
    BY <1>0, <2>1
  <2> QED
    BY <2>1, <2>2 DEF SeenWasPosted
<1>3. CASE \E i \in offered : RemoveItem(i)
  <2>1. /\ UNCHANGED <<newest, damaged, seen>>
        /\ excused' \in {excused, excused \cup {"removed before"}}
    BY <1>3 DEF RemoveItem
  <2> QED
    BY <2>1 DEF SeenWasPosted
<1>4. CASE UNCHANGED browseVars
  BY <1>4 DEF browseVars, SeenWasPosted
<1> QED
  BY <1>1, <1>2, <1>3, <1>4 DEF BrowseNext

\* The reader is only ever shown items that were posted and can be read, and the next page it
\* asks for is a page, an offset or a cursor there may be.
THEOREM BrowseTypesHold == BrowseSpec => []BrowseTypeOK
<1>1. BrowseInv /\ SeenWasPosted => BrowseTypeOK
  <2> SUFFICES ASSUME BrowseInv, SeenWasPosted PROVE BrowseTypeOK
    OBVIOUS
  <2>1. newest \in 0..MaxItems
    <3>1. newest \in Nat /\ newest <= MaxItems /\ MaxItems \in Nat
      BY BrowseAssumption DEF BrowseInv, SeenWasPosted
    <3> QED
      BY <3>1
  <2>2. asksFor \in Nat \cup {Exhausted}
    BY DEF BrowseInv, Numbered
  <2> QED
    BY <2>1, <2>2 DEF BrowseInv, SeenWasPosted, BrowseTypeOK
<1> QED
  BY <1>1, BrowseBegins, BrowseKeeps, SeenBegins, SeenKeeps, PTL DEF BrowseSpec

-----------------------------------------------------------------------------
(* The page whose image an operation asks for. *)

\* The thumbnails of the first page are those the server shows, or the layout has changed.
ListedInv ==
  ~skewed /\ at \in {"viewer", "more thumbnails"} =>
    /\ listed = OnPage(0) /\ listed # {}
    /\ at = "more thumbnails" => Target # 0

KeyInv ==
  /\ shown \in Shown /\ asked.kind \in Kinds /\ asked.page \in Nat
  /\ ListedInv /\ KeyIsOfThePage

\* What counting on pages of a fixed size comes to.
LEMMA Division ==
  ASSUME NEW i \in Nat, NEW n \in Nat \ {0}
  PROVE  /\ i \div n \in Nat /\ i % n \in 0..(n - 1)
         /\ i = n * (i \div n) + (i % n)
         /\ i < n <=> i \div n = 0
         /\ i < n => i % n = i
         /\ \A q \in Nat : i \div n = q <=> n * q <= i /\ i < n * q + n
OBVIOUS

\* The k-th of numbers without a gap.
LEMMA NthOfInterval ==
  ASSUME NEW a \in Nat, NEW b \in Int, NEW k \in Nat, k < Cardinality(a..b)
  PROVE  Nth(a..b, k) = a + k
<1>1. Cardinality(a..b) = IF a > b THEN 0 ELSE b - a + 1
  BY FS_Interval
<1>2. a + k \in a..b
  BY <1>1
<1>3. ASSUME NEW i \in a..b
      PROVE  Cardinality({j \in a..b : j < i}) = i - a
  <2>0. a \in Int /\ i \in Int /\ i - 1 \in Int /\ a <= i /\ i <= b
    OBVIOUS
  <2>1. {j \in a..b : j < i} = a..(i - 1)
    BY <2>0
  <2>2. Cardinality(a..(i - 1)) = IF a > i - 1 THEN 0 ELSE (i - 1) - a + 1
    BY <2>0, FS_Interval
  <2>3. Cardinality(a..(i - 1)) = i - a
    BY <2>0, <2>2
  <2> QED
    BY <2>1, <2>3
<1>4. \A i \in a..b : Cardinality({j \in a..b : j < i}) = k <=> i = a + k
  BY <1>3
<1> QED
  BY <1>2, <1>4 DEF Nth

\* A page of thumbnails that are all read.
LEMMA PageOfThumbnails ==
  ASSUME shown \in Shown, NEW p \in Nat
  PROVE  LET first == shown.size * p
             last  == IF first + shown.size <= shown.pages THEN first + shown.size - 1
                                                           ELSE shown.pages - 1
         IN  OnPage(p) = first..last
<1>1. shown.size \in Nat \ {0} /\ shown.pages \in Nat \ {0} /\ MaxPages \in Nat
  BY OperationAssumption DEF Shown
<1>2. PICK size \in Nat \ {0}, first \in Nat : size = shown.size /\ first = size * p
  BY <1>1
<1>3. ASSUME NEW i \in Nat PROVE i \div size = p <=> first <= i /\ i < first + size
  <2>1. i \div size = p <=> size * p <= i /\ i < size * p + size
    BY Division
  <2> QED
    BY <1>2, <2>1
<1>4. \A i \in Nat : i \div shown.size = p <=> first <= i /\ i < first + shown.size
  BY <1>2, <1>3
<1>5. OnPage(p) = {i \in 0..(shown.pages - 1) : first <= i /\ i < first + shown.size}
  BY <1>1, <1>4 DEF OnPage
<1> QED
  BY <1>1, <1>2, <1>5

\* The page that is chosen is the one asked for, wherever it is.
LEMMA ChosenPage ==
  ASSUME shown \in Shown, asked.page \in Nat, OnPage(0) # {}, listed = OnPage(0),
         asked.page % Cardinality(listed) < Cardinality(OnPage(Target))
  PROVE  Nth(OnPage(Target), asked.page % Cardinality(listed)) = asked.page
<1>1. PICK size \in Nat \ {0}, pages \in Nat \ {0}, page \in Nat :
        size = shown.size /\ pages = shown.pages /\ page = asked.page
  BY OperationAssumption DEF Shown
<1>2. PICK count : count = IF size <= pages THEN size ELSE pages
  OBVIOUS
<1>3. count \in Nat \ {0} /\ Cardinality(listed) = count
  <2>1. listed = 0..(count - 1)
    <3>1. size * 0 = 0 /\ 0 \in Nat
      BY <1>1
    <3>2. listed = (size * 0)..(IF size * 0 + size <= pages THEN size * 0 + size - 1
                                                           ELSE pages - 1)
      BY <1>1, <3>1, PageOfThumbnails
    <3>3. listed = 0..(IF size <= pages THEN size - 1 ELSE pages - 1)
      BY <1>1, <3>1, <3>2
    <3> QED
      BY <1>1, <1>2, <3>3
  <2>2. count \in Nat \ {0}
    BY <1>1, <1>2
  <2> QED
    BY <2>1, <2>2, FS_Interval
<1>4. PICK target \in Nat, index \in Nat :
        /\ target = page \div count /\ index = page % count
        /\ page = count * target + index
  <2>1. /\ page \div count \in Nat /\ page % count \in Nat
        /\ page = count * (page \div count) + (page % count)
    BY <1>3
  <2> QED
    BY <2>1
<1>5. target = Target /\ index = asked.page % Cardinality(listed)
  BY <1>1, <1>3, <1>4 DEF Target
<1>6. PICK first \in Nat, last \in Int :
        /\ OnPage(target) = first..last
        /\ first = size * target
        /\ last = IF first + size <= pages THEN first + size - 1 ELSE pages - 1
  <2>1. PICK f \in Nat : f = size * target
    BY <1>1, <1>4
  <2>2. OnPage(target) = f..(IF f + size <= pages THEN f + size - 1 ELSE pages - 1)
    BY <1>1, <1>4, <2>1, PageOfThumbnails
  <2>3. f + size - 1 \in Int /\ pages - 1 \in Int
    BY <1>1, <2>1
  <2> QED
    BY <2>1, <2>2, <2>3
<1>7. index < Cardinality(first..last)
  BY <1>5, <1>6
<1>8. Cardinality(first..last) = IF first > last THEN 0 ELSE last - first + 1
  <2>1. first \in Int /\ last \in Int
    OBVIOUS
  <2> QED
    BY <2>1, FS_Interval
<1>9. page = first + index
  <2>1. CASE size <= pages
    BY <1>2, <1>4, <1>6, <2>1
  <2>2. CASE pages < size
    <3>1. first <= last
      BY <1>7, <1>8
    <3>2. first < size
      BY <1>6, <2>2, <3>1
    <3>3. target = 0
      BY <1>6, <3>2
    <3>4. count * 0 = 0 /\ size * 0 = 0
      BY <1>1, <1>3
    <3>5. page = 0 + index /\ first = 0
      BY <1>4, <1>6, <3>3, <3>4
    <3> QED
      BY <3>5
  <2> QED
    BY <1>1, <2>1, <2>2
<1>10. Nth(first..last, index) = first + index
  BY <1>7, NthOfInterval
<1> QED
  BY <1>1, <1>5, <1>6, <1>9, <1>10

LEMMA KeyBegins == OperationInit => KeyInv
<1> SUFFICES ASSUME OperationInit PROVE KeyInv
  OBVIOUS
<1>1. shown \in Shown /\ asked.kind \in Kinds /\ asked.page \in Nat
  <2>1. shown \in Shown /\ asked \in [kind : Kinds, page : 0..MaxPages]
    BY DEF OperationInit
  <2>2. asked.kind \in Kinds /\ asked.page \in 0..MaxPages
    BY <2>1
  <2> QED
    BY <2>1, <2>2, OperationAssumption
<1>2. ListedInv /\ KeyIsOfThePage
  BY DEF OperationInit, ListedInv, KeyIsOfThePage
<1> QED
  BY <1>1, <1>2 DEF KeyInv

LEMMA KeyKeeps == KeyInv /\ [OperationNext]_operationVars => KeyInv'
<1> SUFFICES ASSUME KeyInv, [OperationNext]_operationVars PROVE KeyInv'
  OBVIOUS
<1>0. shown \in Shown /\ asked.kind \in Kinds /\ asked.page \in Nat /\ ListedInv /\ KeyIsOfThePage
  BY DEF KeyInv
<1>1. CASE ReadFirstThumbnails
  <2>1. UNCHANGED <<shown, asked, chosen>> /\ (skewed => skewed')
    BY <1>1 DEF ReadFirstThumbnails
  <2>2. ~skewed' => listed' = OnPage(0)
    BY <1>1 DEF ReadFirstThumbnails, Read
  <2>3. at' # "more thumbnails" /\ (at' = "viewer" => listed' # {})
    BY <1>1 DEF ReadFirstThumbnails, Report, AwaitNext
  <2>4. ListedInv'
    BY <2>1, <2>2, <2>3 DEF ListedInv, OnPage
  <2> QED
    BY <1>0, <2>1, <2>4 DEF KeyInv, KeyIsOfThePage
<1>2. CASE ReadAllKeys
  BY <1>0, <1>2 DEF ReadAllKeys, Report, AwaitNext, KeyInv, ListedInv, KeyIsOfThePage
<1>3. CASE ReadShowKey
  <2>1. UNCHANGED <<shown, asked, listed, skewed>> /\ at = "viewer"
    BY <1>3 DEF ReadShowKey
  <2>2. CASE Target = 0
    <3>1. Pick(listed, asked.page % Cardinality(listed))
      BY <1>3, <2>2 DEF ReadShowKey
    <3>2. at' \in {"dispatch", "end"}
      BY <3>1 DEF Pick, Report, AwaitNext
    <3>3. chosen' = chosen \/ skewed \/ chosen' = asked.page
      <4>1. CASE ~skewed /\ asked.page % Cardinality(listed) < Cardinality(listed)
        <5>1. listed = OnPage(0) /\ listed # {}
          BY <1>0, <2>1, <4>1 DEF ListedInv
        <5>2. Nth(OnPage(Target), asked.page % Cardinality(listed)) = asked.page
          BY <1>0, <2>2, <4>1, <5>1, ChosenPage
        <5> QED
          BY <2>2, <3>1, <4>1, <5>1, <5>2 DEF Pick
      <4>2. CASE ~(asked.page % Cardinality(listed) < Cardinality(listed))
        BY <3>1, <4>2 DEF Pick
      <4> QED
        BY <4>1, <4>2
    <3> QED
      BY <1>0, <2>1, <3>2, <3>3 DEF KeyInv, ListedInv, KeyIsOfThePage
  <2>3. CASE Target # 0
    <3>1. at' = "more thumbnails" /\ chosen' = chosen
      BY <1>3, <2>3 DEF ReadShowKey, AwaitNext
    <3>2. ListedInv'
      BY <1>0, <2>1, <2>3, <3>1 DEF ListedInv, OnPage, Target
    <3> QED
      BY <1>0, <2>1, <3>1, <3>2 DEF KeyInv, KeyIsOfThePage
  <2> QED
    BY <2>2, <2>3
<1>4. CASE ReadMoreThumbnails
  <2>1. UNCHANGED <<shown, asked, listed>> /\ at = "more thumbnails"
    BY <1>4 DEF ReadMoreThumbnails
  <2>2. PICK p : /\ Pick(Read(p), asked.page % Cardinality(listed))
                 /\ skewed' = (skewed \/ p # Target \/ OnPage(p) \cap shown.unread # {})
    BY <1>4 DEF ReadMoreThumbnails
  <2>3. at' \in {"dispatch", "end"}
    BY <2>2 DEF Pick, Report, AwaitNext
  <2>4. skewed => skewed'
    BY <2>2
  <2>5. chosen' = chosen \/ skewed' \/ chosen' = asked.page
    <3>1. CASE ~skewed' /\ asked.page % Cardinality(listed) < Cardinality(Read(p))
      <4>1. p = Target /\ Read(p) = OnPage(Target)
        BY <2>2, <3>1 DEF Read
      <4>2. listed = OnPage(0) /\ listed # {}
        BY <1>0, <2>1, <2>4, <3>1 DEF ListedInv
      <4>3. Nth(OnPage(Target), asked.page % Cardinality(listed)) = asked.page
        BY <1>0, <3>1, <4>1, <4>2, ChosenPage
      <4> QED
        BY <2>2, <3>1, <4>1, <4>3 DEF Pick
    <3>2. CASE ~(asked.page % Cardinality(listed) < Cardinality(Read(p)))
      BY <2>2, <3>2 DEF Pick
    <3> QED
      BY <3>1, <3>2
  <2> QED
    BY <1>0, <2>1, <2>3, <2>4, <2>5 DEF KeyInv, ListedInv, KeyIsOfThePage
<1>5. CASE Relay
  BY <1>0, <1>5 DEF Relay, KeyInv, ListedInv, KeyIsOfThePage
<1>6. CASE StartWorker \/ ReadDetails \/ Dispatch \/ FinishWorker \/ WorkerFails
           \/ CancelOperation \/ MissDeadline \/ UNCHANGED operationVars
  <2>1. UNCHANGED <<shown, asked, listed, chosen, skewed>>
    BY <1>6 DEF StartWorker, ReadDetails, Dispatch, FinishWorker, WorkerFails, CancelOperation,
                MissDeadline, operationVars
  <2>2. at' = at \/ at' \notin {"viewer", "more thumbnails"}
    <3>1. CASE StartWorker
      <4>1. Beginning(asked.kind) \notin {"viewer", "more thumbnails"}
        BY <1>0 DEF Beginning, Kinds
      <4> QED
        BY <3>1, <4>1 DEF StartWorker, AwaitNext
    <3> QED
      BY <1>6, <3>1 DEF ReadDetails, Dispatch, FinishWorker, WorkerFails, CancelOperation,
                        MissDeadline, operationVars, Report, AwaitNext
  <2>3. ListedInv'
    BY <1>0, <2>1, <2>2 DEF ListedInv, OnPage, Target
  <2> QED
    BY <1>0, <2>1, <2>3 DEF KeyInv, KeyIsOfThePage
<1> QED
  BY <1>1, <1>2, <1>3, <1>4, <1>5, <1>6 DEF OperationNext

\* The image key that is sent belongs to the page asked for, for galleries and pages of
\* thumbnails of any size, as long as the server shows all of them alike.
THEOREM KeysFitPages == OperationSpec => []KeyIsOfThePage
<1>1. KeyInv => KeyIsOfThePage
  BY DEF KeyInv
<1> QED
  BY <1>1, KeyBegins, KeyKeeps, PTL DEF OperationSpec

-----------------------------------------------------------------------------
(* Types of an operation. *)

\* With the types: thumbnails are counted only where some were read.
OperationInv ==
  OperationTypeOK /\ (at \in {"viewer", "more thumbnails"} => listed # {})

\* In a finite set of numbers, each index below its size is that of an element.
LEMMA NthIsThere ==
  ASSUME NEW S, IsFiniteSet(S), S \subseteq Nat, NEW index \in Nat, index < Cardinality(S)
  PROVE  Nth(S, index) \in S
<1>1. PICK n \in Nat : n = Cardinality(S)
  BY FS_CardinalityType
<1>2. PICK r \in Nat \ {0} : r = n - index
  BY <1>1
<1>3. PICK i \in S : Cardinality(AtLeast(S, i)) = r
  <2>1. r \in Nat /\ r <= Cardinality(S) /\ r <= r + 1 /\ r - r + 1 = 1
    BY <1>1, <1>2
  <2>2. Cardinality({i \in S : Cardinality(AtLeast(S, i)) \in r..r}) = 1
    BY <2>1, RanksAreTaken
  <2>3. {i \in S : Cardinality(AtLeast(S, i)) \in r..r} # {}
    BY <2>2, FS_EmptySet
  <2>4. PICK i \in S : Cardinality(AtLeast(S, i)) \in r..r
    BY <2>3
  <2>5. r..r = {r}
    BY <2>1
  <2> QED
    BY <2>4, <2>5
<1>4. Cardinality({j \in S : j < i}) = index
  <2>1. {j \in S : j < i} = S \ AtLeast(S, i) /\ S \cap AtLeast(S, i) = AtLeast(S, i)
    <3>1. i \in Nat /\ \A j \in S : j \in Nat
      OBVIOUS
    <3>2. \A j \in S : j < i <=> ~(j >= i)
      BY <3>1
    <3> QED
      BY <3>2 DEF AtLeast
  <2>2. Cardinality(S \ AtLeast(S, i)) = Cardinality(S) - Cardinality(S \cap AtLeast(S, i))
    BY RankGrows, FS_Difference
  <2>3. Cardinality({j \in S : j < i}) = n - r
    BY <1>1, <1>3, <2>1, <2>2
  <2>4. n - r = index
    BY <1>1, <1>2
  <2> QED
    BY <2>3, <2>4
<1> QED
  BY <1>3, <1>4 DEF Nth

LEMMA PagesOfGallery ==
  ASSUME shown \in Shown, NEW p
  PROVE  Read(p) \subseteq 0..(MaxPages - 1)
<1>1. shown.pages \in 1..MaxPages /\ MaxPages \in Nat
  BY OperationAssumption DEF Shown
<1> QED
  BY <1>1 DEF Read, OnPage

\* The page that is picked is one of a gallery's.
LEMMA PickedPage ==
  ASSUME OperationTypeOK, NEW S \in SUBSET (0..(MaxPages - 1)), NEW index \in Nat, Pick(S, index)
  PROVE  /\ chosen' \in 0..MaxPages
         /\ at' \in {"dispatch", "end"} /\ outcome' \in {outcome, "failed"}
<1>1. MaxPages \in Nat
  BY OperationAssumption
<1>2. CASE index < Cardinality(S)
  <2>1. IsFiniteSet(0..(MaxPages - 1))
    <3>1. 0 \in Int /\ MaxPages - 1 \in Int
      BY <1>1
    <3> QED
      BY <3>1, FS_Interval
  <2>2. IsFiniteSet(S) /\ S \subseteq Nat
    <3>1. 0..(MaxPages - 1) \subseteq Nat
      BY <1>1
    <3> QED
      BY <2>1, <3>1, FS_Subset
  <2>3. Nth(S, index) \in S
    BY <1>2, <2>2, NthIsThere
  <2>4. Nth(S, index) \in 0..MaxPages
    <3>1. 0..(MaxPages - 1) \subseteq 0..MaxPages
      BY <1>1
    <3> QED
      BY <2>3, <3>1
  <2> QED
    BY <1>2, <2>4 DEF Pick, AwaitNext
<1>3. CASE ~(index < Cardinality(S))
  BY <1>3 DEF Pick, Report, OperationTypeOK
<1> QED
  BY <1>2, <1>3

LEMMA OperationBegins == OperationInit => OperationInv
<1> SUFFICES ASSUME OperationInit PROVE OperationInv
  OBVIOUS
<1>1. MaxPages \in Nat /\ MaxRelays \in Nat
  BY OperationAssumption
<1>2. 0 \in 0..MaxRelays /\ NoPage \in 0..MaxPages
  BY <1>1 DEF NoPage
<1> QED
  BY <1>2 DEF OperationInit, OperationInv, OperationTypeOK

LEMMA OperationKeeps == OperationInv /\ [OperationNext]_operationVars => OperationInv'
<1> SUFFICES ASSUME OperationInv, [OperationNext]_operationVars PROVE OperationInv'
  OBVIOUS
<1>0. OperationTypeOK /\ MaxPages \in Nat /\ MaxRelays \in Nat
  BY OperationAssumption DEF OperationInv
<1>1. CASE ReadFirstThumbnails
  <2>1. listed' = Read(0) /\ Read(0) \subseteq 0..(MaxPages - 1) /\ skewed' \in BOOLEAN
    BY <1>0, <1>1, PagesOfGallery DEF ReadFirstThumbnails, OperationTypeOK
  <2>2. UNCHANGED <<shown, asked, chosen, aborted, relays>>
    BY <1>1 DEF ReadFirstThumbnails
  <2>3. /\ at' \in {"viewer", "end"} /\ outcome' \in {outcome, "failed"}
        /\ at' = "viewer" => listed' # {}
    BY <1>1 DEF ReadFirstThumbnails, Report, AwaitNext
  <2> QED
    BY <1>0, <2>1, <2>2, <2>3 DEF OperationInv, OperationTypeOK
<1>2. CASE ReadAllKeys
  <2>1. chosen' \in {chosen, asked.page} /\ asked.page \in 0..MaxPages
    BY <1>0, <1>2 DEF ReadAllKeys, OperationTypeOK
  <2>2. at' \in {"dispatch", "end"} /\ outcome' \in {outcome, "failed"}
    BY <1>2 DEF ReadAllKeys, Report, AwaitNext
  <2> QED
    BY <1>0, <1>2, <2>1, <2>2 DEF ReadAllKeys, OperationInv, OperationTypeOK
<1>3. CASE ReadShowKey \/ ReadMoreThumbnails
  <2>1. /\ UNCHANGED <<shown, asked, listed, aborted, relays>> /\ skewed' \in BOOLEAN
        /\ listed # {} /\ listed \subseteq 0..(MaxPages - 1) /\ asked.page \in Nat
    <3>1. UNCHANGED <<shown, asked, listed, aborted, relays>>
      BY <1>3 DEF ReadShowKey, ReadMoreThumbnails
    <3>2. at \in {"viewer", "more thumbnails"}
      BY <1>3 DEF ReadShowKey, ReadMoreThumbnails
    <3>3. skewed' \in BOOLEAN
      BY <1>0, <1>3 DEF ReadShowKey, ReadMoreThumbnails, OperationTypeOK
    <3>4. asked.page \in Nat
      <4>1. asked.page \in 0..MaxPages
        BY <1>0 DEF OperationTypeOK
      <4> QED
        BY <1>0, <4>1
    <3> QED
      BY <1>0, <3>1, <3>2, <3>3, <3>4 DEF OperationInv, OperationTypeOK
  <2>2. asked.page % Cardinality(listed) \in Nat
    <3>1. 0 \in Int /\ MaxPages - 1 \in Int
      BY <1>0
    <3>2. IsFiniteSet(listed)
      BY <2>1, <3>1, FS_Interval, FS_Subset
    <3>3. Cardinality(listed) \in Nat \ {0}
      BY <2>1, <3>2, FS_CardinalityType, FS_EmptySet
    <3> QED
      BY <2>1, <3>3
  <2>3. CASE \E p : Pick(Read(p), asked.page % Cardinality(listed))
    <3>1. PICK p : Pick(Read(p), asked.page % Cardinality(listed))
      BY <2>3
    <3>2. Read(p) \subseteq 0..(MaxPages - 1)
      BY <1>0, PagesOfGallery DEF OperationTypeOK
    <3>3. /\ chosen' \in 0..MaxPages
          /\ at' \in {"dispatch", "end"} /\ outcome' \in {outcome, "failed"}
      BY <1>0, <2>2, <3>1, <3>2, PickedPage
    <3> QED
      BY <1>0, <2>1, <3>3 DEF OperationInv, OperationTypeOK
  <2>4. CASE Pick(listed, asked.page % Cardinality(listed))
    <3>1. /\ chosen' \in 0..MaxPages
          /\ at' \in {"dispatch", "end"} /\ outcome' \in {outcome, "failed"}
      BY <1>0, <2>1, <2>2, <2>4, PickedPage
    <3> QED
      BY <1>0, <2>1, <3>1 DEF OperationInv, OperationTypeOK
  <2>5. CASE AwaitNext("more thumbnails") /\ UNCHANGED chosen
    BY <1>0, <2>1, <2>5 DEF AwaitNext, OperationInv, OperationTypeOK
  <2> QED
    BY <1>3, <2>3, <2>4, <2>5 DEF ReadShowKey, ReadMoreThumbnails
<1>4. CASE Relay
  <2>1. shown' \in Shown /\ relays' \in 0..MaxRelays /\ skewed' \in BOOLEAN
    <3>1. relays \in 0..MaxRelays /\ relays < MaxRelays /\ relays' = relays + 1
      BY <1>0, <1>4 DEF Relay, OperationTypeOK
    <3>2. relays' \in 0..MaxRelays
      BY <1>0, <3>1
    <3>3. shown' \in Shown
      BY <1>4 DEF Relay
    <3>4. skewed' \in BOOLEAN
      BY <1>4 DEF Relay
    <3> QED
      BY <3>2, <3>3, <3>4
  <2> QED
    BY <1>0, <1>4, <2>1 DEF Relay, OperationInv, OperationTypeOK
<1>5. CASE StartWorker
  <2>1. Beginning(asked.kind) \in {"sleep", "details", "first thumbnails", "image"}
    BY <1>0 DEF Beginning, Kinds, OperationTypeOK
  <2> QED
    BY <1>0, <1>5, <2>1 DEF StartWorker, AwaitNext, OperationInv, OperationTypeOK
<1>6. CASE ReadDetails \/ Dispatch \/ FinishWorker \/ WorkerFails \/ MissDeadline
  <2>1. UNCHANGED <<shown, asked, listed, chosen, aborted, relays, skewed>>
    BY <1>6 DEF ReadDetails, Dispatch, FinishWorker, WorkerFails, MissDeadline
  <2>2. /\ at' \in {"image", "end"}
        /\ outcome' \in {outcome, "completed", "cancelled", "failed"}
    BY <1>6 DEF ReadDetails, Dispatch, FinishWorker, WorkerFails, MissDeadline, Report, AwaitNext
  <2> QED
    BY <1>0, <2>1, <2>2 DEF OperationInv, OperationTypeOK
<1>7. CASE CancelOperation \/ UNCHANGED operationVars
  BY <1>7 DEF CancelOperation, operationVars, OperationInv, OperationTypeOK
<1> QED
  BY <1>1, <1>2, <1>3, <1>4, <1>5, <1>6, <1>7 DEF OperationNext

\* A worker of an operation only ever has a page that a gallery may have, of whichever page
\* of thumbnails it picks one, for any number of pages.
THEOREM OperationTypesHold == OperationSpec => []OperationTypeOK
<1>1. OperationInv => OperationTypeOK
  BY DEF OperationInv
<1> QED
  BY <1>1, OperationBegins, OperationKeeps, PTL DEF OperationSpec
=============================================================================

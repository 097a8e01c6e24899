------------------------ MODULE OperationServiceProofs ------------------------
(***************************************************************************)
(* The safety of the operation actor and of its event hub, for any number  *)
(* of operations, slots, queue places, retained operations and             *)
(* subscribers.  The queue operations come first, then the hub, whose      *)
(* lemmas hold for any bodies a handler publishes, then the actor.         *)
(*                                                                         *)
(* Inv is the inductive invariant.  Its parts need one another: the slot   *)
(* count is only a count of running operations as long as what retention   *)
(* forgets is settled (RetentionConsistent); admission fills the queue     *)
(* only as far as no slot is free (QueueConsistent); and a subscriber's    *)
(* next event has a type only where its window is numbered without holes   *)
(* (StreamsContiguous).  RunningIsBacked needs a part of its own, Backed,  *)
(* for one operation at a time, and so does JournalFollowsOperations       *)
(* (Told).                                                                 *)
(***************************************************************************)
EXTENDS OperationService, FiniteSetTheorems, SequenceTheorems, TLAPS

(* What the queue operations return, for queues without duplicates. *)

\* push_back() of a new element onto a queue of distinct elements.
LEMMA PushedQueue ==
  ASSUME NEW S, NEW q \in Seq(S), Distinct(q), NEW x \in S, x \notin Range(q)
  PROVE  /\ Append(q, x) \in Seq(S)
         /\ Distinct(Append(q, x))
         /\ Range(Append(q, x)) = Range(q) \cup {x}
         /\ Len(Append(q, x)) = Len(q) + 1
         /\ Append(q, x) # <<>>
<1> DEFINE p == Append(q, x)
<1>1. /\ Len(q) \in Nat /\ DOMAIN q = 1..Len(q)
      /\ p \in Seq(S) /\ p # <<>> /\ Len(p) = Len(q) + 1
      /\ \A i \in 1..Len(q) : p[i] = q[i]
      /\ p[Len(q) + 1] = x
  BY LenProperties, AppendProperties
<1>2. DOMAIN p = 1..(Len(q) + 1)
  BY <1>1, LenProperties
<1> HIDE DEF p
<1>3. \A i \in 1..Len(q) : p[i] \in Range(q)
  BY <1>1 DEF Range
<1>4. Distinct(p)
  <2> SUFFICES ASSUME NEW i \in 1..(Len(q) + 1), NEW j \in 1..(Len(q) + 1),
                      p[i] = p[j]
               PROVE  i = j
    BY <1>2 DEF Distinct
  <2>1. i \in 1..Len(q) <=> j \in 1..Len(q)
    BY <1>1, <1>3
  <2> QED
    BY <2>1, <1>1 DEF Distinct
<1>5. Range(p) = Range(q) \cup {x}
  BY <1>1, <1>2 DEF Range
<1> QED
  BY <1>1, <1>4, <1>5 DEF p

\* pop_front() of a non-empty queue of distinct elements.
LEMMA PoppedQueue ==
  ASSUME NEW S, NEW q \in Seq(S), Distinct(q), q # <<>>
  PROVE  /\ Head(q) \in S
         /\ Head(q) \in Range(q)
         /\ Tail(q) \in Seq(S)
         /\ Distinct(Tail(q))
         /\ Range(Tail(q)) = Range(q) \ {Head(q)}
         /\ Len(q) \in Nat \ {0}
         /\ Len(Tail(q)) = Len(q) - 1
<1> DEFINE p == Tail(q)
<1>1. /\ Len(q) \in Nat \ {0} /\ DOMAIN q = 1..Len(q)
      /\ Head(q) = q[1] /\ Head(q) \in S
      /\ p \in Seq(S) /\ Len(p) = Len(q) - 1
      /\ \A i \in 1..Len(p) : p[i] = q[i + 1]
  BY EmptySeq, LenProperties, HeadTailProperties
<1>2. DOMAIN p = 1..(Len(q) - 1)
  BY <1>1, LenProperties
<1> HIDE DEF p
<1>3. Distinct(p)
  <2> SUFFICES ASSUME NEW i \in 1..(Len(q) - 1), NEW j \in 1..(Len(q) - 1),
                      p[i] = p[j]
               PROVE  i = j
    BY <1>2 DEF Distinct
  <2>1. q[i + 1] = q[j + 1] /\ i + 1 \in DOMAIN q /\ j + 1 \in DOMAIN q
    BY <1>1
  <2>2. i + 1 = j + 1
    BY <2>1 DEF Distinct
  <2> QED
    BY <2>2
<1>4. Range(p) \subseteq Range(q) \ {Head(q)}
  <2> SUFFICES ASSUME NEW i \in 1..(Len(q) - 1)
               PROVE  p[i] \in Range(q) /\ p[i] # Head(q)
    BY <1>2 DEF Range
  <2>1. p[i] = q[i + 1] /\ i + 1 \in DOMAIN q /\ 1 \in DOMAIN q /\ i + 1 # 1
    BY <1>1
  <2> QED
    BY <2>1, <1>1 DEF Range, Distinct
<1>5. Range(q) \ {Head(q)} \subseteq Range(p)
  <2> SUFFICES ASSUME NEW i \in 1..Len(q), q[i] # Head(q)
               PROVE  q[i] \in Range(p)
    BY <1>1 DEF Range
  <2>1. i - 1 \in 1..(Len(q) - 1) /\ p[i - 1] = q[i]
    BY <1>1
  <2> QED
    BY <2>1, <1>2 DEF Range
<1>6. Head(q) \in Range(q)
  BY <1>1 DEF Range
<1> QED
  BY <1>1, <1>3, <1>4, <1>5, <1>6 DEF p

\* retain() of everything but one element of a queue of distinct elements.
LEMMA RetainedQueue ==
  ASSUME NEW S, NEW q \in Seq(S), Distinct(q), NEW x \in Range(q)
  PROVE  /\ Without(q, x) \in Seq(S)
         /\ Distinct(Without(q, x))
         /\ Range(Without(q, x)) = Range(q) \ {x}
         /\ Len(q) \in Nat \ {0}
         /\ Len(Without(q, x)) = Len(q) - 1
<1> DEFINE at == CHOOSE i \in DOMAIN q : q[i] = x
<1> DEFINE p == [i \in 1..(Len(q) - 1) |-> IF i < at THEN q[i] ELSE q[i + 1]]
<1>1. Len(q) \in Nat /\ DOMAIN q = 1..Len(q)
  BY LenProperties
<1>2. at \in 1..Len(q) /\ q[at] = x
  BY <1>1 DEF Range
<1>3. Len(q) \in Nat \ {0}
  BY <1>1, <1>2
<1>4. Without(q, x) = p
  BY DEF Without
<1> HIDE DEF at
<1>5. \A i \in 1..(Len(q) - 1) : (IF i < at THEN q[i] ELSE q[i + 1]) \in S
  BY <1>2, <1>3, ElementOfSeq
<1>6. /\ p \in Seq(S) /\ Len(p) = Len(q) - 1 /\ DOMAIN p = 1..(Len(q) - 1)
      /\ \A i \in 1..(Len(q) - 1) : p[i] = IF i < at THEN q[i] ELSE q[i + 1]
  BY <1>3, <1>5
<1> HIDE DEF p
<1>7. Distinct(p)
  <2> SUFFICES ASSUME NEW i \in 1..(Len(q) - 1), NEW j \in 1..(Len(q) - 1),
                      p[i] = p[j]
               PROVE  i = j
    BY <1>6 DEF Distinct
  <2> DEFINE source(k) == IF k < at THEN k ELSE k + 1
  <2>1. /\ source(i) \in DOMAIN q /\ source(j) \in DOMAIN q
        /\ q[source(i)] = q[source(j)]
    BY <1>1, <1>2, <1>6
  <2>2. source(i) = source(j)
    <3> HIDE DEF source
    <3> QED
      BY <2>1 DEF Distinct
  <2> QED
    BY <2>2, <1>2
<1>8. Range(p) \subseteq Range(q) \ {x}
  <2> SUFFICES ASSUME NEW i \in 1..(Len(q) - 1)
               PROVE  p[i] \in Range(q) /\ p[i] # x
    BY <1>6 DEF Range
  <2>1. CASE i < at
    <3>1. p[i] = q[i] /\ i \in DOMAIN q /\ i # at
      BY <2>1, <1>1, <1>2, <1>6
    <3> QED
      BY <3>1, <1>1, <1>2 DEF Range, Distinct
  <2>2. CASE ~(i < at)
    <3>1. p[i] = q[i + 1] /\ i + 1 \in DOMAIN q /\ i + 1 # at
      BY <2>2, <1>1, <1>2, <1>6
    <3> QED
      BY <3>1, <1>1, <1>2 DEF Range, Distinct
  <2> QED
    BY <2>1, <2>2
<1>9. Range(q) \ {x} \subseteq Range(p)
  <2> SUFFICES ASSUME NEW i \in 1..Len(q), q[i] # x
               PROVE  q[i] \in Range(p)
    BY <1>1 DEF Range
  <2>1. CASE i < at
    <3>1. i \in 1..(Len(q) - 1) /\ p[i] = q[i]
      BY <2>1, <1>2, <1>3, <1>6
    <3> QED
      BY <3>1, <1>6 DEF Range
  <2>2. CASE ~(i < at)
    <3>1. i # at
      BY <1>2
    <3>2. i - 1 \in 1..(Len(q) - 1) /\ ~(i - 1 < at) /\ (i - 1) + 1 = i
      BY <2>2, <3>1, <1>2, <1>3
    <3>3. p[i - 1] = q[i]
      BY <3>2, <1>6
    <3> QED
      BY <3>2, <3>3, <1>6 DEF Range
  <2> QED
    BY <2>1, <2>2
<1> QED
  BY <1>3, <1>4, <1>6, <1>7, <1>8, <1>9

-----------------------------------------------------------------------------
(* What the hub does. *)

\* The youngest elements of a sequence are the tail of it that fits, element by
\* element; VecDeque eviction in EventHub::push and in the broadcast channel.
LEMMA YoungestProperties ==
  ASSUME NEW S, NEW seq \in Seq(S), NEW n \in Nat \ {0}
  PROVE  /\ Youngest(seq, n) \in Seq(S)
         /\ Len(Youngest(seq, n)) = IF Len(seq) <= n THEN Len(seq) ELSE n
         /\ \A i \in 1..Len(Youngest(seq, n)) :
              Youngest(seq, n)[i] = seq[Len(seq) - Len(Youngest(seq, n)) + i]
<1>1. Len(seq) \in Nat
  BY LenProperties
<1>2. CASE Len(seq) <= n
  BY <1>1, <1>2 DEF Youngest
<1>3. CASE ~(Len(seq) <= n)
  <2>1. \A i \in (Len(seq) - n + 1)..Len(seq) : seq[i] \in S
    BY <1>1, <1>3, ElementOfSeq
  <2>2. /\ SubSeq(seq, Len(seq) - n + 1, Len(seq)) \in Seq(S)
        /\ Len(SubSeq(seq, Len(seq) - n + 1, Len(seq))) = n
        /\ \A i \in 1..n : SubSeq(seq, Len(seq) - n + 1, Len(seq))[i]
                             = seq[Len(seq) - n + i]
    <3> DEFINE m == Len(seq) - n + 1
    <3>1. m \in Int /\ Len(seq) \in Int /\ m <= Len(seq)
      BY <1>1, <1>3
    <3>2. /\ SubSeq(seq, m, Len(seq)) \in Seq(S)
          /\ Len(SubSeq(seq, m, Len(seq)))
               = IF m <= Len(seq) THEN Len(seq) - m + 1 ELSE 0
          /\ \A i \in 1..(Len(seq) - m + 1) :
               SubSeq(seq, m, Len(seq))[i] = seq[m + i - 1]
      BY <3>1, <2>1, SubSeqProperties
    <3> QED
      BY <3>1, <3>2, <1>1
  <2> QED
    BY <2>2, <1>1, <1>3 DEF Youngest
<1> QED
  BY <1>2, <1>3

\* Publishing keeps a window contiguous: the numbered bodies continue it, and
\* dropping its oldest events leaves a shorter contiguous window.
LEMMA PublishedWindow ==
  ASSUME NEW Bodies, NEW window \in Seq(HubEvent(Bodies)), NEW n \in Nat \ {0},
         EndsBefore(window, n), NEW bodies \in Seq(Bodies), NEW size \in Nat \ {0}
  PROVE  LET numbered == [i \in 1..Len(bodies) |->
                            [sequence |-> n + i - 1, body |-> bodies[i]]]
             published == Youngest(window \o numbered, size)
         IN  /\ published \in Seq(HubEvent(Bodies))
             /\ EndsBefore(published, n + Len(bodies))
             /\ window # <<>> \/ bodies # <<>> => published # <<>>
<1> DEFINE numbered == [i \in 1..Len(bodies) |->
                          [sequence |-> n + i - 1, body |-> bodies[i]]]
<1> DEFINE joined == window \o numbered
<1> DEFINE published == Youngest(joined, size)
<1>1. /\ Len(bodies) \in Nat /\ Len(window) \in Nat
      /\ DOMAIN window = 1..Len(window)
  BY LenProperties
<1>2. \A i \in 1..Len(bodies) :
        [sequence |-> n + i - 1, body |-> bodies[i]] \in HubEvent(Bodies)
  BY <1>1, ElementOfSeq DEF HubEvent
<1>3. numbered \in Seq(HubEvent(Bodies)) /\ Len(numbered) = Len(bodies)
  BY <1>1, <1>2
<1>4. /\ joined \in Seq(HubEvent(Bodies))
      /\ Len(joined) = Len(window) + Len(bodies)
      /\ \A i \in 1..Len(joined) :
           joined[i] = IF i <= Len(window) THEN window[i]
                                           ELSE numbered[i - Len(window)]
  BY <1>1, <1>3, ConcatProperties
<1>5. \A i \in 1..Len(joined) : joined[i].sequence = n - Len(window) + i - 1
  <2> TAKE i \in 1..Len(joined)
  <2>1. CASE i <= Len(window)
    <3>1. joined[i] = window[i]
      BY <2>1, <1>4
    <3>2. i \in DOMAIN window
      BY <2>1, <1>1, <1>4
    <3> HIDE DEF joined, numbered
    <3> QED
      BY <3>1, <3>2 DEF EndsBefore
  <2>2. CASE ~(i <= Len(window))
    <3>1. i - Len(window) \in 1..Len(bodies)
      BY <2>2, <1>1, <1>4
    <3>2. joined[i] = numbered[i - Len(window)]
      BY <2>2, <1>4
    <3>3. numbered[i - Len(window)].sequence = n + (i - Len(window)) - 1
      BY <3>1
    <3>4. i \in Nat /\ n \in Nat
      BY <1>1, <1>4
    <3> HIDE DEF joined, numbered
    <3>5. n + (i - Len(window)) - 1 = n - Len(window) + i - 1
      BY <3>4, <1>1
    <3> QED
      BY <3>2, <3>3, <3>5
  <2> QED
    BY <2>1, <2>2
<1>6. /\ published \in Seq(HubEvent(Bodies))
      /\ Len(published) = IF Len(joined) <= size THEN Len(joined) ELSE size
      /\ \A i \in 1..Len(published) :
           published[i] = joined[Len(joined) - Len(published) + i]
  <2> HIDE DEF joined
  <2>1. joined \in Seq(HubEvent(Bodies))
    BY <1>4
  <2> QED
    BY <2>1, YoungestProperties
<1>7. DOMAIN published = 1..Len(published) /\ Len(published) \in Nat
  BY <1>6, LenProperties
<1>8. Len(published) < n + Len(bodies)
  BY <1>1, <1>4, <1>6 DEF EndsBefore
<1>9. \A i \in 1..Len(published) :
        published[i].sequence = (n + Len(bodies)) - Len(published) + i - 1
  <2> HIDE DEF published, joined
  <2> TAKE i \in 1..Len(published)
  <2>1. Len(joined) - Len(published) + i \in 1..Len(joined)
    BY <1>1, <1>4, <1>6, <1>7
  <2>2. published[i].sequence
          = n - Len(window) + (Len(joined) - Len(published) + i) - 1
    BY <2>1, <1>5, <1>6
  <2> QED
    BY <2>2, <1>1, <1>4, <1>7
<1>10. window # <<>> \/ bodies # <<>> => published # <<>>
  <2> HIDE DEF published, joined, numbered
  <2>1. window # <<>> \/ bodies # <<>> => Len(joined) > 0
    BY <1>1, <1>4, EmptySeq
  <2> QED
    BY <2>1, <1>1, <1>4, <1>6, EmptySeq
<1> QED
  BY <1>6, <1>7, <1>8, <1>9, <1>10 DEF EndsBefore

\* The oldest event of a contiguous window, and the window without it.
LEMMA WindowHead ==
  ASSUME NEW Bodies, NEW window \in Seq(HubEvent(Bodies)), NEW n \in Nat,
         EndsBefore(window, n), window # <<>>
  PROVE  /\ Len(window) \in Nat /\ Len(window) <= n
         /\ Head(window).sequence \in Nat
         /\ Head(window).sequence = n - Len(window)
         /\ Tail(window) \in Seq(HubEvent(Bodies))
         /\ Len(Tail(window)) = Len(window) - 1
         /\ EndsBefore(Tail(window), n)
<1>1. /\ Len(window) \in Nat \ {0} /\ DOMAIN window = 1..Len(window)
      /\ Len(window) < n
  BY EmptySeq, LenProperties DEF EndsBefore
<1>2. /\ Tail(window) \in Seq(HubEvent(Bodies))
      /\ Len(Tail(window)) = Len(window) - 1
      /\ DOMAIN Tail(window) = 1..Len(Tail(window))
      /\ \A i \in 1..Len(Tail(window)) : Tail(window)[i] = window[i + 1]
  BY HeadTailProperties, LenProperties
<1>3. Head(window) = window[1]
  BY <1>1
<1>4. \A i \in 1..Len(window) : window[i].sequence = n - Len(window) + i - 1
  BY <1>1 DEF EndsBefore
<1>5. Head(window).sequence = n - Len(window)
  BY <1>1, <1>3, <1>4
<1>6. EndsBefore(Tail(window), n)
  <2>1. Len(Tail(window)) < n
    BY <1>1, <1>2
  <2>2. \A i \in 1..Len(Tail(window)) :
          Tail(window)[i].sequence = n - Len(Tail(window)) + i - 1
    BY <1>1, <1>2, <1>4
  <2> QED
    BY <1>2, <2>1, <2>2 DEF EndsBefore
<1> QED
  BY <1>1, <1>2, <1>5, <1>6

\* What is left of a contiguous window when its k oldest events are skipped.
LEMMA WindowSuffix ==
  ASSUME NEW Bodies, NEW window \in Seq(HubEvent(Bodies)), NEW n \in Nat,
         EndsBefore(window, n), NEW k \in 0..Len(window)
  PROVE  LET suffix == SubSeq(window, k + 1, Len(window))
         IN  /\ suffix \in Seq(HubEvent(Bodies))
             /\ Len(suffix) = Len(window) - k
             /\ EndsBefore(suffix, n)
<1> DEFINE suffix == SubSeq(window, k + 1, Len(window))
<1>1. /\ Len(window) \in Nat /\ DOMAIN window = 1..Len(window)
      /\ k \in Nat /\ k <= Len(window)
  BY LenProperties
<1>2. \A i \in 1..Len(window) : window[i].sequence = n - Len(window) + i - 1
  BY <1>1 DEF EndsBefore
<1>3. \A i \in (k + 1)..Len(window) : window[i] \in HubEvent(Bodies)
  BY <1>1, ElementOfSeq
<1>4. /\ suffix \in Seq(HubEvent(Bodies))
      /\ Len(suffix) = IF k + 1 <= Len(window) THEN Len(window) - (k + 1) + 1 ELSE 0
      /\ \A i \in 1..(Len(window) - (k + 1) + 1) : suffix[i] = window[(k + 1) + i - 1]
  <2>1. k + 1 \in Int /\ Len(window) \in Int
    BY <1>1
  <2> QED
    BY <2>1, <1>3, SubSeqProperties
<1> HIDE DEF suffix
<1>5. Len(suffix) = Len(window) - k
  <2>1. Len(suffix) = IF k + 1 <= Len(window) THEN Len(window) - (k + 1) + 1 ELSE 0
    BY <1>4
  <2>2. ASSUME NEW m \in Nat, k <= m
        PROVE  (IF k + 1 <= m THEN m - (k + 1) + 1 ELSE 0) = m - k
    BY <1>1, <2>2
  <2> QED
    BY <2>1, <2>2, <1>1
<1>6. DOMAIN suffix = 1..Len(suffix)
  BY <1>4, LenProperties
<1>7. \A i \in 1..Len(suffix) : suffix[i].sequence = n - Len(suffix) + i - 1
  <2> TAKE i \in 1..Len(suffix)
  <2>1. /\ i \in Nat /\ i >= 1 /\ i <= Len(window) - k
        /\ k + i \in 1..Len(window)
    BY <1>1, <1>5
  <2>2. i \in 1..(Len(window) - (k + 1) + 1) /\ (k + 1) + i - 1 = k + i
    BY <1>1, <2>1
  <2>3. suffix[i] = window[k + i]
    BY <1>4, <2>2
  <2>4. window[k + i].sequence = n - Len(window) + (k + i) - 1
    BY <2>1, <1>2
  <2> QED
    BY <2>1, <2>3, <2>4, <1>1, <1>5
<1>8. Len(suffix) < n
  BY <1>1, <1>5 DEF EndsBefore
<1>9. EndsBefore(suffix, n)
  BY <1>6, <1>7, <1>8 DEF EndsBefore
<1> QED
  BY <1>4, <1>5, <1>9 DEF suffix

\* A sequence number inside a contiguous window is found at its distance from the
\* oldest one.
LEMMA WindowIndex ==
  ASSUME NEW Bodies, NEW window \in Seq(HubEvent(Bodies)), NEW n \in Nat,
         EndsBefore(window, n), window # <<>>,
         NEW p \in Nat, Head(window).sequence <= p, p < n
  PROVE  window[p - Head(window).sequence + 1].sequence = p
<1>1. Len(window) \in Nat /\ Head(window).sequence = n - Len(window)
  BY WindowHead
<1>2. DOMAIN window = 1..Len(window)
  BY LenProperties
<1>3. p - Head(window).sequence + 1 \in 1..Len(window)
  BY <1>1
<1> QED
  BY <1>1, <1>2, <1>3 DEF EndsBefore

\* What batch_after hands to a cursor it need not resynchronise: the contiguous
\* events up to the latest one that begin right after the cursor.
LEMMA BatchAfterProperties ==
  ASSUME NEW Bodies, HubTypeOK(Bodies), StreamsContiguous,
         NEW c \in Nat, c < nextSequence
  PROVE  /\ ResyncRequired(c) \in BOOLEAN
         /\ BatchAfter(c) \in Seq(HubEvent(Bodies))
         /\ ~ResyncRequired(c) =>
              /\ EndsBefore(BatchAfter(c), nextSequence)
              /\ c # 0 => c + 1 = nextSequence - Len(BatchAfter(c))
<1> DEFINE skipped == IF c < Earliest THEN 0 ELSE c - Earliest + 1
<1> DEFINE batch == SubSeq(journal, skipped + 1, Len(journal))
<1>1. /\ nextSequence \in Nat /\ Len(journal) \in Nat
      /\ EndsBefore(journal, nextSequence) /\ Len(journal) < nextSequence
      /\ journal \in Seq(HubEvent(Bodies))
  BY LenProperties DEF HubTypeOK, StreamsContiguous, EndsBefore
<1>2. Earliest = nextSequence - Len(journal)
  BY <1>1, WindowHead DEF Earliest
<1>3. skipped \in 0..Len(journal)
  BY <1>1, <1>2
<1>4. /\ batch \in Seq(HubEvent(Bodies))
      /\ Len(batch) = Len(journal) - skipped
      /\ EndsBefore(batch, nextSequence)
  <2> HIDE DEF skipped
  <2> QED
    BY <1>1, <1>3, WindowSuffix
<1>5. ResyncRequired(c) \in BOOLEAN
  BY DEF ResyncRequired
<1>6. CASE ResyncRequired(c)
  BY <1>6, EmptySeq DEF BatchAfter
<1>7. CASE ~ResyncRequired(c)
  <2>1. BatchAfter(c) = batch
    BY <1>7 DEF BatchAfter
  <2>2. c # 0 => skipped = c - Earliest + 1
    BY <1>1, <1>2, <1>7 DEF ResyncRequired
  <2>3. c # 0 => c + 1 = nextSequence - Len(batch)
    <3> HIDE DEF skipped, batch
    <3> QED
      BY <2>2, <1>1, <1>2, <1>4
  <2> HIDE DEF skipped, batch
  <2> QED
    BY <2>1, <2>3, <1>4, <1>5
<1> QED
  BY <1>6, <1>7

-----------------------------------------------------------------------------
\* The event a receiver finds at its position, when the channel still holds it, is
\* the one with that sequence number.
LEMMA LiveEventAtPosition ==
  ASSUME NEW Bodies, HubTypeOK(Bodies), StreamsContiguous, NEW s \in Subscriber,
         Draining(s), subscription[s].position >= Head(live).sequence
  PROVE  LET index == subscription[s].position - Head(live).sequence + 1
         IN  live[index].sequence = subscription[s].position
<1> DEFINE position == subscription[s].position
<1>1. /\ nextSequence \in Nat /\ position \in Nat /\ position < nextSequence
      /\ live \in Seq(HubEvent(Bodies)) /\ EndsBefore(live, nextSequence)
  BY DEF HubTypeOK, StreamsContiguous, Subscription, Draining
<1>2. live # <<>>
  <2>1. Len(subscription[s].replay) \in Nat /\ Len(subscription[s].replay) < position
    BY LenProperties DEF Draining, StreamsContiguous, EndsBefore, HubTypeOK, Subscription
  <2> QED
    BY <2>1, <1>1 DEF StreamsContiguous
<1>3. Head(live).sequence \in Nat
  BY <1>1, <1>2, WindowHead
<1> HIDE DEF position
<1>4. Head(live).sequence <= position
  BY <1>1, <1>3 DEF position
<1>5. live[position - Head(live).sequence + 1].sequence = position
  BY <1>1, <1>2, <1>4, WindowIndex
<1> QED
  BY <1>5 DEF position

\* A step of the hub keeps the shape of its data and the contiguity of journal,
\* channel and replays, whatever is published and whoever subscribes or reads.
LEMMA HubStepPreserves ==
  ASSUME NEW Bodies, HubTypeOK(Bodies), StreamsContiguous, HubStep(Bodies)
  PROVE  HubTypeOK(Bodies)' /\ StreamsContiguous'
<1> USE HubAssumption
<1>1. ASSUME NEW bodies \in Seq(Bodies), Publish(bodies), UNCHANGED subscriberVars
      PROVE  HubTypeOK(Bodies)' /\ StreamsContiguous'
  <2>1. Len(bodies) \in Nat
    BY LenProperties
  <2>2. /\ journal' \in Seq(HubEvent(Bodies))
        /\ EndsBefore(journal', nextSequence + Len(bodies))
    BY <1>1, PublishedWindow DEF HubTypeOK, StreamsContiguous, Publish
  <2>3. /\ live' \in Seq(HubEvent(Bodies))
        /\ EndsBefore(live', nextSequence + Len(bodies))
        /\ live # <<>> \/ bodies # <<>> => live' # <<>>
    BY <1>1, PublishedWindow DEF HubTypeOK, StreamsContiguous, Publish
  <2>4. nextSequence' = nextSequence + Len(bodies)
    BY <1>1 DEF Publish
  <2>5. HubTypeOK(Bodies)'
    BY <1>1, <2>1, <2>2, <2>3, <2>4 DEF HubTypeOK, subscriberVars
  <2>6. StreamsContiguous'
    <3>1. nextSequence' > 1 => live' # <<>>
      BY <2>1, <2>3, <2>4, EmptySeq DEF StreamsContiguous, HubTypeOK
    <3> QED
      BY <1>1, <2>1, <2>2, <2>3, <2>4, <3>1
         DEF StreamsContiguous, HubTypeOK, subscriberVars, Subscription
  <2> QED
    BY <2>5, <2>6
<1>2. ASSUME NEW s \in Subscriber, Subscribe(s)
      PROVE  HubTypeOK(Bodies)' /\ StreamsContiguous'
  <2> DEFINE opened == [open     |-> TRUE,
                        replay   |-> BatchAfter(cursor[s]),
                        position |-> nextSequence,
                        resync   |-> ResyncRequired(cursor[s])]
  <2>1. cursor[s] \in Nat /\ cursor[s] < nextSequence
    BY DEF HubTypeOK, StreamsContiguous
  <2>2. opened \in Subscription(Bodies)
    BY <2>1, BatchAfterProperties DEF Subscription, HubTypeOK
  <2>3. /\ subscription' = [subscription EXCEPT ![s] = opened]
        /\ UNCHANGED <<nextSequence, journal, live, cursor>>
    BY <1>2 DEF Subscribe
  <2>4. HubTypeOK(Bodies)'
    BY <2>2, <2>3 DEF HubTypeOK
  <2>5. ~opened.resync =>
          /\ EndsBefore(opened.replay, opened.position)
          /\ cursor[s] # 0 => cursor[s] + 1 = opened.position - Len(opened.replay)
    BY <2>1, BatchAfterProperties
  <2>6. opened.position <= nextSequence
    BY DEF HubTypeOK
  <2>7. StreamsContiguous'
    BY <2>3, <2>5, <2>6 DEF StreamsContiguous, HubTypeOK
  <2> QED
    BY <2>4, <2>7
<1>3. ASSUME NEW s \in Subscriber, NextReplayed(s)
      PROVE  HubTypeOK(Bodies)' /\ StreamsContiguous'
  <2> DEFINE sub == subscription[s]
  <2> DEFINE first == Head(sub.replay)
  <2>1. /\ sub \in Subscription(Bodies) /\ sub.replay # <<>>
        /\ sub.open /\ ~sub.resync
    BY <1>3 DEF HubTypeOK, NextReplayed
  <2>2. /\ sub.replay \in Seq(HubEvent(Bodies)) /\ sub.position \in Nat
        /\ sub.position <= nextSequence /\ EndsBefore(sub.replay, sub.position)
    BY <2>1 DEF Subscription, StreamsContiguous
  <2>3. /\ Len(sub.replay) \in Nat
        /\ first.sequence \in Nat
        /\ first.sequence = sub.position - Len(sub.replay)
        /\ Tail(sub.replay) \in Seq(HubEvent(Bodies))
        /\ Len(Tail(sub.replay)) = Len(sub.replay) - 1
        /\ EndsBefore(Tail(sub.replay), sub.position)
    <3> HIDE DEF sub
    <3> QED
      BY <2>1, <2>2, WindowHead
  <2>4. /\ cursor' = [cursor EXCEPT ![s] = first.sequence]
        /\ subscription' = [subscription EXCEPT ![s].replay = Tail(sub.replay)]
        /\ UNCHANGED <<nextSequence, journal, live>>
    BY <1>3 DEF NextReplayed
  <2>5. HubTypeOK(Bodies)'
    BY <2>3, <2>4 DEF HubTypeOK, Subscription
  <2>6. /\ first.sequence + 1 = sub.position - Len(Tail(sub.replay))
        /\ first.sequence < nextSequence
    <3>1. Len(sub.replay) > 0 /\ nextSequence \in Nat
      BY <2>1, <2>2, EmptySeq DEF HubTypeOK
    <3> HIDE DEF sub, first
    <3> QED
      BY <3>1, <2>2, <2>3
  <2>7. StreamsContiguous'
    BY <2>2, <2>3, <2>4, <2>6 DEF StreamsContiguous, HubTypeOK, Subscription
  <2> QED
    BY <2>5, <2>7
<1>4. ASSUME NEW s \in Subscriber, NextLive(s)
      PROVE  HubTypeOK(Bodies)' /\ StreamsContiguous'
  <2> DEFINE sub == subscription[s]
  <2> DEFINE index == sub.position - Head(live).sequence + 1
  <2>1. /\ sub \in Subscription(Bodies) /\ sub.replay = <<>>
        /\ sub.open /\ ~sub.resync /\ sub.position < nextSequence
        /\ sub.position >= Head(live).sequence
    BY <1>4 DEF HubTypeOK, NextLive, Draining
  <2>2. sub.position \in Nat
    BY <2>1 DEF Subscription
  <2>3. live[index].sequence = sub.position
    BY <1>4, LiveEventAtPosition DEF NextLive, Draining
  <2>4. /\ cursor' = [cursor EXCEPT ![s] = sub.position]
        /\ subscription' = [subscription EXCEPT ![s].position = sub.position + 1]
        /\ UNCHANGED <<nextSequence, journal, live>>
    BY <1>4, <2>3 DEF NextLive
  <2>5. HubTypeOK(Bodies)'
    <3>1. [sub EXCEPT !.position = sub.position + 1] \in Subscription(Bodies)
      BY <2>1, <2>2 DEF Subscription
    <3> QED
      BY <2>2, <2>4, <3>1 DEF HubTypeOK
  <2>6. EndsBefore(<<>>, sub.position + 1) /\ Len(<<>>) = 0
    BY <2>2 DEF EndsBefore
  <2>7. StreamsContiguous'
    BY <2>1, <2>2, <2>4, <2>6 DEF StreamsContiguous, HubTypeOK, Subscription
  <2> QED
    BY <2>5, <2>7
<1>5. ASSUME NEW s \in Subscriber, Resynchronise(s),
             UNCHANGED <<nextSequence, journal, live>>
      PROVE  HubTypeOK(Bodies)' /\ StreamsContiguous'
  BY <1>5 DEF Resynchronise, Closed, HubTypeOK, StreamsContiguous, Subscription
<1>6. ASSUME NEW s \in Subscriber, Disconnect(s)
      PROVE  HubTypeOK(Bodies)' /\ StreamsContiguous'
  BY <1>6 DEF Disconnect, Closed, HubTypeOK, StreamsContiguous, Subscription
<1> QED
  BY <1>1, <1>2, <1>3, <1>4, <1>5, <1>6
     DEF HubStep, SubscriberNext, Receive, NextResync, NextLagged

\* Before anything is published every window is empty and contiguous.
LEMMA HubInitEstablishes ==
  ASSUME NEW Bodies, HubInit
  PROVE  HubTypeOK(Bodies) /\ StreamsContiguous
<1>1. <<>> \in Seq(HubEvent(Bodies)) /\ Len(<<>>) = 0 /\ DOMAIN <<>> = {}
  BY EmptySeq
<1>2. Closed \in Subscription(Bodies) /\ Closed.open = FALSE
  BY <1>1 DEF Closed, Subscription
<1>3. HubTypeOK(Bodies)
  BY <1>1, <1>2 DEF HubInit, HubTypeOK
<1>4. EndsBefore(<<>>, 1)
  BY <1>1 DEF EndsBefore
<1>5. StreamsContiguous
  BY <1>2, <1>4 DEF HubInit, StreamsContiguous
<1> QED
  BY <1>3, <1>5

\* The step form of NoSilentGap: whatever the hub and its subscribers do, a client
\* with a cursor moves to the very next event, is told to resynchronise, or stays.
LEMMA HubStepNoSilentGap ==
  ASSUME NEW Bodies, HubTypeOK(Bodies), StreamsContiguous,
         HubStep(Bodies) \/ UNCHANGED hubVars
  PROVE  \A s \in Subscriber :
           cursor[s] # 0 => cursor'[s] \in {0, cursor[s], cursor[s] + 1}
<1> SUFFICES ASSUME NEW s \in Subscriber, cursor[s] # 0
             PROVE  cursor'[s] \in {0, cursor[s], cursor[s] + 1}
  OBVIOUS
<1> cursor \in [Subscriber -> Nat]
  BY DEF HubTypeOK
<1>1. CASE UNCHANGED cursor
  BY <1>1
<1>2. ASSUME NEW t \in Subscriber, NextReplayed(t)
      PROVE  cursor'[s] \in {0, cursor[s], cursor[s] + 1}
  <2>1. CASE t # s
    BY <1>2, <2>1 DEF NextReplayed
  <2>2. CASE t = s
    <3> DEFINE sub == subscription[s]
    <3>1. /\ sub.replay \in Seq(HubEvent(Bodies)) /\ sub.replay # <<>>
          /\ sub.position \in Nat /\ EndsBefore(sub.replay, sub.position)
          /\ cursor[s] + 1 = sub.position - Len(sub.replay)
      BY <1>2, <2>2 DEF HubTypeOK, Subscription, StreamsContiguous, NextReplayed
    <3>2. Head(sub.replay).sequence = sub.position - Len(sub.replay)
      <4> HIDE DEF sub
      <4> QED
        BY <3>1, WindowHead
    <3>3. cursor'[s] = Head(sub.replay).sequence
      BY <1>2, <2>2 DEF NextReplayed
    <3> QED
      BY <3>1, <3>2, <3>3
  <2> QED
    BY <2>1, <2>2
<1>3. ASSUME NEW t \in Subscriber, NextLive(t)
      PROVE  cursor'[s] \in {0, cursor[s], cursor[s] + 1}
  <2>1. CASE t # s
    BY <1>3, <2>1 DEF NextLive
  <2>2. CASE t = s
    <3>1. cursor'[s] = subscription[s].position
      BY <1>3, <2>2, LiveEventAtPosition DEF NextLive
    <3>2. /\ cursor[s] + 1 = subscription[s].position - Len(subscription[s].replay)
          /\ subscription[s].replay = <<>> /\ subscription[s].position \in Nat
      BY <1>3, <2>2
         DEF HubTypeOK, Subscription, StreamsContiguous, NextLive, Draining
    <3> QED
      BY <3>1, <3>2, EmptySeq
  <2> QED
    BY <2>1, <2>2
<1>4. ASSUME NEW t \in Subscriber, Resynchronise(t)
      PROVE  cursor'[s] \in {0, cursor[s], cursor[s] + 1}
  BY <1>4 DEF Resynchronise
<1> QED
  BY <1>1, <1>2, <1>3, <1>4
     DEF HubStep, subscriberVars, hubVars, SubscriberNext, Subscribe, Disconnect,
         Receive, NextResync, NextLagged

-----------------------------------------------------------------------------
(* The actor. *)

Inv ==
  /\ TypeOK
  /\ SlotsCounted
  /\ QueueConsistent
  /\ RetentionConsistent
  /\ StreamsContiguous

-----------------------------------------------------------------------------
(* What schedule() leaves behind. *)

\* The counts and sets schedule() starts from when a handler has changed the
\* states to stateBefore, the queue to q and the slot count to a.
ReadyToSchedule(q, a, stateBefore) ==
  /\ q \in Seq(Op) /\ Distinct(q)
  /\ Range(q) = {o \in Op : stateBefore[o] = "Queued"}
  /\ a \in Nat /\ a <= MaxActive
  /\ a = Cardinality({o \in Op : stateBefore[o] = "Running"})
  /\ a + 1 < MaxActive => Len(q) <= 1
  /\ Len(q) <= MaxQueued \/ (a < MaxActive /\ Len(q) <= MaxQueued + 1)

\* schedule() restores the agreement of queue, states and slot count, settles
\* nothing, and gives the hub well-formed events.
LEMMA ScheduleRestores ==
  ASSUME NEW q, NEW a, NEW stateBefore \in [Op -> OpState],
         NEW revisionBefore \in [Op -> Nat], NEW eventsBefore \in Seq(Body),
         ReadyToSchedule(q, a, stateBefore), worker \in [Op -> WorkerState],
         Schedule(q, a, stateBefore, revisionBefore, eventsBefore)
  PROVE  /\ state' \in [Op -> OpState] /\ revision' \in [Op -> Nat]
         /\ worker' \in [Op -> WorkerState]
         /\ queued' \in Seq(Op) /\ active' \in Nat
         /\ SlotsCounted' /\ QueueConsistent'
         /\ \A o \in Op : state'[o] = stateBefore[o]
                        \/ (stateBefore[o] = "Queued" /\ state'[o] = "Running")
         /\ \E bodies \in Seq(Body) : Publish(bodies)
<1> USE OperationAssumption
<1>1. /\ q \in Seq(Op) /\ Distinct(q) /\ Len(q) \in Nat
      /\ a \in Nat /\ a <= MaxActive /\ MaxActive \in Nat
  BY LenProperties DEF ReadyToSchedule
<1>2. CASE Promoted(q, a) = {}
  <2>1. q = <<>> \/ a = MaxActive
    <3>1. CASE a < MaxActive /\ q # <<>>
      BY <1>2, <3>1 DEF Promoted, First
    <3>2. CASE ~(a < MaxActive)
      BY <3>2, <1>1
    <3> QED
      BY <3>1, <3>2
  <2>2. /\ queued' = q /\ active' = a /\ worker' = worker
        /\ state' = stateBefore /\ revision' = revisionBefore
        /\ Publish(eventsBefore)
    BY <1>1, <1>2, FS_EmptySet DEF Schedule, Popped
  <2>3. Len(q) <= MaxQueued
    BY <2>1, <1>1, EmptySeq DEF ReadyToSchedule
  <2>4. SlotsCounted'
    BY <2>2, <1>1 DEF SlotsCounted, Running, InState, ReadyToSchedule
  <2>5. QueueConsistent'
    BY <2>1, <2>2, <2>3, <1>1 DEF QueueConsistent, InState, ReadyToSchedule
  <2>6. \A o \in Op : state'[o] = stateBefore[o]
    BY <2>2
  <2>7. \E bodies \in Seq(Body) : Publish(bodies)
    BY <2>2
  <2> QED
    BY <2>2, <2>4, <2>5, <2>6, <2>7, <1>1
<1>3. CASE Promoted(q, a) # {}
  <2> DEFINE h == Head(q)
  <2>1. q # <<>> /\ a < MaxActive /\ Promoted(q, a) = {h}
    BY <1>3 DEF Promoted, First
  <2>2. /\ h \in Op /\ h \in Range(q) /\ Tail(q) \in Seq(Op) /\ Distinct(Tail(q))
        /\ Range(Tail(q)) = Range(q) \ {h} /\ Len(Tail(q)) = Len(q) - 1
    BY <2>1, <1>1, PoppedQueue
  <2>3. stateBefore[h] = "Queued"
    BY <2>2 DEF ReadyToSchedule
  <2> HIDE DEF h
  <2>4. /\ queued' = Tail(q) /\ active' = a + 1
        /\ state' = [o \in Op |-> IF o = h THEN "Running" ELSE stateBefore[o]]
        /\ revision' = [o \in Op |-> IF o = h THEN revisionBefore[o] + 1
                                              ELSE revisionBefore[o]]
        /\ worker' = [o \in Op |-> IF o = h THEN "working" ELSE worker[o]]
        /\ Publish(Append(eventsBefore, Event(h, "Running", revisionBefore[h] + 1)))
    <3>1. Cardinality({h}) = 1
      BY FS_Singleton
    <3> QED
      BY <2>1, <3>1 DEF Schedule, Popped, h
  <2>5. /\ state' \in [Op -> OpState] /\ revision' \in [Op -> Nat]
        /\ worker' \in [Op -> WorkerState]
    BY <2>4 DEF OpState, Known, WorkerState
  <2>6. Running' = {o \in Op : stateBefore[o] = "Running"} \cup {h}
    BY <2>2, <2>4 DEF Running, InState
  <2>7. SlotsCounted'
    <3>1. IsFiniteSet({o \in Op : stateBefore[o] = "Running"})
      BY FS_Subset
    <3>2. h \notin {o \in Op : stateBefore[o] = "Running"}
      BY <2>3
    <3>3. Cardinality(Running') = a + 1
      BY <2>6, <3>1, <3>2, FS_AddElement DEF ReadyToSchedule
    <3> QED
      BY <3>3, <2>1, <2>4, <1>1 DEF SlotsCounted
  <2>8. QueueConsistent'
    <3>1. Range(queued') = InState({"Queued"})'
      BY <2>2, <2>4 DEF ReadyToSchedule, InState
    <3>2. Len(queued') <= MaxQueued
      BY <2>2, <2>4, <1>1 DEF ReadyToSchedule
    <3>3. active' < MaxActive => queued' = <<>>
      <4>1. active' < MaxActive => Len(Tail(q)) = 0
        <5>1. Len(Tail(q)) \in Nat
          BY <2>2, LenProperties
        <5> QED
          BY <5>1, <2>2, <2>4, <1>1 DEF ReadyToSchedule
      <4> QED
        BY <4>1, <2>2, <2>4, EmptySeq
    <3> QED
      BY <3>1, <3>2, <3>3, <2>2, <2>4 DEF QueueConsistent
  <2>9. Append(eventsBefore, Event(h, "Running", revisionBefore[h] + 1)) \in Seq(Body)
    <3>1. Event(h, "Running", revisionBefore[h] + 1) \in Body
      BY <2>2 DEF Event, Body, Known
    <3> QED
      BY <3>1, AppendProperties
  <2>10. \A o \in Op : state'[o] = stateBefore[o]
                      \/ (stateBefore[o] = "Queued" /\ state'[o] = "Running")
    BY <2>3, <2>4
  <2>11. \E bodies \in Seq(Body) : Publish(bodies)
    BY <2>4, <2>9
  <2>12. queued' \in Seq(Op) /\ active' \in Nat
    BY <2>2, <2>4, <1>1
  <2> QED
    BY <2>5, <2>7, <2>8, <2>10, <2>11, <2>12
<1> QED
  BY <1>2, <1>3

-----------------------------------------------------------------------------
(* What settling an operation leaves behind. *)

\* retain_terminal() keeps the terminal list distinct and within its limit; it
\* forgets at most one operation, settled earlier than the one it retains.
LEMMA RetainTerminal ==
  ASSUME TypeOK, RetentionConsistent, NEW o \in Op, o \notin Range(terminal)
  PROVE  LET kept    == Append(terminal, o)
             expired == Expired(kept)
             after   == Popped(kept, expired)
         IN  /\ after \in Seq(Op) /\ Distinct(after)
             /\ Len(after) <= RetainedTerminal
             /\ expired \subseteq Range(terminal)
             /\ Range(after) = (Range(terminal) \cup {o}) \ expired
<1> USE OperationAssumption
<1> DEFINE kept == Append(terminal, o)
<1>1. /\ terminal \in Seq(Op) /\ Len(terminal) \in Nat /\ Distinct(terminal)
      /\ Len(terminal) <= RetainedTerminal
  BY LenProperties DEF TypeOK, RetentionConsistent
<1>2. /\ kept \in Seq(Op) /\ Distinct(kept) /\ kept # <<>>
      /\ Range(kept) = Range(terminal) \cup {o}
      /\ Len(kept) = Len(terminal) + 1
  BY <1>1, PushedQueue
<1>3. CASE Len(kept) > RetainedTerminal
  <2>1. /\ Expired(kept) = {Head(kept)} /\ Popped(kept, Expired(kept)) = Tail(kept)
    BY <1>3 DEF Expired, Popped
  <2>2. /\ Tail(kept) \in Seq(Op) /\ Distinct(Tail(kept))
        /\ Range(Tail(kept)) = Range(kept) \ {Head(kept)}
        /\ Len(Tail(kept)) = Len(kept) - 1
    <3> HIDE DEF kept
    <3> QED
      BY <1>2, PoppedQueue
  <2>3. Head(kept) \in Range(terminal)
    <3>1. terminal # <<>>
      BY <1>1, <1>2, <1>3, EmptySeq
    <3>2. Head(kept) = Head(terminal)
      BY <1>1, <3>1, HeadTailAppend
    <3> QED
      BY <1>1, <3>1, <3>2, PoppedQueue
  <2>4. Len(Tail(kept)) <= RetainedTerminal
    <3> HIDE DEF kept
    <3> QED
      BY <1>1, <1>2, <2>2
  <2> HIDE DEF kept
  <2> QED
    BY <1>2, <2>1, <2>2, <2>3, <2>4 DEF kept
<1>4. CASE ~(Len(kept) > RetainedTerminal)
  <2>1. Expired(kept) = {} /\ Popped(kept, Expired(kept)) = kept
    BY <1>4 DEF Expired, Popped
  <2>2. Len(kept) <= RetainedTerminal
    BY <1>1, <1>2, <1>4
  <2> HIDE DEF kept
  <2> QED
    BY <1>2, <2>1, <2>2 DEF kept
<1> QED
  BY <1>3, <1>4

\* What is left of queue and slot count when operation o has been taken out of
\* the queue or has given up its slot.
TakenOut(o, q, a) ==
  /\ q \in Seq(Op) /\ Distinct(q) /\ Range(q) = InState({"Queued"}) \ {o}
  /\ a \in Nat /\ a <= MaxActive /\ a = Cardinality(Running \ {o})
  /\ a + 1 < MaxActive => Len(q) <= 1
  /\ Len(q) <= MaxQueued

\* The states between settling operation o and scheduling: o has its result, what
\* retention forgets is evicted, and schedule() starts from consistent counts.
StateBefore(o, r) ==
  [x \in Op |-> CASE x \in Expired(Append(terminal, o)) -> "evicted"
                  [] x = o -> r
                  [] OTHER -> state[x]]

LEMMA ConcludePrepares ==
  ASSUME Inv, NEW o \in Op, state[o] \in {"Queued", "Running"},
         NEW r \in Outcome, NEW q, NEW a, TakenOut(o, q, a), Conclude(o, r, q, a)
  PROVE  LET expired == Expired(Append(terminal, o))
         IN  /\ Schedule(q, a, StateBefore(o, r), [revision EXCEPT ![o] = @ + 1],
                         <<Event(o, r, revision[o] + 1)>>)
             /\ StateBefore(o, r) \in [Op -> OpState]
             /\ StateBefore(o, r)[o] = r
             /\ o \notin Range(terminal)
             /\ \A x \in expired : /\ x \in Op /\ x # o
                                    /\ StateBefore(o, r)[x] = "evicted"
                                    /\ state[x] \in Outcome
             /\ \A x \in Op : x # o /\ x \notin expired
                               => StateBefore(o, r)[x] = state[x]
             /\ ReadyToSchedule(q, a, StateBefore(o, r))
             /\ terminal' \in Seq(Op) /\ Distinct(terminal')
             /\ Len(terminal') <= RetainedTerminal
             /\ Range(terminal') = (Range(terminal) \cup {o}) \ expired
<1> USE OperationAssumption
<1> DEFINE expired == Expired(Append(terminal, o))
<1>1. state \in [Op -> OpState] /\ Range(terminal) = InState(Outcome)
  BY DEF Inv, TypeOK, RetentionConsistent
<1>2. o \notin Range(terminal)
  BY <1>1 DEF InState, Outcome
<1>3. /\ terminal' \in Seq(Op) /\ Distinct(terminal')
      /\ Len(terminal') <= RetainedTerminal
      /\ expired \subseteq Range(terminal)
      /\ Range(terminal') = (Range(terminal) \cup {o}) \ expired
  <2>1. terminal' = Popped(Append(terminal, o), expired)
    BY DEF Conclude
  <2> QED
    BY <2>1, <1>2, RetainTerminal DEF Inv
<1>4. Schedule(q, a, StateBefore(o, r), [revision EXCEPT ![o] = @ + 1],
               <<Event(o, r, revision[o] + 1)>>)
  BY DEF Conclude, StateBefore
<1>5. StateBefore(o, r) = [x \in Op |-> CASE x \in expired -> "evicted"
                                         [] x = o -> r
                                         [] OTHER -> state[x]]
  BY DEF StateBefore
<1> HIDE DEF expired
<1>6. /\ StateBefore(o, r)[o] = r
      /\ \A x \in expired : /\ x \in Op /\ x # o
                             /\ StateBefore(o, r)[x] = "evicted"
                             /\ state[x] \in Outcome
      /\ \A x \in Op : x # o /\ x \notin expired => StateBefore(o, r)[x] = state[x]
  BY <1>1, <1>2, <1>3, <1>5 DEF InState
<1>7. StateBefore(o, r) \in [Op -> OpState]
  BY <1>1, <1>5 DEF OpState, Known
<1>8. ReadyToSchedule(q, a, StateBefore(o, r))
  <2>1. {x \in Op : StateBefore(o, r)[x] = "Queued"} = InState({"Queued"}) \ {o}
    BY <1>1, <1>6 DEF InState, Outcome
  <2>2. {x \in Op : StateBefore(o, r)[x] = "Running"} = Running \ {o}
    BY <1>1, <1>6 DEF InState, Running, Outcome
  <2> QED
    BY <2>1, <2>2 DEF TakenOut, ReadyToSchedule
<1> QED
  BY <1>2, <1>3, <1>4, <1>6, <1>7, <1>8 DEF expired

\* Settling an unsettled operation keeps every part of Inv but the stream's, and
\* gives the hub well-formed events.
LEMMA ConcludeRestores ==
  ASSUME Inv, NEW o \in Op, state[o] \in {"Queued", "Running"},
         NEW r \in Outcome, NEW q, NEW a, TakenOut(o, q, a), Conclude(o, r, q, a)
  PROVE  /\ state' \in [Op -> OpState] /\ revision' \in [Op -> Nat]
         /\ worker' \in [Op -> WorkerState]
         /\ queued' \in Seq(Op) /\ terminal' \in Seq(Op) /\ active' \in Nat
         /\ SlotsCounted' /\ QueueConsistent' /\ RetentionConsistent'
         /\ \E bodies \in Seq(Body) : Publish(bodies)
<1> DEFINE expired == Expired(Append(terminal, o))
<1> DEFINE revisionBefore == [revision EXCEPT ![o] = @ + 1]
<1> DEFINE events == <<Event(o, r, revision[o] + 1)>>
<1>1. revision \in [Op -> Nat] /\ worker \in [Op -> WorkerState]
  BY DEF Inv, TypeOK
<1>2. revisionBefore \in [Op -> Nat]
  BY <1>1
<1>3. events \in Seq(Body)
  <2>1. Event(o, r, revision[o] + 1) \in Body
    BY <1>1 DEF Event, Body, Known
  <2> QED
    BY <2>1
<1>4. /\ Schedule(q, a, StateBefore(o, r), revisionBefore, events)
      /\ StateBefore(o, r) \in [Op -> OpState]
      /\ StateBefore(o, r)[o] = r
      /\ o \notin Range(terminal)
      /\ \A x \in expired : /\ x \in Op /\ x # o
                             /\ StateBefore(o, r)[x] = "evicted"
                             /\ state[x] \in Outcome
      /\ \A x \in Op : x # o /\ x \notin expired => StateBefore(o, r)[x] = state[x]
      /\ ReadyToSchedule(q, a, StateBefore(o, r))
      /\ terminal' \in Seq(Op) /\ Distinct(terminal')
      /\ Len(terminal') <= RetainedTerminal
      /\ Range(terminal') = (Range(terminal) \cup {o}) \ expired
  BY ConcludePrepares
<1> HIDE DEF expired, revisionBefore, events
<1>5. /\ state' \in [Op -> OpState] /\ revision' \in [Op -> Nat]
      /\ worker' \in [Op -> WorkerState]
      /\ queued' \in Seq(Op) /\ active' \in Nat
      /\ SlotsCounted' /\ QueueConsistent'
      /\ \A x \in Op : state'[x] = StateBefore(o, r)[x]
             \/ (StateBefore(o, r)[x] = "Queued" /\ state'[x] = "Running")
      /\ \E bodies \in Seq(Body) : Publish(bodies)
  BY <1>1, <1>2, <1>3, <1>4, ScheduleRestores
<1>6. RetentionConsistent'
  <2>1. \A x \in Op : state'[x] \in Outcome <=> StateBefore(o, r)[x] \in Outcome
    BY <1>5 DEF Outcome
  <2>2. \A x \in Op : StateBefore(o, r)[x] \in Outcome
                        <=> (state[x] \in Outcome \/ x = o) /\ x \notin expired
    BY <1>4 DEF Outcome
  <2>3. Range(terminal) = InState(Outcome)
    BY DEF Inv, RetentionConsistent
  <2>4. Range(terminal') = InState(Outcome)'
    BY <2>1, <2>2, <2>3, <1>4 DEF InState
  <2> QED
    BY <2>4, <1>4 DEF RetentionConsistent
<1> QED
  BY <1>4, <1>5, <1>6

\* Admission: what start() hands to schedule().
LEMMA StartPrepares ==
  ASSUME Inv, NEW o \in Op, state[o] = "absent",
         ~(active >= MaxActive /\ Len(queued) >= MaxQueued),
         NEW stateBefore \in [Op -> OpState], stateBefore[o] = "Queued",
         \A x \in Op : x # o => stateBefore[x] = state[x]
  PROVE  ReadyToSchedule(Append(queued, o), active, stateBefore)
<1> USE OperationAssumption
<1>1. /\ queued \in Seq(Op) /\ Len(queued) \in Nat /\ active \in Nat
      /\ Distinct(queued) /\ o \notin Range(queued)
      /\ Range(queued) = InState({"Queued"})
      /\ active <= MaxActive /\ Len(queued) <= MaxQueued
      /\ active < MaxActive => queued = <<>>
      /\ active = Cardinality(Running)
  BY LenProperties DEF Inv, TypeOK, QueueConsistent, SlotsCounted, InState
<1>2. /\ Append(queued, o) \in Seq(Op) /\ Distinct(Append(queued, o))
      /\ Range(Append(queued, o)) = Range(queued) \cup {o}
      /\ Len(Append(queued, o)) = Len(queued) + 1
  BY <1>1, PushedQueue
<1>3. {x \in Op : stateBefore[x] = "Queued"} = Range(queued) \cup {o}
  BY <1>1 DEF InState
<1>4. {x \in Op : stateBefore[x] = "Running"} = Running
  BY DEF InState, Running
<1>5. /\ active + 1 < MaxActive => Len(Append(queued, o)) <= 1
      /\ \/ Len(Append(queued, o)) <= MaxQueued
         \/ active < MaxActive /\ Len(Append(queued, o)) <= MaxQueued + 1
  BY <1>1, <1>2, EmptySeq
<1> QED
  BY <1>1, <1>2, <1>3, <1>4, <1>5 DEF ReadyToSchedule

\* Cancellation of a queued operation: what cancel() hands to schedule().
LEMMA CancelPrepares ==
  ASSUME Inv, NEW o \in Op, state[o] = "Queued"
  PROVE  TakenOut(o, Without(queued, o), active)
<1> USE OperationAssumption
<1>1. /\ queued \in Seq(Op) /\ active \in Nat
      /\ Distinct(queued) /\ o \in Range(queued)
      /\ Range(queued) = InState({"Queued"})
      /\ active <= MaxActive /\ Len(queued) <= MaxQueued
      /\ active < MaxActive => queued = <<>>
      /\ active = Cardinality(Running)
  BY DEF Inv, TypeOK, QueueConsistent, SlotsCounted, InState
<1>2. /\ Without(queued, o) \in Seq(Op) /\ Distinct(Without(queued, o))
      /\ Range(Without(queued, o)) = Range(queued) \ {o}
      /\ Len(queued) \in Nat \ {0}
      /\ Len(Without(queued, o)) = Len(queued) - 1
  BY <1>1, RetainedQueue
<1>3. Running \ {o} = Running
  BY DEF Running, InState
<1>4. ~(active + 1 < MaxActive)
  BY <1>1, <1>2, EmptySeq
<1>5. Len(Without(queued, o)) <= MaxQueued
  BY <1>1, <1>2
<1> QED
  BY <1>1, <1>2, <1>3, <1>4, <1>5 DEF TakenOut

\* Completion of a running operation: what complete() hands to schedule().
LEMMA CompletionPrepares ==
  ASSUME Inv, NEW o \in Op, state[o] = "Running"
  PROVE  TakenOut(o, queued, active - 1) /\ active - 1 < MaxActive
<1> USE OperationAssumption
<1>1. /\ queued \in Seq(Op) /\ active \in Nat
      /\ Distinct(queued) /\ Range(queued) = InState({"Queued"})
      /\ active <= MaxActive /\ Len(queued) <= MaxQueued
      /\ active < MaxActive => queued = <<>>
      /\ active = Cardinality(Running) /\ o \in Running
  BY DEF Inv, TypeOK, QueueConsistent, SlotsCounted, InState, Running
<1>2. IsFiniteSet(Running)
  BY FS_Subset DEF Running, InState
<1>3. Cardinality(Running \ {o}) = active - 1
  BY <1>1, <1>2, FS_RemoveElement
<1>4. active - 1 \in Nat
  BY <1>2, <1>3, FS_RemoveElement, FS_CardinalityType
<1>5. InState({"Queued"}) \ {o} = InState({"Queued"})
  BY DEF InState
<1>6. (active - 1) + 1 < MaxActive => Len(queued) <= 1
  BY <1>1, EmptySeq
<1>7. active - 1 < MaxActive
  BY <1>1
<1> QED
  BY <1>1, <1>3, <1>4, <1>5, <1>6, <1>7 DEF TakenOut

-----------------------------------------------------------------------------
(* The invariant. *)

\* What the actor's and the workers' steps do to the hub is a step of the hub.
HubMoves == HubStep(Body) \/ UNCHANGED hubVars

\* The invariant holds before the first command.
LEMMA InitEstablishes == Init => Inv
<1> USE OperationAssumption
<1> SUFFICES ASSUME Init PROVE Inv
  OBVIOUS
<1>1. HubTypeOK(Body) /\ StreamsContiguous
  BY HubInitEstablishes DEF Init
<1>2. /\ <<>> \in Seq(Op) /\ <<>> \in Seq(Message) /\ Len(<<>>) = 0
      /\ Range(<<>>) = {} /\ Distinct(<<>>)
  BY EmptySeq DEF Range, Distinct
<1>3. InState({"Queued"}) = {} /\ InState({"Running"}) = {} /\ InState(Outcome) = {}
  BY DEF Init, InState, Outcome
<1>4. TypeOK
  BY <1>1, <1>2 DEF Init, TypeOK, OpState, Known, Outcome, WorkerState
<1>5. SlotsCounted
  <2>1. active = 0 /\ Cardinality({}) = 0
    BY FS_EmptySet DEF Init
  <2> QED
    BY <1>3, <2>1 DEF SlotsCounted, Running
<1>6. QueueConsistent /\ RetentionConsistent
  <2>1. queued = <<>> /\ terminal = <<>>
    BY DEF Init
  <2>2. /\ Distinct(queued) /\ Range(queued) = {} /\ Distinct(terminal)
        /\ Range(terminal) = {}
    BY <1>2, <2>1
  <2>3. Len(queued) <= MaxQueued /\ Len(terminal) <= RetainedTerminal
    BY <1>2, <2>1
  <2> QED
    BY <1>3, <2>1, <2>2, <2>3 DEF QueueConsistent, RetentionConsistent
<1> QED
  BY <1>1, <1>4, <1>5, <1>6 DEF Inv

\* A handler that leaves the operations alone and gives the channel a well-formed
\* content keeps the actor's part of the invariant.
LEMMA OperationsUntouched ==
  ASSUME Inv, UNCHANGED <<state, queued, terminal, active>>
  PROVE  SlotsCounted' /\ QueueConsistent' /\ RetentionConsistent'
BY DEF Inv, SlotsCounted, QueueConsistent, RetentionConsistent, Running, InState

\* Every step, and every stuttering step, preserves the invariant and is a step or
\* a stutter of the event hub.
LEMMA NextPreserves ==
  ASSUME Inv, [Next]_vars
  PROVE  Inv' /\ HubMoves
<1> USE OperationAssumption
<1>1. /\ state \in [Op -> OpState] /\ revision \in [Op -> Nat]
      /\ worker \in [Op -> WorkerState] /\ active \in Nat
      /\ queued \in Seq(Op) /\ terminal \in Seq(Op) /\ cancelled \in SUBSET Op
      /\ Len(queued) \in Nat
      /\ messages \in Seq(Message) /\ HubTypeOK(Body)
  BY LenProperties DEF Inv, TypeOK
<1>2. ASSUME HubMoves
      PROVE  HubTypeOK(Body)' /\ StreamsContiguous'
  <2>1. CASE HubStep(Body)
    BY <2>1, HubStepPreserves DEF Inv, TypeOK
  <2>2. CASE UNCHANGED hubVars
    BY <2>2, <1>1
       DEF hubVars, HubTypeOK, StreamsContiguous, Inv
  <2> QED
    BY <1>2, <2>1, <2>2 DEF HubMoves
<1>3. messages # <<>> =>
        /\ Head(messages) \in Message
        /\ Tail(messages) \in Seq(Message)
        /\ Len(Tail(messages)) <= ChannelCapacity
  BY <1>1, HeadTailProperties, LenProperties DEF Inv, TypeOK
<1>4. ASSUME NEW o \in Op, Start(o) PROVE Inv' /\ HubMoves
  <2> DEFINE stateBefore == [state EXCEPT ![o] = "Queued"]
  <2> DEFINE revisionBefore == [revision EXCEPT ![o] = 1]
  <2> DEFINE events == <<Event(o, "Queued", 1)>>
  <2>1. /\ state[o] = "absent"
        /\ ~(active >= MaxActive /\ Len(queued) >= MaxQueued)
        /\ Schedule(Append(queued, o), active, stateBefore, revisionBefore, events)
        /\ UNCHANGED <<runtime, cancelled, terminal, outcome, reports, taskEvents,
                       messages, subscriberVars>>
    BY <1>4 DEF Start
  <2>2. /\ stateBefore \in [Op -> OpState] /\ revisionBefore \in [Op -> Nat]
        /\ stateBefore[o] = "Queued"
        /\ \A x \in Op : x # o => stateBefore[x] = state[x]
    BY <1>1 DEF OpState, Known
  <2>3. events \in Seq(Body)
    <3>1. Event(o, "Queued", 1) \in Body
      BY DEF Event, Body, Known
    <3> QED
      BY <3>1
  <2> HIDE DEF stateBefore, revisionBefore, events
  <2>6. ReadyToSchedule(Append(queued, o), active, stateBefore)
    BY <2>1, <2>2, StartPrepares
  <2>7. /\ state' \in [Op -> OpState] /\ revision' \in [Op -> Nat]
        /\ worker' \in [Op -> WorkerState]
        /\ queued' \in Seq(Op) /\ active' \in Nat
        /\ SlotsCounted' /\ QueueConsistent'
        /\ \A x \in Op : state'[x] = stateBefore[x]
              \/ (stateBefore[x] = "Queued" /\ state'[x] = "Running")
        /\ \E bodies \in Seq(Body) : Publish(bodies)
    BY <1>1, <2>1, <2>2, <2>3, <2>6, ScheduleRestores
  <2>8. HubMoves
    BY <2>1, <2>7 DEF HubMoves, HubStep
  <2>9. RetentionConsistent'
    <3>1. InState(Outcome)' = InState(Outcome)
      BY <2>1, <2>2, <2>7 DEF InState, Outcome
    <3> QED
      BY <2>1, <3>1 DEF Inv, RetentionConsistent
  <2>10. TypeOK'
    BY <1>2, <2>1, <2>7, <2>8 DEF Inv, TypeOK
  <2> QED
    BY <1>2, <2>7, <2>8, <2>9, <2>10 DEF Inv
<1>5. ASSUME NEW o \in Op, CancelQueued(o) PROVE Inv' /\ HubMoves
  <2>1. /\ state[o] = "Queued" /\ cancelled' = cancelled \cup {o}
        /\ Conclude(o, "Cancelled", Without(queued, o), active)
        /\ UNCHANGED <<runtime, outcome, reports, taskEvents, messages,
                       subscriberVars>>
    BY <1>5 DEF CancelQueued
  <2>4. TakenOut(o, Without(queued, o), active)
    BY <2>1, CancelPrepares
  <2>5. /\ state' \in [Op -> OpState] /\ revision' \in [Op -> Nat]
        /\ worker' \in [Op -> WorkerState]
        /\ queued' \in Seq(Op) /\ terminal' \in Seq(Op) /\ active' \in Nat
        /\ SlotsCounted' /\ QueueConsistent' /\ RetentionConsistent'
        /\ \E bodies \in Seq(Body) : Publish(bodies)
    BY <2>1, <2>4, ConcludeRestores DEF Outcome
  <2>6. HubMoves
    BY <2>1, <2>5 DEF HubMoves, HubStep
  <2>7. TypeOK'
    BY <1>2, <2>1, <2>5, <2>6 DEF Inv, TypeOK
  <2> QED
    BY <1>2, <2>5, <2>6, <2>7 DEF Inv
<1>6. ASSUME NEW o \in Op, CancelRunning(o) PROVE Inv' /\ HubMoves
  <2>1. HubMoves
    BY <1>6 DEF CancelRunning, HubMoves
  <2>2. TypeOK'
    BY <1>2, <1>6, <2>1 DEF CancelRunning, workerVars, Inv, TypeOK
  <2> QED
    BY <1>2, <1>6, <2>1, <2>2, OperationsUntouched DEF CancelRunning, Inv
<1>7. ASSUME Shutdown PROVE Inv' /\ HubMoves
  <2>1. HubMoves
    BY <1>7 DEF Shutdown, HubMoves
  <2>2. cancelled' \in SUBSET Op /\ runtime' = "Stopped" /\ messages' = <<>>
    BY <1>1, <1>7 DEF Shutdown, InState
  <2>3. TypeOK'
    BY <1>2, <1>7, <2>1, <2>2, EmptySeq DEF Shutdown, workerVars, Inv, TypeOK
  <2> QED
    BY <1>2, <1>7, <2>1, <2>3, OperationsUntouched DEF Shutdown, Inv
<1>8. ASSUME HandleProgress PROVE Inv' /\ HubMoves
  <2> DEFINE o == Head(messages).op
  <2>1. /\ messages # <<>> /\ messages' = Tail(messages)
        /\ UNCHANGED <<runtime, state, cancelled, queued, terminal, active,
                       workerVars, taskEvents, subscriberVars>>
        /\ IF state[o] = "Running"
           THEN /\ revision' = [revision EXCEPT ![o] = @ + 1]
                /\ Publish(<<Event(o, "Running", revision[o] + 1)>>)
           ELSE UNCHANGED <<revision, nextSequence, journal, live>>
    BY <1>8 DEF HandleProgress
  <2>2. o \in Op
    BY <1>3, <1>8 DEF HandleProgress, Message
  <2> HIDE DEF o
  <2>3. revision' \in [Op -> Nat]
    BY <1>1, <2>1
  <2>4. HubMoves
    <3>1. Event(o, "Running", revision[o] + 1) \in Body
      BY <1>1, <2>2 DEF Event, Body, Known
    <3>2. <<Event(o, "Running", revision[o] + 1)>> \in Seq(Body)
      BY <3>1
    <3> QED
      BY <2>1, <3>2 DEF HubMoves, HubStep, hubVars, subscriberVars
  <2>5. TypeOK'
    BY <1>2, <1>3, <2>1, <2>3, <2>4 DEF workerVars, Inv, TypeOK
  <2> QED
    BY <1>2, <2>1, <2>4, <2>5, OperationsUntouched DEF Inv
<1>9. ASSUME HandleCompletion PROVE Inv' /\ HubMoves
  <2> DEFINE o == Head(messages).op
  <2>1. /\ messages # <<>> /\ messages' = Tail(messages)
        /\ UNCHANGED <<runtime, cancelled, outcome, reports, taskEvents,
                       subscriberVars>>
        /\ IF state[o] = "Running"
           THEN Conclude(o, Head(messages).result, queued, active - 1)
           ELSE UNCHANGED <<state, revision, queued, terminal, active, worker,
                            nextSequence, journal, live>>
    BY <1>9 DEF HandleCompletion
  <2>2. o \in Op /\ Head(messages).result \in Outcome
    BY <1>3, <1>9 DEF HandleCompletion, Message
  <2> HIDE DEF o
  <2>3. CASE state[o] = "Running"
    <3>5. TakenOut(o, queued, active - 1)
      BY <2>2, <2>3, CompletionPrepares
    <3>6. /\ state' \in [Op -> OpState] /\ revision' \in [Op -> Nat]
          /\ worker' \in [Op -> WorkerState]
          /\ queued' \in Seq(Op) /\ terminal' \in Seq(Op) /\ active' \in Nat
          /\ SlotsCounted' /\ QueueConsistent' /\ RetentionConsistent'
          /\ \E bodies \in Seq(Body) : Publish(bodies)
      BY <2>1, <2>2, <2>3, <3>5, ConcludeRestores
    <3>7. HubMoves
      BY <2>1, <3>6 DEF HubMoves, HubStep
    <3>8. TypeOK'
      BY <1>2, <1>3, <2>1, <3>6, <3>7 DEF Inv, TypeOK
    <3> QED
      BY <1>2, <3>6, <3>7, <3>8 DEF Inv
  <2>4. CASE state[o] # "Running"
    <3>1. HubMoves
      BY <2>1, <2>4 DEF HubMoves, hubVars, subscriberVars
    <3>2. TypeOK'
      BY <1>2, <1>3, <2>1, <2>4, <3>1 DEF Inv, TypeOK
    <3> QED
      BY <1>2, <2>1, <2>4, <3>1, <3>2, OperationsUntouched DEF Inv
  <2> QED
    BY <2>3, <2>4
<1>10. ASSUME HandleTask PROVE Inv' /\ HubMoves
  <2>1. HubMoves
    <3>1. <<[subject |-> "Task"]>> \in Seq(Body)
      BY DEF Body
    <3> QED
      BY <1>10, <3>1 DEF HandleTask, HubMoves, HubStep
  <2>2. TypeOK'
    BY <1>2, <1>3, <1>10, <2>1 DEF HandleTask, workerVars, Inv, TypeOK
  <2> QED
    BY <1>2, <1>10, <2>1, <2>2, OperationsUntouched DEF HandleTask, Inv
<1>11. ASSUME NEW o \in Op, Report(o) PROVE Inv' /\ HubMoves
  <2>1. HubMoves
    BY <1>11 DEF Report, HubMoves
  <2>2. messages' \in Seq(Message) /\ Len(messages') <= ChannelCapacity
    <3>1. [type |-> "Progress", op |-> o] \in Message
      BY DEF Message
    <3> QED
      BY <1>1, <1>11, <3>1, AppendProperties, LenProperties DEF Report, ChannelOpen
  <2>3. TypeOK'
    BY <1>2, <1>11, <2>1, <2>2 DEF Report, workerVars, WorkerState, Inv, TypeOK
  <2> QED
    BY <1>2, <1>11, <2>1, <2>3, OperationsUntouched DEF Report, Inv
<1>12. ASSUME NEW o \in Op, Finish(o) PROVE Inv' /\ HubMoves
  <2>1. HubMoves
    BY <1>12 DEF Finish, HubMoves
  <2>2. messages' \in Seq(Message) /\ Len(messages') <= ChannelCapacity
    BY <1>12 DEF Finish, Inv, TypeOK
  <2>3. TypeOK'
    BY <1>2, <1>12, <2>1, <2>2 DEF Finish, workerVars, WorkerState, Inv, TypeOK
  <2> QED
    BY <1>2, <1>12, <2>1, <2>3, OperationsUntouched DEF Finish, Inv
<1>13. ASSUME NEW o \in Op, SendCompletion(o) PROVE Inv' /\ HubMoves
  <2>1. HubMoves
    BY <1>13 DEF SendCompletion, HubMoves
  <2>2. messages' \in Seq(Message) /\ Len(messages') <= ChannelCapacity
    <3>1. [type |-> "Completion", op |-> o, result |-> outcome[o]] \in Message
      BY DEF Message, Inv, TypeOK
    <3>2. CASE UNCHANGED messages
      BY <3>2 DEF Inv, TypeOK
    <3>3. CASE ChannelOpen /\ messages' = Append(messages,
                 [type |-> "Completion", op |-> o, result |-> outcome[o]])
      BY <1>1, <3>1, <3>3, AppendProperties, LenProperties DEF ChannelOpen
    <3> QED
      BY <1>13, <3>2, <3>3 DEF SendCompletion
  <2>3. TypeOK'
    BY <1>2, <1>13, <2>1, <2>2 DEF SendCompletion, workerVars, WorkerState, Inv, TypeOK
  <2> QED
    BY <1>2, <1>13, <2>1, <2>3, OperationsUntouched DEF SendCompletion, Inv
<1>14. ASSUME NEW o \in Op, Panic(o) PROVE Inv' /\ HubMoves
  <2>1. HubMoves
    BY <1>14 DEF Panic, HubMoves
  <2>2. messages' \in Seq(Message) /\ Len(messages') <= ChannelCapacity
    BY <1>14 DEF Panic, Inv, TypeOK
  <2>3. TypeOK'
    BY <1>2, <1>14, <2>1, <2>2 DEF Panic, workerVars, WorkerState, Inv, TypeOK
  <2> QED
    BY <1>2, <1>14, <2>1, <2>3, OperationsUntouched DEF Panic, Inv
<1>15. ASSUME SendTask PROVE Inv' /\ HubMoves
  <2>1. HubMoves
    BY <1>15 DEF SendTask, HubMoves
  <2>2. messages' \in Seq(Message) /\ Len(messages') <= ChannelCapacity
    <3>1. [type |-> "Task"] \in Message
      BY DEF Message
    <3> QED
      BY <1>1, <1>15, <3>1, AppendProperties, LenProperties DEF SendTask, ChannelOpen
  <2>3. TypeOK'
    BY <1>2, <1>15, <2>1, <2>2 DEF SendTask, workerVars, WorkerState, Inv, TypeOK
  <2> QED
    BY <1>2, <1>15, <2>1, <2>3, OperationsUntouched DEF SendTask, Inv
<1>16. ASSUME NEW s \in Subscriber, Client(s) PROVE Inv' /\ HubMoves
  <2>1. HubMoves /\ UNCHANGED opVars
    BY <1>16 DEF Client, HubMoves, HubStep, SubscriberNext
  <2>2. TypeOK'
    BY <1>2, <2>1 DEF opVars, Inv, TypeOK
  <2> QED
    BY <1>2, <2>1, <2>2, OperationsUntouched DEF opVars, Inv
<1>17. ASSUME UNCHANGED vars PROVE Inv' /\ HubMoves
  <2>1. HubMoves /\ UNCHANGED opVars
    BY <1>17 DEF vars, HubMoves
  <2>2. TypeOK'
    BY <1>2, <2>1 DEF opVars, Inv, TypeOK
  <2> QED
    BY <1>2, <2>1, <2>2, OperationsUntouched DEF opVars, Inv
<1> QED
  BY <1>4, <1>5, <1>6, <1>7, <1>8, <1>9, <1>10, <1>11, <1>12, <1>13, <1>14, <1>15,
     <1>16, <1>17 DEF Next, Command, HandleMessage, Work

\* The invariant holds in every reachable state.
THEOREM Invariance == Spec => []Inv
<1>1. Init => Inv
  BY InitEstablishes
<1>2. Inv /\ [Next]_vars => Inv'
  BY NextPreserves
<1> QED
  BY <1>1, <1>2, PTL DEF Spec

\* TypeOK, for every instance: in particular the channel of progress, completions
\* and task snapshots never exceeds its capacity.
THEOREM TypeCorrectness == Spec => []TypeOK
<1>1. Inv => TypeOK
  BY DEF Inv
<1> QED
  BY <1>1, Invariance, PTL

\* SlotsCounted: the slot count of the actor is the number of running operations
\* and never exceeds max_active.
THEOREM SlotSafety == Spec => []SlotsCounted
<1>1. Inv => SlotsCounted
  BY DEF Inv
<1> QED
  BY <1>1, Invariance, PTL

\* QueueConsistent: queue and operations map agree, max_queued is respected, and
\* no operation waits while a slot is free.
THEOREM QueueSafety == Spec => []QueueConsistent
<1>1. Inv => QueueConsistent
  BY DEF Inv
<1> QED
  BY <1>1, Invariance, PTL

\* RetentionConsistent: what the actor keeps of settled operations is what its
\* terminal list names, within retained_terminal.
THEOREM RetentionSafety == Spec => []RetentionConsistent
<1>1. Inv => RetentionConsistent
  BY DEF Inv
<1> QED
  BY <1>1, Invariance, PTL

\* AccountsAgree: slots, queue, map and the list of the settled operations agree in every
\* state, for all limits.
THEOREM AccountSafety == Spec => []AccountsAgree
<1>1. Inv => AccountsAgree
  BY DEF Inv, AccountsAgree
<1> QED
  BY <1>1, Invariance, PTL

\* NoSilentGap: no subscriber is ever handed an event after a hole, for any
\* journal and channel length and any interleaving of publishing and reading.
THEOREM StreamSafety == Spec => NoSilentGap
<1> DEFINE Step == \A s \in Subscriber :
                     cursor[s] # 0 => cursor'[s] \in {0, cursor[s], cursor[s] + 1}
<1>1. Inv /\ [Next]_vars => [Step]_hubVars
  <2> SUFFICES ASSUME Inv, [Next]_vars PROVE Step
    OBVIOUS
  <2>1. HubStep(Body) \/ UNCHANGED hubVars
    BY NextPreserves DEF HubMoves
  <2> QED
    BY <2>1, HubStepNoSilentGap DEF Inv, TypeOK
<1> QED
  BY <1>1, Invariance, PTL DEF Spec, NoSilentGap

-----------------------------------------------------------------------------
(* The actor is a first-in first-out server. *)

\* The settled operations, as FifoServer sees them.
Settled == InState(Outcome \cup {"evicted"})

\* What schedule() makes of queue, served and settled operations.
LEMMA ScheduleServes ==
  ASSUME NEW q, NEW a, NEW stateBefore \in [Op -> OpState],
         NEW revisionBefore, NEW eventsBefore,
         ReadyToSchedule(q, a, stateBefore),
         Schedule(q, a, stateBefore, revisionBefore, eventsBefore)
  PROVE  /\ queued' = IF a < MaxActive THEN Rest(q) ELSE q
         /\ Running' = {x \in Op : stateBefore[x] = "Running"}
                        \cup (IF a < MaxActive THEN First(q) ELSE {})
         /\ Settled' = {x \in Op : stateBefore[x] \in Outcome \cup {"evicted"}}
<1>1. /\ queued' = Popped(q, Promoted(q, a))
      /\ state' = [x \in Op |-> IF x \in Promoted(q, a) THEN "Running"
                                                        ELSE stateBefore[x]]
  BY DEF Schedule
<1>2. Promoted(q, a) \subseteq Op
      /\ \A x \in Promoted(q, a) : stateBefore[x] = "Queued"
  <2>1. q # <<>> => Head(q) \in Range(q)
    BY PoppedQueue DEF ReadyToSchedule
  <2> QED
    BY <2>1 DEF Promoted, First, ReadyToSchedule
<1>3. Running' = {x \in Op : stateBefore[x] = "Running"} \cup Promoted(q, a)
  BY <1>1, <1>2 DEF Running, InState
<1>4. Settled' = {x \in Op : stateBefore[x] \in Outcome \cup {"evicted"}}
  BY <1>1, <1>2 DEF Settled, InState, Outcome
<1>5. queued' = IF a < MaxActive THEN Rest(q) ELSE q
  BY <1>1 DEF Popped, Promoted, First, Rest
<1> QED
  BY <1>3, <1>4, <1>5 DEF Promoted

\* What settling an operation makes of queue, served and settled operations.
LEMMA ConcludeServes ==
  ASSUME Inv, NEW o \in Op, state[o] \in {"Queued", "Running"},
         NEW r \in Outcome, NEW q, NEW a, TakenOut(o, q, a), Conclude(o, r, q, a)
  PROVE  /\ queued' = IF a < MaxActive THEN Rest(q) ELSE q
         /\ Running' = (Running \ {o}) \cup (IF a < MaxActive THEN First(q) ELSE {})
         /\ Settled' = Settled \cup {o}
<1> DEFINE expired == Expired(Append(terminal, o))
<1>1. /\ Schedule(q, a, StateBefore(o, r), [revision EXCEPT ![o] = @ + 1],
                  <<Event(o, r, revision[o] + 1)>>)
      /\ StateBefore(o, r) \in [Op -> OpState]
      /\ StateBefore(o, r)[o] = r
      /\ \A x \in expired : /\ x \in Op /\ x # o
                             /\ StateBefore(o, r)[x] = "evicted"
                             /\ state[x] \in Outcome
      /\ \A x \in Op : x # o /\ x \notin expired => StateBefore(o, r)[x] = state[x]
      /\ ReadyToSchedule(q, a, StateBefore(o, r))
  BY ConcludePrepares
<1> HIDE DEF expired
<1>2. {x \in Op : StateBefore(o, r)[x] = "Running"} = Running \ {o}
  BY <1>1 DEF Running, InState, Outcome
<1>3. {x \in Op : StateBefore(o, r)[x] \in Outcome \cup {"evicted"}} = Settled \cup {o}
  BY <1>1 DEF Settled, InState, Outcome
<1> QED
  BY <1>1, <1>2, <1>3, ScheduleServes

\* The initial states of the actor are initial states of the server.
LEMMA InitImplements == Init => Fifo!Init
<1> SUFFICES ASSUME Init PROVE Fifo!Init
  OBVIOUS
<1>1. Running = {} /\ InState(Outcome \cup {"evicted"}) = {}
  BY DEF Init, Running, InState, Outcome
<1> QED
  BY <1>1 DEF Init, Fifo!Init

\* Every step of the actor is a step of the server or leaves it as it is.
LEMMA NextImplements ==
  ASSUME Inv, [Next]_vars
  PROVE  [Fifo!Next]_(Fifo!jobs)
<1> USE OperationAssumption
<1>1. /\ state \in [Op -> OpState] /\ queued \in Seq(Op) /\ active \in Nat
      /\ Distinct(queued) /\ Range(queued) = InState({"Queued"})
      /\ active <= MaxActive /\ Len(queued) <= MaxQueued
      /\ active < MaxActive => queued = <<>>
      /\ active = Cardinality(Running)
      /\ Range(terminal) = InState(Outcome)
  BY DEF Inv, TypeOK, QueueConsistent, SlotsCounted, RetentionConsistent
<1>2. /\ queued' = queued /\ state' = state => UNCHANGED Fifo!jobs
  BY DEF Fifo!jobs, Running, InState
<1>3. ASSUME NEW o \in Op, Start(o) PROVE Fifo!Arrive(o)
  <2> DEFINE stateBefore == [state EXCEPT ![o] = "Queued"]
  <2>1. /\ state[o] = "absent"
        /\ ~(active >= MaxActive /\ Len(queued) >= MaxQueued)
        /\ Schedule(Append(queued, o), active, stateBefore,
                    [revision EXCEPT ![o] = 1], <<Event(o, "Queued", 1)>>)
    BY <1>3 DEF Start
  <2>2. /\ stateBefore \in [Op -> OpState] /\ stateBefore[o] = "Queued"
        /\ \A x \in Op : x # o => stateBefore[x] = state[x]
    BY <1>1 DEF OpState, Known
  <2> HIDE DEF stateBefore
  <2>3. o \notin Range(queued) \cup Running \cup Settled
    BY <1>1, <2>1 DEF InState, Running, Settled, Outcome
  <2>4. ReadyToSchedule(Append(queued, o), active, stateBefore)
    BY <1>1, <2>1, <2>2, StartPrepares
  <2>5. /\ {x \in Op : stateBefore[x] = "Running"} = Running
        /\ {x \in Op : stateBefore[x] \in Outcome \cup {"evicted"}} = Settled
    BY <2>1, <2>2 DEF Running, InState, Settled, Outcome
  <2>6. /\ queued' = IF active < MaxActive THEN Rest(Append(queued, o))
                                          ELSE Append(queued, o)
        /\ Running' = Running \cup (IF active < MaxActive
                                    THEN First(Append(queued, o)) ELSE {})
        /\ Settled' = Settled
    BY <2>1, <2>2, <2>4, <2>5, ScheduleServes
  <2> DEFINE settled == InState(Outcome \cup {"evicted"})
  <2>7. o \notin Fifo!Range(queued) \cup Running \cup settled /\ UNCHANGED settled
    BY <2>3, <2>6 DEF Settled, Fifo!Range, Range
  <2>8. Fifo!Cardinality(Running) = Cardinality(Running)
    BY DEF Fifo!Cardinality, Cardinality
  <2>9. CASE active < MaxActive
    <3>1. queued = <<>>
      BY <1>1, <2>9
    <3>2. Append(queued, o) # <<>>
      BY <1>1, AppendProperties
    <3>3. Head(Append(queued, o)) = o /\ Tail(Append(queued, o)) = <<>>
      BY <1>1, <3>1, HeadTailAppend
    <3>4. First(Append(queued, o)) = {o} /\ Rest(Append(queued, o)) = <<>>
      BY <3>2, <3>3 DEF First, Rest
    <3> QED
      <4>1. /\ Cardinality(Running) < MaxActive
            /\ Running' = Running \cup {o} /\ queued' = queued
        BY <1>1, <2>6, <2>9, <3>1, <3>4
      <4> QED
        BY <2>7, <2>8, <4>1 DEF Fifo!Arrive
  <2>10. CASE ~(active < MaxActive)
    <3>1. active = MaxActive /\ Len(queued) < MaxQueued
      <4>1. Len(queued) \in Nat
        BY <1>1, LenProperties
      <4> QED
        BY <4>1, <1>1, <2>1, <2>10
    <3> QED
      <4>1. /\ Cardinality(Running) = MaxActive /\ Len(queued) < MaxQueued
            /\ Running' = Running /\ queued' = Append(queued, o)
        BY <1>1, <2>6, <2>10, <3>1
      <4> QED
        BY <2>7, <2>8, <4>1 DEF Fifo!Arrive
  <2> QED
    BY <2>9, <2>10
<1>4. ASSUME NEW o \in Op, CancelQueued(o) PROVE Fifo!Leave(o)
  <2>1. state[o] = "Queued" /\ Conclude(o, "Cancelled", Without(queued, o), active)
    BY <1>4 DEF CancelQueued
  <2>2. o \in Range(queued) /\ ~(active < MaxActive)
    <3>1. o \in Range(queued)
      BY <1>1, <2>1 DEF InState
    <3>2. queued # <<>>
      BY <1>1, <3>1, RetainedQueue, EmptySeq
    <3> QED
      BY <1>1, <3>1, <3>2
  <2>3. TakenOut(o, Without(queued, o), active)
    BY <1>1, <2>1, <2>2, CancelPrepares
  <2>4. /\ queued' = Without(queued, o) /\ Running' = Running \ {o}
        /\ Settled' = Settled \cup {o}
    BY <2>1, <2>2, <2>3, ConcludeServes DEF Outcome
  <2>5. Running \ {o} = Running
    BY <2>1 DEF Running, InState
  <2> QED
    BY <2>2, <2>4, <2>5 DEF Fifo!Leave, Settled, Fifo!Without, Without, Fifo!Range, Range
<1>5. ASSUME HandleCompletion
      PROVE  \/ \E o \in Op : Fifo!Depart(o)
             \/ UNCHANGED Fifo!jobs
  <2> DEFINE o == Head(messages).op
  <2>1. /\ o \in Op /\ Head(messages).result \in Outcome
        /\ IF state[o] = "Running"
           THEN Conclude(o, Head(messages).result, queued, active - 1)
           ELSE UNCHANGED <<state, revision, queued, terminal, active, worker,
                            nextSequence, journal, live>>
    <3>1. Head(messages) \in Message
      BY <1>5, HeadTailProperties DEF HandleCompletion, Inv, TypeOK
    <3> QED
      BY <1>5, <3>1 DEF HandleCompletion, Message
  <2> HIDE DEF o
  <2>2. CASE state[o] = "Running"
    <3>1. TakenOut(o, queued, active - 1) /\ active - 1 < MaxActive
      BY <1>1, <2>1, <2>2, CompletionPrepares
    <3>2. /\ queued' = Rest(queued) /\ Running' = (Running \ {o}) \cup First(queued)
          /\ Settled' = Settled \cup {o}
      BY <2>1, <2>2, <3>1, ConcludeServes
    <3>3. o \in Running
      BY <2>1, <2>2 DEF Running, InState
    <3> QED
      BY <2>1, <3>2, <3>3 DEF Fifo!Depart, Settled, Fifo!First, Fifo!Rest, First, Rest
  <2>3. CASE state[o] # "Running"
    BY <2>1, <2>3, <1>2
  <2> QED
    BY <2>2, <2>3
<1>6. ASSUME \/ HandleProgress \/ HandleTask \/ SendTask \/ Shutdown
             \/ \E o \in Op : CancelRunning(o) \/ Work(o)
             \/ \E s \in Subscriber : Client(s)
             \/ UNCHANGED vars
      PROVE  queued' = queued /\ state' = state
  BY <1>6 DEF HandleProgress, HandleTask, SendTask, Shutdown, CancelRunning, Work,
     Report, Finish, SendCompletion, Panic, Client, vars, opVars
<1> QED
  BY <1>2, <1>3, <1>4, <1>5, <1>6 DEF Next, Command, HandleMessage, Fifo!Next

\* ImplementsFifoServer: the actor is a first-in first-out server that keeps its
\* slots busy, refuses only when full and settles each operation once.
THEOREM Refinement == Spec => ImplementsFifoServer
<1>1. Init => Fifo!Init
  BY InitImplements
<1>2. Inv /\ [Next]_vars => [Fifo!Next]_(Fifo!jobs)
  BY NextImplements
<1> QED
  BY <1>1, <1>2, Invariance, PTL DEF Spec, ImplementsFifoServer, Fifo!Spec

-----------------------------------------------------------------------------
(* What will end each running operation. *)

Alive(o) == worker[o] \in {"working", "sending"}
Completions(o) == {i \in DOMAIN messages : Completes(i, o)}

\* RunningIsBacked for one operation, without counting.
Backed(o) ==
  /\ \A i, j \in Completions(o) : i = j
  /\ Alive(o) => Completions(o) = {}
  /\ state[o] = "Running" /\ worker[o] # "panicked" <=> Alive(o) \/ Completions(o) # {}

Backing == runtime = "Ready" => \A o \in Op : Backed(o)

\* A message goes into the channel behind the others.
LEMMA MessageSent ==
  ASSUME messages \in Seq(Message), NEW m \in Message, messages' = Append(messages, m), NEW o \in Op
  PROVE  /\ ~(m.type = "Completion" /\ m.op = o) => Completions(o)' = Completions(o)
         /\ m.type = "Completion" /\ m.op = o =>
              Completions(o)' = Completions(o) \cup {Len(messages) + 1}
<1>1. /\ Len(messages) \in Nat /\ DOMAIN messages = 1..Len(messages)
      /\ messages' \in Seq(Message) /\ Len(messages') = Len(messages) + 1
      /\ \A i \in 1..Len(messages) : messages'[i] = messages[i]
      /\ messages'[Len(messages) + 1] = m
  BY LenProperties, AppendProperties
<1>2. DOMAIN messages' = 1..(Len(messages) + 1)
  BY <1>1, LenProperties
<1>3. \A i \in 1..Len(messages) : i \in Completions(o)' <=> i \in Completions(o)
  BY <1>1, <1>2 DEF Completions, Completes
<1>4. Len(messages) + 1 \in Completions(o)' <=> m.type = "Completion" /\ m.op = o
  BY <1>1, <1>2 DEF Completions, Completes
<1>5. Completions(o) \subseteq 1..Len(messages) /\ Completions(o)' \subseteq 1..(Len(messages) + 1)
  BY <1>1, <1>2 DEF Completions
<1>6. 1..(Len(messages) + 1) = 1..Len(messages) \cup {Len(messages) + 1}
  BY <1>1
<1> QED
  BY <1>3, <1>4, <1>5, <1>6

\* The first message is taken out, and the others move up.
LEMMA MessageTaken ==
  ASSUME messages \in Seq(Message), messages # <<>>, messages' = Tail(messages), NEW o \in Op,
         \A i, j \in Completions(o) : i = j
  PROVE  /\ \A i, j \in Completions(o)' : i = j
         /\ Completes(1, o) => Completions(o)' = {}
         /\ ~Completes(1, o) => (Completions(o)' = {} <=> Completions(o) = {})
<1>1. /\ Len(messages) \in Nat \ {0} /\ DOMAIN messages = 1..Len(messages)
      /\ messages' \in Seq(Message) /\ Len(messages') = Len(messages) - 1
      /\ \A i \in 1..Len(messages') : messages'[i] = messages[i + 1]
  BY EmptySeq, LenProperties, HeadTailProperties
<1>2. DOMAIN messages' = 1..(Len(messages) - 1)
  BY <1>1, LenProperties
<1>3. \A i \in 1..(Len(messages) - 1) : i \in Completions(o)' <=> i + 1 \in Completions(o)
  BY <1>1, <1>2 DEF Completions, Completes
<1>4. /\ Completions(o) \subseteq 1..Len(messages)
      /\ Completions(o)' \subseteq 1..(Len(messages) - 1)
  BY <1>1, <1>2 DEF Completions
<1>5. 1 \in Completions(o) <=> Completes(1, o)
  BY <1>1 DEF Completions
<1>6. \A i \in Completions(o)' : i + 1 \in Completions(o) /\ i + 1 # 1 /\ i \in Int
  BY <1>1, <1>3, <1>4
<1>7. \A i \in Completions(o) \ {1} : i - 1 \in Completions(o)'
  <2> SUFFICES ASSUME NEW i \in Completions(o) \ {1} PROVE i - 1 \in Completions(o)'
    OBVIOUS
  <2>1. i - 1 \in 1..(Len(messages) - 1) /\ (i - 1) + 1 = i
    BY <1>1, <1>4
  <2> QED
    BY <2>1, <1>3
<1>8. ASSUME NEW i \in Completions(o)', NEW j \in Completions(o)' PROVE i = j
  <2>1. i + 1 = j + 1 /\ i \in Int /\ j \in Int
    BY <1>6
  <2> QED
    BY <2>1
<1> QED
  BY <1>5, <1>6, <1>7, <1>8

\* schedule() starts what was queued, and leaves the other operations to the handler.
LEMMA ScheduleStarts ==
  ASSUME NEW q, NEW a, NEW stateBefore \in [Op -> OpState], NEW revisionBefore, NEW eventsBefore,
         ReadyToSchedule(q, a, stateBefore), worker \in [Op -> WorkerState],
         Schedule(q, a, stateBefore, revisionBefore, eventsBefore), NEW o \in Op
  PROVE  \/ stateBefore[o] = "Queued" /\ state'[o] = "Running" /\ worker'[o] = "working"
         \/ state'[o] = stateBefore[o] /\ worker'[o] = worker[o]
<1>1. /\ state'[o] = IF o \in Promoted(q, a) THEN "Running" ELSE stateBefore[o]
      /\ worker'[o] = IF o \in Promoted(q, a) THEN "working" ELSE worker[o]
  BY DEF Schedule
<1>2. \A x \in Promoted(q, a) : stateBefore[x] = "Queued"
  <2>1. q # <<>> => Head(q) \in Range(q)
    BY PoppedQueue DEF ReadyToSchedule
  <2> QED
    BY <2>1 DEF Promoted, First, ReadyToSchedule
<1> QED
  BY <1>1, <1>2

\* The operations a handler settles or starts keep their backing, or lose it.
LEMMA ConcludeStarts ==
  ASSUME Inv, NEW o \in Op, state[o] \in {"Queued", "Running"},
         NEW r \in Outcome, NEW q, NEW a, TakenOut(o, q, a), Conclude(o, r, q, a), NEW x \in Op
  PROVE  \/ x # o /\ state[x] = "Queued" /\ state'[x] = "Running" /\ worker'[x] = "working"
         \/ x # o /\ state'[x] = state[x] /\ worker'[x] = worker[x]
         \/ /\ x = o \/ state[x] \in Outcome
            /\ state'[x] # "Running" /\ worker'[x] = worker[x]
<1>1. LET expired == Expired(Append(terminal, o))
      IN  /\ Schedule(q, a, StateBefore(o, r), [revision EXCEPT ![o] = @ + 1],
                      <<Event(o, r, revision[o] + 1)>>)
          /\ StateBefore(o, r) \in [Op -> OpState]
          /\ StateBefore(o, r)[o] = r
          /\ \A y \in expired : /\ y \in Op /\ y # o
                                 /\ StateBefore(o, r)[y] = "evicted"
                                 /\ state[y] \in Outcome
          /\ \A y \in Op : y # o /\ y \notin expired => StateBefore(o, r)[y] = state[y]
          /\ ReadyToSchedule(q, a, StateBefore(o, r))
  BY ConcludePrepares
<1>2. worker \in [Op -> WorkerState]
  BY DEF Inv, TypeOK
<1>3. \/ StateBefore(o, r)[x] = "Queued" /\ state'[x] = "Running" /\ worker'[x] = "working"
      \/ state'[x] = StateBefore(o, r)[x] /\ worker'[x] = worker[x]
  BY <1>1, <1>2, ScheduleStarts
<1>4. \/ x # o /\ StateBefore(o, r)[x] = state[x]
      \/ (x = o \/ state[x] \in Outcome) /\ StateBefore(o, r)[x] \in Outcome \cup {"evicted"}
  BY <1>1
<1>5. "Queued" \notin Outcome \cup {"evicted"} /\ "Running" \notin Outcome \cup {"evicted"}
  BY DEF Outcome
<1> QED
  BY <1>3, <1>4, <1>5

\* Nothing happens to what an operation is backed by.
LEMMA BackingStays ==
  ASSUME NEW o \in Op, Backed(o), worker'[o] = worker[o],
         state'[o] = "Running" <=> state[o] = "Running",
         \A i, j \in Completions(o)' : i = j,
         Completions(o)' = {} <=> Completions(o) = {}
  PROVE  Backed(o)'
<1>1. Alive(o)' = Alive(o)
  BY DEF Alive
<1> QED
  BY <1>1 DEF Backed

\* The same for all operations when the channel, too, is left alone or is short of a
\* message that is no completion.
LEMMA BackingUntouched ==
  ASSUME Backing, UNCHANGED <<state, worker, messages, runtime>>
  PROVE  Backing'
BY DEF Backing, Backed, Alive, Completions, Completes

\* The handlers: a message is taken, and the operation of a completion loses its backing
\* in the step in which it is settled.
LEMMA HandlersKeepBacking ==
  ASSUME Inv, Backing, HandleMessage
  PROVE  Backing'
<1>1. /\ messages \in Seq(Message) /\ messages # <<>> /\ messages' = Tail(messages)
      /\ runtime = "Ready" /\ \A o \in Op : Backed(o)
  BY DEF Inv, TypeOK, Backing, HandleMessage, HandleProgress, HandleCompletion, HandleTask
<1>2. Head(messages) \in Message /\ Head(messages) = messages[1] /\ 1 \in DOMAIN messages
  BY <1>1, HeadTailProperties, EmptySeq, LenProperties
<1>3. ASSUME NEW o \in Op
      PROVE  /\ \A i, j \in Completions(o)' : i = j
             /\ Completes(1, o) => Completions(o)' = {}
             /\ ~Completes(1, o) => (Completions(o)' = {} <=> Completions(o) = {})
  BY <1>1, MessageTaken DEF Backed
<1>4. ASSUME HandleProgress \/ HandleTask, NEW o \in Op PROVE Backed(o)'
  <2>1. UNCHANGED <<state, worker>> /\ ~Completes(1, o)
    BY <1>2, <1>4 DEF HandleProgress, HandleTask, workerVars, Completes
  <2> QED
    BY <2>1, <1>1, <1>3, BackingStays
<1>5. ASSUME HandleCompletion, NEW x \in Op PROVE Backed(x)'
  <2>0. PICK o \in Op : o = Head(messages).op
    BY <1>2, <1>5 DEF HandleCompletion, Message
  <2>1. /\ o \in Op /\ Head(messages).result \in Outcome /\ Head(messages).type = "Completion"
        /\ IF state[o] = "Running"
           THEN Conclude(o, Head(messages).result, queued, active - 1)
           ELSE UNCHANGED <<state, revision, queued, terminal, active, worker,
                            nextSequence, journal, live>>
    BY <1>2, <1>5, <2>0 DEF HandleCompletion, Message
  <2>2. \A y \in Op : Completes(1, y) <=> y = o
    BY <1>2, <2>0, <2>1 DEF Completes
  <2>3. 1 \in Completions(o)
    BY <1>2, <2>1, <2>2 DEF Completions
  <2>4. state[o] = "Running" /\ ~Alive(o)
    BY <1>1, <2>1, <2>3 DEF Backed
  <2>5. TakenOut(o, queued, active - 1)
    BY <2>1, <2>4, CompletionPrepares
  <2>6. \/ x # o /\ state[x] = "Queued" /\ state'[x] = "Running" /\ worker'[x] = "working"
        \/ x # o /\ state'[x] = state[x] /\ worker'[x] = worker[x]
        \/ /\ x = o \/ state[x] \in Outcome
           /\ state'[x] # "Running" /\ worker'[x] = worker[x]
    BY <2>1, <2>4, <2>5, ConcludeStarts
  <2>7. CASE x = o
    <3>1. Completions(o)' = {} /\ state'[x] # "Running" /\ ~Alive(o)'
      BY <2>1, <2>2, <2>4, <2>6, <2>7, <1>3 DEF Alive
    <3> QED
      BY <2>7, <3>1 DEF Backed
  <2>8. CASE x # o
    <3>1. /\ \A i, j \in Completions(x)' : i = j
          /\ Completions(x)' = {} <=> Completions(x) = {}
      BY <2>2, <2>8, <1>3
    <3>2. CASE state[x] = "Queued" /\ state'[x] = "Running" /\ worker'[x] = "working"
      <4>1. Completions(x) = {} /\ Alive(x)'
        BY <1>1, <3>2 DEF Backed, Alive
      <4> QED
        BY <3>1, <3>2, <4>1 DEF Backed
    <3>3. CASE worker'[x] = worker[x] /\ (state'[x] = "Running" <=> state[x] = "Running")
      BY <1>1, <3>1, <3>3, BackingStays
    <3> QED
      BY <2>6, <2>8, <3>2, <3>3 DEF Outcome
  <2> QED
    BY <2>7, <2>8
<1> QED
  BY <1>4, <1>5 DEF HandleMessage, Backing

\* The commands: what is started was queued, and what is cancelled in the queue had no
\* worker.
LEMMA CommandsKeepBacking ==
  ASSUME Inv, Backing, NEW o \in Op, Command(o)
  PROVE  Backing'
<1>1. /\ runtime = "Ready" /\ UNCHANGED <<runtime, messages>> /\ \A x \in Op : Backed(x)
      /\ state \in [Op -> OpState] /\ worker \in [Op -> WorkerState]
      /\ revision \in [Op -> Nat]
  BY DEF Command, Start, CancelQueued, CancelRunning, Backing, Inv, TypeOK
<1>2. ASSUME NEW x \in Op
      PROVE  Completions(x)' = Completions(x) /\ \A i, j \in Completions(x)' : i = j
  BY <1>1 DEF Completions, Completes, Backed
<1>3. ASSUME NEW x \in Op, state[x] # "Running", state'[x] = "Running", worker'[x] = "working"
      PROVE  Backed(x)'
  <2>1. Completions(x) = {} /\ Alive(x)'
    BY <1>1, <1>3 DEF Backed, Alive
  <2> QED
    BY <1>2, <1>3, <2>1 DEF Backed
<1>4. ASSUME NEW x \in Op, worker'[x] = worker[x], state'[x] = "Running" <=> state[x] = "Running"
      PROVE  Backed(x)'
  BY <1>1, <1>2, <1>4, BackingStays
<1>5. ASSUME Start(o), NEW x \in Op PROVE Backed(x)'
  <2> DEFINE stateBefore == [state EXCEPT ![o] = "Queued"]
  <2>1. /\ state[o] = "absent"
        /\ ~(active >= MaxActive /\ Len(queued) >= MaxQueued)
        /\ Schedule(Append(queued, o), active, stateBefore, [revision EXCEPT ![o] = 1],
                    <<Event(o, "Queued", 1)>>)
    BY <1>5 DEF Start
  <2>2. /\ stateBefore \in [Op -> OpState] /\ stateBefore[o] = "Queued"
        /\ \A y \in Op : y # o => stateBefore[y] = state[y]
    BY <1>1 DEF OpState, Known
  <2> HIDE DEF stateBefore
  <2>3. ReadyToSchedule(Append(queued, o), active, stateBefore)
    BY <2>1, <2>2, StartPrepares
  <2>4. \/ stateBefore[x] = "Queued" /\ state'[x] = "Running" /\ worker'[x] = "working"
        \/ state'[x] = stateBefore[x] /\ worker'[x] = worker[x]
    BY <1>1, <2>1, <2>2, <2>3, ScheduleStarts
  <2>5. stateBefore[x] = state[x] \/ (stateBefore[x] = "Queued" /\ state[x] = "absent")
    BY <2>1, <2>2
  <2> QED
    BY <2>4, <2>5, <1>3, <1>4
<1>6. ASSUME CancelQueued(o), NEW x \in Op PROVE Backed(x)'
  <2>1. state[o] = "Queued" /\ Conclude(o, "Cancelled", Without(queued, o), active)
    BY <1>6 DEF CancelQueued
  <2>2. TakenOut(o, Without(queued, o), active)
    BY <2>1, CancelPrepares
  <2>3. \/ x # o /\ state[x] = "Queued" /\ state'[x] = "Running" /\ worker'[x] = "working"
        \/ x # o /\ state'[x] = state[x] /\ worker'[x] = worker[x]
        \/ /\ x = o \/ state[x] \in Outcome
           /\ state'[x] # "Running" /\ worker'[x] = worker[x]
    BY <2>1, <2>2, ConcludeStarts DEF Outcome
  <2>4. state[x] \in Outcome \/ x = o => state[x] # "Running"
    BY <2>1 DEF Outcome
  <2> QED
    BY <2>3, <2>4, <1>3, <1>4
<1>7. ASSUME CancelRunning(o), NEW x \in Op PROVE Backed(x)'
  BY <1>4, <1>7 DEF CancelRunning, workerVars
<1> QED
  BY <1>1, <1>5, <1>6, <1>7 DEF Command, Backing

\* The workers: a completion takes the place of the worker that sends it.
LEMMA WorkersKeepBacking ==
  ASSUME Inv, Backing, runtime = "Ready", NEW o \in Op, Work(o)
  PROVE  Backing'
<1>1. /\ \A x \in Op : Backed(x)
      /\ messages \in Seq(Message) /\ worker \in [Op -> WorkerState]
      /\ outcome \in [Op -> Outcome]
  BY DEF Backing, Inv, TypeOK
<1>2. UNCHANGED <<runtime, state>>
  BY DEF Work, Report, Finish, SendCompletion, Panic
<1>3. ASSUME Report(o), NEW x \in Op PROVE Backed(x)'
  <2> DEFINE m == [type |-> "Progress", op |-> o]
  <2>1. m \in Message /\ m.type # "Completion" /\ messages' = Append(messages, m)
        /\ UNCHANGED <<state, worker>>
    BY <1>3 DEF Report, Message
  <2> HIDE DEF m
  <2>2. Completions(x)' = Completions(x)
    BY <1>1, <2>1, MessageSent
  <2> QED
    BY <1>1, <2>1, <2>2, BackingStays DEF Backed
<1>4. ASSUME Finish(o) \/ Panic(o), NEW x \in Op PROVE Backed(x)'
  <2>1. /\ worker[o] = "working" /\ UNCHANGED <<state, messages>>
        /\ \E w \in {"sending", "panicked"} : worker' = [worker EXCEPT ![o] = w]
    BY <1>4 DEF Finish, Panic
  <2>2. Completions(x)' = Completions(x)
    BY <2>1 DEF Completions, Completes
  <2>3. CASE x = o
    <3>1. Completions(o) = {} /\ state[o] = "Running" /\ worker'[o] \in {"sending", "panicked"}
      BY <1>1, <2>1 DEF Backed, Alive
    <3> QED
      BY <2>1, <2>2, <2>3, <3>1 DEF Backed, Alive
  <2>4. CASE x # o
    <3>1. worker'[x] = worker[x]
      BY <1>1, <2>1, <2>4
    <3> QED
      BY <1>1, <2>1, <2>2, <3>1, BackingStays DEF Backed
  <2> QED
    BY <2>3, <2>4
<1>5. ASSUME SendCompletion(o), NEW x \in Op PROVE Backed(x)'
  <2> DEFINE m == [type |-> "Completion", op |-> o, result |-> outcome[o]]
  <2>1. /\ worker[o] = "sending" /\ worker' = [worker EXCEPT ![o] = "done"] /\ UNCHANGED state
        /\ messages' = Append(messages, m)
    BY <1>5 DEF SendCompletion
  <2>2. m \in Message /\ m.type = "Completion" /\ m.op = o
    BY <1>1 DEF Message
  <2> HIDE DEF m
  <2>3. CASE x = o
    <3>1. Completions(o) = {} /\ state[o] = "Running"
      BY <1>1, <2>1 DEF Backed, Alive
    <3>2. Completions(o)' = {Len(messages) + 1}
      BY <1>1, <2>1, <2>2, <3>1, MessageSent
    <3>3. worker'[o] = "done"
      BY <1>1, <2>1
    <3> QED
      BY <2>1, <2>3, <3>1, <3>2, <3>3 DEF Backed, Alive
  <2>4. CASE x # o
    <3>1. Completions(x)' = Completions(x)
      BY <1>1, <2>1, <2>2, <2>4, MessageSent
    <3>2. worker'[x] = worker[x]
      BY <1>1, <2>1, <2>4
    <3> QED
      BY <1>1, <2>1, <3>1, <3>2, BackingStays DEF Backed
  <2> QED
    BY <2>3, <2>4
<1> QED
  BY <1>2, <1>3, <1>4, <1>5 DEF Work, Backing

LEMMA BackingKept ==
  ASSUME Inv, Backing, [Next]_vars
  PROVE  Backing'
<1>1. CASE runtime' # "Ready"
  BY <1>1 DEF Backing
<1>2. CASE runtime' = "Ready"
  <2>1. runtime = "Ready"
    BY <1>2 DEF Next, Command, Start, CancelQueued, CancelRunning, Work, Report, Finish,
                SendCompletion, Panic, HandleMessage, HandleProgress, HandleCompletion,
                HandleTask, SendTask, Shutdown, Client, vars, opVars
  <2>2. ASSUME SendTask PROVE Backing'
    <3>1. /\ messages \in Seq(Message) /\ [type |-> "Task"] \in Message
          /\ messages' = Append(messages, [type |-> "Task"])
          /\ UNCHANGED <<runtime, state, worker>> /\ [type |-> "Task"].type # "Completion"
      BY <2>2 DEF SendTask, workerVars, Inv, TypeOK, Message
    <3>2. ASSUME NEW x \in Op PROVE Backed(x)'
      <4>1. Completions(x)' = Completions(x)
        BY <3>1, MessageSent
      <4> QED
        BY <2>1, <3>1, <4>1, BackingStays DEF Backing, Backed
    <3> QED
      BY <3>2 DEF Backing
  <2>3. ASSUME NEW s \in Subscriber, Client(s) PROVE Backing'
    BY <2>3, BackingUntouched DEF Client, opVars
  <2>4. ASSUME UNCHANGED vars PROVE Backing'
    BY <2>4, BackingUntouched DEF vars, opVars
  <2>5. ~Shutdown
    BY <1>2 DEF Shutdown
  <2> QED
    BY <2>1, <2>2, <2>3, <2>4, <2>5, HandlersKeepBacking, CommandsKeepBacking,
       WorkersKeepBacking DEF Next
<1> QED
  BY <1>1, <1>2

\* RunningIsBacked: while the actor runs, each running operation has one live worker or one
\* completion in the channel, and no other operation has either; so no completion is lost
\* and none settles an operation twice.
THEOREM BackingSafety == Spec => []RunningIsBacked
<1>1. Init => Backing
  BY DEF Init, Backing, Backed, Alive, Completions, Outcome
<1>2. Inv /\ Backing /\ [Next]_vars => Backing'
  BY BackingKept
<1>3. Backing => RunningIsBacked
  <2> SUFFICES ASSUME Backing, runtime = "Ready", NEW o \in Op
               PROVE  LET completions == {i \in DOMAIN messages : Completes(i, o)}
                          alive == worker[o] \in {"working", "sending"}
                      IN  /\ Cardinality(completions) + (IF alive THEN 1 ELSE 0) <= 1
                          /\ state[o] = "Running" /\ worker[o] # "panicked"
                               <=> alive \/ completions # {}
    BY DEF RunningIsBacked
  <2>1. Backed(o)
    BY DEF Backing
  <2>2. CASE Completions(o) = {}
    <3>1. Cardinality(Completions(o)) = 0
      BY <2>2, FS_EmptySet
    <3> QED
      BY <2>1, <3>1 DEF Backed, Alive, Completions
  <2>3. CASE Completions(o) # {}
    <3>1. PICK i \in Completions(o) : Completions(o) = {i}
      BY <2>1, <2>3 DEF Backed
    <3>2. Cardinality(Completions(o)) = 1
      BY <3>1, FS_Singleton
    <3> QED
      BY <2>1, <2>3, <3>2 DEF Backed, Alive, Completions
  <2> QED
    BY <2>2, <2>3
<1> QED
  BY <1>1, <1>2, <1>3, Invariance, PTL DEF Spec

-----------------------------------------------------------------------------
(* The journal follows the operations. *)

IsOf(event, o) == event.body.subject = "Operation" /\ event.body.op = o

\* What is in a window of events about an operation that has this revision and state.
Of(window, o) == {i \in DOMAIN window : IsOf(window[i], o)}
Later(window, o, i) == {j \in Of(window, o) : i < j}
Follows(window, o, rev, st) ==
  \A i \in Of(window, o) :
    /\ rev = window[i].body.revision + Cardinality(Later(window, o, i))
    /\ Later(window, o, i) = {} /\ st # "evicted" => window[i].body.state = st

LEMMA LaterIsFinite ==
  ASSUME NEW window \in Seq(HubEvent(Body)), NEW o, NEW i
  PROVE  /\ IsFiniteSet(Later(window, o, i)) /\ Cardinality(Later(window, o, i)) \in Nat
         /\ Later(window, o, i) \subseteq 1..Len(window) /\ Len(window) \in Nat
<1>1. Len(window) \in Nat /\ DOMAIN window = 1..Len(window)
  BY LenProperties
<1>2. IsFiniteSet(1..Len(window))
  <2>1. 1 \in Int /\ Len(window) \in Int
    BY <1>1
  <2> QED
    BY <2>1, FS_Interval
<1>3. Later(window, o, i) \in SUBSET (1..Len(window))
  BY <1>1 DEF Later, Of
<1> QED
  BY <1>1, <1>2, <1>3, FS_Subset, FS_CardinalityType

\* The next event of an operation, or one of another.
LEMMA EventAppended ==
  ASSUME NEW window \in Seq(HubEvent(Body)), NEW event \in HubEvent(Body), NEW o
  PROVE  LET longer == Append(window, event)
         IN  /\ longer \in Seq(HubEvent(Body))
             /\ ~IsOf(event, o) =>
                  \A rev, st : Follows(window, o, rev, st) => Follows(longer, o, rev, st)
             /\ IsOf(event, o) /\ event.body.revision \in Nat =>
                  \A st : Follows(window, o, event.body.revision - 1, st)
                            => Follows(longer, o, event.body.revision, event.body.state)
<1> DEFINE longer == Append(window, event)
           n == Len(window)
<1>1. /\ n \in Nat /\ longer \in Seq(HubEvent(Body)) /\ DOMAIN longer = 1..(n + 1)
      /\ DOMAIN window = 1..n
      /\ longer[n + 1] = event /\ \A i \in 1..n : longer[i] = window[i]
  BY LenProperties, AppendProperties
<1> HIDE DEF longer, n
<1>2. ASSUME ~IsOf(event, o), NEW rev, NEW st, Follows(window, o, rev, st)
      PROVE  Follows(longer, o, rev, st)
  <2>1. Of(longer, o) = Of(window, o)
    BY <1>1, <1>2 DEF Of
  <2>2. \A i \in Of(window, o) : longer[i] = window[i]
    BY <1>1 DEF Of
  <2> QED
    BY <1>2, <2>1, <2>2 DEF Follows, Later
<1>3. ASSUME IsOf(event, o), event.body.revision \in Nat,
             NEW st, Follows(window, o, event.body.revision - 1, st)
      PROVE  Follows(longer, o, event.body.revision, event.body.state)
  <2>1. Of(longer, o) = Of(window, o) \cup {n + 1}
    BY <1>1, <1>3 DEF Of
  <2>2. \A i \in Of(window, o) : longer[i] = window[i] /\ i \in 1..n
    BY <1>1 DEF Of
  <2> SUFFICES ASSUME NEW i \in Of(longer, o)
               PROVE  /\ event.body.revision
                           = longer[i].body.revision + Cardinality(Later(longer, o, i))
                      /\ Later(longer, o, i) = {} /\ event.body.state # "evicted"
                           => longer[i].body.state = event.body.state
    BY DEF Follows
  <2>3. CASE i = n + 1
    <3>1. Later(longer, o, i) = {}
      <4>1. \A j \in Of(longer, o) : ~(i < j)
        BY <1>1, <2>1, <2>2, <2>3
      <4> QED
        BY <4>1 DEF Later
    <3>2. longer[i] = event
      BY <1>1, <2>3
    <3>3. Cardinality(Later(longer, o, i)) = 0
      BY <3>1, FS_EmptySet
    <3>4. event.body.revision = event.body.revision + 0
      BY <1>3
    <3> QED
      BY <3>2, <3>3, <3>4
  <2>4. CASE i \in Of(window, o)
    <3>1. Later(longer, o, i) = Later(window, o, i) \cup {n + 1}
      <4>1. i < n + 1
        BY <1>1, <2>2, <2>4
      <4> QED
        BY <2>1, <4>1 DEF Later
    <3>2. n + 1 \notin Later(window, o, i)
      BY <1>1, <2>2 DEF Later
    <3>3. /\ Cardinality(Later(longer, o, i)) = Cardinality(Later(window, o, i)) + 1
          /\ Cardinality(Later(window, o, i)) \in Nat
      BY <3>1, <3>2, LaterIsFinite, FS_AddElement
    <3>4. event.body.revision - 1 = window[i].body.revision + Cardinality(Later(window, o, i))
      BY <1>3, <2>4 DEF Follows
    <3>5. window[i].body.revision \in Nat
      <4>1. window[i] \in HubEvent(Body)
        BY <1>1, <2>2, <2>4, ElementOfSeq DEF n
      <4> QED
        BY <2>4, <4>1 DEF HubEvent, Body, Of, IsOf
    <3>6. longer[i].body.revision = window[i].body.revision
      BY <2>2, <2>4
    <3>7. PICK r, w, c, d : /\ r = event.body.revision /\ w = window[i].body.revision
                             /\ c = Cardinality(Later(window, o, i))
                             /\ d = Cardinality(Later(longer, o, i))
      OBVIOUS
    <3>8. event.body.revision = window[i].body.revision + Cardinality(Later(longer, o, i))
      <4>1. r \in Nat /\ w \in Nat /\ c \in Nat /\ d = c + 1 /\ r - 1 = w + c
        BY <1>3, <3>3, <3>4, <3>5, <3>7
      <4>2. r = w + d
        BY <4>1
      <4> QED
        BY <3>7, <4>2
    <3>9. Later(longer, o, i) # {}
      BY <3>1
    <3> QED
      BY <3>6, <3>8, <3>9
  <2> QED
    BY <2>1, <2>3, <2>4
<1> QED
  BY <1>1, <1>2, <1>3 DEF longer

\* What is dropped is the oldest.
LEMMA WindowTrimmed ==
  ASSUME NEW window \in Seq(HubEvent(Body)), NEW size \in Nat \ {0}, NEW o, NEW rev, NEW st,
         Follows(window, o, rev, st)
  PROVE  Follows(Youngest(window, size), o, rev, st)
<1> DEFINE kept == Youngest(window, size)
           d == Len(window) - Len(kept)
<1>1. /\ kept \in Seq(HubEvent(Body)) /\ Len(kept) \in Nat /\ Len(window) \in Nat
      /\ DOMAIN kept = 1..Len(kept) /\ DOMAIN window = 1..Len(window)
      /\ d \in Nat /\ \A i \in 1..Len(kept) : kept[i] = window[d + i]
  <2>1. /\ kept \in Seq(HubEvent(Body))
        /\ Len(kept) = IF Len(window) <= size THEN Len(window) ELSE size
        /\ \A i \in 1..Len(kept) : kept[i] = window[Len(window) - Len(kept) + i]
    BY YoungestProperties
  <2> HIDE DEF kept
  <2>2. /\ Len(kept) \in Nat /\ Len(window) \in Nat
        /\ DOMAIN kept = 1..Len(kept) /\ DOMAIN window = 1..Len(window)
    BY <2>1, LenProperties
  <2>3. d \in Nat
    BY <2>1, <2>2
  <2> QED
    BY <2>1, <2>2, <2>3
<1>2. Len(window) = d + Len(kept)
  BY <1>1
<1> HIDE DEF kept, d
<1>3. \A i \in 1..Len(kept) : d + i \in 1..Len(window)
  BY <1>1, <1>2
<1>4. \A i \in Of(kept, o) : i \in 1..Len(kept) /\ d + i \in Of(window, o) /\ kept[i] = window[d + i]
  BY <1>1, <1>3 DEF Of, IsOf
<1>5. ASSUME NEW i \in Of(kept, o)
      PROVE  /\ Cardinality(Later(kept, o, i)) = Cardinality(Later(window, o, d + i))
             /\ Later(kept, o, i) = {} => Later(window, o, d + i) = {}
  <2> DEFINE f == [j \in Later(kept, o, i) |-> d + j]
  <2>1. \A j \in Later(kept, o, i) : j \in Nat /\ d + j \in Later(window, o, d + i)
    <3> SUFFICES ASSUME NEW j \in Later(kept, o, i)
                 PROVE  j \in Nat /\ d + j \in Later(window, o, d + i)
      OBVIOUS
    <3>1. j \in Of(kept, o) /\ i < j
      BY DEF Later
    <3>2. i \in Nat /\ j \in Nat /\ d \in Nat /\ d + j \in Of(window, o)
      BY <1>1, <1>4, <3>1
    <3>3. d + i < d + j
      BY <3>1, <3>2
    <3> QED
      BY <3>2, <3>3 DEF Later
  <2>2. \A k \in Later(window, o, d + i) : \E j \in Later(kept, o, i) : d + j = k
    <3> SUFFICES ASSUME NEW k \in Later(window, o, d + i)
                 PROVE  \E j \in Later(kept, o, i) : d + j = k
      OBVIOUS
    <3>1. /\ k \in Of(window, o) /\ d + i < k /\ i \in 1..Len(kept) /\ k \in 1..Len(window)
      BY <1>1, <1>4 DEF Later, Of
    <3>2. k - d \in 1..Len(kept) /\ i < k - d /\ d + (k - d) = k
      BY <1>1, <1>2, <3>1
    <3>3. PICK j : j = k - d
      OBVIOUS
    <3>4. j \in 1..Len(kept) /\ i < j /\ d + j = k
      BY <3>2, <3>3
    <3>5. kept[j] = window[k]
      BY <1>1, <3>4
    <3>6. j \in Of(kept, o)
      BY <1>1, <3>1, <3>4, <3>5 DEF Of
    <3> QED
      BY <3>4, <3>6 DEF Later
  <2>3. f \in Bijection(Later(kept, o, i), Later(window, o, d + i))
    <3>1. /\ f \in [Later(kept, o, i) -> Later(window, o, d + i)]
          /\ \A j \in Later(kept, o, i) : f[j] = d + j
      BY <2>1
    <3>2. \A j \in Later(kept, o, i), k \in Later(kept, o, i) : f[j] = f[k] => j = k
      <4> HIDE DEF f
      <4>1. d \in Nat
        BY <1>1
      <4> QED
        BY <2>1, <3>1, <4>1
    <3>3. \A k \in Later(window, o, d + i) : \E j \in Later(kept, o, i) : f[j] = k
      BY <2>2, <3>1
    <3> HIDE DEF f
    <3> QED
      BY <3>1, <3>2, <3>3 DEF Bijection, Injection, Surjection, IsInjective
  <2>4. Cardinality(Later(kept, o, i)) = Cardinality(Later(window, o, d + i))
    BY <1>1, <2>3, LaterIsFinite, FS_Bijection DEF ExistsBijection
  <2> QED
    BY <2>2, <2>4
<1>6. Follows(kept, o, rev, st)
  BY <1>4, <1>5 DEF Follows
<1> QED
  BY <1>6 DEF kept

\* What an operation is known by after a body that may be about it.
Concerns(body, o) == body.subject = "Operation" /\ body.op = o
RevisionAfter(body, o, rev) == IF Concerns(body, o) THEN body.revision ELSE rev
StateAfter(body, o, st) == IF Concerns(body, o) THEN body.state ELSE st

LEMMA BodyAppended ==
  ASSUME NEW window \in Seq(HubEvent(Body)), NEW event \in HubEvent(Body), NEW o,
         NEW rev \in Nat, NEW st, Follows(window, o, rev, st),
         Concerns(event.body, o) => event.body.revision = rev + 1
  PROVE  /\ Append(window, event) \in Seq(HubEvent(Body))
         /\ Follows(Append(window, event), o, RevisionAfter(event.body, o, rev),
                    StateAfter(event.body, o, st))
         /\ RevisionAfter(event.body, o, rev) \in Nat
<1> DEFINE longer == Append(window, event)
<1>1. longer \in Seq(HubEvent(Body))
  BY EventAppended
<1>2. CASE ~Concerns(event.body, o)
  <2>1. ~IsOf(event, o)
    BY <1>2 DEF IsOf, Concerns
  <2>2. Follows(longer, o, rev, st)
    BY <2>1, EventAppended
  <2> QED
    BY <1>1, <1>2, <2>2 DEF RevisionAfter, StateAfter
<1>3. CASE Concerns(event.body, o)
  <2>1. IsOf(event, o)
    BY <1>3 DEF IsOf, Concerns
  <2>2. event.body.revision \in Nat /\ event.body.revision - 1 = rev
    BY <1>3
  <2>3. Follows(window, o, event.body.revision - 1, st)
    BY <2>2
  <2>4. Follows(longer, o, event.body.revision, event.body.state)
    BY <2>1, <2>2, <2>3, EventAppended
  <2> QED
    BY <1>1, <1>3, <2>2, <2>4 DEF RevisionAfter, StateAfter
<1> QED
  BY <1>2, <1>3

\* EventHub::push of one body, and of two, on the journal.
LEMMA OnePushed ==
  ASSUME HubTypeOK(Body), NEW b \in Body, Publish(<<b>>)
  PROVE  \E e \in HubEvent(Body) :
           e.body = b /\ journal' = Youngest(Append(journal, e), Retained)
<1> DEFINE e == [sequence |-> nextSequence + 1 - 1, body |-> b]
           numbered == [i \in 1..Len(<<b>>) |->
                          [sequence |-> nextSequence + i - 1, body |-> <<b>>[i]]]
<1>1. journal' = Youngest(journal \o numbered, Retained)
  BY DEF Publish
<1>2. numbered = <<e>>
  OBVIOUS
<1>3. e \in HubEvent(Body) /\ e.body = b
  BY DEF HubEvent, HubTypeOK
<1> HIDE DEF e, numbered
<1>4. journal \o <<e>> = Append(journal, e)
  BY <1>3 DEF HubTypeOK
<1> QED
  BY <1>1, <1>2, <1>3, <1>4

LEMMA TwoPushed ==
  ASSUME HubTypeOK(Body), NEW b \in Body, NEW c \in Body, Publish(Append(<<b>>, c))
  PROVE  \E e \in HubEvent(Body), f \in HubEvent(Body) :
           /\ e.body = b /\ f.body = c
           /\ journal' = Youngest(Append(Append(journal, e), f), Retained)
<1> DEFINE e == [sequence |-> nextSequence + 1 - 1, body |-> b]
           f == [sequence |-> nextSequence + 2 - 1, body |-> c]
           pair == Append(<<b>>, c)
           numbered == [i \in 1..Len(pair) |->
                          [sequence |-> nextSequence + i - 1, body |-> pair[i]]]
<1>1. journal' = Youngest(journal \o numbered, Retained)
  BY DEF Publish
<1>2. numbered = <<e, f>>
  <2>1. <<b>> \in Seq(Body) /\ Len(<<b>>) = 1 /\ <<b>>[1] = b
    OBVIOUS
  <2>2. Len(pair) = 2 /\ pair[1] = b /\ pair[2] = c
    BY <2>1, AppendProperties
  <2> HIDE DEF pair
  <2> QED
    BY <2>2
<1>3. e \in HubEvent(Body) /\ e.body = b /\ f \in HubEvent(Body) /\ f.body = c
  BY DEF HubEvent, HubTypeOK
<1> HIDE DEF e, f, pair, numbered
<1>4. journal \o <<e, f>> = Append(Append(journal, e), f)
  BY <1>3 DEF HubTypeOK
<1> QED
  BY <1>1, <1>2, <1>3, <1>4

\* A handler publishes one body or two, and the journal still follows.
LEMMA OneJournaled ==
  ASSUME HubTypeOK(Body), NEW b \in Body, Publish(<<b>>), NEW o, NEW rev \in Nat, NEW st,
         Follows(journal, o, rev, st), Concerns(b, o) => b.revision = rev + 1
  PROVE  Follows(journal', o, RevisionAfter(b, o, rev), StateAfter(b, o, st))
<1>1. PICK e \in HubEvent(Body) :
        e.body = b /\ journal' = Youngest(Append(journal, e), Retained)
  BY OnePushed
<1>2. /\ Append(journal, e) \in Seq(HubEvent(Body))
      /\ Follows(Append(journal, e), o, RevisionAfter(b, o, rev), StateAfter(b, o, st))
  BY <1>1, BodyAppended DEF HubTypeOK
<1> QED
  BY <1>1, <1>2, WindowTrimmed, HubAssumption

LEMMA TwoJournaled ==
  ASSUME HubTypeOK(Body), NEW b \in Body, NEW c \in Body, Publish(Append(<<b>>, c)),
         NEW o, NEW rev \in Nat, NEW st, Follows(journal, o, rev, st),
         Concerns(b, o) => b.revision = rev + 1,
         Concerns(c, o) => c.revision = RevisionAfter(b, o, rev) + 1
  PROVE  Follows(journal', o, RevisionAfter(c, o, RevisionAfter(b, o, rev)),
                 StateAfter(c, o, StateAfter(b, o, st)))
<1>1. PICK e \in HubEvent(Body), f \in HubEvent(Body) :
        /\ e.body = b /\ f.body = c
        /\ journal' = Youngest(Append(Append(journal, e), f), Retained)
  BY TwoPushed
<1>2. /\ Append(journal, e) \in Seq(HubEvent(Body))
      /\ Follows(Append(journal, e), o, RevisionAfter(b, o, rev), StateAfter(b, o, st))
      /\ RevisionAfter(b, o, rev) \in Nat
  BY <1>1, BodyAppended DEF HubTypeOK
<1>3. /\ Append(Append(journal, e), f) \in Seq(HubEvent(Body))
      /\ Follows(Append(Append(journal, e), f), o,
                 RevisionAfter(c, o, RevisionAfter(b, o, rev)),
                 StateAfter(c, o, StateAfter(b, o, st)))
  BY <1>1, <1>2, BodyAppended
<1> QED
  BY <1>1, <1>3, WindowTrimmed, HubAssumption

\* What the journal shows of an operation, and that no operation has a past.
Told(o) ==
  /\ Follows(journal, o, revision[o], state[o])
  /\ state[o] = "absent" => revision[o] = 0
AllTold == \A o \in Op : Told(o)

\* schedule() tells what its handler did and what it did itself.
LEMMA ScheduleTells ==
  ASSUME HubTypeOK(Body), NEW q \in Seq(Op), NEW a,
         NEW stateBefore \in [Op -> OpState], NEW revisionBefore \in [Op -> Nat],
         NEW b \in Body, Schedule(q, a, stateBefore, revisionBefore, <<b>>),
         NEW o \in Op, NEW rev \in Nat, NEW st, Follows(journal, o, rev, st),
         Concerns(b, o) => b.revision = rev + 1,
         revisionBefore[o] = RevisionAfter(b, o, rev),
         stateBefore[o] = StateAfter(b, o, st),
         stateBefore[o] = "absent" => revisionBefore[o] = 0
  PROVE  Told(o)'
<1>1. CASE Promoted(q, a) = {}
  <2>1. /\ state' = stateBefore /\ revision' = revisionBefore /\ Publish(<<b>>)
    BY <1>1 DEF Schedule
  <2>2. Follows(journal', o, RevisionAfter(b, o, rev), StateAfter(b, o, st))
    BY <2>1, OneJournaled
  <2> QED
    BY <2>1, <2>2 DEF Told
<1>2. CASE Promoted(q, a) # {}
  <2> DEFINE h == Head(q)
             c == Event(h, "Running", revisionBefore[h] + 1)
  <2>1. q # <<>> /\ Promoted(q, a) = {h}
    BY <1>2 DEF Promoted, First
  <2>2. h \in Op
    BY <2>1
  <2>3. /\ state'[o] = IF o = h THEN "Running" ELSE stateBefore[o]
        /\ revision'[o] = IF o = h THEN revisionBefore[o] + 1 ELSE revisionBefore[o]
        /\ Publish(Append(<<b>>, c))
    BY <2>1 DEF Schedule
  <2>4. c \in Body
    BY <2>2 DEF Event, Body, Known
  <2>5. /\ Concerns(c, o) <=> o = h
        /\ c.revision = revisionBefore[h] + 1 /\ c.state = "Running"
    BY DEF Concerns, Event
  <2> HIDE DEF h, c
  <2>6. Follows(journal', o, RevisionAfter(c, o, RevisionAfter(b, o, rev)),
                StateAfter(c, o, StateAfter(b, o, st)))
    BY <2>3, <2>4, <2>5, TwoJournaled
  <2>7. /\ revision'[o] = RevisionAfter(c, o, RevisionAfter(b, o, rev))
        /\ state'[o] = StateAfter(c, o, StateAfter(b, o, st))
    BY <2>3, <2>5 DEF RevisionAfter, StateAfter
  <2> QED
    BY <2>3, <2>6, <2>7 DEF Told
<1> QED
  BY <1>1, <1>2

LEMMA StartTells ==
  ASSUME Inv, AllTold, NEW x \in Op, Start(x)
  PROVE  AllTold'
<1> DEFINE b == Event(x, "Queued", 1)
           stateBefore == [state EXCEPT ![x] = "Queued"]
           revisionBefore == [revision EXCEPT ![x] = 1]
           q == Append(queued, x)
<1>1. /\ state \in [Op -> OpState] /\ revision \in [Op -> Nat] /\ queued \in Seq(Op)
      /\ HubTypeOK(Body)
  BY DEF Inv, TypeOK
<1>2. /\ state[x] = "absent" /\ Schedule(q, active, stateBefore, revisionBefore, <<b>>)
      /\ q \in Seq(Op) /\ stateBefore \in [Op -> OpState]
      /\ revisionBefore \in [Op -> Nat] /\ b \in Body
  BY <1>1 DEF Start, OpState, Known, Event, Body
<1>3. /\ stateBefore[x] = "Queued" /\ revisionBefore[x] = 1
      /\ \A o \in Op : o # x => stateBefore[o] = state[o] /\ revisionBefore[o] = revision[o]
      /\ \A o : Concerns(b, o) <=> o = x
      /\ b.revision = 1 /\ b.state = "Queued"
  BY <1>1 DEF Concerns, Event
<1> HIDE DEF b, stateBefore, revisionBefore, q
<1> SUFFICES ASSUME NEW o \in Op PROVE Told(o)'
  BY DEF AllTold
<1>4. /\ revision[o] \in Nat /\ Follows(journal, o, revision[o], state[o])
      /\ state[o] = "absent" => revision[o] = 0
  BY <1>1 DEF AllTold, Told
<1>5. /\ Concerns(b, o) => b.revision = revision[o] + 1
      /\ revisionBefore[o] = RevisionAfter(b, o, revision[o])
      /\ stateBefore[o] = StateAfter(b, o, state[o])
      /\ stateBefore[o] = "absent" => revisionBefore[o] = 0
  BY <1>2, <1>3, <1>4 DEF RevisionAfter, StateAfter
<1> QED
  BY <1>1, <1>2, <1>4, <1>5, ScheduleTells

LEMMA ConcludeTells ==
  ASSUME Inv, AllTold, NEW x \in Op, state[x] \in {"Queued", "Running"},
         NEW r \in Outcome, NEW q, NEW a, TakenOut(x, q, a), Conclude(x, r, q, a)
  PROVE  AllTold'
<1> DEFINE b == Event(x, r, revision[x] + 1)
           revisionBefore == [revision EXCEPT ![x] = @ + 1]
           expired == Expired(Append(terminal, x))
<1>1. /\ state \in [Op -> OpState] /\ revision \in [Op -> Nat] /\ HubTypeOK(Body)
      /\ q \in Seq(Op)
  BY DEF Inv, TypeOK, TakenOut
<1>2. /\ Schedule(q, a, StateBefore(x, r), revisionBefore, <<b>>)
      /\ StateBefore(x, r) \in [Op -> OpState] /\ StateBefore(x, r)[x] = r
      /\ \A o \in expired : o # x /\ StateBefore(x, r)[o] = "evicted"
      /\ \A o \in Op : o # x /\ o \notin expired => StateBefore(x, r)[o] = state[o]
  BY ConcludePrepares
<1>3. /\ revisionBefore \in [Op -> Nat] /\ b \in Body
      /\ revisionBefore[x] = revision[x] + 1
      /\ \A o \in Op : o # x => revisionBefore[o] = revision[o]
      /\ \A o : Concerns(b, o) <=> o = x
      /\ b.revision = revision[x] + 1 /\ b.state = r
  BY <1>1 DEF Concerns, Event, Body, Known
<1> HIDE DEF b, revisionBefore, expired
<1> SUFFICES ASSUME NEW o \in Op PROVE Told(o)'
  BY DEF AllTold
<1>4. /\ revision[o] \in Nat /\ Follows(journal, o, revision[o], state[o])
      /\ state[o] = "absent" => revision[o] = 0
  BY <1>1 DEF AllTold, Told
<1>5. /\ Concerns(b, o) => b.revision = revision[o] + 1
      /\ revisionBefore[o] = RevisionAfter(b, o, revision[o])
  BY <1>3 DEF RevisionAfter
<1>6. CASE o \in expired
  <2>1. Follows(journal, o, revision[o], "evicted")
    BY <1>4 DEF Follows
  <2>2. /\ StateBefore(x, r)[o] = StateAfter(b, o, "evicted")
        /\ StateBefore(x, r)[o] = "absent" => revisionBefore[o] = 0
    BY <1>2, <1>3, <1>6 DEF StateAfter
  <2>3. /\ HubTypeOK(Body) /\ q \in Seq(Op) /\ b \in Body
        /\ StateBefore(x, r) \in [Op -> OpState] /\ revisionBefore \in [Op -> Nat]
        /\ Schedule(q, a, StateBefore(x, r), revisionBefore, <<b>>)
        /\ revision[o] \in Nat
    BY <1>1, <1>2, <1>3, <1>4
  <2> QED
    BY <1>5, <2>1, <2>2, <2>3, ScheduleTells
<1>7. CASE o \notin expired
  <2>1. /\ StateBefore(x, r)[o] = StateAfter(b, o, state[o])
        /\ StateBefore(x, r)[o] = "absent" => revisionBefore[o] = 0
    BY <1>2, <1>3, <1>4, <1>7 DEF StateAfter, Outcome
  <2> QED
    BY <1>1, <1>2, <1>3, <1>4, <1>5, <2>1, ScheduleTells
<1> QED
  BY <1>6, <1>7

\* A step that leaves snapshots and journal alone.
LEMMA NothingToTell ==
  ASSUME AllTold, UNCHANGED <<state, revision, journal>>
  PROVE  AllTold'
BY DEF AllTold, Told

\* A handler that publishes one event and moves nothing but the revision in it.
Tells(b) ==
  \A o \in Op : /\ Concerns(b, o) => /\ b.revision = revision[o] + 1
                                     /\ b.state = state[o] /\ state[o] # "absent"
                /\ revision'[o] = RevisionAfter(b, o, revision[o])

LEMMA EventTells ==
  ASSUME Inv, AllTold, NEW b \in Body, Publish(<<b>>), UNCHANGED state,
         Tells(b)
  PROVE  AllTold'
<1> SUFFICES ASSUME NEW o \in Op PROVE Told(o)'
  BY DEF AllTold
<1>1. /\ revision[o] \in Nat /\ HubTypeOK(Body) /\ Follows(journal, o, revision[o], state[o])
      /\ state[o] = "absent" => revision[o] = 0
  BY DEF Inv, TypeOK, AllTold, Told
<1>2. Follows(journal', o, RevisionAfter(b, o, revision[o]), StateAfter(b, o, state[o]))
  BY <1>1, OneJournaled DEF Tells
<1>3. state'[o] = StateAfter(b, o, state[o])
  BY DEF StateAfter, Tells
<1>4. state'[o] = "absent" => revision'[o] = 0
  BY <1>1 DEF RevisionAfter, Tells
<1>5. revision'[o] = RevisionAfter(b, o, revision[o])
  BY DEF Tells
<1> QED
  BY <1>2, <1>3, <1>4, <1>5 DEF Told

LEMMA MessagesTell ==
  ASSUME Inv, AllTold, HandleMessage
  PROVE  AllTold'
<1>1. /\ messages \in Seq(Message) /\ revision \in [Op -> Nat]
      /\ messages # <<>> => Head(messages) \in Message
  BY HeadTailProperties DEF Inv, TypeOK
<1>2. ASSUME HandleProgress PROVE AllTold'
  <2> DEFINE o == Head(messages).op
             b == Event(o, "Running", revision[o] + 1)
  <2>1. /\ UNCHANGED state
        /\ IF state[o] = "Running"
           THEN revision' = [revision EXCEPT ![o] = @ + 1] /\ Publish(<<b>>)
           ELSE UNCHANGED <<revision, nextSequence, journal, live>>
    BY <1>2 DEF HandleProgress
  <2>2. o \in Op
    BY <1>1, <1>2 DEF HandleProgress, Message
  <2>3. /\ b \in Body /\ b.revision = revision[o] + 1 /\ b.state = "Running"
        /\ \A x : Concerns(b, x) <=> x = o
    BY <1>1, <2>2 DEF Event, Body, Known, Concerns
  <2> HIDE DEF o, b
  <2>4. CASE state[o] = "Running"
    <3>1. /\ revision' \in [Op -> Nat] /\ revision'[o] = revision[o] + 1
          /\ \A x \in Op : x # o => revision'[x] = revision[x]
      BY <1>1, <2>1, <2>2, <2>4
    <3>2. Tells(b)
      BY <2>3, <2>4, <3>1 DEF RevisionAfter, Tells
    <3>3. b \in Body /\ Publish(<<b>>) /\ UNCHANGED state
      BY <2>1, <2>3, <2>4
    <3> QED
      BY <3>2, <3>3, EventTells
  <2>5. CASE state[o] # "Running"
    BY <2>1, <2>5, NothingToTell
  <2> QED
    BY <2>4, <2>5
<1>3. ASSUME HandleCompletion PROVE AllTold'
  <2> DEFINE o == Head(messages).op
  <2>1. IF state[o] = "Running"
        THEN Conclude(o, Head(messages).result, queued, active - 1)
        ELSE UNCHANGED <<state, revision, queued, terminal, active, worker,
                         nextSequence, journal, live>>
    BY <1>3 DEF HandleCompletion
  <2>2. o \in Op /\ Head(messages).result \in Outcome
    BY <1>1, <1>3 DEF HandleCompletion, Message
  <2> HIDE DEF o
  <2>3. CASE state[o] = "Running"
    BY <2>1, <2>2, <2>3, CompletionPrepares, ConcludeTells
  <2>4. CASE state[o] # "Running"
    BY <2>1, <2>4, NothingToTell
  <2> QED
    BY <2>3, <2>4
<1>4. ASSUME HandleTask PROVE AllTold'
  <2> DEFINE b == [subject |-> "Task"]
  <2>1. b \in Body /\ Publish(<<b>>) /\ UNCHANGED <<state, revision>>
    BY <1>4 DEF HandleTask, Body
  <2>2. \A x : ~Concerns(b, x)
    BY DEF Concerns
  <2> HIDE DEF b
  <2>3. b \in Body /\ Publish(<<b>>) /\ UNCHANGED state
    BY <2>1
  <2>4. Tells(b)
    BY <2>1, <2>2 DEF RevisionAfter, Tells
  <2> QED
    BY <2>3, <2>4, EventTells
<1> QED
  BY <1>2, <1>3, <1>4 DEF HandleMessage

LEMMA TellingKept ==
  ASSUME Inv, AllTold, [Next]_vars
  PROVE  AllTold'
<1>1. ASSUME NEW o \in Op, CancelQueued(o) PROVE AllTold'
  BY <1>1, CancelPrepares, ConcludeTells DEF CancelQueued, Outcome
<1>2. ASSUME NEW o \in Op, CancelRunning(o) \/ Work(o) PROVE AllTold'
  BY <1>2, NothingToTell DEF CancelRunning, Work, Report, Finish, SendCompletion, Panic, hubVars
<1>3. ASSUME SendTask \/ Shutdown PROVE AllTold'
  BY <1>3, NothingToTell DEF SendTask, Shutdown, hubVars
<1>4. ASSUME NEW s \in Subscriber, Client(s) PROVE AllTold'
  BY <1>4, NothingToTell DEF Client, Subscribe, Receive, Disconnect, NextResync, NextReplayed,
                             NextLive, NextLagged, opVars
<1>5. ASSUME UNCHANGED vars PROVE AllTold'
  BY <1>5, NothingToTell DEF vars, opVars, hubVars
<1> QED
  BY <1>1, <1>2, <1>3, <1>4, <1>5, StartTells, MessagesTell DEF Next, Command

\* JournalFollowsOperations: the retained events of an operation carry consecutive revisions
\* up to the one a query returns, and the last of them its state, however handlers publish
\* one event or two and the journal drops its oldest.
THEOREM JournalIsTrue == Spec => []JournalFollowsOperations
<1>1. Init => AllTold
  BY DEF Init, HubInit, AllTold, Told, Follows, Of
<1>2. Inv /\ AllTold /\ [Next]_vars => AllTold'
  BY TellingKept
<1>3. AllTold => JournalFollowsOperations
  BY DEF AllTold, Told, Follows, Of, IsOf, Later, JournalFollowsOperations, EventsOf
<1> QED
  BY <1>1, <1>2, <1>3, Invariance, PTL DEF Spec
=============================================================================

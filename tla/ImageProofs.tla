----------------------------- MODULE ImageProofs -----------------------------
(***************************************************************************)
(* What the image service keeps, for any number of images and viewers and  *)
(* any size of the cache: a transfer several viewers share ends for each   *)
(* of them, and what was cached is found again.                            *)
(***************************************************************************)
EXTENDS ImageService, SequenceTheorems, TLAPS

-----------------------------------------------------------------------------
(* The image service. *)

ViewerRecord ==
  [at : {"idle", "memory", "disk", "transfer", "waiting"}, image : Image \cup {NoImage},
   result : {"none", "image", "cancelled", "failed"}, late : BOOLEAN]
WanderingRecord ==
  [at : {"idle", "memory", "disk", "transfer"}, image : Image \cup {NoImage},
   result : {"none"}, late : BOOLEAN]
TransferRecord ==
  [at : {"none", "fetching", "arrived", "queued", "posted"}, subscribers : SUBSET Viewer,
   cancelled : BOOLEAN, result : {"none", "image", "cancelled", "failed"}]

\* The part of the types that the viewers and their transfers have to do with.
SharedTypes == viewer \in [Viewer -> ViewerRecord] /\ transfer \in [Image -> TransferRecord]

\* Types, but for the images in memory, which no step of the others depends on.
ImageTypes ==
  /\ SharedTypes
  /\ blob \in [Image -> {"none", "staging", "good", "bad"}]
  /\ writeQueue \in Seq(Image)
  /\ writer \in [at : {"idle", "taken", "staging", "written", "alias", "ended"},
                 image : Image \cup {NoImage}]

WaitsFor(v, i) == viewer[v].at = "waiting" /\ viewer[v].image = i

\* Who shares a transfer waits for it, and one who came to a cancelled transfer knows.
SharedInv ==
  \A i \in Image :
    /\ transfer[i].result = "cancelled" => transfer[i].cancelled
    /\ \A v \in transfer[i].subscribers :
         WaitsFor(v, i) /\ (transfer[i].cancelled => viewer[v].late)

\* A viewer who does not wait has got no result, and one who is not idle asks for an image.
ResultsAreAwaited ==
  \A v \in Viewer : /\ viewer[v].at # "waiting" => viewer[v].result = "none"
                    /\ viewer[v].at # "idle" => viewer[v].image \in Image

\* Nothing is in hand while the service is down.
DownIsEmpty ==
  phase = "down" =>
    /\ \A v \in Viewer : viewer[v].at = "idle"
    /\ \A i \in Image : transfer[i].at = "none"
    /\ writeQueue = <<>> /\ writer.at = "idle" /\ accepted = {}

\* Where an image is on its way to the disk.
InLine(i) == i \in ToSet(writeQueue)
Busy(i)   == writer.at \in {"taken", "staging", "written", "alias"} /\ writer.image = i
Written   == writer.at \in {"written", "alias"}
OnDisk(i) == blob[i] = "good" /\ (i \in Keyed => i \in savedAlias /\ i \in writerAlias)
NeedsAlias(i) ==
  \/ InLine(i) \/ Busy(i)
  \/ blob[i] = "good" /\ (i \in savedAlias \/ i \in writerAlias)

\* What is known of an image that no fault has touched.
SoundImage(i) ==
  /\ blob[i] # "bad"
  /\ Busy(i) /\ Written => blob[i] = "good"
  /\ i \in accepted => InLine(i) \/ Busy(i) \/ OnDisk(i)
  /\ Up /\ i \in Keyed /\ NeedsAlias(i) => i \in alias
WriteInv == \A i \in Image : i \in lost \/ SoundImage(i)

\* The writer has the disk to itself while it writes, and ends with an empty queue.
WriterInv ==
  /\ writer.at \in {"staging", "written"} => maintenance = "writer"
  /\ writer.at = "ended" => writeQueue = <<>>

\* Aliases are of images that are found by them, and writes are of images.
NamesInv ==
  /\ accepted \subseteq Image
  /\ alias \subseteq Keyed /\ savedAlias \subseteq Keyed /\ writerAlias \subseteq Keyed

ImageInv ==
  /\ ImageTypes /\ SharedInv /\ NobodyElseCancels /\ ResultsAreAwaited
  /\ DownIsEmpty /\ WriteInv /\ WriterInv /\ NamesInv

LEMMA QueueOfImages ==
  /\ <<>> \in Seq(Image) /\ ToSet(<<>>) = {}
  /\ \A q \in Seq(Image) :
       /\ ToSet(q) \subseteq Image
       /\ \A i \in Image : Append(q, i) \in Seq(Image) /\ ToSet(Append(q, i)) = ToSet(q) \cup {i}
       /\ q # <<>> => /\ Tail(q) \in Seq(Image) /\ Head(q) \in Image
                      /\ ToSet(q) = ToSet(Tail(q)) \cup {Head(q)}
<1>1. <<>> \in Seq(Image) /\ ToSet(<<>>) = {}
  BY EmptySeq DEF ToSet
<1>2. ASSUME NEW q \in Seq(Image), NEW i \in Image
      PROVE  Append(q, i) \in Seq(Image) /\ ToSet(Append(q, i)) = ToSet(q) \cup {i}
  <2> DEFINE p == Append(q, i)
  <2>1. /\ Len(q) \in Nat /\ DOMAIN q = 1..Len(q)
        /\ p \in Seq(Image) /\ Len(p) = Len(q) + 1 /\ DOMAIN p = 1..Len(p)
        /\ \A k \in 1..Len(q) : p[k] = q[k]
        /\ p[Len(q) + 1] = i
    BY LenProperties, AppendProperties
  <2> HIDE DEF p
  <2>2. ToSet(p) = ToSet(q) \cup {i}
    BY <2>1 DEF ToSet
  <2> QED
    BY <2>1, <2>2 DEF p
<1>3. ASSUME NEW q \in Seq(Image), q # <<>>
      PROVE  /\ Tail(q) \in Seq(Image) /\ Head(q) \in Image
             /\ ToSet(q) = ToSet(Tail(q)) \cup {Head(q)}
  <2> DEFINE p == Tail(q)
  <2>1. /\ Len(q) \in Nat \ {0} /\ DOMAIN q = 1..Len(q)
        /\ Head(q) = q[1] /\ Head(q) \in Image
        /\ p \in Seq(Image) /\ Len(p) = Len(q) - 1 /\ DOMAIN p = 1..Len(p)
        /\ \A k \in 1..Len(p) : p[k] = q[k + 1]
    BY <1>3, EmptySeq, LenProperties, HeadTailProperties
  <2> HIDE DEF p
  <2>2. ToSet(p) \cup {Head(q)} \subseteq ToSet(q)
    BY <2>1 DEF ToSet
  <2>3. ASSUME NEW k \in 1..Len(q) PROVE q[k] \in ToSet(p) \cup {Head(q)}
    <3>1. CASE k = 1
      BY <2>1, <3>1
    <3>2. CASE k # 1
      <4>1. k - 1 \in DOMAIN p /\ p[k - 1] = q[k]
        BY <2>1, <3>2
      <4> QED
        BY <4>1 DEF ToSet
    <3> QED
      BY <3>1, <3>2
  <2>4. ToSet(q) \subseteq ToSet(p) \cup {Head(q)}
    BY <2>1, <2>3 DEF ToSet
  <2> QED
    BY <2>1, <2>2, <2>4 DEF p
<1>4. ASSUME NEW q \in Seq(Image) PROVE ToSet(q) \subseteq Image
  BY LenProperties, ElementOfSeq DEF ToSet
<1> QED
  BY <1>1, <1>2, <1>3, <1>4

LEMMA ImageBegins == ImageInit => ImageInv
<1> SUFFICES ASSUME ImageInit PROVE ImageInv
  OBVIOUS
<1>1. ImageTypes
  <2>1. NoViewer \in ViewerRecord /\ NoTransfer \in TransferRecord
    BY DEF NoViewer, NoTransfer, ViewerRecord, TransferRecord
  <2>2. SharedTypes
    BY <2>1 DEF ImageInit, SharedTypes
  <2> QED
    BY <2>2, QueueOfImages DEF ImageInit, ImageTypes, NoWrite
<1>2. SharedInv /\ NobodyElseCancels /\ ResultsAreAwaited
  BY DEF ImageInit, SharedInv, NobodyElseCancels, ResultsAreAwaited, NoViewer, NoTransfer
<1>3. DownIsEmpty /\ WriteInv /\ WriterInv /\ NamesInv
  BY QueueOfImages DEF ImageInit, DownIsEmpty, WriteInv, SoundImage, NeedsAlias, InLine, Busy,
                       Written, WriterInv, NamesInv, NoWrite
<1> QED
  BY <1>1, <1>2, <1>3 DEF ImageInv

-----------------------------------------------------------------------------
(* What the viewers share. *)


SharesWell == SharedTypes /\ SharedInv /\ NobodyElseCancels /\ ResultsAreAwaited

\* A viewer starts to wait for a transfer.
ToWaiting(v, late, result) ==
  viewer' = [viewer EXCEPT ![v].at = "waiting", ![v].late = late, ![v].result = result]

\* An EXCEPT with several fields, one after the other.
LEMMA ViewerJoins ==
  ASSUME SharedTypes, NEW v \in Viewer, NEW late \in BOOLEAN,
         NEW result \in {"none", "image", "cancelled", "failed"}, ToWaiting(v, late, result)
  PROVE  /\ viewer' \in [Viewer -> ViewerRecord]
         /\ \A w \in Viewer \ {v} : viewer'[w] = viewer[w]
         /\ viewer'[v].at = "waiting" /\ viewer'[v].image = viewer[v].image
         /\ viewer'[v].late = late /\ viewer'[v].result = result
<1> DEFINE first  == [viewer EXCEPT ![v].at = "waiting"]
           second == [first EXCEPT ![v].late = late]
<1>1. /\ first \in [Viewer -> ViewerRecord] /\ \A w \in Viewer \ {v} : first[w] = viewer[w]
      /\ first[v].at = "waiting" /\ first[v].image = viewer[v].image
  BY DEF SharedTypes, ViewerRecord
<1>2. viewer' = [second EXCEPT ![v].result = result]
  BY DEF ToWaiting
<1> HIDE DEF first
<1>3. /\ second \in [Viewer -> ViewerRecord] /\ \A w \in Viewer \ {v} : second[w] = first[w]
      /\ second[v].at = first[v].at /\ second[v].image = first[v].image /\ second[v].late = late
  BY <1>1 DEF ViewerRecord
<1> HIDE DEF second
<1>4. /\ viewer' \in [Viewer -> ViewerRecord] /\ \A w \in Viewer \ {v} : viewer'[w] = second[w]
      /\ viewer'[v].at = second[v].at /\ viewer'[v].image = second[v].image
      /\ viewer'[v].late = second[v].late /\ viewer'[v].result = result
  <2>1. PICK r : r = [second[v] EXCEPT !.result = result]
    OBVIOUS
  <2>2. /\ r \in ViewerRecord /\ r.at = second[v].at /\ r.image = second[v].image
        /\ r.late = second[v].late /\ r.result = result
    BY <1>3, <2>1 DEF ViewerRecord
  <2>3. viewer' = [second EXCEPT ![v] = r]
    BY <1>2, <2>1
  <2> QED
    BY <1>3, <2>2, <2>3
<1> QED
  BY <1>1, <1>3, <1>4

LEMMA TransferPosts ==
  ASSUME SharedTypes, NEW i \in Image,
         NEW result \in {"none", "image", "cancelled", "failed"},
         transfer' = [transfer EXCEPT ![i].at = "posted", ![i].result = result]
  PROVE  /\ transfer' \in [Image -> TransferRecord]
         /\ transfer'[i].result = result /\ transfer'[i].at = "posted"
         /\ \A j \in Image : /\ transfer'[j].subscribers = transfer[j].subscribers
                             /\ transfer'[j].cancelled = transfer[j].cancelled
                             /\ j # i => transfer'[j] = transfer[j]
<1> DEFINE first == [transfer EXCEPT ![i].at = "posted"]
<1>1. /\ first \in [Image -> TransferRecord] /\ \A j \in Image \ {i} : first[j] = transfer[j]
      /\ first[i].subscribers = transfer[i].subscribers
      /\ first[i].cancelled = transfer[i].cancelled /\ first[i].at = "posted"
  BY DEF SharedTypes, TransferRecord
<1>2. transfer' = [first EXCEPT ![i].result = result]
  OBVIOUS
<1> HIDE DEF first
<1>3. /\ transfer' \in [Image -> TransferRecord]
      /\ \A j \in Image \ {i} : transfer'[j] = first[j]
      /\ transfer'[i].subscribers = first[i].subscribers /\ transfer'[i].at = first[i].at
      /\ transfer'[i].cancelled = first[i].cancelled /\ transfer'[i].result = result
  <2>1. PICK r : r = [first[i] EXCEPT !.result = result]
    OBVIOUS
  <2>2. /\ r \in TransferRecord /\ r.at = first[i].at /\ r.subscribers = first[i].subscribers
        /\ r.cancelled = first[i].cancelled /\ r.result = result
    BY <1>1, <2>1 DEF TransferRecord
  <2>3. transfer' = [first EXCEPT ![i] = r]
    BY <1>2, <2>1
  <2> QED
    BY <1>1, <2>2, <2>3
<1> QED
  BY <1>1, <1>3

\* A viewer who shares nothing goes from one place to another, and not to wait.
LEMMA WanderingShares ==
  ASSUME SharesWell, NEW v \in Viewer, viewer[v].at # "waiting",
         NEW record \in WanderingRecord,
         record.at # "idle" => record.image \in Image,
         viewer' = [viewer EXCEPT ![v] = record], transfer' = transfer
  PROVE  SharesWell'
<1>1. SharedTypes'
  <2>1. record \in ViewerRecord
    BY DEF WanderingRecord, ViewerRecord
  <2> QED
    BY <2>1 DEF SharesWell, SharedTypes
<1>2. viewer'[v] = record /\ \A w \in Viewer \ {v} : viewer'[w] = viewer[w]
  BY DEF SharesWell, SharedTypes, ViewerRecord, TransferRecord
<1>3. \A i \in Image : v \notin transfer[i].subscribers /\ transfer[i].subscribers \subseteq Viewer
  BY DEF SharesWell, SharedTypes, ViewerRecord, TransferRecord, SharedInv, WaitsFor
<1>4. record.result = "none"
  BY DEF WanderingRecord
<1>5. SharedInv'
  BY <1>2, <1>3 DEF SharesWell, SharedInv, WaitsFor
<1>6. NobodyElseCancels' /\ ResultsAreAwaited'
  BY <1>2, <1>4 DEF SharesWell, NobodyElseCancels, ResultsAreAwaited
<1> QED
  BY <1>1, <1>5, <1>6 DEF SharesWell

LEMMA SearchShares ==
  ASSUME SharesWell, NEW v \in Viewer,
         (\E i \in Image : Fetch(v, i)) \/ LookInMemory(v) \/ LookOnDisk(v)
  PROVE  SharesWell'
<1>1. viewer[v].at # "waiting" /\ transfer' = transfer
  <2>1. CASE \E i \in Image : Fetch(v, i)
    <3>1. viewer[v] = NoViewer /\ transfer' = transfer
      BY <2>1 DEF Fetch
    <3> QED
      BY <3>1 DEF NoViewer
  <2>2. CASE LookInMemory(v) \/ LookOnDisk(v)
    BY <2>2 DEF LookInMemory, LookOnDisk
  <2> QED
    BY <2>1, <2>2
<1>2. PICK record \in WanderingRecord :
        /\ viewer' = [viewer EXCEPT ![v] = record]
        /\ record.at # "idle" => record.image \in Image
  <2>1. CASE \E i \in Image : Fetch(v, i)
    <3>1. PICK i \in Image : Fetch(v, i)
      BY <2>1
    <3> DEFINE record == [NoViewer EXCEPT !.at = IF Known(i) THEN "memory" ELSE "transfer",
                                          !.image = i]
    <3>2. record \in WanderingRecord /\ record.image \in Image
      BY DEF NoViewer, WanderingRecord
    <3> QED
      BY <3>1, <3>2 DEF Fetch
  <2>2. CASE LookInMemory(v) \/ LookOnDisk(v)
    <3>1. /\ viewer[v] \in ViewerRecord
          /\ viewer[v].result = "none" /\ viewer[v].image \in Image
      BY <1>1, <2>2 DEF SharesWell, SharedTypes, ViewerRecord, TransferRecord, ResultsAreAwaited,
                     LookInMemory, LookOnDisk
    <3>2. \/ viewer' = [viewer EXCEPT ![v] = NoViewer]
          \/ \E place \in {"disk", "transfer"} : viewer' = [viewer EXCEPT ![v].at = place]
      BY <2>2 DEF LookInMemory, LookOnDisk, Served, WaitAt
    <3>3. NoViewer \in WanderingRecord /\ NoViewer.at = "idle"
      BY DEF NoViewer, WanderingRecord
    <3>4. ASSUME NEW place \in {"disk", "transfer"}
          PROVE  [viewer[v] EXCEPT !.at = place]
                   \in WanderingRecord
                 /\ [viewer[v] EXCEPT !.at = place].image \in Image
      BY <3>1 DEF ViewerRecord, WanderingRecord
    <3> QED
      BY <3>2, <3>3, <3>4
  <2> QED
    BY <2>1, <2>2
<1> QED
  BY <1>1, <1>2, WanderingShares

LEMMA JoinShares ==
  ASSUME SharesWell, NEW v \in Viewer, Join(v) PROVE SharesWell'
<1>1. PICK i \in Image : i = viewer[v].image
  BY DEF SharesWell, ResultsAreAwaited, Join
<1>2. /\ \A w \in Viewer \ {v} : viewer'[w] = viewer[w]
      /\ viewer'[v].at = "waiting" /\ viewer'[v].image = i
      /\ viewer'[v].late = transfer[i].cancelled /\ viewer'[v].result = transfer[i].result
      /\ viewer' \in [Viewer -> ViewerRecord]
  <2>1. /\ transfer[i].cancelled \in BOOLEAN
        /\ transfer[i].result \in {"none", "image", "cancelled", "failed"}
    BY DEF SharesWell, SharedTypes, TransferRecord
  <2>2. viewer' = [viewer EXCEPT ![v].at = "waiting", ![v].late = transfer[i].cancelled,
                                 ![v].result = transfer[i].result]
    BY <1>1 DEF Join
  <2> QED
    BY <1>1, <2>1, <2>2, ViewerJoins DEF SharesWell, ToWaiting
<1>3. \A j \in Image \ {i} : transfer'[j] = transfer[j]
  BY <1>1 DEF Join, SharesWell, SharedTypes, ViewerRecord, TransferRecord
<1>4. /\ transfer' \in [Image -> TransferRecord]
      /\ \/ /\ transfer'[i].subscribers = transfer[i].subscribers \cup {v}
            /\ transfer'[i].cancelled = transfer[i].cancelled
            /\ transfer'[i].result = transfer[i].result
         \/ /\ transfer'[i].subscribers = {v}
            /\ transfer'[i].cancelled = FALSE
            /\ transfer'[i].result = "none"
  <2>1. PICK joined : joined = [transfer[i] EXCEPT !.subscribers = @ \cup {v}]
    OBVIOUS
  <2>2. PICK begun : begun = [NoTransfer EXCEPT !.at = "fetching", !.subscribers = {v}]
    OBVIOUS
  <2>3. transfer' = [transfer EXCEPT ![i] = IF transfer[i].at # "none" THEN joined ELSE begun]
    BY <1>1, <2>1, <2>2 DEF Join
  <2>4. /\ joined \in TransferRecord /\ joined.subscribers = transfer[i].subscribers \cup {v}
        /\ joined.cancelled = transfer[i].cancelled /\ joined.result = transfer[i].result
    BY <2>1 DEF SharesWell, SharedTypes, TransferRecord
  <2>5. /\ begun \in TransferRecord /\ begun.subscribers = {v}
        /\ begun.cancelled = FALSE /\ begun.result = "none"
    BY <2>2 DEF NoTransfer, TransferRecord
  <2> QED
    BY <2>3, <2>4, <2>5 DEF SharesWell, SharedTypes
<1>5. SharedTypes'
  BY <1>2, <1>4 DEF SharedTypes
<1>6. \A j \in Image : v \notin transfer[j].subscribers /\ transfer[j].subscribers \subseteq Viewer
  BY DEF SharesWell, SharedTypes, ViewerRecord, TransferRecord, SharedInv, WaitsFor, Join
<1>7. SharedInv'
  <2> SUFFICES ASSUME NEW j \in Image
               PROVE  /\ transfer'[j].result = "cancelled" => transfer'[j].cancelled
                      /\ \A w \in transfer'[j].subscribers :
                           /\ viewer'[w].at = "waiting" /\ viewer'[w].image = j
                           /\ transfer'[j].cancelled => viewer'[w].late
    BY DEF SharedInv, WaitsFor
  <2>1. /\ transfer[j].result = "cancelled" => transfer[j].cancelled
        /\ \A w \in transfer[j].subscribers :
             /\ viewer[w].at = "waiting" /\ viewer[w].image = j
             /\ transfer[j].cancelled => viewer[w].late
    BY DEF SharesWell, SharedInv, WaitsFor
  <2>2. \A w \in transfer[j].subscribers : w \in Viewer \ {v}
    BY <1>6
  <2>3. CASE j # i
    BY <1>2, <1>3, <2>1, <2>2, <2>3
  <2>4. CASE j = i
    BY <1>2, <1>4, <2>1, <2>2, <2>4
  <2> QED
    BY <2>3, <2>4
<1>8. NobodyElseCancels' /\ ResultsAreAwaited'
  BY <1>2 DEF SharesWell, SharedInv, NobodyElseCancels, ResultsAreAwaited
<1> QED
  BY <1>5, <1>7, <1>8 DEF SharesWell

LEMMA LeavingShares ==
  ASSUME SharesWell, NEW v \in Viewer, viewer[v].at = "waiting", Served(v),
         transfer' = Unsubscribed(v)
  PROVE  SharesWell'
<1>0. viewer[v].image \in Image
  BY DEF SharesWell, ResultsAreAwaited
<1>1. viewer'[v] = NoViewer /\ \A w \in Viewer \ {v} : viewer'[w] = viewer[w]
  BY DEF Served, SharesWell, SharedTypes, ViewerRecord, TransferRecord
<1>2. /\ \A j \in Image \ {viewer[v].image} : transfer'[j] = transfer[j]
      /\ \A j \in Image : /\ transfer'[j].subscribers = transfer[j].subscribers \ {v}
                          /\ transfer'[j].result = transfer[j].result
                          /\ transfer[j].cancelled => transfer'[j].cancelled
                          /\ transfer'[j].cancelled =>
                               transfer[j].cancelled \/ transfer[j].subscribers \subseteq {v}
  <2>1. \A j \in Image \ {viewer[v].image} : v \notin transfer[j].subscribers
    BY DEF SharesWell, SharedInv, WaitsFor
  <2> QED
    BY <1>0, <2>1 DEF Unsubscribed, SharesWell, SharedTypes, ViewerRecord, TransferRecord
<1>3. SharedTypes'
  BY <1>0 DEF Served, Unsubscribed, NoViewer, SharesWell, SharedTypes, ViewerRecord, TransferRecord
<1>4. \A j \in Image : transfer[j].subscribers \subseteq Viewer
  BY DEF SharesWell, SharedTypes, ViewerRecord, TransferRecord
<1>5. SharedInv'
  BY <1>1, <1>2, <1>4 DEF SharesWell, SharedInv, WaitsFor
<1>6. NobodyElseCancels' /\ ResultsAreAwaited'
  BY <1>1 DEF SharesWell, NobodyElseCancels, ResultsAreAwaited, NoViewer
<1> QED
  BY <1>3, <1>5, <1>6 DEF SharesWell

\* The steps of the task of a transfer.
LEMMA TaskShares ==
  ASSUME SharesWell, NEW i \in Image, Arrive(i) \/ Enqueue(i) \/ Post(i) \/ Retire(i)
  PROVE  SharesWell'
<1>1. SharedTypes'
  <2>1. CASE Arrive(i) \/ Enqueue(i) \/ Retire(i)
    <3>1. NoTransfer \in TransferRecord
      BY DEF NoTransfer, TransferRecord
    <3> QED
      BY <2>1, <3>1 DEF Arrive, Enqueue, Retire, SharesWell, SharedTypes, ViewerRecord, TransferRecord
  <2>2. CASE Post(i)
    <3>1. PICK result \in {"image", "cancelled", "failed"} :
            /\ transfer' = [transfer EXCEPT ![i].at = "posted", ![i].result = result]
            /\ viewer' = [v \in Viewer |->
                            IF v \in transfer[i].subscribers
                            THEN [viewer[v] EXCEPT !.result = result] ELSE viewer[v]]
      BY <2>2 DEF Post
    <3>2. viewer' \in [Viewer -> ViewerRecord]
      BY <3>1 DEF SharesWell, SharedTypes, ViewerRecord, TransferRecord
    <3>3. transfer' \in [Image -> TransferRecord]
      BY <3>1, TransferPosts DEF SharesWell
    <3> QED
      BY <3>2, <3>3 DEF SharedTypes, ViewerRecord, TransferRecord
  <2> QED
    BY <2>1, <2>2
<1>2. CASE Arrive(i) \/ Enqueue(i)
  <2>1. /\ viewer' = viewer
        /\ \A j \in Image : /\ transfer'[j].subscribers = transfer[j].subscribers
                            /\ transfer'[j].cancelled = transfer[j].cancelled
                            /\ transfer'[j].result = transfer[j].result
    BY <1>2 DEF Arrive, Enqueue, SharesWell, SharedTypes, ViewerRecord, TransferRecord
  <2> QED
    BY <1>1, <2>1 DEF SharesWell, SharedInv, WaitsFor, NobodyElseCancels, ResultsAreAwaited
<1>3. CASE Retire(i)
  <2>1. /\ viewer' = viewer /\ transfer'[i] = NoTransfer
        /\ \A j \in Image \ {i} : transfer'[j] = transfer[j]
    BY <1>3 DEF Retire, SharesWell, SharedTypes, ViewerRecord, TransferRecord
  <2> QED
    BY <1>1, <2>1 DEF SharesWell, SharedInv, WaitsFor, NobodyElseCancels, ResultsAreAwaited,
                      NoTransfer
<1>4. CASE Post(i)
  <2>1. PICK result \in {"image", "cancelled", "failed"} :
          /\ result = "cancelled" => transfer[i].cancelled
          /\ transfer' = [transfer EXCEPT ![i].at = "posted", ![i].result = result]
          /\ viewer' = [v \in Viewer |->
                          IF v \in transfer[i].subscribers
                          THEN [viewer[v] EXCEPT !.result = result] ELSE viewer[v]]
    BY <1>4 DEF Post
  <2>2. /\ transfer'[i].result = result
        /\ \A j \in Image : /\ transfer'[j].subscribers = transfer[j].subscribers
                            /\ transfer'[j].cancelled = transfer[j].cancelled
                            /\ j # i => transfer'[j].result = transfer[j].result
    BY <2>1, TransferPosts DEF SharesWell
  <2>3. \A v \in Viewer : /\ viewer'[v].at = viewer[v].at /\ viewer'[v].image = viewer[v].image
                          /\ viewer'[v].late = viewer[v].late
                          /\ viewer'[v].result = IF v \in transfer[i].subscribers THEN result
                                                                   ELSE viewer[v].result
    BY <2>1 DEF SharesWell, SharedTypes, ViewerRecord, TransferRecord
  <2>4. \A j \in Image : transfer[j].subscribers \subseteq Viewer
    BY DEF SharesWell, SharedTypes, ViewerRecord, TransferRecord
  <2>5. SharedInv'
    <3> SUFFICES ASSUME NEW j \in Image
                 PROVE  /\ transfer'[j].result = "cancelled" => transfer'[j].cancelled
                        /\ \A v \in transfer'[j].subscribers :
                             /\ viewer'[v].at = "waiting" /\ viewer'[v].image = j
                             /\ transfer'[j].cancelled => viewer'[v].late
      BY DEF SharedInv, WaitsFor
    <3>1. /\ transfer[j].result = "cancelled" => transfer[j].cancelled
          /\ \A v \in transfer[j].subscribers :
               /\ viewer[v].at = "waiting" /\ viewer[v].image = j
               /\ transfer[j].cancelled => viewer[v].late
      BY DEF SharesWell, SharedInv, WaitsFor
    <3>2. transfer'[j].result = "cancelled" => transfer'[j].cancelled
      BY <2>1, <2>2, <3>1
    <3>3. ASSUME NEW v \in transfer'[j].subscribers
          PROVE  /\ viewer'[v].at = "waiting" /\ viewer'[v].image = j
                 /\ transfer'[j].cancelled => viewer'[v].late
      BY <2>2, <2>3, <2>4, <3>1, <3>3
    <3> QED
      BY <3>2, <3>3
  <2>6. NobodyElseCancels' /\ ResultsAreAwaited'
    BY <2>1, <2>3, <2>4 DEF SharesWell, SharedInv, WaitsFor, NobodyElseCancels, ResultsAreAwaited
  <2> QED
    BY <1>1, <2>5, <2>6 DEF SharesWell
<1> QED
  BY <1>2, <1>3, <1>4

\* Everything else leaves the viewers and their transfers alone, or ends them.
LEMMA SharingKeeps == ASSUME SharesWell, ImageNext PROVE SharesWell'
<1>1. CASE UNCHANGED <<viewer, transfer>>
  BY <1>1 DEF SharesWell, SharedTypes, SharedInv, WaitsFor, NobodyElseCancels, ResultsAreAwaited
<1>2. CASE \E v \in Viewer : View(v)
  BY <1>2, SearchShares, JoinShares, LeavingShares DEF View, Receive, Depart
<1>3. CASE \E i \in Image : Transfer(i)
  BY <1>1, <1>3, TaskShares DEF Transfer, Decay
<1>4. CASE GoDown
  <2>1. NoViewer \in ViewerRecord /\ NoTransfer \in TransferRecord
    BY DEF NoViewer, NoTransfer, ViewerRecord, TransferRecord
  <2>2. SharedTypes'
    BY <1>4, <2>1 DEF GoDown, SharedTypes
  <2> QED
    BY <1>4, <2>2 DEF GoDown, SharesWell, SharedInv, NobodyElseCancels, ResultsAreAwaited,
                      NoViewer, NoTransfer
<1>5. CASE Write
  BY <1>1, <1>5 DEF Write, TakeWrite, BeginWrite, EndWrite, ReleaseWrite, SaveAlias, EndWriter
<1>6. CASE BeginMaintain \/ EndMaintain \/ BeginDrain \/ Boot
  BY <1>1, <1>6 DEF BeginMaintain, EndMaintain, BeginDrain, Boot
<1> QED
  BY <1>2, <1>3, <1>4, <1>5, <1>6 DEF ImageNext

-----------------------------------------------------------------------------
(* What the cache holds. *)

WriterStep == {"idle", "taken", "staging", "written", "alias", "ended"}

LEMMA InvParts ==
  ImageInv =>
    /\ SharesWell
    /\ blob \in [Image -> {"none", "staging", "good", "bad"}] /\ writeQueue \in Seq(Image)
    /\ writer \in [at : WriterStep, image : Image \cup {NoImage}]
    /\ DownIsEmpty /\ WriteInv /\ WriterInv /\ NamesInv
BY DEF ImageInv, ImageTypes, SharesWell, WriterStep

LEMMA PartsOfTheCache ==
  ASSUME ImageInv, ImageNext
  PROVE  /\ blob' \in [Image -> {"none", "staging", "good", "bad"}]
         /\ writeQueue' \in Seq(Image)
         /\ writer' \in [at : WriterStep, image : Image \cup {NoImage}]
<1>0. /\ blob \in [Image -> {"none", "staging", "good", "bad"}] /\ writeQueue \in Seq(Image)
      /\ writer \in [at : WriterStep, image : Image \cup {NoImage}]
  BY InvParts
<1>1. blob' \in [Image -> {"none", "staging", "good", "bad"}]
  <2>1. CASE \E v \in Viewer : View(v)
    BY <1>0, <2>1 DEF View, Fetch, LookInMemory, LookOnDisk, Join, Receive, Depart, cacheVars
  <2>2. CASE \E i \in Image : Transfer(i)
    BY <1>0, <2>2 DEF Transfer, Arrive, Enqueue, Post, Retire, Decay, cacheVars
  <2>3. CASE Write
    BY <1>0, <2>3 DEF Write, TakeWrite, BeginWrite, EndWrite, ReleaseWrite, SaveAlias, EndWriter,
                      cacheVars
  <2>4. CASE BeginMaintain \/ EndMaintain \/ BeginDrain \/ GoDown \/ Boot
    BY <1>0, <2>4 DEF BeginMaintain, EndMaintain, BeginDrain, GoDown, Boot, cacheVars
  <2> QED
    BY <2>1, <2>2, <2>3, <2>4 DEF ImageNext
<1>2. writeQueue' \in Seq(Image)
  <2>1. CASE \E v \in Viewer : View(v)
    BY <1>0, <2>1 DEF View, Fetch, LookInMemory, LookOnDisk, Join, Receive, Depart, writerVars
  <2>2. CASE \E i \in Image : Transfer(i)
    <3>1. PICK i \in Image : Transfer(i)
      BY <2>2
    <3>2. writeQueue' \in {writeQueue, Append(writeQueue, i)}
      BY <3>1 DEF Transfer, Arrive, Enqueue, Post, Retire, Decay, writerVars
    <3> QED
      BY <1>0, <3>2, QueueOfImages
  <2>3. CASE Write
    BY <1>0, <2>3, QueueOfImages DEF Write, TakeWrite, BeginWrite, EndWrite, ReleaseWrite,
                                     SaveAlias, EndWriter
  <2>4. CASE BeginMaintain \/ EndMaintain \/ BeginDrain \/ GoDown \/ Boot
    BY <1>0, <2>4, QueueOfImages DEF BeginMaintain, EndMaintain, BeginDrain, GoDown, Boot,
                                     writerVars
  <2> QED
    BY <2>1, <2>2, <2>3, <2>4 DEF ImageNext
<1>3. writer' \in [at : WriterStep, image : Image \cup {NoImage}]
  <2>1. CASE \E v \in Viewer : View(v)
    BY <1>0, <2>1 DEF View, Fetch, LookInMemory, LookOnDisk, Join, Receive, Depart, writerVars
  <2>2. CASE \E i \in Image : Transfer(i)
    BY <1>0, <2>2 DEF Transfer, Arrive, Enqueue, Post, Retire, Decay, writerVars
  <2>3. CASE Write
    <3>1. CASE TakeWrite
      BY <1>0, <3>1, QueueOfImages DEF TakeWrite, WriterStep
    <3>2. CASE BeginWrite \/ EndWrite \/ ReleaseWrite \/ SaveAlias \/ EndWriter
      BY <1>0, <3>2 DEF BeginWrite, EndWrite, ReleaseWrite, SaveAlias, EndWriter, NoWrite, WriterStep
    <3> QED
      BY <2>3, <3>1, <3>2 DEF Write
  <2>4. CASE BeginMaintain \/ EndMaintain \/ BeginDrain \/ GoDown \/ Boot
    BY <1>0, <2>4 DEF BeginMaintain, EndMaintain, BeginDrain, GoDown, Boot, writerVars, NoWrite,
                      WriterStep
  <2> QED
    BY <2>1, <2>2, <2>3, <2>4 DEF ImageNext
<1> QED
  BY <1>1, <1>2, <1>3

\* A service that is down does nothing but start.
LEMMA DownKeeps == ASSUME ImageInv, ImageNext PROVE DownIsEmpty'
<1>0. DownIsEmpty
  BY InvParts
<1>1. CASE \E v \in Viewer : View(v)
  <2>1. phase # "down" /\ phase' = phase
    BY <1>0, <1>1 DEF DownIsEmpty, View, Fetch, LookInMemory, LookOnDisk, Join, Receive, Depart, Up,
                      serviceVars
  <2> QED
    BY <2>1 DEF DownIsEmpty
<1>2. CASE \E i \in Image : Transfer(i)
  <2>1. PICK i \in Image : Transfer(i)
    BY <1>2
  <2>2. CASE Decay(i)
    BY <1>0, <2>2 DEF Decay, DownIsEmpty, writerVars
  <2>3. CASE Arrive(i) \/ Enqueue(i) \/ Post(i) \/ Retire(i)
    <3>1. transfer[i].at # "none" /\ phase' = phase
      BY <2>3 DEF Arrive, Enqueue, Post, Retire, serviceVars
    <3> QED
      BY <1>0, <3>1 DEF DownIsEmpty
  <2> QED
    BY <2>1, <2>2, <2>3 DEF Transfer
<1>3. CASE Write
  <2>1. phase' = phase /\ (writer.at # "idle" \/ phase # "down")
    BY <1>3 DEF Write, TakeWrite, BeginWrite, EndWrite, ReleaseWrite, SaveAlias, EndWriter, Up,
                serviceVars
  <2> QED
    BY <1>0, <2>1 DEF DownIsEmpty
<1>4. CASE GoDown
  BY <1>4 DEF GoDown, DownIsEmpty, NoViewer, NoTransfer, NoWrite
<1>5. CASE BeginMaintain \/ BeginDrain \/ Boot
  BY <1>5 DEF BeginMaintain, BeginDrain, Boot, DownIsEmpty, serviceVars
<1>6. CASE EndMaintain
  BY <1>0, <1>6 DEF EndMaintain, DownIsEmpty, writerVars, serviceVars
<1> QED
  BY <1>1, <1>2, <1>3, <1>4, <1>5, <1>6 DEF ImageNext

\* disk_maintenance, and the end of the writer.
LEMMA WriterKeeps == ASSUME ImageInv, ImageNext PROVE WriterInv'
<1>0. WriterInv /\ writer \in [at : WriterStep, image : Image \cup {NoImage}]
  BY InvParts
<1>1. CASE UNCHANGED <<writer, writeQueue, maintenance>>
  BY <1>0, <1>1 DEF WriterInv
<1>2. CASE \E v \in Viewer : View(v)
  BY <1>1, <1>2 DEF View, Fetch, LookInMemory, LookOnDisk, Join, Receive, Depart, writerVars
<1>3. CASE \E i \in Image : Transfer(i)
  <2>1. PICK i \in Image : Transfer(i)
    BY <1>3
  <2>2. CASE Enqueue(i)
    BY <1>0, <2>2 DEF Enqueue, WriterInv
  <2>3. CASE Arrive(i) \/ Post(i) \/ Retire(i) \/ Decay(i)
    BY <1>1, <2>3 DEF Arrive, Post, Retire, Decay, writerVars
  <2> QED
    BY <2>1, <2>2, <2>3 DEF Transfer
<1>4. CASE Write
  BY <1>0, <1>4 DEF Write, TakeWrite, BeginWrite, EndWrite, ReleaseWrite, SaveAlias, EndWriter,
                    WriterInv, NoWrite, WriterStep
<1>5. CASE BeginMaintain \/ EndMaintain
  BY <1>0, <1>5 DEF BeginMaintain, EndMaintain, WriterInv, writerVars
<1>6. CASE GoDown
  BY <1>6 DEF GoDown, WriterInv, NoWrite
<1>7. CASE BeginDrain \/ Boot
  BY <1>1, <1>7 DEF BeginDrain, Boot, writerVars
<1> QED
  BY <1>2, <1>3, <1>4, <1>5, <1>6, <1>7 DEF ImageNext

LEMMA NamesKeep == ASSUME ImageInv, ImageNext PROVE NamesInv'
<1>0. NamesInv
  BY InvParts
<1>1. CASE UNCHANGED <<accepted, alias, savedAlias, writerAlias>>
  BY <1>0, <1>1 DEF NamesInv
<1>2. CASE \E v \in Viewer : View(v)
  BY <1>1, <1>2 DEF View, Fetch, LookInMemory, LookOnDisk, Join, Receive, Depart, writerVars, cacheVars
<1>3. CASE \E i \in Image : Transfer(i)
  <2>1. PICK i \in Image : Transfer(i)
    BY <1>3
  <2>2. CASE Enqueue(i)
    BY <1>0, <2>2 DEF Enqueue, NamesInv
  <2>3. CASE Arrive(i) \/ Post(i) \/ Retire(i) \/ Decay(i)
    BY <1>1, <2>3 DEF Arrive, Post, Retire, Decay, writerVars, cacheVars
  <2> QED
    BY <2>1, <2>2, <2>3 DEF Transfer
<1>4. CASE Write
  <2>1. CASE SaveAlias
    BY <1>0, <2>1 DEF SaveAlias, NamesInv
  <2>2. CASE TakeWrite \/ BeginWrite \/ EndWrite \/ ReleaseWrite \/ EndWriter
    BY <1>1, <2>2 DEF TakeWrite, BeginWrite, EndWrite, ReleaseWrite, EndWriter, cacheVars
  <2> QED
    BY <1>4, <2>1, <2>2 DEF Write
<1>5. CASE BeginMaintain \/ BeginDrain
  BY <1>1, <1>5 DEF BeginMaintain, BeginDrain, writerVars, cacheVars
<1>6. CASE EndMaintain
  BY <1>0, <1>6 DEF EndMaintain, NamesInv, writerVars
<1>7. CASE GoDown \/ Boot
  BY <1>0, <1>7 DEF GoDown, Boot, NamesInv, writerVars
<1> QED
  BY <1>2, <1>3, <1>4, <1>5, <1>6, <1>7 DEF ImageNext

\* An image that nothing has touched is as sound as it was, if its file has not changed.
LEMMA SoundStays ==
  ASSUME NEW i \in Image, SoundImage(i), blob'[i] = blob[i],
         UNCHANGED <<alias, writerAlias, savedAlias, writeQueue, writer, phase, accepted>>
  PROVE  SoundImage(i)'
BY DEF SoundImage, Busy, Written, InLine, OnDisk, NeedsAlias, Up

LEMMA ViewersKeepSound ==
  ASSUME ImageInv, NEW v \in Viewer, View(v), NEW i \in Image, i \notin lost'
  PROVE  SoundImage(i)'
<1>1. /\ UNCHANGED <<alias, writerAlias, savedAlias, writeQueue, writer, phase, accepted, lost>>
      /\ \/ blob' = blob
         \/ blob' = [blob EXCEPT ![viewer[v].image] = IF @ = "bad" THEN "none" ELSE @]
  BY DEF View, Fetch, LookInMemory, LookOnDisk, Join, Receive, Depart, cacheVars, writerVars,
         serviceVars
<1>2. SoundImage(i) /\ blob[i] # "bad"
  BY <1>1, InvParts DEF WriteInv, SoundImage
<1>3. blob'[i] = blob[i]
  BY <1>1, <1>2, InvParts
<1> QED
  BY <1>1, <1>2, <1>3, SoundStays

LEMMA TransfersKeepSound ==
  ASSUME ImageInv, NEW j \in Image, Transfer(j), NEW i \in Image, i \notin lost'
  PROVE  SoundImage(i)'
<1>1. lost \subseteq lost'
  BY DEF Transfer, Arrive, Enqueue, Post, Retire, Decay
<1>2. SoundImage(i)
  BY <1>1, InvParts DEF WriteInv
<1>3. CASE Arrive(j) \/ Post(j) \/ Retire(j)
  BY <1>2, <1>3, SoundStays DEF Arrive, Post, Retire, cacheVars, writerVars, serviceVars
<1>4. CASE Decay(j)
  <2>1. i # j
    BY <1>4 DEF Decay
  <2>2. blob'[i] = blob[i]
    BY <1>4, <2>1, InvParts DEF Decay
  <2> QED
    BY <1>2, <1>4, <2>2, SoundStays DEF Decay, writerVars
<1>5. CASE Enqueue(j)
  <2>1. /\ UNCHANGED <<blob, writerAlias, savedAlias, writer, phase>>
        /\ alias' = alias \cup ({j} \cap Keyed)
        /\ \/ writeQueue' = Append(writeQueue, j) /\ accepted' = accepted \cup {j}
           \/ UNCHANGED <<writeQueue, accepted>>
    BY <1>5 DEF Enqueue, serviceVars
  <2>2. /\ InLine(i) => InLine(i)'
        /\ InLine(i)' => InLine(i) \/ i = j
        /\ i \in accepted' => i \in accepted \/ (i = j /\ InLine(i)')
    <3>1. writeQueue \in Seq(Image)
      BY InvParts
    <3>2. ToSet(Append(writeQueue, j)) = ToSet(writeQueue) \cup {j}
      BY <3>1, QueueOfImages
    <3>3. CASE writeQueue' = Append(writeQueue, j) /\ accepted' = accepted \cup {j}
      BY <3>2, <3>3 DEF InLine
    <3>4. CASE UNCHANGED <<writeQueue, accepted>>
      BY <3>4 DEF InLine
    <3> QED
      BY <2>1, <3>3, <3>4
  <2> QED
    BY <1>2, <2>1, <2>2 DEF SoundImage, Busy, Written, OnDisk, NeedsAlias, Up
<1> QED
  BY <1>3, <1>4, <1>5 DEF Transfer

LEMMA WriterKeepsSound ==
  ASSUME ImageInv, Write, NEW i \in Image, i \notin lost'
  PROVE  SoundImage(i)'
<1>1. lost \subseteq lost'
  BY DEF Write, TakeWrite, BeginWrite, EndWrite, ReleaseWrite, SaveAlias, EndWriter
<1>2. SoundImage(i)
  BY <1>1, InvParts DEF WriteInv
<1>3. /\ blob \in [Image -> {"none", "staging", "good", "bad"}] /\ writeQueue \in Seq(Image)
      /\ writer \in [at : WriterStep, image : Image \cup {NoImage}]
  BY InvParts
<1>4. CASE TakeWrite
  <2>1. /\ UNCHANGED <<blob, alias, writerAlias, savedAlias, phase, accepted>>
        /\ writer.at = "idle" /\ writer'.at = "taken" /\ writer'.image = Head(writeQueue)
        /\ writeQueue # <<>> /\ writeQueue' = Tail(writeQueue)
    BY <1>4 DEF TakeWrite, cacheVars, serviceVars
  <2>2. InLine(i) <=> InLine(i)' \/ i = writer'.image
    BY <1>3, <2>1, QueueOfImages DEF InLine
  <2> QED
    BY <1>2, <2>1, <2>2 DEF SoundImage, Busy, Written, OnDisk, NeedsAlias, Up
<1>5. CASE BeginWrite
  <2>1. /\ UNCHANGED <<alias, writerAlias, savedAlias, writeQueue, phase, accepted>>
        /\ writer.at = "taken" /\ writer'.image = writer.image
        /\ \/ Exists(writer.image) /\ writer'.at = "written" /\ blob' = blob
           \/ /\ ~Exists(writer.image) /\ writer'.at = "staging"
              /\ blob' = [blob EXCEPT ![writer.image] = "staging"]
    BY <1>3, <1>5 DEF BeginWrite, serviceVars
  <2>2. blob'[i] = blob[i] \/ (i = writer.image /\ blob'[i] = "staging" /\ blob[i] # "good")
    BY <1>3, <2>1 DEF Exists
  <2>3. i = writer.image /\ writer'.at = "written" => blob'[i] = "good"
    BY <1>2, <2>1 DEF Exists, SoundImage
  <2> QED
    BY <1>2, <2>1, <2>2, <2>3 DEF SoundImage, Busy, Written, InLine, OnDisk, NeedsAlias, Up
<1>6. CASE EndWrite
  <2>1. /\ UNCHANGED <<alias, writerAlias, savedAlias, writeQueue, phase, accepted>>
        /\ writer.at = "staging"
        /\ \/ /\ blob' = [blob EXCEPT ![writer.image] = "good"]
              /\ writer'.at = "written" /\ writer'.image = writer.image
           \/ writer'.at = "idle" /\ i # writer.image /\ blob' = blob
    BY <1>3, <1>6 DEF EndWrite, serviceVars, NoWrite
  <2>2. /\ i # writer.image => blob'[i] = blob[i]
        /\ i = writer.image => blob'[i] = "good"
    BY <1>3, <2>1
  <2> QED
    BY <1>2, <2>1, <2>2 DEF SoundImage, Busy, Written, InLine, OnDisk, NeedsAlias, Up
<1>7. CASE ReleaseWrite
  <2>1. /\ UNCHANGED <<blob, alias, writerAlias, savedAlias, writeQueue, phase, accepted>>
        /\ writer.at = "written" /\ writer'.at = "alias" /\ writer'.image = writer.image
    BY <1>3, <1>7 DEF ReleaseWrite, cacheVars, serviceVars
  <2> QED
    BY <1>2, <2>1 DEF SoundImage, Busy, Written, InLine, OnDisk, NeedsAlias, Up
<1>8. CASE SaveAlias
  <2>1. /\ UNCHANGED <<blob, alias, writeQueue, phase, accepted>>
        /\ writer.at = "alias" /\ writer'.at = "idle"
        /\ IF writer.image \in Keyed
           THEN /\ writerAlias' = writerAlias \cup {writer.image}
                /\ savedAlias' = writerAlias' \/ (savedAlias' = savedAlias /\ i # writer.image)
           ELSE UNCHANGED <<writerAlias, savedAlias>>
    BY <1>8 DEF SaveAlias, serviceVars, NoWrite
  <2> QED
    BY <1>2, <2>1 DEF SoundImage, Busy, Written, InLine, OnDisk, NeedsAlias, Up
<1>9. CASE EndWriter
  <2>1. /\ UNCHANGED <<blob, alias, writerAlias, savedAlias, writeQueue, phase, accepted>>
        /\ writer.at = "idle" /\ writer'.at = "ended"
    BY <1>9 DEF EndWriter, cacheVars, serviceVars
  <2> QED
    BY <1>2, <2>1 DEF SoundImage, Busy, Written, InLine, OnDisk, NeedsAlias, Up
<1> QED
  BY <1>4, <1>5, <1>6, <1>7, <1>8, <1>9 DEF Write

\* maintain() and the life of the service.
LEMMA ServiceKeepsSound ==
  ASSUME ImageInv, BeginMaintain \/ EndMaintain \/ BeginDrain \/ GoDown \/ Boot,
         NEW i \in Image, i \notin lost'
  PROVE  SoundImage(i)'
<1>0. /\ blob \in [Image -> {"none", "staging", "good", "bad"}]
      /\ i \in lost \/ SoundImage(i)
      /\ DownIsEmpty /\ NamesInv
  BY InvParts DEF WriteInv
<1>1. CASE BeginMaintain
  <2>1. /\ UNCHANGED <<alias, writerAlias, savedAlias, writeQueue, writer, phase, accepted>>
        /\ blob'[i] = IF blob[i] = "good" THEN "good" ELSE "none"
        /\ i \notin lost
    BY <1>1 DEF BeginMaintain, writerVars, serviceVars
  <2> QED
    BY <1>0, <2>1 DEF SoundImage, Busy, Written, InLine, OnDisk, NeedsAlias, Up
<1>2. CASE EndMaintain
  <2>1. /\ UNCHANGED <<blob, writerAlias, writeQueue, writer, phase, accepted>>
        /\ alias' = alias \ Pruned
        /\ savedAlias' = savedAlias \/ savedAlias' = alias'
        /\ i \notin lost
        /\ i \in Pruned => ~InLine(i) /\ ~Busy(i)
    BY <1>2 DEF EndMaintain, writerVars, serviceVars, InLine, Busy
  <2>2. SoundImage(i)
    BY <1>0, <2>1
  <2>3. i \in Pruned => i \in alias /\ blob[i] # "good"
    BY DEF Pruned, Exists
  <2>4. phase = "down" => accepted = {}
    BY <1>0 DEF DownIsEmpty
  <2>5. blob'[i] # "bad" /\ (Busy(i)' /\ Written' => blob'[i] = "good")
    BY <2>1, <2>2 DEF SoundImage, Busy, Written
  <2>6. i \in accepted' => InLine(i)' \/ Busy(i)' \/ OnDisk(i)'
    BY <2>1, <2>2, <2>3, <2>4 DEF SoundImage, Busy, InLine, OnDisk, NeedsAlias, Up
  <2>7. Up' /\ i \in Keyed /\ NeedsAlias(i)' => i \in alias'
    BY <2>1, <2>2, <2>3 DEF SoundImage, Busy, InLine, NeedsAlias, Up
  <2> QED
    BY <2>5, <2>6, <2>7 DEF SoundImage
<1>3. CASE BeginDrain
  <2>1. /\ UNCHANGED <<blob, alias, writerAlias, savedAlias, writeQueue, writer, accepted>>
        /\ phase = "running" /\ phase' = "draining" /\ i \notin lost
    BY <1>3 DEF BeginDrain, cacheVars, writerVars
  <2> QED
    BY <1>0, <2>1 DEF SoundImage, Busy, Written, InLine, OnDisk, NeedsAlias, Up
<1>4. CASE GoDown
  <2>1. /\ phase' = "down" /\ writer'.at = "idle" /\ accepted' = {} /\ blob' = blob
        /\ i \notin lost
    BY <1>4 DEF GoDown, NoWrite
  <2> QED
    BY <1>0, <2>1 DEF SoundImage, Busy, Written, Up
<1>5. CASE Boot
  <2>1. /\ writeQueue' = <<>> /\ writer'.at = "idle" /\ accepted' = {}
        /\ savedAlias' = savedAlias /\ alias' = savedAlias /\ writerAlias' = savedAlias
        /\ blob[i] # "bad" /\ blob'[i] = IF blob[i] = "staging" THEN "none" ELSE blob[i]
    BY <1>0, <1>5 DEF Boot, DownIsEmpty, writerVars
  <2>2. ~InLine(i)' /\ ~Busy(i)'
    BY <2>1, QueueOfImages DEF InLine, Busy
  <2> QED
    BY <2>1, <2>2 DEF SoundImage, NeedsAlias
<1> QED
  BY <1>1, <1>2, <1>3, <1>4, <1>5

LEMMA ImageKeeps == ImageInv /\ [ImageNext]_imageVars => ImageInv'
<1> SUFFICES ASSUME ImageInv, [ImageNext]_imageVars PROVE ImageInv'
  OBVIOUS
<1>1. CASE UNCHANGED imageVars
  <2>1. ImageTypes' /\ SharedInv' /\ NobodyElseCancels' /\ ResultsAreAwaited'
    BY <1>1 DEF ImageInv, imageVars, ImageTypes, SharedTypes, SharedInv, WaitsFor,
                NobodyElseCancels, ResultsAreAwaited
  <2>2. DownIsEmpty' /\ WriteInv' /\ WriterInv' /\ NamesInv'
    BY <1>1 DEF ImageInv, imageVars, DownIsEmpty, WriteInv, SoundImage, Busy, Written, InLine,
                OnDisk, NeedsAlias, Up, WriterInv, NamesInv
  <2> QED
    BY <2>1, <2>2 DEF ImageInv
<1>2. CASE ImageNext
  <2>1. SharesWell'
    BY <1>2, InvParts, SharingKeeps
  <2>2. WriteInv'
    <3>1. \A i \in Image : i \notin lost' => SoundImage(i)'
      BY <1>2, ViewersKeepSound, TransfersKeepSound, WriterKeepsSound, ServiceKeepsSound
         DEF ImageNext
    <3> QED
      BY <3>1 DEF WriteInv
  <2>3. ImageTypes'
    BY <1>2, <2>1, PartsOfTheCache DEF ImageTypes, SharesWell, WriterStep
  <2> QED
    BY <1>2, <2>1, <2>2, <2>3, DownKeeps, WriterKeeps, NamesKeep DEF ImageInv, SharesWell
<1> QED
  BY <1>1, <1>2

\* What viewers share they may rely on: no viewer is cancelled because others left, and
\* what one has fetched is found by the next, for any number of viewers, images and restarts.
THEOREM SharingSafe == ImageSpec => []SharingIsSafe
<1>1. ImageInv => SharingIsSafe
  <2> SUFFICES ASSUME ImageInv PROVE SharingIsSafe
    OBVIOUS
  <2>1. WriteIsKept
    <3>1. ASSUME writer.at = "ended", NEW i \in accepted \ lost PROVE OnDisk(i)
      <4>1. i \in Image /\ SoundImage(i)
        BY InvParts DEF NamesInv, WriteInv
      <4>2. ~InLine(i) /\ ~Busy(i)
        BY <3>1, InvParts, QueueOfImages DEF WriterInv, InLine, Busy
      <4> QED
        BY <4>1, <4>2 DEF SoundImage
    <3> QED
      BY <3>1 DEF WriteIsKept, OnDisk
  <2>2. AliasIsKnown
    <3>1. ASSUME Up, NEW i \in savedAlias \ lost, blob[i] = "good" PROVE i \in alias
      <4>1. i \in Keyed /\ i \in Image /\ SoundImage(i)
        BY InvParts, ImageAssumption DEF NamesInv, WriteInv
      <4> QED
        BY <3>1, <4>1 DEF SoundImage, NeedsAlias
    <3> QED
      BY <3>1 DEF AliasIsKnown
  <2> QED
    BY <2>1, <2>2 DEF ImageInv, SharingIsSafe, CachedIsFound
<1> QED
  BY <1>1, ImageBegins, ImageKeeps, PTL DEF ImageSpec

-----------------------------------------------------------------------------
(* Types and bounds. *)

\* What is in memory and in the queue keeps to the limits, and the counters to theirs.
BoundsInv ==
  /\ memory \in Seq(Image) /\ Len(memory) <= MemoryLimit
  /\ Len(writeQueue) <= QueueLimit
  /\ writer.at \in {"taken", "staging", "written", "alias"} => writer.image \in Image
  /\ maintenance \in {"free", "writer", "sweeping"}
  /\ phase \in {"running", "draining", "down"}
  /\ fetches \in 0..MaxFetches /\ boots \in 0..MaxBoots /\ decays \in 0..MaxDecays
  /\ phase = "down" => boots < MaxBoots
  /\ lost \subseteq Image

\* An image that is touched gets into memory without exceeding the limit.
LEMMA TouchedFits ==
  ASSUME memory \in Seq(Image), Len(memory) <= MemoryLimit, NEW i \in Image
  PROVE  Touched(i) \in Seq(Image) /\ Len(Touched(i)) <= MemoryLimit
<1> DEFINE others == Others(i)
           room == IF Len(others) < MemoryLimit THEN others ELSE Tail(others)
<1>0. MemoryLimit \in Nat \ {0} /\ Len(memory) \in Nat /\ DOMAIN memory = 1..Len(memory)
  BY ImageAssumption, LenProperties
<1>1. others \in Seq(Image) /\ Len(others) <= MemoryLimit
  <2>1. CASE i \in ToSet(memory)
    <3> DEFINE found == CHOOSE k \in DOMAIN memory : memory[k] = i
    <3>1. PICK k \in 1..Len(memory) : k = found
      BY <1>0, <2>1 DEF ToSet
    <3>2. others = SubSeq(memory, 1, k - 1) \o SubSeq(memory, k + 1, Len(memory))
      BY <2>1, <3>1 DEF Others, RemoveAt
    <3> HIDE DEF found, others
    <3>3. /\ SubSeq(memory, 1, k - 1) \in Seq(Image)
          /\ Len(SubSeq(memory, 1, k - 1)) = k - 1
      <4>1. \A m \in 1..(k - 1) : m \in 1..Len(memory)
        BY <1>0
      <4> QED
        BY <1>0, <4>1, SubSeqProperties
    <3>4. /\ SubSeq(memory, k + 1, Len(memory)) \in Seq(Image)
          /\ Len(SubSeq(memory, k + 1, Len(memory))) = Len(memory) - k
      <4>1. PICK n \in Nat : n = Len(memory)
        BY <1>0, Zenon
      <4>2. \A m \in (k + 1)..n : m \in 1..n
        BY <4>1
      <4>3. k + 1 \in 1..n + 1 /\ k \in Nat /\ k <= n
        BY <4>1
      <4>4. /\ SubSeq(memory, k + 1, n) \in Seq(Image)
            /\ Len(SubSeq(memory, k + 1, n)) = IF k + 1 <= n THEN n - (k + 1) + 1 ELSE 0
        BY <4>1, <4>3, SubSeqProperties
      <4> QED
        BY <4>1, <4>3, <4>4
    <3>5. others \in Seq(Image) /\ Len(others) = (k - 1) + (Len(memory) - k)
      <4> DEFINE front == SubSeq(memory, 1, k - 1)
                 back  == SubSeq(memory, k + 1, Len(memory))
      <4>1. front \in Seq(Image) /\ back \in Seq(Image)
        BY <3>3, <3>4
      <4>2. others = front \o back /\ Len(front) = k - 1 /\ Len(back) = Len(memory) - k
        BY <3>2, <3>3, <3>4
      <4> HIDE DEF front, back
      <4>3. front \o back \in Seq(Image) /\ Len(front \o back) = Len(front) + Len(back)
        BY <4>1, ConcatProperties
      <4> QED
        BY <4>2, <4>3
    <3> QED
      BY <1>0, <3>5
  <2>2. CASE i \notin ToSet(memory)
    BY <2>2 DEF Others
  <2> QED
    BY <2>1, <2>2
<1>2. Touched(i) = Append(room, i)
  BY DEF Touched
<1> HIDE DEF others
<1>3. room \in Seq(Image) /\ Len(room) < MemoryLimit
  <2>1. CASE Len(others) < MemoryLimit
    BY <1>1, <2>1
  <2>2. CASE ~(Len(others) < MemoryLimit)
    <3>1. Len(others) \in Nat /\ Len(others) = MemoryLimit
      BY <1>0, <1>1, <2>2, LenProperties
    <3>2. others # <<>>
      BY <1>0, <3>1, EmptySeq
    <3> QED
      BY <1>0, <1>1, <2>2, <3>1, <3>2, HeadTailProperties
  <2> QED
    BY <2>1, <2>2
<1> HIDE DEF room
<1> QED
  BY <1>0, <1>2, <1>3, AppendProperties, LenProperties

LEMMA BoundsBegin == ImageInit => BoundsInv
<1> SUFFICES ASSUME ImageInit PROVE BoundsInv
  OBVIOUS
<1>1. /\ MemoryLimit \in Nat /\ QueueLimit \in Nat
      /\ MaxFetches \in Nat /\ MaxBoots \in Nat /\ MaxDecays \in Nat
  BY ImageAssumption
<1> QED
  BY <1>1, EmptySeq DEF ImageInit, BoundsInv, NoWrite

LEMMA BoundsKeep == ImageInv /\ BoundsInv /\ [ImageNext]_imageVars => BoundsInv'
<1> SUFFICES ASSUME ImageInv, BoundsInv, [ImageNext]_imageVars PROVE BoundsInv'
  OBVIOUS
<1>0. /\ MemoryLimit \in Nat /\ QueueLimit \in Nat
      /\ MaxFetches \in Nat /\ MaxBoots \in Nat /\ MaxDecays \in Nat
      /\ writeQueue \in Seq(Image) /\ Len(writeQueue) \in Nat
      /\ \A v \in Viewer : viewer[v].at # "idle" => viewer[v].image \in Image
      /\ writer \in [at : WriterStep, image : Image \cup {NoImage}]
  BY ImageAssumption, InvParts, LenProperties DEF SharesWell, ResultsAreAwaited
<1>1. /\ \A i \in Image : Touched(i) \in Seq(Image) /\ Len(Touched(i)) <= MemoryLimit
      /\ <<>> \in Seq(Image) /\ Len(<<>>) = 0
  BY TouchedFits, EmptySeq DEF BoundsInv
<1> USE DEF BoundsInv
<1>2. CASE UNCHANGED imageVars
  BY <1>2 DEF imageVars
<1>3. CASE \E v \in Viewer : View(v)
  <2>1. PICK v \in Viewer : View(v)
    BY <1>3
  <2>2. CASE \E i \in Image : Fetch(v, i)
    BY <1>0, <2>2 DEF Fetch, cacheVars, writerVars
  <2>3. CASE LookInMemory(v) \/ LookOnDisk(v)
    <3>1. memory' = memory \/ memory' = Touched(viewer[v].image)
      BY <2>3 DEF LookInMemory, LookOnDisk
    <3>2. viewer[v].image \in Image
      BY <1>0, <2>3 DEF LookInMemory, LookOnDisk
    <3>3. UNCHANGED <<writerVars, maintenance, serviceVars, lost>>
      BY <2>3 DEF LookInMemory, LookOnDisk
    <3> QED
      BY <1>1, <3>1, <3>2, <3>3 DEF writerVars, serviceVars
  <2>4. CASE Join(v) \/ Receive(v) \/ Depart(v)
    BY <2>4 DEF Join, Receive, Depart, cacheVars, writerVars, serviceVars
  <2> QED
    BY <2>1, <2>2, <2>3, <2>4 DEF View
<1>4. CASE \E i \in Image : Transfer(i)
  <2>1. PICK i \in Image : Transfer(i)
    BY <1>4
  <2>2. CASE Arrive(i)
    BY <1>1, <2>2 DEF Arrive, writerVars, serviceVars
  <2>3. CASE Enqueue(i)
    <3>1. Len(writeQueue') <= QueueLimit
      <4>1. CASE Len(writeQueue) < QueueLimit /\ writer.at # "ended"
        <5>1. writeQueue' = Append(writeQueue, i)
          BY <2>3, <4>1 DEF Enqueue
        <5>2. Len(Append(writeQueue, i)) = Len(writeQueue) + 1
          BY <1>0, AppendProperties
        <5> QED
          BY <1>0, <4>1, <5>1, <5>2
      <4>2. CASE ~(Len(writeQueue) < QueueLimit /\ writer.at # "ended")
        <5>1. writeQueue' = writeQueue
          BY <2>3, <4>2 DEF Enqueue
        <5> QED
          BY <5>1
      <4> QED
        BY <4>1, <4>2
    <3>2. UNCHANGED <<memory, writer, maintenance, serviceVars, lost>>
      BY <2>3 DEF Enqueue
    <3> QED
      BY <3>1, <3>2 DEF serviceVars
  <2>4. CASE Post(i) \/ Retire(i)
    BY <2>4 DEF Post, Retire, cacheVars, writerVars, serviceVars
  <2>5. CASE Decay(i)
    BY <1>0, <2>5 DEF Decay, writerVars
  <2> QED
    BY <2>1, <2>2, <2>3, <2>4, <2>5 DEF Transfer
<1>5. CASE Write
  <2>1. CASE TakeWrite
    <3>1. /\ Head(writeQueue) \in Image /\ Len(Tail(writeQueue)) = Len(writeQueue) - 1
      BY <1>0, <2>1, HeadTailProperties DEF TakeWrite
    <3>2. writer' = [at |-> "taken", image |-> Head(writeQueue)] /\ writeQueue' = Tail(writeQueue)
      BY <2>1 DEF TakeWrite
    <3>3. UNCHANGED <<memory, maintenance, serviceVars, lost>>
      BY <2>1 DEF TakeWrite, cacheVars
    <3> QED
      BY <1>0, <3>1, <3>2, <3>3 DEF serviceVars
  <2>2. CASE BeginWrite \/ EndWrite \/ ReleaseWrite \/ EndWriter
    <3>1. UNCHANGED <<memory, writeQueue, serviceVars>>
      BY <2>2 DEF BeginWrite, EndWrite, ReleaseWrite, EndWriter, cacheVars
    <3>2. maintenance' \in {"free", "writer", "sweeping"} /\ lost' \subseteq Image
      BY <2>2 DEF BeginWrite, EndWrite, ReleaseWrite, EndWriter
    <3>3. writer'.at \in {"taken", "staging", "written", "alias"} => writer'.image \in Image
      BY <1>0, <2>2 DEF BeginWrite, EndWrite, ReleaseWrite, EndWriter, NoWrite
    <3> QED
      BY <3>1, <3>2, <3>3 DEF serviceVars
  <2>3. CASE SaveAlias
    <3>1. writer.image \in Image /\ memory' = Touched(writer.image) /\ writer' = NoWrite
      BY <2>3 DEF SaveAlias
    <3>2. lost' \subseteq Image /\ UNCHANGED <<maintenance, writeQueue, serviceVars>>
      BY <2>3, <3>1 DEF SaveAlias
    <3> QED
      BY <1>1, <3>1, <3>2 DEF serviceVars, NoWrite
  <2> QED
    BY <1>5, <2>1, <2>2, <2>3 DEF Write
<1>6. CASE BeginMaintain \/ BeginDrain
  BY <1>6 DEF BeginMaintain, BeginDrain, cacheVars, writerVars, serviceVars
<1>7. CASE EndMaintain
  <2>1. Pruned \subseteq Image
    BY InvParts, ImageAssumption DEF Pruned, NamesInv
  <2>2. lost' \subseteq Image
    BY <1>7, <2>1 DEF EndMaintain
  <2> QED
    BY <1>7, <2>2 DEF EndMaintain, writerVars, serviceVars
<1>8. CASE GoDown
  BY <1>0, <1>1, <1>8 DEF GoDown, NoWrite
<1>9. CASE Boot
  <2>1. boots' \in 0..MaxBoots
    BY <1>0, <1>9 DEF Boot
  <2> QED
    BY <1>9, <2>1 DEF Boot, writerVars
<1> QED
  BY <1>2, <1>3, <1>4, <1>5, <1>6, <1>7, <1>8, <1>9 DEF ImageNext

\* The memory cache and the queue of writes keep to memory_cache_bytes and
\* cache_write_queue, and the rest has its type, for any number of images and viewers.
THEOREM ImageTypesHold == ImageSpec => []ImageTypeOK
<1>1. ImageInv /\ BoundsInv => ImageTypeOK
  BY InvParts DEF ImageInv, ImageTypes, SharedTypes, ViewerRecord, TransferRecord, NamesInv,
                  BoundsInv, ImageTypeOK
<1> QED
  BY <1>1, ImageBegins, ImageKeeps, BoundsBegin, BoundsKeep, PTL DEF ImageSpec
=============================================================================

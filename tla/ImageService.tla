------------------------------ MODULE ImageService ------------------------------
(***************************************************************************)
(* The image cache, ImageService of image.rs.  Viewers ask for an image;   *)
(* it is looked for in memory and on disk, and else they share one         *)
(* transfer, which is cancelled when the last of them has left.  What a    *)
(* transfer brings is written to disk later, by one writer with a bounded  *)
(* queue.  An image whose MD5 is not known beforehand is found through an  *)
(* alias; there are three lists of aliases: the one in memory, the one the *)
(* writer keeps, and the file.                                             *)
(*                                                                         *)
(* What session.rs does for a transfer is left to Session; here a transfer *)
(* succeeds, fails or is cancelled.                                        *)
(***************************************************************************)
EXTENDS Naturals, Sequences, FiniteSets, SequencesExt

CONSTANTS
  Image,         \* the images, each with one content
  Keyed,         \* those known by a resource key only, and found through an alias
  Viewer,        \* those who fetch images
  MemoryLimit,   \* memory_cache_bytes, in images
  QueueLimit,    \* cache_write_queue
  MaxFetches,    \* bound of the fetches
  MaxBoots,      \* bound of the restarts
  MaxDecays      \* bound of the blobs that go bad on disk

ASSUME ImageAssumption ==
  /\ Keyed \subseteq Image
  /\ {MemoryLimit, QueueLimit} \subseteq Nat \ {0}
  /\ {MaxFetches, MaxBoots, MaxDecays} \subseteq Nat

VARIABLES
  viewer,       \* what each viewer waits for, and the result it has got
  transfer,     \* inflight: the shared transfers
  memory,       \* the images in memory, the least recently used first
  blob,         \* the file of each image
  alias,        \* the aliases in memory
  writerAlias,  \* persisted_aliases, the writer's own
  savedAlias,   \* image_aliases.json
  writeQueue,   \* the images to be written
  writer,       \* what the writer does, and with which image
  maintenance,  \* who holds disk_maintenance
  phase,        \* whether the service runs, drains its queue, or is down
  fetches,      \* how many fetches there were
  boots,        \* how often it was restarted
  decays,       \* how many blobs went bad
  accepted,     \* history: the writes accepted since the start
  lost          \* history: images whose write failed, whose blob went bad, or whose
                \* alias was pruned before the blob was there

imageVars == <<viewer, transfer, memory, blob, alias, writerAlias, savedAlias, writeQueue,
               writer, maintenance, phase, fetches, boots, decays, accepted, lost>>
cacheVars == <<memory, blob, alias, writerAlias, savedAlias>>
writerVars == <<writeQueue, writer, accepted>>
serviceVars == <<phase, fetches, boots, decays>>

NoImage    == "no image"
NoViewer   == [at |-> "idle", image |-> NoImage, result |-> "none", late |-> FALSE]
NoTransfer == [at |-> "none", subscribers |-> {}, cancelled |-> FALSE, result |-> "none"]
NoWrite    == [at |-> "idle", image |-> NoImage]

ImageInit ==
  /\ viewer = [v \in Viewer |-> NoViewer]
  /\ transfer = [i \in Image |-> NoTransfer]
  /\ memory = <<>>
  /\ blob = [i \in Image |-> "none"]
  /\ alias = {} /\ writerAlias = {} /\ savedAlias = {}
  /\ writeQueue = <<>>
  /\ writer = NoWrite
  /\ maintenance = "free"
  /\ phase = "running"
  /\ fetches = 0 /\ boots = 0 /\ decays = 0
  /\ accepted = {} /\ lost = {}

-----------------------------------------------------------------------------
Up == phase # "down"

\* The images in memory but for one, if it is there.
Others(i) ==
  IF i \in ToSet(memory) THEN RemoveAt(memory, CHOOSE k \in DOMAIN memory : memory[k] = i)
                         ELSE memory

\* Nothing makes room.
FaultyTouched(i) == Append(Others(i), i)

\* memory_get() and memory_insert(): the image is the most recently used, and the
\* least recently used one makes room.
Touched(i) ==
  LET room == IF Len(Others(i)) < MemoryLimit THEN Others(i) ELSE Tail(Others(i))
  IN  Append(room, i)

\* A blob of that name exists, whatever its content.
Exists(i) == blob[i] \in {"good", "bad"}

\* Its MD5 is given, or an alias tells it.
Known(i) == i \notin Keyed \/ i \in alias

WaitAt(v, at) == viewer' = [viewer EXCEPT ![v].at = at]
Served(v) == viewer' = [viewer EXCEPT ![v] = NoViewer]

-----------------------------------------------------------------------------
(* fetch() *)

Fetch(v, i) ==
  /\ Up
  /\ viewer[v] = NoViewer
  /\ fetches < MaxFetches
  /\ fetches' = fetches + 1
  /\ viewer' = [viewer EXCEPT ![v] =
                  [NoViewer EXCEPT !.at = IF Known(i) THEN "memory" ELSE "transfer",
                                   !.image = i]]
  /\ UNCHANGED <<transfer, cacheVars, writerVars, maintenance, phase, boots, decays, lost>>

LookInMemory(v) ==
  /\ viewer[v].at = "memory"
  /\ LET i == viewer[v].image
     IN  IF i \in ToSet(memory) THEN Served(v) /\ memory' = Touched(i)
                                ELSE WaitAt(v, "disk") /\ UNCHANGED memory
  /\ UNCHANGED <<transfer, blob, alias, writerAlias, savedAlias, writerVars, maintenance,
                 serviceVars, lost>>

\* disk_get(), without disk_maintenance: a blob that does not fit its name is removed.
LookOnDisk(v) ==
  /\ viewer[v].at = "disk"
  /\ LET i == viewer[v].image
     IN  IF blob[i] = "good"
         THEN Served(v) /\ memory' = Touched(i) /\ UNCHANGED blob
         ELSE /\ WaitAt(v, "transfer")
              /\ blob' = [blob EXCEPT ![i] = IF @ = "bad" THEN "none" ELSE @]
              /\ UNCHANGED memory
  /\ UNCHANGED <<transfer, alias, writerAlias, savedAlias, writerVars, maintenance,
                 serviceVars, lost>>

\* Only what is posted later is seen.
FaultyJoin(v) ==
  /\ viewer[v].at = "transfer"
  /\ LET i == viewer[v].image
         there == transfer[i].at # "none"
     IN  /\ viewer' = [viewer EXCEPT ![v].at = "waiting",
                                     ![v].late = transfer[i].cancelled,
                                     ![v].result = "none"]
         /\ transfer' = [transfer EXCEPT ![i] =
                           IF there THEN [transfer[i] EXCEPT !.subscribers = @ \cup {v}]
                           ELSE [NoTransfer EXCEPT !.at = "fetching", !.subscribers = {v}]]
  /\ UNCHANGED <<cacheVars, writerVars, maintenance, serviceVars, lost>>

\* join_or_start(): whatever transfer is in the map is joined, also one that is
\* cancelled already or has its result.
Join(v) ==
  /\ viewer[v].at = "transfer"
  /\ LET i == viewer[v].image
         there == transfer[i].at # "none"
     IN  /\ viewer' = [viewer EXCEPT ![v].at = "waiting",
                                     ![v].late = transfer[i].cancelled,
                                     ![v].result = transfer[i].result]
         /\ transfer' = [transfer EXCEPT ![i] =
                           IF there THEN [transfer[i] EXCEPT !.subscribers = @ \cup {v}]
                           ELSE [NoTransfer EXCEPT !.at = "fetching", !.subscribers = {v}]]
  /\ UNCHANGED <<cacheVars, writerVars, maintenance, serviceVars, lost>>

\* Subscriber::drop: the last one cancels.
Unsubscribed(v) ==
  LET i == viewer[v].image
  IN  IF v \notin transfer[i].subscribers THEN transfer
      ELSE [transfer EXCEPT ![i].subscribers = @ \ {v},
                            ![i].cancelled = @ \/ transfer[i].subscribers = {v}]

Receive(v) ==
  /\ viewer[v].at = "waiting" /\ viewer[v].result # "none"
  /\ Served(v)
  /\ transfer' = Unsubscribed(v)
  /\ UNCHANGED <<cacheVars, writerVars, maintenance, serviceVars, lost>>

\* The viewer's own token, or its connection, ends its wait.
Depart(v) ==
  /\ viewer[v].at = "waiting"
  /\ Served(v)
  /\ transfer' = Unsubscribed(v)
  /\ UNCHANGED <<cacheVars, writerVars, maintenance, serviceVars, lost>>

-----------------------------------------------------------------------------
(* The task of a transfer: fetch_network() and what join_or_start() does with it. *)

\* What arrives is verified and put into memory; a cancellation would have ended it.
Arrive(i) ==
  /\ transfer[i].at = "fetching" /\ ~transfer[i].cancelled
  /\ transfer' = [transfer EXCEPT ![i].at = "arrived"]
  /\ memory' = Touched(i)
  /\ UNCHANGED <<viewer, blob, alias, writerAlias, savedAlias, writerVars, maintenance,
                 serviceVars, lost>>

\* The alias, and try_send(): when the queue is full or closed, the image is not written.
Enqueue(i) ==
  /\ transfer[i].at = "arrived"
  /\ transfer' = [transfer EXCEPT ![i].at = "queued"]
  /\ alias' = alias \cup ({i} \cap Keyed)
  /\ IF Len(writeQueue) < QueueLimit /\ writer.at # "ended"
     THEN writeQueue' = Append(writeQueue, i) /\ accepted' = accepted \cup {i}
     ELSE UNCHANGED <<writeQueue, accepted>>
  /\ UNCHANGED <<viewer, memory, blob, writerAlias, savedAlias, writer, maintenance,
                 serviceVars, lost>>

\* The result is posted to all who share the transfer.
Post(i) ==
  /\ \E result \in {"image", "cancelled", "failed"} :
       /\ CASE result = "image"     -> transfer[i].at = "queued"
            [] result = "cancelled" -> transfer[i].at = "fetching" /\ transfer[i].cancelled
            [] result = "failed"    -> transfer[i].at = "fetching"
       /\ transfer' = [transfer EXCEPT ![i].at = "posted", ![i].result = result]
       /\ viewer' = [v \in Viewer |->
                       IF v \in transfer[i].subscribers
                       THEN [viewer[v] EXCEPT !.result = result] ELSE viewer[v]]
  /\ UNCHANGED <<cacheVars, writerVars, maintenance, serviceVars, lost>>

\* Only then it leaves the map.
Retire(i) ==
  /\ transfer[i].at = "posted"
  /\ transfer' = [transfer EXCEPT ![i] = NoTransfer]
  /\ UNCHANGED <<viewer, cacheVars, writerVars, maintenance, serviceVars, lost>>

-----------------------------------------------------------------------------
(* run_cache_writer() and maintain() *)

TakeWrite ==
  /\ Up /\ writer.at = "idle"
  /\ writeQueue # <<>>
  /\ writer' = [at |-> "taken", image |-> Head(writeQueue)]
  /\ writeQueue' = Tail(writeQueue)
  /\ UNCHANGED <<viewer, transfer, cacheVars, maintenance, serviceVars, accepted, lost>>

\* persist() takes disk_maintenance; a file that exists is taken for the image.
BeginWrite ==
  /\ writer.at = "taken" /\ maintenance = "free"
  /\ maintenance' = "writer"
  /\ LET i == writer.image
     IN  IF Exists(i) THEN writer' = [writer EXCEPT !.at = "written"] /\ UNCHANGED blob
         ELSE /\ writer' = [writer EXCEPT !.at = "staging"]
              /\ blob' = [blob EXCEPT ![i] = "staging"]
  /\ UNCHANGED <<viewer, transfer, memory, alias, writerAlias, savedAlias, writeQueue,
                 serviceVars, accepted, lost>>

\* The disk stays in maintenance when a file cannot be renamed.
FaultyEndWrite ==
  /\ writer.at = "staging"
  /\ \/ /\ blob' = [blob EXCEPT ![writer.image] = "good"]
        /\ writer' = [writer EXCEPT !.at = "written"]
        /\ UNCHANGED <<maintenance, lost>>
     \/ /\ writer' = NoWrite
        /\ lost' = lost \cup {writer.image}
        /\ UNCHANGED <<maintenance, blob>>
  /\ UNCHANGED <<viewer, transfer, memory, alias, writerAlias, savedAlias, writeQueue,
                 serviceVars, accepted>>

\* The staged file is renamed, or left where it is, and then the alias is not saved either.
EndWrite ==
  /\ writer.at = "staging"
  /\ \/ /\ blob' = [blob EXCEPT ![writer.image] = "good"]
        /\ writer' = [writer EXCEPT !.at = "written"]
        /\ UNCHANGED <<maintenance, lost>>
     \/ /\ writer' = NoWrite
        /\ maintenance' = "free"
        /\ lost' = lost \cup {writer.image}
        /\ UNCHANGED blob
  /\ UNCHANGED <<viewer, transfer, memory, alias, writerAlias, savedAlias, writeQueue,
                 serviceVars, accepted>>

ReleaseWrite ==
  /\ writer.at = "written" /\ maintenance = "writer"
  /\ maintenance' = "free"
  /\ writer' = [writer EXCEPT !.at = "alias"]
  /\ UNCHANGED <<viewer, transfer, cacheVars, writeQueue, serviceVars, accepted, lost>>

\* The writer saves its own list with the alias added, and marks the image in memory.
SaveAlias ==
  /\ writer.at = "alias"
  /\ LET i == writer.image
     IN  /\ IF i \in Keyed
            THEN /\ maintenance = "free"
                 /\ writerAlias' = writerAlias \cup {i}
                 /\ \/ savedAlias' = writerAlias' /\ UNCHANGED lost
                    \/ lost' = lost \cup {i} /\ UNCHANGED savedAlias
            ELSE UNCHANGED <<writerAlias, savedAlias, lost>>
         /\ memory' = Touched(i)
  /\ writer' = NoWrite
  /\ UNCHANGED <<viewer, transfer, blob, alias, maintenance, writeQueue, serviceVars, accepted>>

\* The writer stops at once.
FaultyEndWriter ==
  /\ phase = "draining" /\ writer.at = "idle"
  /\ writer' = [at |-> "ended", image |-> NoImage]
  /\ UNCHANGED <<viewer, transfer, cacheVars, maintenance, writeQueue, serviceVars, accepted, lost>>

\* Told to stop, the writer first empties its queue, which it prefers to the token.
EndWriter ==
  /\ phase = "draining" /\ writer.at = "idle"
  /\ writeQueue = <<>>
  /\ writer' = [at |-> "ended", image |-> NoImage]
  /\ UNCHANGED <<viewer, transfer, cacheVars, maintenance, writeQueue, serviceVars, accepted, lost>>

\* maintain() removes what is staged or does not fit its name.
BeginMaintain ==
  /\ phase = "running" /\ maintenance = "free"
  /\ maintenance' = "sweeping"
  /\ blob' = [i \in Image |-> IF blob[i] = "good" THEN "good" ELSE "none"]
  /\ UNCHANGED <<viewer, transfer, memory, alias, writerAlias, savedAlias, writerVars,
                 serviceVars, lost>>

\* The aliases without a file.
Pruned == {i \in alias : ~Exists(i)}

\* Then it drops aliases, and saves the list in memory if it dropped one.
EndMaintain ==
  /\ maintenance = "sweeping"
  /\ maintenance' = "free"
  /\ alias' = alias \ Pruned
  /\ savedAlias' = IF Pruned = {} THEN savedAlias ELSE alias'
  /\ lost' = lost \cup {i \in Pruned : \/ i \in ToSet(writeQueue) \/ writer.image = i
                                       \/ transfer[i].at = "queued"}
  /\ UNCHANGED <<viewer, transfer, memory, blob, writerAlias, writerVars, serviceVars>>

-----------------------------------------------------------------------------
(* The life of the service. *)

BeginDrain ==
  /\ phase = "running"
  /\ phase' = "draining"
  /\ UNCHANGED <<viewer, transfer, cacheVars, writerVars, maintenance, fetches, boots,
                 decays, lost>>

\* The process ends: the writer has stopped, missed the deadline, or there was a crash.
GoDown ==
  /\ Up /\ boots < MaxBoots
  /\ phase' = "down"
  /\ viewer' = [v \in Viewer |-> NoViewer]
  /\ transfer' = [i \in Image |-> NoTransfer]
  /\ memory' = <<>> /\ alias' = {} /\ writerAlias' = {}
  /\ writeQueue' = <<>> /\ writer' = NoWrite /\ maintenance' = "free"
  /\ accepted' = {}
  /\ UNCHANGED <<blob, savedAlias, fetches, boots, decays, lost>>

\* new(): staged files are removed, and both lists are loaded.
Boot ==
  /\ phase = "down"
  /\ phase' = "running"
  /\ boots' = boots + 1
  /\ blob' = [i \in Image |-> IF blob[i] = "staging" THEN "none" ELSE blob[i]]
  /\ alias' = savedAlias /\ writerAlias' = savedAlias
  /\ lost' = {i \in Image : blob[i] = "bad"}
  /\ UNCHANGED <<viewer, transfer, memory, savedAlias, writerVars, maintenance, fetches, decays>>

\* A file of the cache is damaged from outside.
Decay(i) ==
  /\ decays < MaxDecays
  /\ blob[i] = "good"
  /\ blob' = [blob EXCEPT ![i] = "bad"]
  /\ decays' = decays + 1
  /\ lost' = lost \cup {i}
  /\ UNCHANGED <<viewer, transfer, memory, alias, writerAlias, savedAlias, writerVars,
                 maintenance, phase, fetches, boots>>

View(v) ==
  \/ \E i \in Image : Fetch(v, i)
  \/ LookInMemory(v) \/ LookOnDisk(v) \/ Join(v) \/ Receive(v) \/ Depart(v)

Transfer(i) == Arrive(i) \/ Enqueue(i) \/ Post(i) \/ Retire(i) \/ Decay(i)

Write == TakeWrite \/ BeginWrite \/ EndWrite \/ ReleaseWrite \/ SaveAlias \/ EndWriter

ImageNext ==
  \/ \E v \in Viewer : View(v)
  \/ \E i \in Image : Transfer(i)
  \/ Write
  \/ BeginMaintain \/ EndMaintain \/ BeginDrain \/ GoDown \/ Boot

ImageSpec == ImageInit /\ [][ImageNext]_imageVars

-----------------------------------------------------------------------------
(* Properties. *)

ImageTypeOK ==
  /\ viewer \in [Viewer -> [at : {"idle", "memory", "disk", "transfer", "waiting"},
                            image : Image \cup {NoImage},
                            result : {"none", "image", "cancelled", "failed"}, late : BOOLEAN]]
  /\ transfer \in [Image -> [at : {"none", "fetching", "arrived", "queued", "posted"},
                             subscribers : SUBSET Viewer, cancelled : BOOLEAN,
                             result : {"none", "image", "cancelled", "failed"}]]
  /\ memory \in Seq(Image) /\ Len(memory) <= MemoryLimit
  /\ blob \in [Image -> {"none", "staging", "good", "bad"}]
  /\ {alias, writerAlias, savedAlias} \subseteq SUBSET Keyed
  /\ writeQueue \in Seq(Image) /\ Len(writeQueue) <= QueueLimit
  /\ writer \in [at : {"idle", "taken", "staging", "written", "alias", "ended"},
                 image : Image \cup {NoImage}]
  /\ maintenance \in {"free", "writer", "sweeping"}
  /\ phase \in {"running", "draining", "down"}
  /\ fetches \in 0..MaxFetches /\ boots \in 0..MaxBoots /\ decays \in 0..MaxDecays
  /\ {accepted, lost} \subseteq SUBSET Image

\* A viewer that shares a transfer is not told that it was cancelled because others left,
\* unless all had left before it came.
NobodyElseCancels == \A v \in Viewer : viewer[v].result = "cancelled" => viewer[v].late

\* When the writer has stopped by itself, whatever it had accepted is on disk and found
\* again after a restart, but for what a fault or an early maintain() took away.
WriteIsKept ==
  writer.at = "ended" =>
    \A i \in accepted \ lost : blob[i] = "good" /\ (i \in Keyed => i \in savedAlias)

\* The list in memory knows every image that the file leads to.
AliasIsKnown ==
  Up => \A i \in savedAlias \ lost : blob[i] = "good" => i \in alias

\* Whatever was cached stays within reach: in memory until it is saved, and on disk with
\* its alias after a restart, whichever of a viewer, the writer and maintain() comes first.
CachedIsFound == WriteIsKept /\ AliasIsKnown

\* What viewers share they may rely on: no viewer is cancelled by another, and what one has
\* fetched is found by the next.
SharingIsSafe == NobodyElseCancels /\ CachedIsFound

\* Whoever asks for an image gets it or an error, also when the transfer it joins is
\* cancelled by the last of those who left, or has posted its result already.
ViewersAreAnswered == \A v \in Viewer : viewer[v].at # "idle" ~> viewer[v].at = "idle"

\* A writer that is told to stop comes to the end of its queue and stops, through failing
\* writes and maintain(), which share one mutex.
WriterStops == phase = "draining" ~> writer.at = "ended" \/ phase = "down"
=============================================================================

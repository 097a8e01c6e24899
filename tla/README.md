# The fvcore runtime in TLA+

This directory specifies the Core of FletViewer: the Rust runtime in
`src/fvcore/src` that owns operations, durable downloads, the local library, the
image cache, provider sessions, configuration and the event stream, and the
front ends that call it. The specifications are translated from the code;
`src/FVCORE.md`, the design document, is quoted only where the code is compared
with it. TLC checks the modules on small instances; TLAPS proves the main
theorems for every value of the constants.

    tlc -config OperationSafety.cfg MCOperationService.tla
    tlc -config Core.cfg MCCore.tla
    tlapm OperationServiceProofs.tla

`PROJECT.json` lists components, runs, mutants, findings, hazards and theorems,
and maps every definition to the lines it was translated from.

## 1. The system

| component | state it keeps | operations | hard because |
|---|---|---|---|
| Operation actor: `operation_service.rs`, `run_actor` of `runtime.rs` | map of operations, queue, count of slots taken, list of settled ones | start, cancel, progress, completion, retention | workers run concurrently, a bounded channel loses progress, a worker may panic |
| `EventHub`, `EventSubscription` | sequence number, bounded journal, broadcast window | publish, subscribe with a cursor, receive | clients lag, drop and resume while both windows move |
| `ImageDownloadService`: `image_download.rs` | map of tasks, `task.json` files, cancellation tokens, permits | start, retry, cancel, delete, run, progress, shutdown, open | two tasks write one snapshot, the worker holds a copy, crashes and dropped requests fall between two steps |
| `ArchiveService`: `archive.rs` | the same, with a signed URL that costs money, one download slot and a part file | start, retry, cancel, transfer, consumption marks, shutdown, open | a cost must not be paid twice or forgotten; tokens, events and files change at different moments; a transfer is resumed on a server that has changed |
| `GalleryService`: `gallery.rs` | library directories, deletion tickets, registry | consume a ZIP, import, export, delete with confirmation, recover | file moves, registry and task marks, each able to fail or be cut off |
| `ImageService`: `image.rs` | in-flight transfers, memory cache, disk cache, aliases, cache writer | fetch, join, cancel when the last caller leaves, maintain | sharing and cancellation race; three lists of aliases |
| Provider sessions: `session.rs` | generation, permits, rate limit, byte budget | execute, download, replace a generation | permits and budget are held while waiting for more |
| Runtime lifecycle: `runtime.rs` | services, actor, shutdown token, instance lock | build, shutdown | services run before others are open and after some are closed |
| Configuration and credentials: `config.rs`, `main.rs`, `storage.rs` | `config.json` with a backup and a lock, `secrets.json` | create, check, override, recover, update | several writers, renames that a crash cuts, three sources of one value |
| Storage: `storage.rs` | an instance lock, redb tables | register, remember, search | one transaction for each statement |
| Providers: `provider/` | none | search, resolve, fetch | positions in lists that the server changes between two requests |
| Control API, WebUI, Flutter bridge: `control.rs`, `webui.rs`, `api/flutter.rs` | none | adapters | a client that goes away drops the future of its handler; calls in flight at the shutdown |
| Flutter client: `src/frontend/lib` | list of tasks, cursor, revisions | connect, resynchronise, reload | answers arrive out of order |
| Legacy Python application: `src/core`, `src/app` | | | superseded by the Rust Core |

How they interact. Front ends reach the actor with commands over a bounded
channel and a one-shot reply; the download services, the library and the
providers they call directly, on the task of the request. The actor spawns a
worker for each running operation; the worker asks a provider what to fetch and
the image service for it, and answers with messages on the bounded message
channel. The two download services run workers of their own and send a task
snapshot on the same channel for every change; the actor publishes all of them
through the hub. Whatever goes to a provider goes through its session. The
library consumes the ZIPs the archive service completes and reports back.
Everything is a child of one shutdown token, and the storage, with its instance
lock, is closed last.

What makes each part correct, in short. The actor: slots are counted exactly,
nothing waits beside a free slot, each operation settles once. The hub: nobody
is handed a sequence with a hole. Image downloads: limits hold, a live task has
exactly one thing that will settle it, what was shown settled
survives a restart, what was deleted stays deleted. Archives: a cost is
submitted once and never forgotten, a bought URL is kept, a settlement is
announced, the bytes are in place. The library: registry, directories and tasks
agree through every cut. The cache: a cancellation reaches only those who asked
for it, and what was cached is found again. Sessions: the provider never sees
two requests too close, and counters tell the truth. Lifecycle: only the Core
with the lock works on the files. Configuration and credentials: what was saved
is what a restart finds. Front ends: what a client is told is true, and it is
told something.

## 2. The modules

### Operations and events

`Queues` has the `VecDeque` operations as operators on sequences, by indices so
that they can be reasoned about.

`EventHub` is the hub and its clients. Variables: `nextSequence`, `journal`,
`live` (the broadcast channel), and for each client `subscription` and `cursor`.
`Publish` is `push` once per event; `Subscribe`, `NextResync`, `NextReplayed`,
`NextLive`, `NextLagged` and `Disconnect` are what a client can do.

`OperationService` EXTENDS `EventHub` and composes it with the actor and the
workers. Each handler of the actor is one action, because the actor runs it to
its end with no await: `Start`, `CancelQueued`, `CancelRunning`,
`HandleProgress`, `HandleCompletion`, `HandleTask`, `Shutdown`. `Schedule` and
`Conclude` are the parts they share. A worker takes the steps `Report`, `Finish`,
`SendCompletion` or `Panic`. What a worker fetches and how is in
`ImageOperation`; here it is the result it is about to send. A command that is refused changes nothing and is not an action.

`FifoServer` is the abstract specification of the actor: jobs arrive, wait, are
served and leave, in order. `OperationService!ImplementsFifoServer` is the
refinement, with the queue as the waiting line and the running operations as
those served.

### Durable tasks and the library

`ImageDownloadService` and `ArchiveService` are the durable task services,
through crashes and restarts. An action is what happens under the mutex, or
between two awaits where nobody else can look. `tasks` is the map, `disk` the
files; after a crash `tasks` keeps its last value so that the next `open()` can
be compared with it, and no property looks at it while the Core is closed except
where it says so. Faults are actions and recorded: a request whose future is
dropped half way (`DropRequest`, `DropWrite`, `DropStart`), a write that fails
(a disjunct of `Settle`, `TrySave`, `Reported`, ...). The ghost variables
`stranded`, `unwritten` and `silenced` remember which tasks a fault has touched:
a property is then stated for all others, so it says both what holds and what
exactly breaks it. `charged` and `announced` record what left the service.

`DurableTasks` is the abstract specification of both: a task is accepted, settled,
asked for again, deleted; the service closes in whatever it does and opens again with
what it finds (`Found`). A task whose file a fault has kept from following the map is
`doubtful`; any other comes back as it was seen. Not even a doubtful task comes back
as a success it was not, or after it was deleted. `ImplementsDurableTasks` in the two
services is the refinement. Its mapping shows of a task what a client sees (`Phase`:
`none`, `pending`, the outcome, `deleted`), has the service up while it is `Serving`,
and takes as doubtful `unwritten` for images, and for archives the tasks whose file
differs from the map.

`ArchiveTransfer` has the bytes of one archive: `run_download` with
`download_to` of `session.rs`. A chunk is known by its version and its place.
The server releases new versions, answers a range with a 206, a whole body or a
416, and breaks off; the file is only renamed when the body is complete. A 206 may
be of another range than the one asked for, as the code does not read
`Content-Range`: `astray` remembers that, until the file is truncated.

`LocalGallery` EXTENDS `ArchiveService`, so that the two are one system: `ArchiveStep`
is any step of the latter, and the library's own steps go through the archive
service's marks. Consumption and deletion are cut into the steps between which
a crash, a failed write or a dropped request can fall. A consumption runs on a
blocking thread (`Thread`: `Stage`, `Commit`, `Undo`, `EndComicInfo`) that goes
on when its request is gone; a deletion runs in the request. The opening itself
(`RecoverDeletion`, `RecoverRegistrations`, `BootDone`) is a caller named
`Core`. `spoiled` records four kinds of fault: a consumption that was
interrupted, a deletion that could not be recorded, a ZIP that was abandoned in
a tombstone without a ticket, and a gallery that came back unregistered, because
the deletion that gave up ignores the result of its second registration
(`Restore`, `RecoverDeletion`). The last excuses the registry only, not the files.

### Images and sessions

`ImageService` is the cache with its shared transfers, the writer with its
bounded queue, `maintain()`, shutdown and restart. There are three lists of
aliases, as in the code: the one in memory, the writer's own, and the file.
`lost` are the images a fault, or an early `maintain()`, has taken away.

`Session` is one provider profile with its generations: a request waits for a
permit, for its turn under the rate limit, and then reads its body chunk by
chunk, each of which takes bytes from the budget all transfers share. `leaked`
counts the requests dropped while they waited, which `queued_requests` never
forgets.

`ImageOperation` is what a worker of the actor does: it resolves a page of an EH
gallery through thumbnail pages, keys and one of two viewers, and hands the
result to `ImageService`. `skewed` records that the server has shown the gallery
in a way the code does not look for.

`Browsing` is a reader who goes through a feed page by page, by the `next_page`,
`next_offset` or cursor of each answer, while the server posts and removes
items. `excused` records the reasons for which the code passes over an item.

### The life of a Core

`CoreRuntime` has any number of Cores on one storage root, each somewhere in
`build()` or `shutdown()`, and what runs of it: its tasks, the requests of open
connections, the calls of the application through a `CoreHandle`, and the blocking
threads of both. Requests and calls start downloads and threads at any time
(`StartWork`), during the shutdown too, since nothing there looks at the token; a
server aborted at the deadline leaves its requests. `late` are the Cores that run
what their `shutdown()` has waited for, `orphaned` those with a thread whose request
was dropped, `abandoned` those that gave up without waiting for their parts.

`Startup` looks at one stage of `build()` more closely: the messages that the
services send before there is an actor to take them.

`ConfigStore` is `config.json` between any number of processes that run a command of
the executable or a Core, a user with an editor, and kills at any point. A recovery
that cannot read a valid file takes it for invalid, sets it aside and restores the
backup in its place (`Recover`, `Restored`); `misread` remembers it. `Credentials` is which value
of a cookie or an API key a session uses after updates, crashes and restarts, for
an executable Core, which owns its configuration, and an embedded one, which is
given it.

`Frontends` lists every route of the control plane and the WebUI, and every
function of the bridge, as the sequence of calls it makes. `CoreHandle` lets
several of them run beside the actor and the shutdown: commands wait in the
mailbox, connections break, the server drains or misses its deadline. A write takes
two steps (`StartWrite`, `FinishWrite`), and when its handler is dropped between
them the thread that does it goes on (`stray`, `StrayWrite`). `overdue` records a
control plane left behind, `unguarded` who has written to a storage whose lock is
given up, a handler or such a thread.

`MCCore` is the sum of ten of these parts, and `MCLiveness` of four with the
fairness of each: a behaviour is one of the part in `focus`, and the others stay as
they begin. The parts share no state there; the modules that do share it are
composed by EXTENDS (`OperationService` with `EventHub`, `LocalGallery` with
`ArchiveService`, `CoreHandle` with `Frontends`).

### Conventions

A definition `FaultyX` is `X` with one slip in it. Only the mutation of `X` by
`FaultyX` uses it, to show that a property can notice it.

History variables change no guard. They say what a fault has done, so that a
property is stated for everything else and names what exactly breaks it.

Modules named `MC...` are what configurations run: they add a symmetry set, or put
parts side by side; modules named `...Proofs` hold theorems.

## 3. The runs

| run | instance | what it shows |
|---|---|---|
| `OperationSafety` | 4 operations, 1 slot, queue of 2, 1 retained, channel of 2, 2 reports each, panics, shutdown | the accounting invariants and the refinement of `FifoServer` |
| `OperationStream` | 2 operations, 1 task event, 1 client, journal of 2, broadcast window of 1 | no silent gap for a client that lags, drops and resumes; every accepted operation settles |
| `ImageDownloadSafety` | 3 tasks, 1 permit, 1 queue place, revisions to 3, both kinds of fault, any number of restarts (967 000 states) | limits, ownership, durability, monotonic revisions, deletion, and the refinement of `DurableTasks` |
| `ArchiveSafety` | 2 tasks, revisions to 4, 1 restart, failing writes, dropped requests (682 000 states) | cost, URL, slot, ownership and announcement, and the refinement of `DurableTasks` |
| `ArchiveLiveness` | 2 tasks, no faults | both settle under fairness, whatever is cancelled or retried |
| `Core` | the parts below, one at a time | their invariants, and that an opening finishes the deletions |
| `CoreLiveness` | sessions, image cache, front ends and startup, one at a time, each with its fairness | requests end unless the byte budget is jammed; viewers are answered and the cache writer stops; every call of a front end is answered; `build()` comes to its end unless the message channel is full |

The parts of `Core`, with the distinct states each has in that run:

| part | property | bounds | states |
|---|---|---|---|
| library | `LibraryIsConsistent`, `OpeningFinishesDeletions` | 1 task, 2 clients, 1 export, 4 reports, 1 restart, failing files and writes, dropped requests | 539 000 |
| sessions | `RequestsAreSpaced`, `SessionAccounts` | 3 requests, 2 permits, 2 generations, a body and a budget of 2 chunks | 147 000 |
| images | `SharingIsSafe` | 2 viewers, 2 images, 1 in memory, 2 fetches, 1 restart, 1 bad blob | 219 000 |
| front ends | `AnswersAreTrue`, `WritesAreGuarded` | 2 front ends, a mailbox of 1 | 22 000 |
| feeds | `NothingIsPassedOver` | 4 items, pages of 2, 2 pages of Pixiv | 36 000 |
| operation | `KeyIsOfThePage` | 3 pages, 1 change of the gallery | 14 000 |
| credentials | `SavedIsRestored` | 3 values | 4 600 |
| lifecycle | `WorkersHoldTheLock` | 2 Cores | 370 000 |
| configuration | `SavedConfigSurvives` | 1 Core, 2 commands, 4 versions | 10 500 |
| transfer | `ArchiveIsInPlace` | 3 chunks, 2 versions, 3 transfers | 9 400 |

`OperationSafety` needs four operations for a full system (one running, two
waiting) and one more that is refused or has been evicted; a channel of two
and two reports let progress and completion be in flight together, and a
completion wait for room; retention of one makes each settlement evict the last.
`OperationStream` has windows so short that one event moves the broadcast channel
and two the journal past a client. Three image tasks are one more than the
service admits. Two archive tasks contend for the one slot. Revisions are bounded
through the guards of retry and progress: bounds of 3 to 5 let a task run and
settle, be retried at least once and report progress. The restart bound of
`ArchiveService` is one because a second restart finds only states a first one
could have found: each `open()` starts from a file a run has written.

In `Core`, one task is enough for the library because deletions, consumptions and
recovery go task by task, and a second one only makes the list of
`consume_pending` longer; two clients and the blocking thread are what competes
for it. Two permits and three requests let one wait; a budget as large as one
body, the least `config.rs` accepts, is used up by two halves. One image in memory
and one place in the write queue make room for each other at once. Four items and
pages of two give three pages while one item comes and one goes. Three pages make
a gallery whose last page of thumbnails is shorter than the first. Two Cores are
the holder of a lock and one that wants it. A Core and two commands contend for
the configuration, so that one is killed and two come after it. Larger instances were checked once
without finding more: sessions with an interval of 2 and a clock to 3, the image
cache with 3 fetches (3.3 million states).

`CoreLiveness` has two requests with two permits, a budget of 2 chunks and an interval
of 1, which is enough to jam the budget and to let one wait for the mutex a sleeper
holds, but not for a permit; two viewers of one image with room for one write, without
restarts; two front ends with a mailbox of 1, both hosts and every route; three
completed archives, one image task and a channel of 3. Smaller instances than those of
`Core`, because TLC has to look for cycles in them (54 000 states).

Symmetry is used in safety runs only: identifiers are never compared or ordered.
In `Core` one pair of names stands for clients, viewers, Cores, commands, front ends
and two requests at the same time, which is sound because only one part moves. Deadlock is
checked in the image download runs, where the Core can always be opened again; the
others stop when the runtime has stopped or the bounds are used up.

Fairness. For the actor: messages are handled (its select prefers commands, but each
client awaits its reply), a worker ends (its request has a deadline), and a completion
waiting for room in the channel gets it (strong fairness: the channel serves its senders
in order). For archives: every spawned task goes on, requests to the server have
timeouts, and the semaphore serves its waiters in order (strong fairness of `Download`).
For the parts of `CoreLiveness` the fairness stands in `MCLiveness`, and is that of the
part in focus: tokio's semaphores and mutexes are fair queues, the HTTP client has a
timeout, the runtime polls every handler and the actor, and nothing else is assumed to
end. The one wait that has no timeout, for the byte budget, is in `RequestsEndOrJam`;
the fairness of a transfer in the image modules leaves that jam out. Nothing obliges a
client to cancel, retry, leave, consume or reopen. In `CoreLiveness` the clock goes on
only while somebody sleeps (`TimedNext`), so that its bound never stops a sleeper.
`Core` assumes no fairness.

Five runs show where the code departs from what the repository says of it, each
by a counterexample.

| run | stated in | what the code does |
|---|---|---|
| `OperationPanic` | FVCORE.md:304 | a panicking worker leaves its operation running and its slot taken: the `JoinHandle` is dropped |
| `ImageDownloadShutdown` | FVCORE.md:278 | a clean shutdown cancels the tasks in the queue instead of keeping them |
| `ArchiveReady` | archive.rs:35 and 52 | a task saved as ready is ready for ever after a restart |
| `ArchiveCancel` | download_view.rs:57 | a leaving worker removes the token of the retry that followed it, which can then not be cancelled |
| `ArchiveSlot` | FVCORE.md:263 | the signed URL is bought before the wait for the download slot |

The passing runs show further weak points by the exceptions their properties
need.

- The library publishes one message for each archive it consumes into a bounded channel
  whose receiver is spawned after it: with enough completed tasks, or image tasks that
  go on meanwhile, `build()` waits for ever, where FVCORE.md:109 has the Core enter the
  ready state in the end (the second half of `OpeningEndsOrJams`).
- Responses take the byte budget chunk by chunk and keep it, with no timeout on that
  wait: two of them may wait for each other until one is cancelled, where FVCORE.md:210
  has reading stop with an error (the second half of `RequestsEndOrJam`).
- An archive transfer is resumed with `Range` alone, where FVCORE.md:254 has `If-Range`
  and a check of `Content-Range`: `ArchiveIsInPlace` says nothing of the versions the
  chunks are of, and a ZIP may have chunks of two; and what a 206 of another range brings
  is appended as if it were the range asked for (`astray`).
- A start or retry dropped before `schedule()` leaves a live task nobody works on
  (`stranded`), in both services. A failed retry in `archive.rs` does the same,
  because the map has changed before the write.
- A lost terminal write of an image task brings it back after a restart, on top
  of the admission limit (`unwritten`).
- A bought URL that cannot be saved and a consumption mark that cannot be written
  send no event (`silenced`).
- A consumption cut between its commit and its mark leaves the task completed with
  its ZIP gone; later consumptions fail, although `runtime.rs:709` calls them
  idempotent (`spoiled`).
- A deletion that cannot be recorded puts the gallery back and registers it again, and
  ignores a failure of that (`gallery.rs:713` and 457): the gallery is there, and no
  reader finds it (`spoiled` as `unregistered`).
- A ZIP whose rename was cut off leaves a complete part file, and every retry then
  asks for a range behind its end and gets a 416.
- A request dropped while it waits for a permit stays in `queued_requests` (`leaked`).
- A viewer that joins a transfer just cancelled gets the cancellation (`late`), and
  `maintain()` forgets the alias of an image that is still to be written (`lost`).
- `build()` that fails, and `shutdown()` past its deadline, give up the lock while
  services still run (`abandoned`); a handler of the control plane left behind at the
  deadline, and every call of the bridge, may write after that (`unguarded`).
- A `shutdown()` that meets its deadline waits for no blocking thread whose request was
  dropped (`orphaned`, `stray`) and for nobody who calls a `CoreHandle` (`runtime.rs:1381`):
  these work on when the lock is gone. So do downloads that a request has started after
  its service was waited for (`late`).
- A backup left beside a configuration that a user then breaks replaces it
  (`mistyped`), and so does one left beside a valid configuration when a recovery fails
  to read that (`main.rs:831`): what was saved since the backup is lost (`misread`).
- An embedder's configuration wins over a saved credential, a removed value comes
  back from the other source, and `config.json` forgets the environment variables
  of fields that an update did not touch (`dropped`).
- The image key of an EH page is taken by position, not compared with the page: a
  thumbnail that the parser skips, or a gallery shown differently meanwhile,
  gives another page (`skewed`).
- Paheal's reader takes a page with an unreadable item for the last, Pixiv's one
  whose items are all unreadable; Gelbooru counts from 0 and readers begin with 1
  (`excused`).

## 4. The proofs

All theorems hold for every value of the constants that satisfies the named
assumptions, so for any number of tasks, clients, requests, images, pages or Cores.
Every safety invariant, action property and refinement of a passing run is the
statement of a theorem.

| module | theorem | states |
|---|---|---|
| `OperationServiceProofs` | `TypeCorrectness`, `AccountSafety`, `BackingSafety`, `JournalIsTrue`, `StreamSafety`, `Refinement` | `TypeOK`, `AccountsAgree`, `RunningIsBacked`, `JournalFollowsOperations`, `NoSilentGap`, `ImplementsFifoServer` |
| `ArchiveServiceProofs` | `TypeCorrectness`, `CostIsSafe`, `UrlSafety`, `SlotSafety`, `BackingSafety`, `SettlementsAreAnnounced`, `ArchivesAreDurable`, `ZipIsInPlace` | `TypeOK`, `CostIsAccounted`, `UrlIsKept`, `DownloadHasUrlAndSlot`, `LiveTaskIsBacked`, `SettlementIsAnnounced`, `ImplementsDurableTasks`, `ArchiveIsInPlace` |
| `ImageDownloadServiceProofs` | `ServiceTypeCorrectness`, `LiveTasksAreBacked`, `DownloadLimitsHold`, `FilesStayCurrent`, `SnapshotsOnlyMoveForward`, `DownloadsAreDurable` | `TypeOK`, `LiveTaskIsBacked`, `LimitsRespected`, `FilesAreCurrent`, `SnapshotsMoveForward`, `ImplementsDurableTasks` |
| `LocalGalleryProofs` | `LibraryTypes`, `LibraryAgrees`, `OpeningEndsDeletions`, `LibraryImplementsArchive`, `LibraryKeepsPromises` | `GalleryTypeOK`, `LibraryIsConsistent`, `OpeningFinishesDeletions`, the specification of `ArchiveService`, and with it what is promised of the archives |
| `ImageProofs` | `SharingSafe`, `ImageTypesHold` | `SharingIsSafe`, `ImageTypeOK` |
| `ProviderProofs` | `Spacing`, `Accounting`, `FeedsAreRead`, `BrowseTypesHold`, `KeysFitPages`, `OperationTypesHold` | `RequestsAreSpaced`, `SessionAccounts`, `NothingIsPassedOver`, `BrowseTypeOK`, `KeyIsOfThePage`, `OperationTypeOK` |
| `CoreProofs` | `OnlyOneCoreWorks`, `FrontendsAreToldTheTruth`, `StorageIsGuarded`, `ConfigTypes`, `ConfigSurvives`, `CredentialsAreRestored` | `WorkersHoldTheLock`, `AnswersAreTrue`, `WritesAreGuarded`, `ConfigTypeOK`, `SavedConfigSurvives`, `SavedIsRestored` |
| `MCCoreProofs` | `CoreIsItsParts`, `PartsKeepTypes`, `PartsKeepPromises` | the specifications of the ten parts, `PartsTypeOK`, and the other properties of the run `Core` |

Each proof has the same shape: an invariant that TLC has checked on an instance first,
a lemma for each action that the action keeps it, a lemma that it implies the property,
and a temporal theorem of four lines. Most components move one task, request or page at
a time, so most invariants are stated for one of them, with a frame that says what a
step leaves alone of the others. What follows says what each invariant adds to its
property, and why the property alone is not inductive.

### Operations and events

The invariant of the actor is the type invariant, the hub's windows and the three parts
of `AccountsAgree`: the slot count is the number of running operations; queue, map and
limit agree, and no operation waits beside a free slot; the retained list is the settled
part of the map. They depend on each other: that the queue has no duplicates and equals
the queued part of the map is needed for a promoted operation to be one that was not
running, and so for the count; that nothing waits beside a free slot is what makes one
iteration of the loop in `schedule()` enough. `Start`, `CancelQueued` and
`HandleCompletion` share the lemmas about `Schedule` and `Conclude`; those about the
`VecDeque` operators of `Queues` come first.

For `NoSilentGap`, `StreamsContiguous` is the strengthening: the cursor alone does not say
what the replay and the channel position will deliver next; that both are windows of one
numbering does. The steps of the hub are proved for an arbitrary set of event bodies.

`RunningIsBacked` has an invariant of its own, `Backed`, for one operation: it says
without counting that the completions of an operation in the channel are one position or
none, and none beside a live worker. Taking the first message moves all positions down by
one, which is the only step about all operations at once.

`JournalFollowsOperations` is about windows into which one handler may put several events
of several operations, for `schedule()` promotes what `Conclude` makes room for.
`Told` adds that an operation which does not exist has revision 0, and the lemmas follow
one operation through the list of events a handler publishes (`Follows`), whether
`journal` keeps all of them or has lost the oldest.

### Archives

`Charges` says that a worker or request which is about to submit has not been charged,
and that a task with a worker has a file: without the latter `start()` could find the
file absent and submit again. `Urls` says that every state past the submission has the
URL, in the map and in the file separately, because a write may fail and leave an older
snapshot in the file, and that the map never knows less than the file, because
`transition()` writes what the map has. `Backing` ties worker and request to the state,
which gives a worker's own writes their meaning. `OneHolder` is the only part about two
tasks.

`SettlementIsAnnounced` needs `Heard`: an event on its way (`leaving`) or announced is never
newer than the map, and of a settled task the last revision is one of them. The bound is
what makes the last event the hub gets the newest one, in whatever order workers and
retries send theirs.

For `ArchiveIsInPlace` the strengthening says that unless an answer was `astray` a
response being read continues the file where it ends (`ReplyContinues`), and which chunk
comes next; and that the file can only be made good by truncation while there is no ZIP
yet (`ZipIsTheEnd`). It is no proof that a ZIP is of one version, nor of the range asked
for, which the code does not ensure.

### Image downloads

`ServiceInv` is `TaskInv` of each task and two counts. A live task has one owner, and a
worker that has settled its task but not yet published the result (`Ending`) has in hand
a copy newer than the map, which is what the file has: `FileAgrees` says so between the
write and the publication, and `SettledIsDurable` is its part about settled tasks. It is
also what carries the limits through a restart: what is queued on disk was admitted,
except for tasks whose write was lost (`unwritten`), as the property has it. A running
task holds a permit (`UnderPermit`), and permits are counted. `SnapshotsMoveForward`
follows from the same invariant: that nobody works on a deleted task and that a copy is
newer than the map.

### Durable tasks

That both services implement `DurableTasks` does not follow from what a client sees: a
restart brings back what the files say, and a file may say what was never shown. The
strengthening is `FilesAreKept`: a task that is in the map has a file, one that is not
has none that a restart would take for more than an attempt, and a file that tells of a
success belongs to a task that succeeded. Each step of a request or worker is then
shown to turn one task by at most one step of `Phase`, and for archives also that the
file follows the map or a fault may happen (`Durably`); `Open` is the step where the
invariant is used. For image downloads, where a task may be deleted and a worker holds a
copy of its own, `ServiceInv` gives the rest: outside `unwritten` a settled task is in
its file as it was seen. TLC checked both refinements, and `FilesAreKept` of the image
downloads on 967 000 states, before they were proved.

`CostIsAccounted` and `FilesAreCurrent` are conjunctions, proved part by part
(`CostSafety` and `ChargeSafety`, `SettledTasksAreDurable` and `RecoveryPointsAreSaved`).

### The library

The library takes the steps of `ArchiveService` and adds its own, so its proof stands on
that of the service. `StepsAreArchiveSteps` shows that each step of the library is a step
of the service or leaves its variables alone; `LibraryImplementsArchive` is the
refinement, under the identity mapping, and gives the library `Inherited`, the service's
own invariant with `AllHeard`.

`GalleryInv` has what is true in each phase of an opening (`Phases`), the shape of calls
(`Calling`), who has the write side of the lock and whom the thread works for
(`Locking`), and for one task at a time what its snapshots (`SnapshotsOf`), its files
(`FilesOf`) and the callers that work on it (`CallsOf`) show. `LibraryIsConsistent` is not
inductive because it speaks of the files only: it does not say that a deleter which
has hidden a gallery has it in a tombstone that its ticket lists, that nothing is
exported meanwhile, or that a consumer about to register has the ZIP in the library.
Two points carry the proof. A report of consumption or deletion that is announced is also
written, and the reporter can tell, because the revision is newer than any the service has
announced before (`ReportEffect`): this is where `Heard` is needed. And callers on other
tasks, or on none, rely on nothing a step changes (`Elsewhere`, `Nowhere`), so each lemma
is about one task and the caller, if any, that works on it.

The exceptions are those of the property: `LibraryIsConsistent` says nothing of tasks in
`spoiled`, whom a named fault has cut between two steps, and the proof shows that nothing
else breaks it. A task spoiled as `unregistered` is only excused from the registry: its
files, its saved snapshot and whoever works on it are as in any other (`Entered`).

Because the library implements the archive service, what is proved of the service
holds beside it: `LibraryKeepsPromises` says so of the cost, the URL, the slot, the
announcement and the durability of the tasks.

### Images, pages and feeds

`ImageInv` has the parts that sharing needs (`SharedInv`: who shares a transfer waits for
it, and one who came after its cancellation knows) and those the cache needs (`WriteInv`:
an image nothing has touched is on its way or on the disk with its alias in all three
lists). They meet in `ResultsAreAwaited` and `DownIsEmpty`: a service that starts finds
nobody waiting and nothing in hand.

`KeyInv` adds to `KeyIsOfThePage` that the thumbnails listed are those the server shows
on the first page: the size the code reckons with is the number of those. The rest is
arithmetic of pages of a fixed size, and that the k-th number of an interval is its first
plus k.

`TurnedIsSeen` says of each item that is still listed that it was seen if it stands on a
page already turned, where pages are counted by rank among the items the server lists at
the moment (`Behind`). It is needed because the property speaks of the end of the feed
only, and because a new item moves all ranks by one.

### Sessions, lifecycle, configuration and front ends

`SentAreBehind` relates each request already sent to the next turn of its generation: the
turn is at least the interval behind it. `ChunksFit` bounds what a request holds by the
body's limit, which with `MaxBody <= Budget` is why none waits for bytes that it alone
holds. Counting needs the set of requests to be finite.

An opened Core has the lock, so that there is one (`OpenedHoldsTheLock`); at each stage of
`shutdown()` the parts already waited for are over, or the Core is late
(`WaitedForIsOver`); a server that is down in time has no request left (`ServerWaits`), and
where no request or call is left a thread is an orphan (`ThreadsAreAwaited`); and a Core
that left has nothing (`NothingIsLeft`). The order in `Stopping` matters exactly there:
storage comes after all parts.

`ConfigInv` says that whoever replaces the file has the lock of the directory, what the
replacement has reached at each of its steps, and that until the user breaks the file
neither it nor its backup, nor what a recovery has set aside, is ever invalid.
`SavedConfigSurvives` needs all three: between two renames there is no file, and what
recovery finds then is the backup.

`FilesAgree` says which value the two files of the credentials give together,
`MemoryAgrees` that a running Core has the same in memory, or is between the write and the
use of one update, and `MemoryIsSaved` that an embedded Core writes nothing it was not
given or told.

`HandleInv` says how far each request has come with the change it asks for
(`RequestInv`), and that a command in the mailbox is the only one of its sender, who waits
for it or is gone (`CommandsAreOwned`): the answer the actor gives is to the request it
carried out. What may be left of a request is the rest of a route, and in every route the
change comes last, after which nothing can refuse it. This is a fact about the table of
routes in `Frontends`, which `RouteAssumption` states; it is a closed formula, without
constants or variables, that TLC evaluates. `NobodyIsLeft` is the strengthening for the
storage: a server that went down in time has no handler left, so that only threads may
write after the lock is gone. It allows those because the code does.

### Types, and the parts of a Core

Most types follow from the shape of the steps. Three need more. `BoundsInv` has the
limits of memory cache and write queue: an image that is touched leaves its old place
before it takes the new one (`Others`), so that the cache grows by one at most, and then
drops its oldest. `OperationInv` has the page a worker chooses: it is an element of the
set of thumbnails listed because its index is below the size of that set (`NthIsThere`,
by the ranks of its elements), and thumbnails are only counted where some were read.
`SeenWasPosted` has what a reader has seen: each item was posted before.

`CoreIsItsParts` is the composition: each step of `CoreNext` is a step of one part or
leaves its variables alone, for each of the ten parts, so that `CoreSpec` implies the
specification of each. From it follow `PartsKeepTypes` and `PartsKeepPromises`: what
the run `Core` checks on one small instance of all parts holds for every value of the
constants.

### What is assumed, and what is not proved

Assumed are only the named assumptions on constants: positive limits, as `config.rs`
validates them (a queue limit may be zero); finite sets where something is counted; a body
that fits the budget, as `ImageConfig::validate` has it; names for nobody that are not
names of somebody (`RuntimeAssumption`, `Nobody` in `ConfigAssumption`, and in
`GalleryAssumption` that `Core` is not a client and `NoTask` not a task); processes that run
a Core or a command but not both; Booleans that allow a fault or not; and
`RouteAssumption`, which TLC computes.

`RouteAssumption` stays an assumption because the steps of a route are put together by a
fold over the table, and the provers cannot instantiate its operator argument.

Only model-checked are all liveness properties, which are out of the prover's reach because
they rest on fairness, and the counterexamples of the five violating runs. `Startup` has
liveness properties only.

## 5. Abstractions

- Identifiers are model values and used once, as the UUIDs are.
- Payloads, byte counts, phases, errors and timestamps are left out; a revision
  stands for the change it announces.
- Throttling of progress is a free choice: each report may or may not be sent or
  saved.
- The time limit of a signed URL is left out: a retry that finds it expired is
  refused and changes nothing.
- tokio's broadcast channel rounds its capacity up to a power of two; `Capacity`
  is the rounded number.
- A write of `task.json` goes through a temporary file and a rename and is
  atomic. Unreadable files are skipped by `open()` and not modelled.
- The archive state `Queued` is in the enumeration but nothing ever creates it.
- The permit of an image worker is given back with the terminal snapshot; the
  event sent in between is not modelled.
- The restart of an archive task keeps its revision, as the code does; clients
  list the tasks anew.
- Bytes are chunks, time is steps of a clock, and a version of a file is a number.
  What a ZIP, a page or a metadata file holds is left out; a file is there, half
  written, good or bad.
- A file replaced by a temporary one and a rename is replaced at once, except where a
  crash between two renames matters (`ConfigStore`, `LocalGallery`).
- A configuration is valid or not; which values `validate()` accepts is not modelled.
- A transfer in `ImageService` and in the download services succeeds, fails or is
  cancelled; what it waits for is in `Session`, what it leaves on disk in
  `ArchiveTransfer`.
- A route in `Frontends` is its sequence of calls. Two routes of the same calls are
  one request in `CoreHandle`.
- A feed is a set of numbered items, and what a parser cannot read is an item without
  a post.
- In `Startup` each consumption sends one message, and an image task a few.

## 6. Not modelled

- The Flutter client, in Dart. Its subscription is a client of `EventHub`; that
  reloads of one task may overtake each other (`main.dart:2344`) is a hazard no module
  covers.
- Parsers, URL builders and the mapping of posts: text.
- The tables of history and favourites, and the classification of what lies in the
  library's directories: each statement is one transaction or one read. That history
  orders dates as strings (`storage.rs:340`), and that a title may be cut inside a
  character (`gallery.rs:2241`), are about text and listed as hazards only.
- Pages, JSON and HTML of the front ends, and the generated code of the bridge.
- The legacy Python code and the vendored documentation.

## 7. Plan

Done: all modules above, and a theorem for every safety invariant, action property and
refinement the runs check.

Next, in this order.

1. The parts of `SharingIsSafe` and `LibraryIsConsistent` that readers look for, as
   corollaries of their own: a cached image is found, a registered gallery is there.
2. The client's resynchronisation: cursor, revisions, unordered reloads, composed with
   `EventHub` and with tasks whose revisions a restart takes back.

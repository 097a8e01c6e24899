---------------------------- MODULE ImageOperation ----------------------------
(***************************************************************************)
(* The worker of one operation: run_fake, run_booru_original,              *)
(* run_pixiv_page, run_pixiv_thumbnail, run_eh_page, run_eh_cover and      *)
(* run_eh_thumbnail of operation_service.rs, with the resolution of an EH  *)
(* page in provider/eh.rs.  OperationService has the queue and the slots;  *)
(* here is what a worker asks of the provider before it fetches an image.  *)
(*                                                                         *)
(* An EH gallery has pages numbered from 0, shown as thumbnails on pages   *)
(* of their own.  To find the image key of one, the code takes the number  *)
(* of thumbnails it read on the first of those for the size of all.        *)
(***************************************************************************)
EXTENDS Naturals, FiniteSets

CONSTANTS
  MaxPages,     \* bound: pages of a gallery
  MaxRelays     \* bound: how often the server shows the gallery in another way

ASSUME OperationAssumption == MaxPages \in Nat \ {0} /\ MaxRelays \in Nat

VARIABLES
  shown,      \* the gallery on the server: pages, thumbnails on a page, and the pages
              \* whose thumbnail the parser does not read
  asked,      \* what the operation is, and for which page of the gallery
  at,         \* what the worker awaits
  listed,     \* the thumbnails of the first page
  chosen,     \* the page whose image key is sent
  aborted,    \* whether the operation's token is cancelled
  outcome,    \* the result the worker reports
  relays,     \* how often the gallery was shown in another way
  skewed      \* history: whether an answer was not of the layout the code assumes

operationVars == <<shown, asked, at, listed, chosen, aborted, outcome, relays, skewed>>

Kinds == {"fake", "booru original", "pixiv page", "pixiv thumbnail", "eh page", "eh cover",
          "eh thumbnail"}
NoPage == MaxPages   \* also the page behind the last, which may be asked for

\* What a worker of each kind awaits first.  A thumbnail has its address in the request.
Beginning(kind) ==
  CASE kind = "fake" -> "sleep"
    [] kind \in {"booru original", "pixiv page", "eh cover"} -> "details"
    [] kind = "eh page" -> "first thumbnails"
    [] kind \in {"pixiv thumbnail", "eh thumbnail"} -> "image"

Shown == [pages : 1..MaxPages, size : 1..MaxPages, unread : SUBSET (0..(MaxPages - 1))]

OperationInit ==
  /\ shown \in {g \in Shown : g.unread \subseteq 0..(g.pages - 1)}
  /\ asked \in {q \in [kind : Kinds, page : 0..MaxPages] : q.kind # "eh page" => q.page = 0}
  /\ at = "start"
  /\ listed = {}
  /\ chosen = NoPage
  /\ aborted = FALSE
  /\ outcome = "none"
  /\ relays = 0
  /\ skewed = FALSE

-----------------------------------------------------------------------------
(* What the server shows on a page of thumbnails, and what is read of it. *)

OnPage(p) == {i \in 0..(shown.pages - 1) : i \div shown.size = p}
Read(p) == OnPage(p) \ shown.unread
LastPage == (shown.pages - 1) \div shown.size

-----------------------------------------------------------------------------
Report(result) == outcome' = result /\ at' = "end"
AwaitNext(next) == at' = next /\ UNCHANGED outcome

StartWorker ==
  /\ at = "start"
  /\ AwaitNext(Beginning(asked.kind))
  /\ UNCHANGED <<shown, asked, listed, chosen, aborted, relays, skewed>>

\* A Booru post, a Pixiv illustration or an EH gallery: it may have no such image, or a
\* digest that is none.
ReadDetails ==
  /\ at = "details"
  /\ AwaitNext("image") \/ Report("failed")
  /\ UNCHANGED <<shown, asked, listed, chosen, aborted, relays, skewed>>

\* resolve_viewer_image(): the first page of thumbnails gives the address of a viewer page.
ReadFirstThumbnails ==
  /\ at = "first thumbnails"
  /\ listed' = Read(0)
  /\ IF listed' = {} THEN Report("failed") ELSE AwaitNext("viewer")
  /\ skewed' = (skewed \/ OnPage(0) \cap shown.unread # {})
  /\ UNCHANGED <<shown, asked, chosen, aborted, relays>>

\* parse_image_key(): the multi-page viewer has the keys of all pages.
ReadAllKeys ==
  /\ at = "viewer"
  /\ IF asked.page < shown.pages THEN chosen' = asked.page /\ AwaitNext("dispatch")
                                 ELSE Report("failed") /\ UNCHANGED chosen
  /\ UNCHANGED <<shown, asked, listed, aborted, relays, skewed>>

\* Thumbnails are read in the order of their pages.
Nth(thumbnails, index) ==
  CHOOSE i \in thumbnails : Cardinality({j \in thumbnails : j < i}) = index

\* The key on a page of thumbnails, where there is one.
Pick(thumbnails, index) ==
  IF index < Cardinality(thumbnails)
  THEN chosen' = Nth(thumbnails, index) /\ AwaitNext("dispatch")
  ELSE Report("failed") /\ UNCHANGED chosen

\* Pages are taken to be numbered from 1.
FaultyTarget == (asked.page + 1) \div Cardinality(listed)

Target == asked.page \div Cardinality(listed)

\* A single page has a key for the rest; the page is on the first page of thumbnails, or
\* another one is asked for.
ReadShowKey ==
  /\ at = "viewer"
  /\ IF Target = 0 THEN Pick(listed, asked.page % Cardinality(listed))
                   ELSE AwaitNext("more thumbnails") /\ UNCHANGED chosen
  /\ UNCHANGED <<shown, asked, listed, aborted, relays, skewed>>

\* A page of thumbnails behind the last is empty, or the last again.
ReadMoreThumbnails ==
  /\ at = "more thumbnails"
  /\ \E p \in {Target} \cup (IF Target > LastPage THEN {LastPage} ELSE {}) :
       /\ Pick(Read(p), asked.page % Cardinality(listed))
       /\ skewed' = (skewed \/ p # Target \/ OnPage(p) \cap shown.unread # {})
  /\ UNCHANGED <<shown, asked, listed, aborted, relays>>

\* parse_image_api_response(): the address of the image, or a refusal.
Dispatch ==
  /\ at = "dispatch"
  /\ AwaitNext("image") \/ Report("failed")
  /\ UNCHANGED <<shown, asked, listed, chosen, aborted, relays, skewed>>

\* ImageService::fetch(), also a transfer that another caller has cancelled; a fake
\* operation has slept and ends as it was asked to.
FinishWorker ==
  /\ at \in {"image", "sleep"}
  /\ \/ Report("completed") \/ Report("failed")
     \/ at = "image" /\ Report("cancelled")
  /\ UNCHANGED <<shown, asked, listed, chosen, aborted, relays, skewed>>

\* worker_error(): a request of the worker fails, or it notices that it is cancelled.
WorkerFails ==
  /\ at \notin {"start", "end"}
  /\ Report("failed") \/ (aborted /\ Report("cancelled"))
  /\ UNCHANGED <<shown, asked, listed, chosen, aborted, relays, skewed>>

\* OperationService::cancel()
CancelOperation ==
  /\ ~aborted
  /\ at # "end"
  /\ aborted' = TRUE
  /\ UNCHANGED <<shown, asked, at, listed, chosen, outcome, relays, skewed>>

\* The deadline drops the worker wherever it is.
MissDeadline ==
  /\ at \notin {"start", "end"}
  /\ Report("failed")
  /\ UNCHANGED <<shown, asked, listed, chosen, aborted, relays, skewed>>

\* The server changes the gallery or how it shows it.
Relay ==
  /\ relays < MaxRelays
  /\ at \notin {"start", "end"}
  /\ shown' \in {g \in Shown : g.unread = {}} \ {shown}
  /\ relays' = relays + 1
  /\ skewed' = (skewed \/ at \in {"viewer", "more thumbnails"})
  /\ UNCHANGED <<asked, at, listed, chosen, aborted, outcome>>

OperationNext ==
  \/ StartWorker \/ ReadDetails \/ ReadFirstThumbnails \/ ReadAllKeys \/ ReadShowKey
  \/ ReadMoreThumbnails \/ Dispatch \/ FinishWorker \/ WorkerFails \/ CancelOperation
  \/ MissDeadline \/ Relay

OperationSpec == OperationInit /\ [][OperationNext]_operationVars

-----------------------------------------------------------------------------
OperationTypeOK ==
  /\ shown \in Shown
  /\ asked \in [kind : Kinds, page : 0..MaxPages]
  /\ at \in {"start", "sleep", "details", "first thumbnails", "viewer", "more thumbnails",
             "dispatch", "image", "end"}
  /\ listed \subseteq 0..(MaxPages - 1)
  /\ chosen \in 0..MaxPages
  /\ aborted \in BOOLEAN /\ skewed \in BOOLEAN
  /\ outcome \in {"none", "completed", "cancelled", "failed"}
  /\ relays \in 0..MaxRelays

\* The image key that is sent belongs to the page asked for, by either viewer and on any page
\* of thumbnails, the last and shorter one too, and a page the gallery does not have gets
\* none.  The code never compares the number of the thumbnail it picks, so this holds only as
\* long as the server shows all of them alike and the parser reads them all.
KeyIsOfThePage == chosen # NoPage /\ ~skewed => chosen = asked.page
=============================================================================

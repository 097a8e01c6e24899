------------------------------- MODULE Browsing -------------------------------
(***************************************************************************)
(* A reader who goes through a feed of a provider page by page, following  *)
(* the next_page, next_offset or cursor of each answer, while the server   *)
(* posts and removes items.  Items are numbered in the order in which they *)
(* are posted, and a feed begins with the newest.                          *)
(***************************************************************************)
EXTENDS Integers, FiniteSets, FiniteSetsExt

CONSTANTS
  MaxItems,    \* bound of the items ever posted
  PageSize,    \* items on a page of the server, and the limit asked for
  PageLimit    \* the last page that Pixiv is asked for

ASSUME BrowseAssumption == {MaxItems, PageSize, PageLimit} \subseteq Nat \ {0}

VARIABLES
  feed,       \* which search is read
  offered,    \* what the server lists
  newest,     \* the number of the newest item it has ever listed
  damaged,    \* the items of which the code cannot make a post
  asksFor,    \* the page, offset or cursor the reader asks for next
  seen,       \* what the reader has been shown
  lasting,    \* history: what was listed all the time
  excused     \* history: what explains a gap

browseVars == <<feed, offered, newest, damaged, asksFor, seen, lasting, excused>>

Feeds == {"booru", "gelbooru", "paheal", "search", "ranking", "following", "bookmarks", "eh"}

Exhausted == -1   \* asked for when an answer names no next page

\* The page the first request asks for: clients leave out page, which is then 1, or begin
\* with 0; EH and the bookmarks begin at the top.
FirstPlaces ==
  CASE feed = "gelbooru"  -> {0, 1}
    [] feed = "bookmarks" -> {0}
    [] feed = "eh"        -> {MaxItems + 1}
    [] OTHER              -> {1}

BrowseInit ==
  /\ feed \in Feeds
  /\ newest \in 0..(MaxItems - 1) /\ offered = 1..newest /\ lasting = offered
  /\ damaged \in SUBSET (1..MaxItems)
  /\ asksFor \in FirstPlaces
  /\ seen = {}
  /\ excused = IF feed = "gelbooru" /\ asksFor = 1 THEN {"second page first"} ELSE {}
-----------------------------------------------------------------------------
\* How many items of the feed are before the page that is asked for: those that a page
\* number or an offset counts, or those not older than the cursor.
Passed ==
  CASE feed = "gelbooru"  -> asksFor * PageSize
    [] feed = "bookmarks" -> asksFor
    [] feed = "eh"        -> Cardinality({i \in offered : i >= asksFor})
    [] OTHER              -> (asksFor - 1) * PageSize

Rank(i) == Cardinality({j \in offered : j >= i})

\* What the server answers with, and whether it has more.
Page     == {i \in offered : Rank(i) \in (Passed + 1)..(Passed + PageSize)}
Older    == Passed + PageSize < Cardinality(offered)
Readable == Page \ damaged

\* One post that cannot be mapped fails the whole page.
Mapped == Readable = Page

\* The reader is shown what could be read, and asks for the next page if there is one.
Shows(more, next) ==
  /\ seen' = seen \cup Readable
  /\ asksFor' = IF more THEN next ELSE Exhausted
  /\ UNCHANGED <<feed, offered, newest, damaged, lasting>>

\* The next page exists if the answer has had as many posts as were asked for.
ReachedLimit == Cardinality(Page) = PageSize

SearchBooru ==
  /\ feed = "booru" /\ asksFor # Exhausted
  /\ Mapped
  /\ Shows(ReachedLimit, asksFor + 1)
  /\ UNCHANGED excused

SearchGelbooru ==
  /\ feed = "gelbooru" /\ asksFor # Exhausted
  /\ Mapped
  /\ Shows(ReachedLimit, asksFor + 1)
  /\ UNCHANGED excused

\* Posts without a file are left out before the posts are counted, so that a page with one
\* of them is taken for the last.
SearchPaheal ==
  /\ feed = "paheal" /\ asksFor # Exhausted
  /\ Shows(Cardinality(Readable) = PageSize, asksFor + 1)
  /\ excused' = IF Readable # Page THEN excused \cup {"short page"} ELSE excused

\* There is a next page if the server says so and this one has had an item.
FaultyGoesOn == Cardinality(Readable) = PageSize /\ Older
GoesOn == Readable # {} /\ Older

\* Pixiv: items without an ID are left out, and a page of only such items is the last.
PixivPage(next) ==
  /\ asksFor # Exhausted
  /\ Shows(GoesOn, next)
  /\ excused' = IF Page # {} /\ Readable = {} THEN excused \cup {"barren page"} ELSE excused

SearchPixiv == feed = "search" /\ asksFor <= PageLimit /\ PixivPage(asksFor + 1)

Ranking == feed = "ranking" /\ asksFor <= PageLimit /\ PixivPage(asksFor + 1)

Following == feed = "following" /\ asksFor <= PageLimit /\ PixivPage(asksFor + 1)

Bookmarks ==
  feed = "bookmarks" /\ asksFor <= PageLimit * PageSize /\ PixivPage(asksFor + PageSize)

\* EH: a page of which nothing can be read is an error, also when there is nothing on it.
Recognized == Readable # {}

\* The link to the next page names the oldest gallery of this one.
NextCursor == Min(Page)

SearchEh ==
  /\ feed = "eh" /\ asksFor # Exhausted
  /\ Recognized
  /\ Shows(Older, NextCursor)
  /\ UNCHANGED excused

TurnPage ==
  \/ SearchBooru \/ SearchGelbooru \/ SearchPaheal
  \/ SearchPixiv \/ Ranking \/ Following \/ Bookmarks
  \/ SearchEh

\* The server posts an item, which moves all others back by one.
PostItem ==
  /\ asksFor # Exhausted
  /\ newest < MaxItems
  /\ newest' = newest + 1
  /\ offered' = offered \cup {newest + 1}
  /\ UNCHANGED <<feed, damaged, asksFor, seen, lasting, excused>>

\* The server removes an item; if it was on a page already turned, those behind it move
\* there.  A cursor does not move with them.
RemoveItem(i) ==
  /\ asksFor # Exhausted
  /\ offered' = offered \ {i} /\ lasting' = lasting \ {i}
  /\ excused' = IF Rank(i) <= Passed /\ feed # "eh"
                THEN excused \cup {"removed before"} ELSE excused
  /\ UNCHANGED <<feed, newest, damaged, asksFor, seen>>

BrowseNext == TurnPage \/ PostItem \/ \E i \in offered : RemoveItem(i)

BrowseSpec == BrowseInit /\ [][BrowseNext]_browseVars
-----------------------------------------------------------------------------
(* Properties. *)

BrowseTypeOK ==
  /\ feed \in Feeds
  /\ newest \in 0..MaxItems
  /\ offered \subseteq 1..newest /\ lasting \subseteq offered
  /\ damaged \subseteq 1..MaxItems
  /\ asksFor \in Nat \cup {Exhausted}
  /\ seen \subseteq (1..newest) \ damaged
  /\ excused \subseteq {"second page first", "short page", "barren page", "removed before"}

\* A reader who has come to the end of a feed has seen every readable item that was listed
\* all the time, whatever was posted or removed meanwhile.  The exceptions are those of the
\* code: counting pages, it passes over an item when another is removed before it; it takes
\* a page with items it cannot read for the last; and it begins Gelbooru at the second page.
NothingIsPassedOver == asksFor = Exhausted /\ excused = {} => lasting \ damaged \subseteq seen
=============================================================================

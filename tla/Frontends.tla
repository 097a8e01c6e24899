------------------------------ MODULE Frontends ------------------------------
(***************************************************************************)
(* What the front ends ask of a Core: the methods of CoreHandle in         *)
(* runtime.rs by the way they work, the routes of the control plane        *)
(* (control.rs), the pages and forms of the WebUI (webui.rs) and the       *)
(* functions of the Flutter bridge (api/flutter.rs).                       *)
(*                                                                         *)
(* A route is the sequence of what its handler does: "input" where it      *)
(* takes something that may be refused, and the methods it calls.  It ends *)
(* at the first that fails.                                                *)
(***************************************************************************)
EXTENDS Naturals, SequencesExt

(* The methods. *)

\* Commands for the actor that only read, and those that change something.
MailboxReads == {"snapshot", "effective_config", "operation", "operations", "events_after"}

OperationStarts ==
  {"start_fake_operation", "start_booru_original_fetch", "start_pixiv_page_fetch",
   "start_pixiv_thumbnail_fetch", "start_eh_page_fetch", "start_eh_cover_fetch",
   "start_eh_thumbnail_fetch"}

ProfileChanges ==
  {"replace_profile", "update_profile_cookie", "update_profile_api_credentials",
   "set_allow_lan"}

MailboxChanges == OperationStarts \cup ProfileChanges \cup {"cancel_operation"}

\* Queries of a provider, on the caller's own task.
BooruSearches ==
  {"search_danbooru", "search_gelbooru", "search_gelbooru_xml", "search_moebooru",
   "search_e621", "search_philomena", "search_paheal"}
BooruPosts ==
  {"danbooru_post", "gelbooru_post", "gelbooru_xml_post", "moebooru_post", "e621_post",
   "philomena_post", "paheal_post"}
PixivQueries ==
  {"search_pixiv", "pixiv_ranking", "pixiv_recommendations", "pixiv_following",
   "pixiv_bookmarks"}
EhListings ==
  {"eh_home", "eh_search", "eh_popular", "eh_toplist", "eh_watched", "eh_favorites"}
EhQueries == EhListings \cup {"eh_thumbnails", "eh_resolve_viewer_image", "eh_archive_options"}

Queries ==
  BooruSearches \cup BooruPosts \cup PixivQueries \cup EhQueries
    \cup {"booru_tag_suggestions", "probe_profile"}

\* Queries whose answer goes into the browsing history.
Visits == {"pixiv_illust", "eh_gallery_detail"}

\* Reads of the services and of the registries.
DownloadReads ==
  {"archive_tasks", "archive_task", "image_download_tasks", "image_download_task",
   "download_tasks", "download_task"}
GalleryReads ==
  {"local_gallery_page", "local_gallery_cover", "local_gallery_export",
   "local_gallery_inventory", "prepare_local_gallery_delete"}
RegistryReads == {"profiles", "history", "favorite_searches", "dangerous_profile_credentials"}

Reads == DownloadReads \cup GalleryReads \cup RegistryReads
           \cup {"image_cache_snapshot", "image_resource"}

\* Changes in the storage that the services and registries make for the caller.
DownloadChanges ==
  {"start_eh_archive_download", "start_booru_image_download", "start_pixiv_image_download",
   "cancel_image_download_task", "retry_image_download_task", "delete_image_download_task",
   "cancel_archive_task", "retry_archive_task"}
GalleryChanges ==
  {"import_local_gallery", "generate_local_gallery_comic_info",
   "delete_local_gallery_comic_info", "delete_local_gallery"}
RegistryChanges == {"clear_history", "delete_favorite_search"}

Changes == DownloadChanges \cup GalleryChanges \cup RegistryChanges \cup {"maintain_image_cache"}

\* download_task() and a look at its can_cancel, can_retry or can_delete come first.
UnifiedChanges == {"cancel_download_task", "retry_download_task", "delete_download_task"}

\* consume_pending() comes first.
GalleryLists == {"local_galleries", "local_gallery"}

Methods ==
  MailboxReads \cup MailboxChanges \cup Queries \cup Visits \cup Reads \cup Changes
    \cup UnifiedChanges \cup GalleryLists
    \cup {"state", "subscribe_events", "create_favorite_search"}

\* What a method does, step by step.
MethodSteps(m) ==
  CASE m = "snapshot"                  -> <<"read", "ask">>
    [] m \in MailboxReads \ {"snapshot"} -> <<"read">>
    [] m \in MailboxChanges            -> <<"change">>
    [] m = "subscribe_events"          -> <<"subscribe">>
    [] m \in Queries                   -> <<"query">>
    [] m \in Visits                    -> <<"query", "record">>
    [] m \in Reads                     -> <<"ask">>
    [] m \in Changes                   -> <<"write">>
    [] m \in UnifiedChanges \cup {"create_favorite_search"} -> <<"ask", "write">>
    [] m \in GalleryLists              -> <<"write", "ask">>
    [] m = "state"                     -> <<"state">>
    [] OTHER                           -> <<m>>

RouteSteps(route) ==
  FoldLeft(LAMBDA done, m : done \o MethodSteps(m), <<>>, route)

-----------------------------------------------------------------------------
(* The control plane. *)

StatusRoutes ==
  {<<>>, <<"state">>, <<"snapshot">>, <<"effective_config">>, <<"operations">>,
   <<"image_cache_snapshot">>, <<"maintain_image_cache">>, <<"profiles">>}
ProfileRoutes == {<<"probe_profile">>, <<"input", "update_profile_cookie">>}
BooruRoutes == {<<"input", m>> : m \in BooruSearches \cup BooruPosts}
BooruStarts ==
  {<<"input", "start_booru_original_fetch">>, <<"input", "start_booru_image_download">>,
   <<"input", "booru_tag_suggestions">>}
PixivRoutes ==
  {<<"pixiv_illust">>, <<"pixiv_recommendations">>}
    \cup {<<"input", m>> : m \in PixivQueries \ {"pixiv_recommendations"}}
PixivStarts ==
  {<<"input", "start_pixiv_page_fetch">>, <<"input", "start_pixiv_thumbnail_fetch">>,
   <<"input", "start_pixiv_image_download">>}
ResourceRoutes == {<<"input", "image_resource">>}
ArchiveStarts == {<<"input", "eh_archive_options">>, <<"input", "start_eh_archive_download">>}
DownloadRoutes ==
  {<<"archive_tasks">>, <<"image_download_tasks">>, <<"input", "download_tasks">>,
   <<"input", "download_task">>}
    \cup {<<"input", m>> : m \in UnifiedChanges}
GalleryRoutes ==
  {<<"local_galleries">>, <<"local_gallery_inventory">>, <<"input", "local_gallery">>,
   <<"input", "import_local_gallery">>, <<"input", "local_gallery_page">>,
   <<"input", "local_gallery_cover">>, <<"input", "local_gallery_export">>}
GalleryEdits ==
  {<<"input", m>> : m \in {"prepare_local_gallery_delete", "delete_local_gallery",
                           "generate_local_gallery_comic_info",
                           "delete_local_gallery_comic_info"}}
ArchiveTaskRoutes ==
  {<<"input", m>> : m \in {"archive_task", "cancel_archive_task", "retry_archive_task"}}
ImageTaskRoutes ==
  {<<"input", m>> : m \in {"image_download_task", "cancel_image_download_task",
                           "retry_image_download_task", "delete_image_download_task"}}
EhRoutes == {<<"input", "eh_gallery_detail">>, <<"input", "eh_thumbnails">>}
EhStarts ==
  {<<"input", m>> : m \in {"start_eh_page_fetch", "start_eh_cover_fetch",
                           "start_eh_thumbnail_fetch"}}
EhLists ==
  {<<"input", "eh_search">>, <<"eh_popular">>, <<"history">>, <<"clear_history">>,
   <<"input", "eh_toplist">>, <<"eh_watched">>, <<"eh_favorites">>}
FavoriteRoutes ==
  {<<"favorite_searches">>, <<"input", "create_favorite_search">>,
   <<"input", "delete_favorite_search">>}
OperationRoutes ==
  {<<"input", m>> : m \in {"start_fake_operation", "operation", "cancel_operation"}}
EventRoutes == {<<"input", "subscribe_events">>}

ControlRoutes ==
  UNION {StatusRoutes, ProfileRoutes, BooruRoutes, BooruStarts, PixivRoutes, PixivStarts,
         ResourceRoutes, ArchiveStarts, DownloadRoutes, GalleryRoutes, GalleryEdits,
         ArchiveTaskRoutes, ImageTaskRoutes, EhRoutes, EhStarts, EhLists, FavoriteRoutes,
         OperationRoutes, EventRoutes}

-----------------------------------------------------------------------------
(* The WebUI, mounted on the control plane: pages and the forms they post. *)

DashboardPage == <<"snapshot", "operations">>
EhHomePage == <<"input", "eh_search", "favorite_searches">>
FavoriteForms == FavoriteRoutes \ {<<"favorite_searches">>}
EhGalleryPage == <<"input", "eh_gallery_detail", "eh_thumbnails">>

\* With an operation in its address the reader looks whether it is the one of this page,
\* and shows no gallery while it runs.
EhReaderPages ==
  {<<"input", "operation", "judge", "eh_gallery_detail", "within">>,
   <<"input", "eh_gallery_detail", "within">>}
ArchiveForms == {<<"input", "start_eh_archive_download">>}
DownloadPages == {<<"archive_tasks">>, <<"image_download_tasks">>}
LibraryPages ==
  {<<"local_galleries">>, <<"local_gallery_inventory">>, <<"input", "import_local_gallery">>}
ConfigurationPage == <<"input", "effective_config", "dangerous_profile_credentials">>
CacheAndConfigForms ==
  {<<"image_cache_snapshot">>, <<"maintain_image_cache">>}
    \cup {<<"input", m>> : m \in ProfileChanges \ {"replace_profile"}}
GalleryPage == <<"input", "local_gallery">>
GalleryDeleteForm ==
  {<<"input", "prepare_local_gallery_delete">>, <<"input", "delete_local_gallery">>}
DownloadForms ==
  {<<"input", m>> : m \in DownloadChanges \ {"start_eh_archive_download",
                           "start_booru_image_download", "start_pixiv_image_download"}}
ReaderForms == {<<"input", "start_eh_page_fetch">>, <<"input">>}
SearchPage == {<<"input", m, "favorite_searches">> : m \in {"search_danbooru", "search_gelbooru"}}
PostPages ==
  {<<"input", m>> : m \in {"danbooru_post", "gelbooru_post", "start_booru_original_fetch",
                           "pixiv_illust"}}
PixivSearchPage == <<"input", "search_pixiv", "favorite_searches">>
PixivListPages ==
  {<<"input", m>> : m \in PixivQueries \ {"search_pixiv"}}
    \cup {<<"input", "start_pixiv_page_fetch">>}
OperationPages == {<<"operations">>, <<"input", "operation">>, <<"input", "cancel_operation">>}

WebRoutes ==
  {DashboardPage, EhHomePage, EhGalleryPage, ConfigurationPage, GalleryPage, PixivSearchPage}
    \cup UNION {FavoriteForms, EhReaderPages, ArchiveForms, DownloadPages, LibraryPages,
                CacheAndConfigForms, GalleryDeleteForm, DownloadForms, ReaderForms,
                SearchPage, PostPages, PixivListPages, OperationPages}

-----------------------------------------------------------------------------
(* The Flutter bridge: every function looks first whether the Core is still owned. *)

SnapshotFunctions ==
  {<<m>> : m \in {"profiles", "image_cache_snapshot", "operations", "snapshot", "download_tasks"}}
TaskFunctions ==
  {<<"input", m>> : m \in UnifiedChanges \cup {"download_task", "operation"}}
EhFunctions ==
  {<<"input", "eh_search">>, <<"input", "start_eh_archive_download">>}
    \cup {<<m>> : m \in {"eh_popular", "eh_toplist", "eh_watched", "eh_favorites",
                         "eh_archive_options"}}
HistoryFunctions ==
  {<<"favorite_searches">>, <<"create_favorite_search">>, <<"input", "delete_favorite_search">>,
   <<"history">>, <<"clear_history">>}
PixivFunctions ==
  {<<m>> : m \in {"search_pixiv", "pixiv_ranking", "pixiv_recommendations", "pixiv_illust",
                  "start_pixiv_page_fetch"}}
    \cup {<<"input", m>> : m \in {"pixiv_following", "pixiv_bookmarks",
                                  "start_pixiv_thumbnail_fetch"}}
PageFunctions ==
  {<<m>> : m \in {"update_profile_cookie", "eh_gallery_detail", "eh_thumbnails",
                  "start_eh_page_fetch", "start_eh_cover_fetch"}}
    \cup {<<"input", "start_eh_thumbnail_fetch">>}
ResourceFunctions ==
  {<<"input", "image_resource">>, <<"events_after">>, <<"subscribe_events">>}

BridgeRoutes ==
  {<<"ensure_running">> \o route :
     route \in UNION {SnapshotFunctions, TaskFunctions, EhFunctions, HistoryFunctions,
                      PixivFunctions, PageFunctions, ResourceFunctions}}

-----------------------------------------------------------------------------
\* What a handler does besides calling a method.
Handling == {"input", "judge", "within", "ensure_running"}

\* A front end calls methods that there are, and all but three of them are called by one.
ASSUME FrontendAssumption ==
  UNION {Range(route) : route \in ControlRoutes \cup WebRoutes \cup BridgeRoutes} \ Handling
    = Methods \ {"replace_profile", "eh_home", "eh_resolve_viewer_image"}
=============================================================================

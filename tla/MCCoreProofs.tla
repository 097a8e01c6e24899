----------------------------- MODULE MCCoreProofs -----------------------------
(***************************************************************************)
(* A Core whose parts are moved one at a time, the specification that most *)
(* runs check, does nothing that one of its parts does not do by itself.   *)
(* So what is proved of each part is so in all of its behaviours.          *)
(***************************************************************************)
EXTENDS MCCore, LocalGalleryProofs, ProviderProofs, ImageProofs, CoreProofs

\* Every step of the whole is one of each part or leaves it alone.
LEMMA PartsMove ==
  [CoreNext]_coreVars =>
    /\ [GalleryNext]_<<vars, galleryVars>>
    /\ [SessionNext]_sessionVars
    /\ [ImageNext]_imageVars
    /\ [RuntimeNext]_runtimeVars
    /\ [ConfigNext]_configVars
    /\ [CredentialNext]_credentialVars
    /\ [TransferNext]_transferVars
    /\ [OperationNext]_operationVars
    /\ [HandleNext]_handleVars
    /\ [BrowseNext]_browseVars
BY DEF CoreNext, coreVars, GalleryMoves, SessionMoves, ImageMoves, RuntimeMoves, ConfigMoves,
       CredentialMoves, TransferMoves, OperationMoves, HandleMoves, BrowseMoves

LEMMA PartsBegin ==
  CoreInit =>
    /\ GalleryInit /\ SessionInit /\ ImageInit /\ RuntimeInit /\ ConfigInit /\ CredentialInit
    /\ TransferInit /\ OperationInit /\ HandleInit /\ BrowseInit
BY DEF CoreInit

\* The part in focus is one of those there are, and stays so.
LEMMA FocusStays ==
  /\ CoreInit => focus \in PartNames
  /\ focus \in PartNames /\ [CoreNext]_coreVars => (focus \in PartNames)'
BY DEF PartNames, CoreInit, CoreNext, coreVars, GalleryMoves, SessionMoves, ImageMoves, RuntimeMoves,
       ConfigMoves, CredentialMoves, TransferMoves, OperationMoves, HandleMoves, BrowseMoves

\* The parts of a Core are those of the specifications of their own.
THEOREM CoreIsItsParts ==
  CoreSpec => /\ GallerySpec /\ SessionSpec /\ ImageSpec /\ RuntimeSpec /\ ConfigSpec
              /\ CredentialSpec /\ TransferSpec /\ OperationSpec /\ HandleSpec /\ BrowseSpec
BY PartsBegin, PartsMove, PTL
   DEF CoreSpec, GallerySpec, SessionSpec, ImageSpec, RuntimeSpec, ConfigSpec, CredentialSpec,
       TransferSpec, OperationSpec, HandleSpec, BrowseSpec

\* The state of whichever part moves has its type, for every value of the constants.
THEOREM PartsKeepTypes == CoreSpec => []PartsTypeOK
<1>1. /\ GalleryTypeOK /\ SessionTypeOK /\ ImageTypeOK /\ RuntimeTypeOK /\ ConfigTypeOK
      /\ CredentialTypeOK /\ TransferTypeOK /\ OperationTypeOK /\ HandleTypeOK /\ BrowseTypeOK
      /\ focus \in PartNames
      => PartsTypeOK
  BY DEF PartsTypeOK, PartNames
<1>2. CoreSpec => [](focus \in PartNames)
  BY FocusStays, PTL DEF CoreSpec
<1>3. CoreSpec => /\ []GalleryTypeOK /\ []SessionTypeOK /\ []ImageTypeOK /\ []RuntimeTypeOK
                  /\ []ConfigTypeOK /\ []CredentialTypeOK /\ []TransferTypeOK
                  /\ []OperationTypeOK /\ []HandleTypeOK /\ []BrowseTypeOK
  BY CoreIsItsParts, LibraryTypes, SessionTypes, ImageTypesHold, RuntimeTypes, ConfigTypes,
     CredentialTypes, TransferTypes, OperationTypesHold, HandleTypes, BrowseTypesHold
<1> QED
  BY <1>1, <1>2, <1>3, PTL

\* Whatever is promised of a part holds of a Core in which the parts move in turn: what a
\* run checks on one small instance of all of them, for every value of the constants.
THEOREM PartsKeepPromises ==
  CoreSpec =>
    /\ [](/\ LibraryIsConsistent /\ RequestsAreSpaced /\ SessionAccounts /\ SharingIsSafe
          /\ WorkersHoldTheLock /\ SavedConfigSurvives /\ SavedIsRestored /\ ArchiveIsInPlace
          /\ KeyIsOfThePage /\ AnswersAreTrue /\ WritesAreGuarded /\ NothingIsPassedOver)
    /\ OpeningFinishesDeletions
<1>1. CoreSpec => /\ []LibraryIsConsistent /\ []RequestsAreSpaced /\ []SessionAccounts
                  /\ []SharingIsSafe /\ []WorkersHoldTheLock /\ []SavedConfigSurvives
                  /\ []SavedIsRestored /\ []ArchiveIsInPlace /\ []KeyIsOfThePage
                  /\ []AnswersAreTrue /\ []WritesAreGuarded /\ []NothingIsPassedOver
  BY CoreIsItsParts, LibraryAgrees, Spacing, Accounting, SharingSafe, OnlyOneCoreWorks,
     ConfigSurvives, CredentialsAreRestored, ZipIsInPlace, KeysFitPages,
     FrontendsAreToldTheTruth, StorageIsGuarded, FeedsAreRead
<1>2. CoreSpec => OpeningFinishesDeletions
  BY CoreIsItsParts, OpeningEndsDeletions
<1> QED
  BY <1>1, <1>2, PTL
=============================================================================

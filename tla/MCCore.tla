-------------------------------- MODULE MCCore --------------------------------
(* Instances of the parts of a Core, each checked on its own: a behaviour is one of the  *)
(* part in focus, and the other parts stay as they begin.                                *)
EXTENDS LocalGallery, Session, ImageService, CoreRuntime, ConfigStore, Credentials,
        ArchiveTransfer, ImageOperation, CoreHandle, Browsing, TLC

VARIABLE focus   \* the part that moves

coreVars == <<vars, galleryVars, sessionVars, imageVars, runtimeVars, configVars,
              credentialVars, transferVars, operationVars, handleVars, browseVars,
              focus>>

PartNames == {"gallery", "session", "images", "runtime", "config", "credentials", "transfer",
              "operation", "handle", "browsing"}

\* Of several beginnings, a part that is not in focus takes one.
CoreInit ==
  /\ focus \in PartNames
  /\ GalleryInit /\ SessionInit /\ ImageInit /\ RuntimeInit /\ ConfigInit
  /\ CredentialInit
  /\ focus # "credentials" => ~embedded /\ given = Closed /\ secrets = Blank
  /\ TransferInit
  /\ focus # "transfer" => remote.length = 1
  /\ OperationInit
  /\ focus # "operation" =>
       /\ asked = [kind |-> "fake", page |-> 0]
       /\ shown = [pages |-> 1, size |-> 1, unread |-> {}]
  /\ HandleInit
  /\ focus # "handle" => host = "app"
  /\ BrowseInit
  /\ focus # "browsing" => feed = "booru" /\ newest = 0 /\ damaged = {}

GalleryMoves ==
  /\ focus = "gallery" /\ GalleryNext
  /\ UNCHANGED <<sessionVars, imageVars, runtimeVars, configVars, credentialVars,
                 transferVars, operationVars, handleVars, browseVars, focus>>

SessionMoves ==
  /\ focus = "session" /\ SessionNext
  /\ UNCHANGED <<vars, galleryVars, imageVars, runtimeVars, configVars, credentialVars,
                 transferVars, operationVars, handleVars, browseVars, focus>>

ImageMoves ==
  /\ focus = "images" /\ ImageNext
  /\ UNCHANGED <<vars, galleryVars, sessionVars, runtimeVars, configVars,
                 credentialVars, transferVars, operationVars, handleVars, browseVars, focus>>

RuntimeMoves ==
  /\ focus = "runtime" /\ RuntimeNext
  /\ UNCHANGED <<vars, galleryVars, sessionVars, imageVars, configVars, credentialVars,
                 transferVars, operationVars, handleVars, browseVars, focus>>

ConfigMoves ==
  /\ focus = "config" /\ ConfigNext
  /\ UNCHANGED <<vars, galleryVars, sessionVars, imageVars, runtimeVars, credentialVars,
                 transferVars, operationVars, handleVars, browseVars, focus>>

CredentialMoves ==
  /\ focus = "credentials" /\ CredentialNext
  /\ UNCHANGED <<vars, galleryVars, sessionVars, imageVars, runtimeVars, configVars,
                 transferVars, operationVars, handleVars, browseVars, focus>>

TransferMoves ==
  /\ focus = "transfer" /\ TransferNext
  /\ UNCHANGED <<vars, galleryVars, sessionVars, imageVars, runtimeVars, configVars,
                 credentialVars, operationVars, handleVars, browseVars, focus>>

OperationMoves ==
  /\ focus = "operation" /\ OperationNext
  /\ UNCHANGED <<vars, galleryVars, sessionVars, imageVars, runtimeVars, configVars,
                 credentialVars, transferVars, handleVars, browseVars, focus>>

HandleMoves ==
  /\ focus = "handle" /\ HandleNext
  /\ UNCHANGED <<vars, galleryVars, sessionVars, imageVars, runtimeVars, configVars,
                 credentialVars, transferVars, operationVars, browseVars, focus>>

BrowseMoves ==
  /\ focus = "browsing" /\ BrowseNext
  /\ UNCHANGED <<vars, galleryVars, sessionVars, imageVars, runtimeVars, configVars,
                 credentialVars, transferVars, operationVars, handleVars, focus>>

CoreNext ==
  \/ GalleryMoves \/ SessionMoves \/ ImageMoves
  \/ RuntimeMoves \/ ConfigMoves \/ CredentialMoves
  \/ TransferMoves \/ OperationMoves \/ HandleMoves \/ BrowseMoves

CoreSpec == CoreInit /\ [][CoreNext]_coreVars

\* The state of the part that moves has its type.
PartsTypeOK ==
  CASE focus = "gallery"     -> GalleryTypeOK
    [] focus = "session"     -> SessionTypeOK
    [] focus = "images"      -> ImageTypeOK
    [] focus = "runtime"     -> RuntimeTypeOK
    [] focus = "config"      -> ConfigTypeOK
    [] focus = "credentials" -> CredentialTypeOK
    [] focus = "transfer"    -> TransferTypeOK
    [] focus = "operation"   -> OperationTypeOK
    [] focus = "handle"      -> HandleTypeOK
    [] focus = "browsing"    -> BrowseTypeOK

\* One pair of names stands for the clients, the viewers, the Cores, the commands on the
\* configuration, the front ends and two of the requests, which are interchangeable.
CONSTANTS a1, a2
CoreSymmetry == Permutations({a1, a2})
=============================================================================

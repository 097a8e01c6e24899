---------------------------- MODULE ArchiveTransfer ----------------------------
(***************************************************************************)
(* The bytes of one Archive: ArchiveService::run_download of archive.rs    *)
(* with SessionGeneration::download_to of session.rs.  ArchiveService says *)
(* when a transfer runs; this module says what it leaves in the part file  *)
(* and in the ZIP, over transfers that break off and go on later.          *)
(*                                                                         *)
(* The server has one version of the Archive at a time.  A chunk of it is  *)
(* known by its version and place, and carries the length of its version.  *)
(* A chunk counts as written when write_all returns.  A response says how  *)
(* long it is, so a body that is cut short is an error.                    *)
(***************************************************************************)
EXTENDS Naturals, SequencesExt

CONSTANTS
  MaxLength,     \* bound: chunks in a version
  MaxReleases,   \* bound: versions of the Archive
  MaxTransfers   \* bound: how often the transfer is started

ASSUME TransferAssumption ==
  MaxLength \in Nat \ {0} /\ MaxReleases \in Nat \ {0} /\ MaxTransfers \in Nat \ {0}

VARIABLES
  remote,      \* the version the server has
  partFile,    \* the chunks in the part file
  zipFile,     \* the chunks in the ZIP, none before it is there
  archive,     \* the state of the task
  reply,       \* the response being read: its version, its next chunk and its last
  transfers,   \* how often the transfer was started
  astray       \* history: whether the part file may have chunks of a range that was not
               \* asked for

transferVars == <<remote, partFile, zipFile, archive, reply, transfers, astray>>

Release == [number : 1..MaxReleases, length : 1..MaxLength]
Piece   == [of : Release, at : 1..MaxLength]
NoReply == [of |-> [number |-> 0, length |-> 0], next |-> 0, last |-> 0]

TransferInit ==
  /\ remote \in {v \in Release : v.number = 1}
  /\ partFile = <<>> /\ zipFile = <<>>
  /\ archive = "ready"
  /\ reply = NoReply
  /\ transfers = 0
  /\ astray = FALSE

-----------------------------------------------------------------------------
Ended(state) == archive' = state /\ reply' = NoReply
Waiting == archive = "downloading" /\ reply = NoReply
Reading == archive = "downloading" /\ reply # NoReply

\* The task is downloading, and the rest of the Archive is asked for.
BeginTransfer ==
  /\ archive = "ready"
  /\ transfers < MaxTransfers
  /\ archive' = "downloading"
  /\ transfers' = transfers + 1
  /\ UNCHANGED <<remote, partFile, zipFile, reply, astray>>

\* 206: the server honours the Range header, which was sent because there is a part file,
\* with the rest of the Archive, or with another range: download_to() compares neither
\* Content-Range nor the length with what it has asked for.
AnswerRange ==
  /\ Waiting
  /\ partFile # <<>>
  /\ \E first \in 1..remote.length, last \in 1..remote.length :
       /\ first <= last
       /\ reply' = [of |-> remote, next |-> first, last |-> last]
       /\ astray' = (astray \/ first # Len(partFile) + 1 \/ last # remote.length)
  /\ UNCHANGED <<remote, partFile, zipFile, archive, transfers>>

\* The whole Archive goes behind what there is.
FaultyAnswerWhole ==
  /\ Waiting
  /\ reply' = [of |-> remote, next |-> 1, last |-> remote.length]
  /\ astray' = FALSE
  /\ UNCHANGED <<remote, partFile, zipFile, archive, transfers>>

\* 200: the whole Archive comes, and the part file is truncated.
AnswerWhole ==
  /\ Waiting
  /\ partFile' = <<>>
  /\ reply' = [of |-> remote, next |-> 1, last |-> remote.length]
  /\ astray' = FALSE
  /\ UNCHANGED <<remote, zipFile, archive, transfers>>

\* map_status(), map_transport_error(): an error status, 416 for a range behind the end
\* among them, and a connection that fails before or in the body.
TransferFails ==
  /\ archive = "downloading"
  /\ Ended("failed")
  /\ UNCHANGED <<remote, partFile, zipFile, transfers, astray>>

CancelTransfer ==
  /\ archive = "downloading"
  /\ Ended("cancelled")
  /\ UNCHANGED <<remote, partFile, zipFile, transfers, astray>>

ReceivePiece ==
  /\ Reading
  /\ reply.next <= reply.last
  /\ partFile' = Append(partFile, [of |-> reply.of, at |-> reply.next])
  /\ reply' = [reply EXCEPT !.next = @ + 1]
  /\ UNCHANGED <<remote, zipFile, archive, transfers, astray>>

\* The body is over: the part file becomes the ZIP, or cannot be renamed.
FinishTransfer ==
  /\ Reading
  /\ reply.next > reply.last
  /\ \/ Ended("completed") /\ zipFile' = partFile /\ partFile' = <<>>
     \/ Ended("failed") /\ UNCHANGED <<partFile, zipFile>>
  /\ UNCHANGED <<remote, transfers, astray>>

\* retry(): with the URL that was bought.
RetryTransfer ==
  /\ archive \in {"failed", "cancelled"}
  /\ archive' = "ready"
  /\ UNCHANGED <<remote, partFile, zipFile, reply, transfers, astray>>

\* The Core is killed, perhaps with the last chunk not yet in the file; open() finds
\* the task failed.
KillTransfer ==
  /\ archive = "downloading"
  /\ Ended("failed")
  /\ partFile' \in {partFile} \cup (IF partFile = <<>> THEN {} ELSE {Front(partFile)})
  /\ UNCHANGED <<remote, zipFile, transfers, astray>>

\* The server makes a new Archive; a response under way is of the old one.
ChangeRemote ==
  /\ remote.number < MaxReleases
  /\ remote' \in {v \in Release : v.number = remote.number + 1}
  /\ UNCHANGED <<partFile, zipFile, archive, reply, transfers, astray>>

TransferNext ==
  \/ BeginTransfer \/ AnswerRange \/ AnswerWhole \/ TransferFails \/ CancelTransfer
  \/ ReceivePiece \/ FinishTransfer \/ RetryTransfer \/ KillTransfer \/ ChangeRemote

TransferSpec == TransferInit /\ [][TransferNext]_transferVars

-----------------------------------------------------------------------------
TransferTypeOK ==
  /\ remote \in Release
  /\ partFile \in Seq(Piece) /\ zipFile \in Seq(Piece)
  /\ archive \in {"ready", "downloading", "completed", "failed", "cancelled"}
  /\ reply \in {NoReply} \cup [of : Release, next : 1..(MaxLength + 1), last : 1..MaxLength]
  /\ transfers \in 0..MaxTransfers
  /\ astray \in BOOLEAN

InPlace(file) == \A i \in DOMAIN file : file[i].at = i

\* Whatever transfers broke off, were refused a range or cut by a crash, each chunk is at
\* its place in the file, and a ZIP ends where the version it was completed from ends, unless
\* the server has answered with another range than it was asked for, which the code takes for
\* the one it wanted.  Truncating the file makes good for that.  (Chunks may be of two
\* versions: the rest of a part file is asked for with Range alone, where FVCORE.md:254 has
\* If-Range and a check of Content-Range.)
ArchiveIsInPlace ==
  ~astray =>
    /\ InPlace(partFile) /\ InPlace(zipFile)
    /\ zipFile # <<>> => Len(zipFile) = Last(zipFile).of.length
=============================================================================

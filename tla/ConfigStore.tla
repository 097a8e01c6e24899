------------------------------ MODULE ConfigStore ------------------------------
(***************************************************************************)
(* config.json and the credentials in it.  The executable's commands       *)
(* (main.rs) and a running Core (persist_config in runtime.rs) replace the *)
(* file in steps that a crash may cut: the new content is written beside   *)
(* it, the old file becomes a backup, the new one takes its place, the     *)
(* backup goes.  A lock of the directory orders them, except for a user    *)
(* with an editor; whoever comes next completes or undoes what was cut.    *)
(*                                                                         *)
(* A content is the number of its version, 0 if there is no file, and      *)
(* Invalid if it does not parse.  Versions are numbered as they are made.  *)
(***************************************************************************)
EXTENDS Integers, FiniteSets

CONSTANTS
  CoreProcess,     \* the processes that run a Core
  CommandProcess,  \* the processes that run a command of the executable
  Nobody,      \* the holder of a lock that is free
  MaxVersion   \* bound of the versions

Process == CoreProcess \cup CommandProcess

ASSUME ConfigAssumption ==
  /\ CoreProcess \cap CommandProcess = {}
  /\ Nobody \notin Process
  /\ MaxVersion \in Nat

VARIABLES
  file,      \* config.json
  backup,    \* .config.json.override-backup
  staged,    \* the temporary file of the process that writes
  aside,     \* what a recovery has set aside as invalid
  version,   \* the number of versions made
  step,      \* what each process does next
  dirLock,   \* the process that has .config.json.lock
  stored,    \* history: the newest version that a command reported as saved
  misread,   \* history: the versions there were when a valid file was last taken for invalid
  mistyped   \* history: whether the user has saved a file that does not parse

configFiles == <<file, backup, staged, aside>>
configHistory == <<stored, misread, mistyped>>
configVars == <<configFiles, version, step, dirLock, configHistory>>

NoFile  == 0
Invalid == -1
Valid(content) == content > NoFile

ConfigInit ==
  /\ file = NoFile /\ backup = NoFile /\ staged = NoFile /\ aside = NoFile
  /\ version = 0
  /\ step = [p \in Process |-> "out"]
  /\ dirLock = Nobody
  /\ stored = 0
  /\ misread = 0
  /\ mistyped = FALSE

-----------------------------------------------------------------------------
GoOn(p, next) == step' = [step EXCEPT ![p] = next]

\* An operation ends and its lock goes; a Core goes on to run if it has a configuration.
Ends(p, next) == GoOn(p, next) /\ dirLock' = Nobody
Out(p) == IF p \in CoreProcess THEN "running" ELSE "out"
Gives(p) == Ends(p, Out(p)) /\ UNCHANGED stored
Saved(p, content) == Ends(p, Out(p)) /\ stored' = content

\* create-config, check-config, and the start of a Core, which all recover first.
Enter(p) ==
  /\ step[p] = "out"
  /\ dirLock = Nobody
  /\ dirLock' = p
  /\ GoOn(p, "recover")
  /\ UNCHANGED <<configFiles, version, configHistory>>

Tasks(p) == IF p \in CoreProcess THEN {"load"} ELSE {"create", "check"}

\* What is found in place is never trusted.
FaultyRecover(p) ==
  /\ step[p] = "recover"
  /\ IF backup = NoFile THEN UNCHANGED configFiles
     ELSE file' = backup /\ backup' = NoFile /\ UNCHANGED <<staged, aside>>
  /\ \E task \in Tasks(p) : GoOn(p, task)
  /\ UNCHANGED <<version, dirLock, configHistory>>

\* recover_config_override(): a backup without a file comes back, and one beside a valid
\* file goes.  A file that cannot be read as valid, be it that the reading fails, is set
\* aside for the backup.
Recover(p) ==
  /\ step[p] = "recover"
  /\ \/ /\ \/ backup = NoFile /\ UNCHANGED <<file, backup>>
           \/ backup # NoFile /\ Valid(file) /\ backup' = NoFile /\ UNCHANGED file
           \/ backup # NoFile /\ file = NoFile /\ file' = backup /\ backup' = NoFile
        /\ \E task \in Tasks(p) : GoOn(p, task)
        /\ UNCHANGED <<aside, dirLock, misread>>
     \/ /\ backup # NoFile /\ file # NoFile
        /\ aside' = file /\ file' = NoFile
        /\ misread' = IF Valid(file) THEN version ELSE misread
        /\ GoOn(p, "restore")
        /\ UNCHANGED <<backup, dirLock>>
     \/ /\ backup # NoFile
        /\ Ends(p, "out")
        /\ UNCHANGED <<file, backup, aside, misread>>
  /\ UNCHANGED <<staged, version, stored, mistyped>>

\* restore_invalid_config(): the backup takes the place of the file set aside, which goes,
\* if it can; if the backup cannot, that file comes back, if it can.
Restored(p) ==
  /\ step[p] = "restore"
  /\ \/ /\ file' = backup /\ backup' = NoFile
        /\ \/ aside' = NoFile /\ UNCHANGED dirLock /\ \E task \in Tasks(p) : GoOn(p, task)
           \/ UNCHANGED aside /\ Ends(p, "out")
     \/ /\ \/ file' = aside /\ aside' = NoFile
           \/ UNCHANGED <<file, aside>>
        /\ Ends(p, "out")
        /\ UNCHANGED backup
  /\ UNCHANGED <<staged, version, configHistory>>

\* load_config_from_directory(): the Core starts only with a valid file, which it can read.
Load(p) ==
  /\ step[p] = "load"
  /\ \/ Valid(file) /\ Ends(p, "running")
     \/ Ends(p, "out")
  /\ UNCHANGED <<configFiles, version, configHistory>>

Check(p) ==
  /\ step[p] = "check"
  /\ Ends(p, "out")
  /\ UNCHANGED <<configFiles, version, configHistory>>

\* persist_config(): a running Core edits the file that is there, which has to be valid.
\* It looks for no backup.  If it cannot read the file, it changes nothing.
Persist(p) ==
  /\ step[p] = "running"
  /\ dirLock = Nobody
  /\ Valid(file)
  /\ version < MaxVersion
  /\ dirLock' = p
  /\ version' = version + 1
  /\ GoOn(p, "stage")
  /\ UNCHANGED <<configFiles, configHistory>>

\* create-config: without --override it makes a file only if there is none; with it, the
\* defaults replace what is there.
Create(p) ==
  /\ step[p] = "create"
  /\ version < MaxVersion
  /\ \/ version' = version + 1 /\ GoOn(p, "stage") /\ UNCHANGED dirLock
     \/ file # NoFile /\ Ends(p, "out") /\ UNCHANGED version
  /\ UNCHANGED <<configFiles, configHistory>>

\* The new content is written and flushed beside the file.
StageConfig(p) ==
  /\ step[p] = "stage"
  /\ \/ staged' = version /\ GoOn(p, "back up") /\ UNCHANGED <<dirLock, stored>>
     \/ Gives(p) /\ UNCHANGED staged
  /\ UNCHANGED <<file, backup, aside, version, misread, mistyped>>

\* The file that is replaced is kept; a first file is published by a link instead.
BackUp(p) ==
  /\ step[p] = "back up"
  /\ \/ /\ file = NoFile /\ p \in CommandProcess
        /\ file' = staged /\ staged' = NoFile
        /\ Saved(p, staged) \/ Gives(p)
        /\ UNCHANGED backup
     \/ /\ file # NoFile
        /\ backup' = file /\ file' = NoFile
        /\ GoOn(p, "publish")
        /\ UNCHANGED <<staged, dirLock, stored>>
     \/ /\ staged' = NoFile
        /\ Gives(p)
        /\ UNCHANGED <<file, backup>>
  /\ UNCHANGED <<aside, version, misread, mistyped>>

\* If the new file cannot take its place, the old one comes back, if that can be done.
PublishConfig(p) ==
  /\ step[p] = "publish"
  /\ \/ /\ file' = staged
        /\ GoOn(p, "clean")
        /\ UNCHANGED <<backup, dirLock, stored>>
     \/ /\ \/ file' = backup /\ backup' = NoFile
           \/ UNCHANGED <<file, backup>>
        /\ Gives(p)
  /\ staged' = NoFile
  /\ UNCHANGED <<aside, version, misread, mistyped>>

\* The backup goes.  A Core only warns if it cannot be removed; create-config fails then,
\* or if it cannot read the new file, although that stands.
Clean(p) ==
  /\ step[p] = "clean"
  /\ backup' \in {NoFile, backup}
  /\ \/ (p \in CoreProcess \/ backup' = NoFile) /\ Saved(p, file)
     \/ p \in CommandProcess /\ Gives(p)
  /\ UNCHANGED <<file, staged, aside, version, misread, mistyped>>

\* A process ends, wherever it is; its lock goes and its files stay.
Kill(p) ==
  /\ step[p] # "out"
  /\ GoOn(p, "out")
  /\ dirLock' = IF dirLock = p THEN Nobody ELSE dirLock
  /\ UNCHANGED <<configFiles, version, configHistory>>

\* The user edits the file while no command works on it, well or badly.
Edit ==
  /\ dirLock = Nobody
  /\ file # NoFile
  /\ version < MaxVersion
  /\ version' = version + 1
  /\ \/ file' = version' /\ stored' = version' /\ UNCHANGED mistyped
     \/ file' = Invalid /\ mistyped' = TRUE /\ UNCHANGED stored
  /\ UNCHANGED <<backup, staged, aside, step, dirLock, misread>>

ConfigNext ==
  \/ \E p \in Process :
       \/ Enter(p) \/ Recover(p) \/ Restored(p) \/ Load(p) \/ Check(p) \/ Persist(p)
       \/ Create(p) \/ StageConfig(p) \/ BackUp(p) \/ PublishConfig(p) \/ Clean(p) \/ Kill(p)
  \/ Edit

ConfigSpec == ConfigInit /\ [][ConfigNext]_configVars
-----------------------------------------------------------------------------
(* Properties. *)

ConfigTypeOK ==
  /\ {file, backup, aside} \subseteq Invalid..MaxVersion
  /\ staged \in 0..MaxVersion
  /\ version \in 0..MaxVersion
  /\ step \in [Process -> {"out", "running", "load", "create", "check", "stage", "back up",
                           "publish", "clean", "recover", "restore"}]
  /\ dirLock \in Process \cup {Nobody}
  /\ {stored, misread} \subseteq 0..MaxVersion
  /\ mistyped \in BOOLEAN

\* What the next recovery makes of the files.
AfterRecovery == IF Valid(file) \/ backup = NoFile THEN file ELSE backup

\* Wherever a write fails or a process is killed, the next command finds a valid
\* configuration once one has been saved, and it is no older than the newest one reported
\* as saved.  A recovery that cannot read a valid file may lose what was saved until then,
\* for what the backup holds; a file that the user has broken is out of reach.
SavedConfigSurvives ==
  ~mistyped =>
    /\ stored > 0 => Valid(AfterRecovery)
    /\ stored > misread => AfterRecovery >= stored
=============================================================================

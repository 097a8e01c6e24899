------------------------------ MODULE Credentials ------------------------------
(***************************************************************************)
(* The credentials of one provider profile: a cookie, and an API user with *)
(* its key, which are kept together.  A configuration gives a value in     *)
(* plain text, or names an environment variable.  An executable Core owns  *)
(* its configuration, config.json, and saves an update there.  An embedded *)
(* Core is given its configuration anew at each start, and saves updates   *)
(* in secrets.json of the Data domain, whose values fill what the          *)
(* configuration leaves open (runtime.rs, storage.rs).                     *)
(*                                                                         *)
(* Each file is replaced by one rename, or as ConfigStore describes.  The  *)
(* runtime's actor handles one update at a time.                           *)
(***************************************************************************)
EXTENDS Integers

CONSTANT MaxSecret   \* bound of the values that updates make

ASSUME SecretAssumption == MaxSecret \in Nat \ {0}

VARIABLES
  embedded,  \* who owns the configuration
  given,     \* the configuration: config.json, or what the embedder passes
  secrets,   \* secrets.json
  up,        \* whether a Core runs
  config,    \* the configuration in its memory
  session,   \* the values that the current session generation uses
  update,    \* the update that is written and not yet used: its field, or Quiet
  saved,     \* history: the newest value of each field that the store accepted
  made,      \* the number of values made
  dropped    \* history: the fields whose environment variable an update removed

credentialVars ==
  <<embedded, given, secrets, up, config, session, update, saved, made, dropped>>

Field == {"cookie", "api"}
Quiet == "quiet"

None == 0                      \* no value
Environment == -1              \* the value of the variable that is named
Plain == 1..MaxSecret          \* values in plain text; 1 is the one first configured

Setting == [plain : {None} \cup Plain, env : BOOLEAN]

\* load_configured_secret(): plain text goes before a variable.
Effective(setting) ==
  IF setting.plain # None THEN setting.plain
  ELSE IF setting.env THEN Environment ELSE None

\* merge_profile_secrets(): a saved value fills what the configuration leaves open.
Merged(f) ==
  IF given[f].plain = None THEN [given[f] EXCEPT !.plain = secrets[f]] ELSE given[f]

Blank == [f \in Field |-> None]
Closed == [f \in Field |-> [plain |-> None, env |-> FALSE]]

CredentialInit ==
  /\ embedded \in BOOLEAN
  /\ given \in [Field -> [plain : {None, 1}, env : BOOLEAN]]
  /\ secrets \in [Field -> {None, 1}]
  /\ up = FALSE
  /\ config = Closed /\ session = Blank
  /\ update = Quiet
  /\ saved = [f \in Field |-> Effective(Merged(f))]
  /\ made = 1
  /\ dropped = {}

\* CoreBuilder::build() loads the secrets and opens the sessions with them.
StartCore ==
  /\ ~up /\ up' = TRUE
  /\ config' = [f \in Field |-> Merged(f)]
  /\ session' = [f \in Field |-> Effective(Merged(f))]
  /\ UNCHANGED <<embedded, given, secrets, update, saved, made, dropped>>

\* The profile with one field replaced, whose variable is forgotten.
Replacement(f, value) == [config EXCEPT ![f] = [plain |-> value, env |-> FALSE]]

\* Both fields are written, whichever is updated: config.json loses its variables, and
\* secrets.json takes what the configuration gave.
FaultyWriteCredentials(f, value) ==
  IF embedded THEN secrets' = [g \in Field |-> IF g = f THEN value ELSE None] /\ UNCHANGED given
  ELSE given' = [g \in Field |-> [plain |-> IF g = f THEN value ELSE None, env |-> FALSE]]
       /\ UNCHANGED secrets

WriteCredentials(f, value) ==
  LET written == [g \in Field |-> Replacement(f, value)[g].plain] IN
  IF embedded THEN secrets' = written /\ UNCHANGED given
  ELSE /\ given' = [g \in Field |-> [plain |-> written[g], env |-> FALSE]]
       /\ UNCHANGED secrets

\* update_profile_credentials() saves a new value, or the lack of one.  When the file
\* cannot be replaced the update fails and nothing has changed.
SaveCredentials(f) ==
  /\ up /\ update = Quiet
  /\ \E value \in {None, made + 1} :
       /\ value = None \/ made < MaxSecret
       /\ made' = IF value = None THEN made ELSE value
       /\ WriteCredentials(f, value)
       /\ saved' = [saved EXCEPT ![f] = value]
       /\ config' = Replacement(f, value)
  /\ dropped' = IF embedded THEN dropped
                ELSE (dropped \cup {g \in Field \ {f} : config[g].env /\ config[g].plain = None})
                     \ {f}
  /\ update' = f
  /\ UNCHANGED <<embedded, up, session>>

\* Then a new session generation uses it.
UseCredentials ==
  /\ update # Quiet
  /\ session' = [f \in Field |-> Effective(config[f])]
  /\ update' = Quiet
  /\ UNCHANGED <<embedded, given, secrets, up, config, saved, made, dropped>>

\* The Core ends, perhaps between the two.
EndCore ==
  /\ up /\ up' = FALSE
  /\ config' = Closed /\ session' = Blank
  /\ update' = Quiet
  /\ UNCHANGED <<embedded, given, secrets, saved, made, dropped>>

CredentialNext == (\E f \in Field : SaveCredentials(f)) \/ StartCore \/ UseCredentials \/ EndCore

CredentialSpec == CredentialInit /\ [][CredentialNext]_credentialVars
-----------------------------------------------------------------------------
(* Properties. *)

CredentialTypeOK ==
  /\ embedded \in BOOLEAN
  /\ given \in [Field -> Setting]
  /\ secrets \in [Field -> {None} \cup Plain]
  /\ up \in BOOLEAN
  /\ config \in [Field -> Setting]
  /\ session \in [Field -> {None, Environment} \cup Plain]
  /\ update \in Field \cup {Quiet}
  /\ saved \in [Field -> {None, Environment} \cup Plain]
  /\ made \in Plain
  /\ dropped \subseteq Field

\* What the configuration still says about a field comes back at a restart.
Overridden(f) ==
  \/ embedded /\ given[f].plain # None
  \/ embedded /\ given[f].env /\ saved[f] = None
  \/ ~embedded /\ secrets[f] # None /\ saved[f] = None
  \/ f \in dropped

\* A session uses the newest credentials that were saved, of both fields and after any
\* number of restarts, but for four cases: an embedder's configuration that has a value
\* wins over an update, one that names a variable brings it back after the value was
\* removed, secrets.json fills what was removed from config.json, and config.json forgets
\* the variables of the fields that an update did not touch.
SavedIsRestored ==
  up /\ update = Quiet =>
    \A f \in Field : session[f] = saved[f] \/ Overridden(f)
=============================================================================

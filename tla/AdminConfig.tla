---------------------------- MODULE AdminConfig ----------------------------
(***************************************************************************)
(* The configuration of the server: layers of env files, the migration of  *)
(* retired keys at start, and updates from the Admin UI that are validated, *)
(* written to the managed file and put in force at once or by a restart    *)
(* (config/admin/, config/env_files.py, config/env_migrations.py,          *)
(* runtime/application.py).                                                *)
(*                                                                         *)
(* Two keys stand for the manifest: a secret that needs a restart and that *)
(* the process environment does not override, and one whose name replaced  *)
(* a retired one.  A value says where it comes from.  A file is a function *)
(* from the keys it defines; a missing file and an empty one are the same. *)
(* Files and environment are edited by hand only while no server runs.     *)
(***************************************************************************)
EXTENDS Naturals, FiniteSets, FiniteSetsExt, Functions

CONSTANTS
    Updates,       \* what the Admin UI may submit: functions from keys
    MaxApplies     \* updates that are submitted

ASSUME AdminConfigAssumption == MaxApplies \in Nat

Manifest ==
    [token  |-> [secret |-> TRUE,  restart |-> TRUE,  dotenvFirst |-> TRUE],
     policy |-> [secret |-> FALSE, restart |-> FALSE, dotenvFirst |-> FALSE]]
ConfigKeys == DOMAIN Manifest

RetiredKey == "thinking"
RetiredName == "policy"
ValueMap == [yes |-> "client", no |-> "off"]

Mask == "********"
RefusedValues == {"bad", "maybe"}   \* what a validator of Settings refuses

Template == [token |-> "shipped", policy |-> "shipped"]
Defaults == [token |-> "", policy |-> "builtin"]   \* of the Settings class

NoFile == [k \in {} |-> ""]

VARIABLES
    environ,       \* the variables of the process
    explicitFile,  \* FCC_ENV_FILE
    repo,          \* .env of the working directory
    managed,       \* ~/.fcc/.env
    legacy,        \* the user file of earlier versions
    inEffect,      \* the settings in force
    pending,       \* keys that wait for a restart
    restartDue,    \* a restart was asked for
    server,        \* whether a server runs
    edits,         \* the last update, and what it found
    firstFiles,    \* history: the layers before the first start
    applies

configVars == <<environ, explicitFile, repo, managed, legacy, inEffect, pending,
                restartDue, server, edits, firstFiles, applies>>

-----------------------------------------------------------------------------
(* The files that define some of the keys, with the values of their layer. *)
Defining(keys, value, retiredValue) ==
    {[k \in S |-> IF k = RetiredKey THEN retiredValue ELSE value] : S \in SUBSET keys}

NoEdit == [updates |-> NoFile, before |-> NoFile, sources |-> NoFile, hadFile |-> FALSE]

ConfigInit ==
    /\ environ \in Defining(ConfigKeys, "process", "")
    /\ explicitFile \in Defining(ConfigKeys, "explicit", "")
    /\ repo \in Defining(ConfigKeys \union {RetiredKey}, "repo", "yes")
    /\ managed \in Defining(ConfigKeys \union {RetiredKey}, "managed", "no")
    /\ legacy \in {NoFile} \union Defining({"token", RetiredKey}, "old", "maybe")
    /\ inEffect = NoFile /\ pending = {} /\ restartDue = FALSE /\ server = "new"
    /\ edits = NoEdit /\ applies = 0
    /\ firstFiles = <<repo, IF managed = NoFile THEN legacy ELSE managed,
                      explicitFile, environ>>

(* The highest layer that defines a key decides.                           *)
Decides(k, layers) == Max({i \in DOMAIN layers : k \in DOMAIN layers[i]})
ValueIn(k, layers) == layers[Decides(k, layers)][k]

(* What the Admin UI shows: the template below the files and the process.  *)
StateLayers == <<Template, repo, managed, explicitFile, environ>>
SourceNames == <<"template", "repo_env", "managed_env", "explicit_env_file", "process">>

StateValue(k) == ValueIn(k, StateLayers)
Source(k) == SourceNames[Decides(k, StateLayers)]
Locked(k) == Source(k) \in {"process", "explicit_env_file"}

(* What Settings reads: the same layers above its own defaults; a token in *)
(* a file goes before one in the process.                                  *)
EnvFiles == <<repo, managed, explicitFile>>
InFiles(k) == \E i \in DOMAIN EnvFiles : k \in DOMAIN EnvFiles[i]

DotenvFirst(k, otherwise) ==
    IF Manifest[k].dotenvFirst /\ InFiles(k) THEN ValueIn(k, EnvFiles) ELSE otherwise

Loaded == [k \in ConfigKeys |->
    DotenvFirst(k, ValueIn(k, <<Defaults, repo, managed, explicitFile, environ>>))]

Valid(values) == \A k \in ConfigKeys : values[k] \notin RefusedValues

-----------------------------------------------------------------------------
MappedValue(v) == IF v \in DOMAIN ValueMap THEN ValueMap[v] ELSE v

(* A fault, for the checks only: the new key does not stop the renaming.   *)
MigrateAlways(layer) ==
    IF RetiredKey \notin DOMAIN layer THEN layer
    ELSE [k \in (DOMAIN layer \ {RetiredKey}) \union {RetiredName} |->
             IF k = RetiredName THEN MappedValue(layer[RetiredKey]) ELSE layer[k]]

(* migrate_env_key_in_text: the retired key is renamed when the file does  *)
(* not define the new one.                                                 *)
Migrate(layer) ==
    IF RetiredKey \notin DOMAIN layer \/ RetiredName \in DOMAIN layer THEN layer
    ELSE [k \in (DOMAIN layer \ {RetiredKey}) \union {RetiredName} |->
             IF k = RetiredName THEN MappedValue(layer[RetiredKey]) ELSE layer[k]]

(* A server starts: the user file of earlier versions is copied when there *)
(* is no managed one, retired keys are renamed in the files it owns, then  *)
(* the settings are read; settings that do not validate end it.            *)
Migrations ==
    /\ repo' = Migrate(repo)
    /\ managed' = Migrate(IF managed = NoFile THEN legacy ELSE managed)
    /\ UNCHANGED <<environ, explicitFile, legacy>>

StartServer ==
    /\ server \in {"new", "stopped"}
    /\ Migrations
    /\ IF Valid(Loaded') THEN inEffect' = Loaded' /\ server' = "up"
       ELSE server' = "invalid" /\ UNCHANGED inEffect
    /\ pending' = {} /\ restartDue' = FALSE
    /\ UNCHANGED <<edits, firstFiles, applies>>

(* A restart, or a crash: an update is in the managed file or it is not.   *)
StopServer ==
    /\ server = "up" /\ server' = "stopped"
    /\ UNCHANGED <<environ, explicitFile, repo, managed, legacy, inEffect, pending,
                   restartDue, edits, firstFiles, applies>>

-----------------------------------------------------------------------------
(* target_values_with_updates                                              *)

(* A fault, for the checks only: a masked secret is written like any value. *)
WritesMask(updates, k) == k \in DOMAIN updates /\ ~Locked(k)

Writable(updates, k) ==
    k \in DOMAIN updates /\ ~Locked(k) /\ ~(Manifest[k].secret /\ updates[k] = Mask)

(* Of a managed file its values are kept; without one the first write is   *)
(* seeded with what is in force but for the locked sources.                *)
Kept(k) ==
    IF managed # NoFile THEN ValueIn(k, <<Template, managed>>)
    ELSE IF Locked(k) THEN Template[k] ELSE StateValue(k)

Target(updates) ==
    [k \in ConfigKeys |-> IF Writable(updates, k) THEN updates[k] ELSE Kept(k)]

(* A fault, for the checks only: the target alone is validated and run.    *)
OnlyTarget(target) == target

Effective(target) ==
    [k \in ConfigKeys |-> IF Locked(k) THEN StateValue(k) ELSE target[k]]

(* settings_from_values: the token of the files is read once more.         *)
Prospective(target) == [k \in ConfigKeys |-> DotenvFirst(k, Effective(target)[k])]

PendingOf(updates) ==
    {k \in DOMAIN updates :
        Writable(updates, k) /\ Manifest[k].restart /\ updates[k] # StateValue(k)}

Submit(updates) ==
    /\ server = "up" /\ applies < MaxApplies /\ applies' = applies + 1
    /\ UNCHANGED <<environ, explicitFile, repo, legacy, server, firstFiles>>

Commit(updates) ==
    /\ managed' = Target(updates)
    /\ edits' = [updates |-> updates, before |-> [k \in ConfigKeys |-> StateValue(k)],
                 sources |-> [k \in ConfigKeys |-> Source(k)],
                 hadFile |-> managed # NoFile]

(* An update that does not validate, whose runtime cannot be built or      *)
(* whose file cannot be written changes nothing.                           *)
RejectUpdate(updates) ==
    /\ Submit(updates)
    /\ UNCHANGED <<managed, inEffect, pending, restartDue, edits>>

(* Something waits for a restart: the file is written, the server goes on  *)
(* as it is until it restarts, by itself or by its user.                   *)
ApplyForRestart(updates) ==
    /\ Submit(updates) /\ Valid(Effective(Target(updates))) /\ PendingOf(updates) # {}
    /\ Commit(updates)
    /\ \E automatic \in BOOLEAN :
         /\ pending' = IF automatic THEN {} ELSE PendingOf(updates)
         /\ restartDue' = (restartDue \/ automatic)
    /\ UNCHANGED inEffect

(* Otherwise a new generation of providers runs with what was validated.   *)
ApplyNow(updates) ==
    /\ Submit(updates) /\ Valid(Effective(Target(updates))) /\ PendingOf(updates) = {}
    /\ Commit(updates) /\ inEffect' = Prospective(Target(updates))
    /\ pending' = {} /\ UNCHANGED restartDue

ConfigNext ==
    \/ StartServer \/ StopServer
    \/ \E updates \in Updates :
          RejectUpdate(updates) \/ ApplyForRestart(updates) \/ ApplyNow(updates)

ConfigSpec == ConfigInit /\ [][ConfigNext]_configVars

-----------------------------------------------------------------------------
ConfigTypeOK ==
    /\ DOMAIN environ \subseteq ConfigKeys /\ DOMAIN explicitFile \subseteq ConfigKeys
    /\ \A layer \in {repo, managed, legacy} :
          DOMAIN layer \subseteq ConfigKeys \union {RetiredKey}
    /\ DOMAIN inEffect \subseteq ConfigKeys /\ pending \subseteq ConfigKeys
    /\ restartDue \in BOOLEAN /\ server \in {"new", "up", "stopped", "invalid"}
    /\ applies \in 0 .. MaxApplies

Edited == edits # NoEdit
Wrote(k) ==
    /\ k \in DOMAIN edits.updates
    /\ edits.sources[k] \notin {"process", "explicit_env_file"}
    /\ ~(Manifest[k].secret /\ edits.updates[k] = Mask)

(* What was submitted and may be changed is what the files say afterwards, *)
(* over any restart; a masked secret is not a value.                       *)
UpdatesStored ==
    /\ Edited => \A k \in ConfigKeys : Wrote(k) => StateValue(k) = edits.updates[k]
    /\ "token" \in DOMAIN managed => managed["token"] # Mask

(* What was not submitted stays as it was.  One case is different: a value *)
(* from the file of the working directory which the managed file does not  *)
(* define is replaced by the template's, since every key is written.       *)
OthersKept ==
    Edited => \A k \in ConfigKeys :
        ~Wrote(k) => \/ StateValue(k) = edits.before[k]
                     \/ edits.sources[k] = "repo_env" /\ edits.hadFile

(* Unless something waits for a restart the server runs with what a        *)
(* restart would read: what was validated is what was stored.  The token   *)
(* is the exception twice.  One of the process alone is locked in the UI,  *)
(* yet the template's token, once written to the managed file, goes before *)
(* it; and one that the template replaced is in force until the next       *)
(* update or restart, since the files are read before they are written.    *)
TokenReplaced(k) ==
    Manifest[k].dotenvFirst /\ (Source(k) = "process" \/
        (Edited /\ ~Wrote(k) /\ edits.sources[k] = "repo_env" /\ edits.hadFile))

RunsWhatIsStored ==
    server = "up" /\ pending = {} /\ ~restartDue =>
        \A k \in ConfigKeys : inEffect[k] = Loaded[k] \/ TokenReplaced(k)

(* What a file said of a key before the server first started, under its    *)
(* new name or under the retired one.                                      *)
Said(layer) ==
    IF RetiredName \in DOMAIN layer THEN {layer[RetiredName]}
    ELSE IF RetiredKey \in DOMAIN layer THEN {MappedValue(layer[RetiredKey])} ELSE {}

(* Until the first update the successor of a retired key has the value of  *)
(* the highest file that spoke of it: a retired key in a higher file goes *)
(* before a new one in a lower file, and the other way round.              *)
RetiredHonoured ==
    server = "up" /\ ~Edited =>
        LET spoke == [i \in DOMAIN firstFiles |-> Said(firstFiles[i])]
            layers == {i \in DOMAIN spoke : spoke[i] # {}}
        IN  inEffect[RetiredName] \in
                IF layers = {} THEN {Defaults[RetiredName]} ELSE spoke[Max(layers)]

ConfigSound == UpdatesStored /\ OthersKept /\ RunsWhatIsStored /\ RetiredHonoured
=============================================================================

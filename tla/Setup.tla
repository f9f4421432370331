-------------------------------- MODULE Setup --------------------------------
(***************************************************************************)
(* memoryd init, embedder setup and uninstall: the files of the data root, *)
(* the global git hooks (internal/githooks) and the launchd service        *)
(* (internal/launchd), set up by one command and taken away by another.    *)
(* A command may be killed or have a call fail at any step; the user       *)
(* changes core.hooksPath, hooks run, daemons start, write and stop at     *)
(* their own times.  The user runs one of the commands at a time.          *)
(*                                                                         *)
(* os.WriteFile truncates and then writes: a file is torn when that was    *)
(* cut short.  Of the data root's other content only its being there is    *)
(* modelled, which is also all that is left of the root when the files     *)
(* are gone.                                                               *)
(***************************************************************************)
EXTENDS Integers, Sequences

CONSTANT MaxMishaps     \* bound on kills and failed calls

ASSUME MishapsAssumption == MaxMishaps \in Nat

hookNames == <<"post-commit", "post-merge", "post-rewrite">>
Hooks == {hookNames[i] : i \in DOMAIN hookNames}

(* The config file is in the root, or where --path says: "away".           *)
ConfigPaths == {"config", "away"}
RootFiles == {"config", "manifest"} \cup Hooks
Files == RootFiles \cup {"away", "plist"}

VARIABLES
    mac,        \* launchd is there
    step,       \* where the running command is; "idle" when none runs
    choice,     \* what init was asked for
    disk,       \* each file: "none", "torn" or "whole"; a whole manifest
                \* is the config file it names
    data,       \* the root's directories and everything else in it
    planned,    \* the config file of the resources uninstall has loaded
    hooksPath,  \* git's global core.hooksPath
    seen,       \* what git last told a command it is
    loaded,     \* launchd has the service
    running,    \* a daemon runs
    hookRuns,   \* a hook is about to enqueue its commit
    outcome,    \* how the last command ended
    mishaps,
    moved,      \* history: the user moved hooksPath since a command looked
    blind,      \* history: an uninstall found no git to ask
    unbooted,   \* history: bootout failed, and launchd kept the service
    lingering   \* history: a daemon or a hook ran at the removal, or the user
                \* has started a daemon since

setupVars == <<mac, step, choice, disk, data, planned, hooksPath, seen,
               loaded, running, hookRuns, outcome, mishaps, moved, blind, unbooted, lingering>>

Choices == [path : ConfigPaths, start : BOOLEAN, imports : BOOLEAN]
Defaults == [path |-> "config", start |-> FALSE, imports |-> FALSE]

InitSteps == {"dirs", "config", "manifest", "look", "set", "chosen", "plist",
              "service", "await", "import"} \cup Hooks
EmbedderSteps == {"embedder"}
UninstallSteps == {"load", "unlook", "unset", "unplist", "root", "away"}

SetupTypeOK ==
    /\ mac \in BOOLEAN
    /\ step \in {"idle"} \cup InitSteps \cup EmbedderSteps \cup UninstallSteps
    /\ choice \in Choices
    /\ disk \in [Files -> {"none", "torn", "whole"} \cup ConfigPaths]
    /\ disk["manifest"] # "whole"
    /\ planned \in ConfigPaths
    /\ hooksPath \in {"unset", "managed", "other"}
    /\ seen \in {"unset", "managed", "other", "nogit"}
    /\ outcome \in {"none", "installed", "configured", "uninstalled", "failed"}
    /\ mishaps \in 0..MaxMishaps
    /\ \A flag \in {data, loaded, running, hookRuns, moved, blind, unbooted, lingering} : flag \in BOOLEAN

SetupInit ==
    /\ mac \in BOOLEAN
    /\ step = "idle" /\ outcome = "none"
    /\ choice = Defaults
    /\ disk = [f \in Files |-> "none"]
    /\ planned = "config"
    /\ hooksPath \in {"unset", "other"} /\ seen = "unset"
    /\ data = FALSE /\ loaded = FALSE /\ running = FALSE /\ hookRuns = FALSE
    /\ mishaps = 0
    /\ moved = FALSE /\ blind = FALSE /\ unbooted = FALSE /\ lingering = FALSE

-----------------------------------------------------------------------------
(* What belongs to the running command, or to the last, beside its step.   *)
leftVars == <<unbooted, lingering>>
localVars == <<choice, planned, seen, moved, leftVars, outcome>>
serviceVars == <<loaded, running, hookRuns>>
gitVars == <<hooksPath, blind>>
fixedVars == <<mac, mishaps>>

Start(s) ==
    /\ step' = s /\ outcome' = "none"
    /\ planned' = "config" /\ seen' = "unset"
    /\ moved' = FALSE /\ unbooted' = FALSE /\ lingering' = FALSE

GoOn(t) == step' = t /\ UNCHANGED localVars

EndWith(how) ==
    /\ step' = "idle" /\ outcome' = how
    /\ choice' = Defaults
    /\ moved' = FALSE
    /\ IF how = "uninstalled"
       THEN UNCHANGED <<planned, seen, leftVars>>
       ELSE planned' = "config" /\ seen' = "unset" /\ unbooted' = FALSE /\ lingering' = FALSE

(* What writeDefaultTo, WriteManifest, WriteManagedHooks and               *)
(* InstallAndStart write at each step, one file at a time.                 *)
WriteSteps == {"config", "manifest", "plist"} \cup Hooks \cup EmbedderSteps
Written ==
    CASE step = "config" -> choice.path
      [] step = "embedder" -> "config"
      [] OTHER -> step

Write(next) ==
    /\ GoOn(next)
    /\ disk' = [disk EXCEPT ![Written] = IF step = "manifest" THEN choice.path ELSE "whole"]
    /\ UNCHANGED <<fixedVars, gitVars, serviceVars>>

StartInit ==
    /\ step = "idle"
    /\ Start("dirs")
    /\ choice' \in Choices
    /\ UNCHANGED <<fixedVars, disk, data, gitVars, serviceVars>>

MakeDirs ==
    /\ step = "dirs"
    /\ GoOn("config")
    /\ data' = TRUE
    /\ UNCHANGED <<fixedVars, disk, gitVars, serviceVars>>

WriteConfig == step = "config" /\ Write("manifest") /\ UNCHANGED data

WriteManifest == step = "manifest" /\ Write(hookNames[1]) /\ data' = TRUE

WriteManagedHooks ==
    \E i \in DOMAIN hookNames :
        /\ step = hookNames[i]
        /\ Write(IF i < Len(hookNames) THEN hookNames[i + 1] ELSE "look")
        /\ data' = TRUE

(* globalHooksPath: the PATH of the command may have no git.  The command  *)
(* goes on to the first step if the answer is one of those.                *)
Asks(answers, first, second) ==
    \E a \in {hooksPath, "nogit"} :
        /\ step' = IF a \in answers THEN first ELSE second
        /\ seen' = a
        /\ moved' = FALSE
        /\ blind' = (blind \/ (step = "unlook" /\ a = "nogit"))
        /\ UNCHANGED <<fixedVars, choice, planned, leftVars, outcome, disk, data, hooksPath, serviceVars>>

(* Mutant: another hook manager's path is not passed over.                 *)
TakeHooksPath == step = "look" /\ Asks({"unset", "managed", "other"}, "set", "chosen")

LookAtHooksPath == step = "look" /\ Asks({"unset", "managed"}, "set", "chosen")

SetHooksPath ==
    /\ step = "set"
    /\ GoOn("chosen")
    /\ hooksPath' = "managed"
    /\ UNCHANGED <<fixedVars, disk, data, blind, serviceVars>>

(* Without the daemon an import is an error, after all the rest is done.   *)
StartDaemonOrNot ==
    /\ step = "chosen"
    /\ \/ choice.start /\ GoOn(IF mac THEN "plist" ELSE "await")
       \/ ~choice.start /\ EndWith(IF choice.imports THEN "failed" ELSE "installed")
    /\ UNCHANGED <<fixedVars, disk, data, gitVars, serviceVars>>

WritePlist == step = "plist" /\ Write("service") /\ UNCHANGED data

(* bootout, its error ignored, then bootstrap and kickstart. *)
RestartService ==
    /\ step = "service"
    /\ GoOn("await")
    /\ loaded' = TRUE /\ running' = TRUE
    /\ UNCHANGED <<fixedVars, disk, data, gitVars, hookRuns>>

(* waitForDaemon, until a Probe succeeds or the time is over. *)
AwaitDaemon ==
    /\ step = "await"
    /\ \/ running /\ GoOn("import")
       \/ ~running /\ EndWith("failed")
    /\ UNCHANGED <<fixedVars, disk, data, gitVars, serviceVars>>

(* dialOrOpen, runInitMemoryImport and the manifest once more. *)
ImportAtInit ==
    /\ step = "import"
    /\ EndWith(IF running THEN "installed" ELSE "failed")
    /\ UNCHANGED <<fixedVars, disk, data, gitVars, serviceVars>>

-----------------------------------------------------------------------------
(* config.Load, whose path is always the one in the root. *)
Loads == disk["config"] # "torn"

(* memoryd embedder setup: load the config, write it with the embedder. *)
StartEmbedder ==
    /\ step = "idle"
    /\ \/ Loads /\ Start("embedder") /\ UNCHANGED choice
       \/ ~Loads /\ EndWith("failed")
    /\ UNCHANGED <<fixedVars, disk, data, gitVars, serviceVars>>

WriteEmbedder ==
    /\ step = "embedder"
    /\ EndWith("configured")
    /\ disk' = [disk EXCEPT !["config"] = "whole"]
    /\ UNCHANGED <<fixedVars, data, gitVars, serviceVars>>

StartUninstall ==
    /\ step = "idle"
    /\ \/ Loads /\ Start("load") /\ UNCHANGED choice
       \/ ~Loads /\ EndWith("failed")
    /\ UNCHANGED <<fixedVars, disk, data, gitVars, serviceVars>>

(* A missing manifest stands for the default resources. *)
LoadManifest ==
    /\ step = "load"
    /\ \/ /\ disk["manifest"] # "torn"
          /\ step' = "unlook"
          /\ planned' = IF disk["manifest"] = "none" THEN "config" ELSE disk["manifest"]
          /\ UNCHANGED <<choice, seen, moved, leftVars, outcome>>
       \/ disk["manifest"] = "torn" /\ EndWith("failed")
    /\ UNCHANGED <<fixedVars, disk, data, gitVars, serviceVars>>

LookToUnhook == step = "unlook" /\ Asks({"managed"}, "unset", "unplist")

(* Mutant: an unset that fails is not an error.                            *)
UnsetOrGoOn ==
    /\ step = "unset"
    /\ GoOn("unplist")
    /\ hooksPath' \in {hooksPath, "unset"}
    /\ UNCHANGED <<fixedVars, disk, data, blind, serviceVars>>

(* git's --unset fails when there is nothing to unset. *)
UnsetHooksPath ==
    /\ step = "unset"
    /\ \/ hooksPath # "unset" /\ GoOn("unplist")
       \/ hooksPath = "unset" /\ EndWith("failed")
    /\ hooksPath' = "unset"
    /\ UNCHANGED <<fixedVars, disk, data, blind, serviceVars>>

(* launchctl bootout of the plist: launchd lets the service go and ends    *)
(* its daemon, not one started by hand; or it fails, as it does when there *)
(* is no plist.                                                            *)
BootsOut ==
    /\ disk["plist"] # "none"
    /\ loaded' = FALSE
    /\ running' \in (IF loaded THEN {running, FALSE} ELSE {running})
    /\ unbooted' = FALSE

BootoutFails == unbooted' = loaded /\ UNCHANGED <<loaded, running>>

AfterBootout == <<choice, planned, seen, moved, lingering, outcome, fixedVars, data, gitVars, hookRuns>>

(* Mutant: when bootout fails, the plist is left.                          *)
BootoutOrLeave ==
    /\ step = "unplist" /\ step' = "root"
    /\ \/ BootsOut /\ disk' = [disk EXCEPT !["plist"] = "none"]
       \/ BootoutFails /\ UNCHANGED disk
    /\ UNCHANGED AfterBootout

(* BootoutAndRemove: the error of bootout is ignored. *)
BootoutAndRemove ==
    /\ step = "unplist" /\ step' = "root"
    /\ BootsOut \/ BootoutFails
    /\ disk' = [disk EXCEPT !["plist"] = "none"]
    /\ UNCHANGED AfterBootout

Without(gone) == [f \in Files |-> IF f \in gone THEN "none" ELSE disk[f]]

RemoveRoot ==
    /\ step = "root" /\ step' = "away"
    /\ disk' = Without(RootFiles)
    /\ data' = FALSE
    /\ lingering' = (running \/ hookRuns)
    /\ UNCHANGED <<fixedVars, choice, planned, seen, moved, unbooted, outcome, gitVars, serviceVars>>

RemoveConfig ==
    /\ step = "away"
    /\ EndWith("uninstalled")
    /\ disk' = IF planned = "away" THEN [disk EXCEPT !["away"] = "none"] ELSE disk
    /\ UNCHANGED <<fixedVars, data, gitVars, serviceVars>>

-----------------------------------------------------------------------------
(* The files a command that ends at this step may leave.                   *)
Torn == IF step \in WriteSteps THEN {[disk EXCEPT ![Written] = "torn"]} ELSE {}

PartlyRemoved == IF step = "root" THEN {Without(gone) : gone \in SUBSET RootFiles} ELSE {}

Leftovers == {disk} \cup Torn \cup PartlyRemoved

(* A kill, or a call that fails, at any step. *)
CutShort ==
    /\ step # "idle"
    /\ mishaps < MaxMishaps /\ mishaps' = mishaps + 1
    /\ disk' \in Leftovers
    /\ EndWith("failed")
    /\ UNCHANGED <<mac, data, gitVars, serviceVars>>

UserSetsHooksPath ==
    /\ hooksPath' \in {"unset", "other"} \ {hooksPath}
    /\ moved' = (step # "idle")
    /\ UNCHANGED <<fixedVars, step, choice, planned, seen, leftVars, outcome, disk, data, blind, serviceVars>>

Outside == <<fixedVars, step, choice, planned, seen, moved, unbooted, outcome, disk, gitVars>>

(* git runs a hook, and the hook's enqueue-git makes the spool directory.  *)
HookStarts ==
    /\ hooksPath = "managed" /\ \E h \in Hooks : disk[h] = "whole"
    /\ ~hookRuns /\ hookRuns' = TRUE
    /\ UNCHANGED <<Outside, lingering, data, loaded, running>>

HookEnqueues ==
    /\ hookRuns /\ hookRuns' = FALSE
    /\ data' = (data \/ Loads)
    /\ UNCHANGED <<Outside, lingering, loaded, running>>

Removed == step = "away" \/ outcome = "uninstalled"

(* launchd starts the service again whenever it has ended; or the user     *)
(* starts a daemon.                                                        *)
DaemonStarts ==
    /\ ~running /\ Loads
    /\ running' = TRUE
    /\ lingering' = (lingering \/ (Removed /\ ~loaded))
    /\ UNCHANGED <<Outside, data, loaded, hookRuns>>

(* A daemon's save of the ingest state makes the root. *)
DaemonSaves ==
    /\ running /\ data' = TRUE
    /\ UNCHANGED <<Outside, lingering, serviceVars>>

DaemonStops ==
    /\ running /\ running' = FALSE
    /\ UNCHANGED <<Outside, lingering, data, loaded, hookRuns>>

(* At a login launchd takes its services from the plists there are. *)
Login ==
    /\ step = "idle" /\ mac
    /\ loaded' = (disk["plist"] = "whole")
    /\ running' = FALSE /\ hookRuns' = FALSE
    /\ UNCHANGED <<Outside, lingering, data>>

InitStep ==
    \/ StartInit \/ MakeDirs \/ WriteConfig \/ WriteManifest \/ WriteManagedHooks
    \/ LookAtHooksPath \/ SetHooksPath \/ StartDaemonOrNot
    \/ WritePlist \/ RestartService \/ AwaitDaemon \/ ImportAtInit

EmbedderStep == StartEmbedder \/ WriteEmbedder

UninstallStep ==
    \/ StartUninstall \/ LoadManifest \/ LookToUnhook \/ UnsetHooksPath
    \/ BootoutAndRemove \/ RemoveRoot \/ RemoveConfig

SetupNext ==
    \/ InitStep \/ EmbedderStep \/ UninstallStep \/ CutShort
    \/ UserSetsHooksPath \/ HookStarts \/ HookEnqueues
    \/ DaemonStarts \/ DaemonSaves \/ DaemonStops \/ Login

SetupSpec == SetupInit /\ [][SetupNext]_setupVars

-----------------------------------------------------------------------------
(* git is never pointed at hooks that are not all there, also when init or *)
(* uninstall was cut short: InstallManaged writes the scripts before it    *)
(* sets core.hooksPath, and runUninstall unsets it before it removes them. *)
(* Except after an uninstall that found no git and removed them all the    *)
(* same (githooks.go:90).                                                  *)
HooksLive ==
    hooksPath = "managed" => blind \/ \A h \in Hooks : disk[h] # "none"

(* Neither command takes away or replaces a core.hooksPath of somebody     *)
(* else, unless it was set between the command's look at it and its change *)
(* (githooks.go:48, :95).                                                  *)
KeepsOthersPath ==
    hooksPath = "other" /\ ~moved /\ step' # step => hooksPath' = "other"
OthersHooksKept == [][KeepsOthersPath]_setupVars

(* An uninstall that reports success has taken away all init made: the     *)
(* files of the root, the plist, the config file of the manifest, git's    *)
(* setting, if git was there to ask; and launchd has the service no more,  *)
(* or the bootout of this uninstall failed.  The root does not come back   *)
(* either, at a login or at another time, but by a daemon or a hook that   *)
(* was running when it was removed, by a daemon the user starts later, or  *)
(* by the daemon of a service whose bootout failed.                        *)
(* docs/uninstall.md:33 does not have that last exception: it says that    *)
(* uninstall unloads the service, but plist.go:108 ignores the error.      *)
UninstallLeavesNothing ==
    outcome = "uninstalled" =>
        /\ \A f \in RootFiles \cup {"plist", planned} : disk[f] = "none"
        /\ hooksPath = "managed" => seen = "nogit"
        /\ loaded => unbooted
        /\ data => lingering \/ unbooted
=============================================================================

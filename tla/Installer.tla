------------------------------ MODULE Installer -------------------------------
(***************************************************************************)
(* What the operator runs as root on one host, one command after another,  *)
(* also after one that failed or was killed: install.sh (a first           *)
(* installation, --upgrade, --reconfigure), uninstall.sh, and the two      *)
(* commands of taskdropbox-admin that rewrite the settings file.           *)
(*                                                                         *)
(* A step is what a kill or a failing command can separate from the next:  *)
(* the synchronization of the code, the swap of the virtual environments,  *)
(* the rewriting of the settings file, the migration, the start.  What     *)
(* apt, tar, nginx and the prompts do is left out.                         *)
(***************************************************************************)
EXTENDS Naturals

CONSTANTS
    MaxRuns,    \* the bound on how often a command is run
    Commands,   \* the commands that are run
    Faults      \* "fail" (a step exits nonzero), "kill" (script), "down" (host)

Modes == {"install", "upgrade", "reconfigure"}       \* of install.sh

ASSUME InstallerAssumption ==
    /\ MaxRuns \in Nat
    /\ Commands \subseteq Modes \cup {"set-pin", "set-language", "uninstall"}
    /\ Faults \subseteq {"fail", "kill", "down"}

VARIABLES
    code,       \* /opt/taskdropbox; "new" is the checkout's version
    venv,       \* /opt/taskdropbox/venv
    saved,      \* /opt/taskdropbox/.venv-previous
    schema,     \* the last migration of the database
    env,        \* ENV_FILE: "cut" is empty, "blank" has no PIN hash
    backups,    \* what the copies of ENV_FILE hold
    strays,     \* what abandoned copies in /tmp hold
    tools,      \* taskdropbox-admin and taskdropbox-manage are installed
    service,    \* the service is up
    enabled,    \* and is started at boot
    pc,
    run,        \* MODE, whether a PIN was given, PIN_HASH, SERVICE_WAS_ACTIVE,
                \* what replace_setting's temporary copy holds, the step that failed
    ended,      \* how the last run ended
    runs,       \* how many commands were run
    had,        \* ghost: the environments complete when a run of install.sh began,
    fit,        \* ghost: and whether the program in use could be started then
    stored      \* ghost: a PIN's hash was written to ENV_FILE at some time

program  == <<code, venv, saved, schema>>
settings == <<env, backups, strays>>
unit     == <<service, enabled, tools>>
host     == <<program, settings, unit>>
ghosts   == <<had, fit, stored>>
vars     == <<host, pc, run, ended, runs, ghosts>>

Versions == {"none", "old", "new"}
Complete == {"old", "new"}

(* The steps of install.sh, from the first after its prompts, and those of *)
(* the scripts without a trap.                                             *)
Steps      == {"stop", "backup", "sync", "synced", "forget", "save", "build", "built", "drop",
               "unbuild", "restore", "hash", "open", "write", "tools", "migrate", "start", "health"}
AdminSteps == {"copy", "unlink", "fill", "clean", "restart", "disable", "disabled", "remove",
               "removed"}

TypeOK ==
    /\ code \in Versions \cup {"mixed"}
    /\ venv \in Versions \cup {"partial"}
    /\ saved \in Versions \cup {"partial"}
    /\ schema \in Versions
    /\ env \in {"none", "cut", "blank", "whole"}
    /\ backups \subseteq {"cut", "blank", "whole"} /\ strays \subseteq {"cut", "blank", "whole"}
    /\ service \in BOOLEAN /\ enabled \in BOOLEAN /\ tools \in BOOLEAN
    /\ had \subseteq {"venv", "saved"} /\ fit \in BOOLEAN /\ stored \in BOOLEAN
    /\ pc \in {"idle", "trap"} \cup Steps \cup AdminSteps
    /\ run \in [mode : Modes \cup Commands, pin : BOOLEAN, hash : BOOLEAN, active : BOOLEAN,
                copy : {"none", "cut", "blank", "whole"}, failed : {"none"} \cup Steps]
    /\ ended \in {"never", "well", "badly", "killed"}
    /\ runs \in 0..MaxRuns

Init ==
    /\ \E v \in {"none", "old"} :
          /\ code = v /\ venv = v /\ schema = v
          /\ env = IF v = "none" THEN "none" ELSE "whole"
          /\ service = (v # "none") /\ enabled = (v # "none") /\ stored = (v # "none")
          /\ tools = (v # "none")
    /\ saved = "none" /\ backups = {} /\ strays = {}
    /\ pc = "idle" /\ ended = "never" /\ runs = 0 /\ had = {} /\ fit = FALSE
    /\ run = [mode |-> "install", pin |-> FALSE, hash |-> FALSE, active |-> FALSE,
              copy |-> "none", failed |-> "none"]

-------------------------------------------------------------------------------
(* Whether gunicorn comes up: it needs its unit, a settings file for       *)
(* systemd to read, and an environment.  The program it was built for      *)
(* starts with it; another version of the program, or one that is half     *)
(* synchronized, may or may not.                                           *)
Starts ==
    IF ~tools \/ env = "none" \/ venv \notin Complete
    THEN {FALSE}
    ELSE IF code = venv THEN {TRUE} ELSE BOOLEAN

(* A command that its checks refuse changes nothing and is left out.       *)
Accepted(m) ==
    CASE m = "install"      -> code = "none"
      [] m = "set-language" -> tools /\ env # "none"
      [] m = "set-pin"      -> tools /\ env \in {"blank", "whole"} /\ venv \in Complete
      [] OTHER              -> code # "none"

(* A script may be run with the service in any state.                      *)
Begin ==
    /\ pc = "idle" /\ runs < MaxRuns
    /\ \E m \in Commands, p \in BOOLEAN :
          /\ Accepted(m)
          /\ m \in {"install", "reconfigure", "set-pin"} => p
          /\ m \in {"set-language", "uninstall"} => ~p
          /\ run' = [mode |-> m, pin |-> p, hash |-> FALSE, active |-> FALSE,
                     copy |-> "none", failed |-> "none"]
          /\ pc' = CASE m \in Modes      -> "stop"
                     [] m = "uninstall" -> "disable"
                     [] OTHER           -> "copy"
          /\ had' = {x \in {"venv", "saved"} :
                       m \in Modes /\ (IF x = "venv" THEN venv ELSE saved) \in Complete}
          /\ fit' = (m \in Modes /\ Starts = {TRUE})
    /\ runs' = runs + 1
    /\ UNCHANGED <<host, ended, stored>>

(* set -e: a failing command ends the script by way of its trap.           *)
Fails ==
    /\ "fail" \in Faults
    /\ run' = [run EXCEPT !.failed = pc]
    /\ pc' = "trap"

(* SERVICE_WAS_ACTIVE is set before the service is stopped.                *)
Stop ==
    /\ pc = "stop"
    /\ \/ /\ run' = [run EXCEPT !.active = service]
          /\ service' = FALSE
          /\ pc' = "backup"
       \/ /\ "fail" \in Faults /\ service
          /\ run' = [run EXCEPT !.active = TRUE, !.failed = "stop"]
          /\ service' \in BOOLEAN
          /\ pc' = "trap"
    /\ UNCHANGED <<program, settings, enabled, tools, ended, runs, ghosts>>

BackupOver ==             \* mutant: one backup name, overwritten each time
    /\ pc = "backup"
    /\ backups' = IF env = "none" THEN backups ELSE {env}
    /\ pc' = IF run.mode = "reconfigure" THEN "hash" ELSE "sync"
    /\ UNCHANGED <<program, env, strays, unit, run, ended, runs, ghosts>>

Backup ==
    /\ pc = "backup"
    /\ backups' = IF env = "none" THEN backups ELSE backups \cup {env}
    /\ pc' = IF run.mode = "reconfigure" THEN "hash" ELSE "sync"
    /\ UNCHANGED <<program, env, strays, unit, run, ended, runs, ghosts>>

SyncEnters ==             \* mutant: the environment is not excluded
    /\ \/ pc = "sync"   /\ code' = "mixed" /\ pc' = "synced"
       \/ pc = "synced" /\ code' = "new"   /\ pc' = "forget"
    /\ venv' = IF venv = "none" THEN "none" ELSE "mixed"
    /\ UNCHANGED <<saved, schema, settings, unit, run, ended, runs, ghosts>>

(* rsync --delete, with the environments excluded.                         *)
Sync ==
    /\ \/ pc = "sync"   /\ code' = "mixed" /\ pc' = "synced"
       \/ pc = "synced" /\ code' = "new"   /\ pc' = "forget"
    /\ UNCHANGED <<venv, saved, schema, settings, unit, run, ended, runs, ghosts>>

-------------------------------------------------------------------------------
(* The old environment is moved aside, the new one built and the old one   *)
(* deleted; or what was built is deleted and the old one moved back.       *)

Forget ==
    /\ pc \in {"forget", "drop"}
    /\ \/ saved # "none" /\ saved' = "partial" /\ UNCHANGED pc
       \/ saved' = "none" /\ pc' = IF pc = "forget" THEN "save" ELSE "hash"
    /\ UNCHANGED <<code, venv, schema, settings, unit, run, ended, runs, ghosts>>

Save ==
    /\ pc = "save"
    /\ IF venv = "none" THEN UNCHANGED <<venv, saved>> ELSE saved' = venv /\ venv' = "none"
    /\ pc' = "build"
    /\ UNCHANGED <<code, schema, settings, unit, run, ended, runs, ghosts>>

Build ==
    /\ \/ pc = "build" /\ venv' = "partial" /\ pc' = "built"
       \/ pc = "built" /\ venv' = "new"     /\ pc' = "drop"
    /\ UNCHANGED <<code, saved, schema, settings, unit, run, ended, runs, ghosts>>

BuildFails ==
    /\ "fail" \in Faults
    /\ pc \in {"build", "built"}
    /\ run' = [run EXCEPT !.failed = pc]
    /\ pc' = "unbuild"
    /\ UNCHANGED <<host, ended, runs, ghosts>>

Unbuild ==
    /\ pc = "unbuild"
    /\ venv' = "none"
    /\ pc' = "restore"
    /\ UNCHANGED <<code, saved, schema, settings, unit, run, ended, runs, ghosts>>

RestoreNothing ==         \* mutant: the rebuilt environment is only deleted
    /\ pc = "restore"
    /\ pc' = "trap"
    /\ UNCHANGED <<host, run, ended, runs, ghosts>>

Restore ==
    /\ pc = "restore"
    /\ IF saved = "none" THEN UNCHANGED <<venv, saved>> ELSE venv' = saved /\ saved' = "none"
    /\ pc' = "trap"
    /\ UNCHANGED <<code, schema, settings, unit, run, ended, runs, ghosts>>

-------------------------------------------------------------------------------
(* The PIN's hash: made with the new environment, or read from ENV_FILE.   *)
Hash ==
    /\ pc = "hash"
    /\ IF run.pin THEN venv \in Complete ELSE env # "none"
    /\ run' = [run EXCEPT !.hash = run.pin \/ env = "whole"]
    /\ pc' = "open"
    /\ UNCHANGED <<host, ended, runs, ghosts>>

(* cat > ENV_FILE: the shell empties the file before cat writes to it.     *)
Open ==
    /\ pc = "open"
    /\ env' = "cut"
    /\ pc' = "write"
    /\ UNCHANGED <<program, backups, strays, unit, run, ended, runs, ghosts>>

WriteSettings ==
    /\ pc = "write"
    /\ env' = IF run.hash THEN "whole" ELSE "blank"
    /\ stored' = (stored \/ run.hash)
    /\ pc' = "tools"
    /\ UNCHANGED <<program, backups, strays, unit, run, ended, runs, had, fit>>

(* The unit and the two tools.                                             *)
Tools ==
    /\ pc = "tools"
    /\ tools' = TRUE
    /\ pc' = "migrate"
    /\ UNCHANGED <<program, settings, service, enabled, run, ended, runs, ghosts>>

MigrateUpgrade ==         \* mutant: a reconfiguration does not migrate
    /\ pc = "migrate"
    /\ venv \in Complete
    /\ schema' = IF run.mode = "reconfigure" THEN schema ELSE "new"
    /\ pc' = "start"
    /\ UNCHANGED <<code, venv, saved, settings, unit, run, ended, runs, ghosts>>

(* manage.py migrate; a half-synchronized program has any of the           *)
(* migrations.                                                             *)
Migrate ==
    /\ pc = "migrate"
    /\ venv \in Complete
    /\ CASE code = "new"   -> schema' = "new"
         [] code = "mixed" -> schema' \in {schema, "new"}
         [] OTHER          -> UNCHANGED schema
    /\ pc' = "start"
    /\ UNCHANGED <<code, venv, saved, settings, unit, run, ended, runs, ghosts>>

(* systemctl enable and restart, of nginx too: they may fail for nginx.    *)
Start ==
    /\ pc = "start"
    /\ enabled' = TRUE
    /\ service' \in Starts
    /\ \/ pc' = "health" /\ UNCHANGED run
       \/ Fails
    /\ UNCHANGED <<program, settings, tools, ended, runs, ghosts>>

Finish ==
    /\ pc = "health" /\ service
    /\ pc' = "idle" /\ ended' = "well"
    /\ UNCHANGED <<host, run, runs, ghosts>>

-------------------------------------------------------------------------------
(* A command fails before it has done its work: at stop, what precedes it  *)
(* (apt, the accounts); at hash, start and health too (the archive, the    *)
(* compilation and the tests, curl).                                       *)
CommandFails ==
    /\ pc \in Steps \ {"build", "built"}
    /\ Fails
    /\ UNCHANGED <<host, ended, runs, ghosts>>

(* What the host is left with does not allow a step: there is no           *)
(* environment to hash the PIN with or no settings file to read its hash   *)
(* from, the environment is not the program's, gunicorn did not come up.   *)
StepRefused ==
    /\ \/ pc = "hash" /\ ~(IF run.pin THEN venv \in Complete ELSE env # "none")
       \/ pc = "migrate" /\ (venv \notin Complete \/ venv # code)
       \/ pc = "health" /\ ~service
    /\ run' = [run EXCEPT !.failed = pc]
    /\ pc' = "trap"
    /\ UNCHANGED <<host, ended, runs, ghosts>>

TrapQuits ==              \* mutant: no trap is set
    /\ pc = "trap"
    /\ pc' = "idle"
    /\ ended' = "badly"
    /\ UNCHANGED <<host, run, runs, ghosts>>

(* restart_service_after_failed_install; a start has no effect on a        *)
(* service that is up, and of one that is down the trap tries nothing more *)
(* than systemctl start, which is taken to do what Starts says.            *)
Trap ==
    /\ pc = "trap"
    /\ IF run.active /\ ~service THEN service' \in Starts ELSE UNCHANGED service
    /\ pc' = "idle"
    /\ ended' = "badly"
    /\ UNCHANGED <<program, settings, enabled, tools, run, runs, ghosts>>

-------------------------------------------------------------------------------
(* replace_setting and the commands that use it: sed writes a copy in /tmp *)
(* with the setting replaced or appended, install(1) unlinks ENV_FILE and  *)
(* fills a new one from the copy.                                          *)
Copy ==
    /\ pc = "copy"
    /\ run' = [run EXCEPT !.copy = IF run.mode = "set-pin" THEN "whole" ELSE env]
    /\ pc' = "unlink"
    /\ UNCHANGED <<host, ended, runs, ghosts>>

Unlink ==
    /\ pc = "unlink"
    /\ env' \in {"none", "cut"}
    /\ pc' = "fill"
    /\ UNCHANGED <<program, backups, strays, unit, run, ended, runs, ghosts>>

Fill ==
    /\ pc = "fill"
    /\ env' = run.copy
    /\ stored' = (stored \/ run.copy = "whole")
    /\ pc' = "clean"
    /\ UNCHANGED <<program, backups, strays, unit, run, ended, runs, had, fit>>

Clean ==
    /\ pc = "clean"
    /\ run' = [run EXCEPT !.copy = "none"]
    /\ pc' = "restart"
    /\ UNCHANGED <<host, ended, runs, ghosts>>

Restart ==
    /\ pc = "restart"
    /\ service' \in Starts
    /\ pc' = "idle" /\ ended' = "well"
    /\ UNCHANGED <<program, settings, enabled, tools, run, runs, ghosts>>

-------------------------------------------------------------------------------
(* uninstall.sh: data and settings stay.  It goes on when systemctl fails. *)
Disable ==
    /\ \/ /\ pc = "disable" /\ pc' = "disabled"
          /\ \/ service' = FALSE /\ enabled' = FALSE
             \/ "fail" \in Faults /\ service' \in {service, FALSE} /\ enabled' \in {enabled, FALSE}
          /\ UNCHANGED tools
       \/ pc = "disabled" /\ tools' = FALSE /\ pc' = "remove" /\ UNCHANGED <<service, enabled>>
    /\ UNCHANGED <<program, settings, run, ended, runs, ghosts>>

Remove ==
    /\ \/ /\ pc = "remove"
          /\ code' = "mixed"
          /\ venv'  \in {venv, IF venv = "none" THEN "none" ELSE "partial"}
          /\ saved' \in {saved, IF saved = "none" THEN "none" ELSE "partial"}
          /\ pc' = "removed" /\ UNCHANGED ended
       \/ /\ pc = "removed"
          /\ code' = "none" /\ venv' = "none" /\ saved' = "none"
          /\ pc' = "idle" /\ ended' = "well"
    /\ UNCHANGED <<schema, settings, unit, run, runs, ghosts>>

-------------------------------------------------------------------------------
Abandoned == strays \cup ({run.copy} \ {"none"})

(* The scripts without a trap end where a command fails; a restart that    *)
(* fails may have stopped the service.                                     *)
Quit ==
    /\ "fail" \in Faults
    /\ pc \in AdminSteps \ {"disable"}
    /\ service' \in {service} \cup (IF pc = "restart" THEN {FALSE} ELSE {})
    /\ pc' = "idle" /\ ended' = "badly"
    /\ strays' = Abandoned /\ run' = [run EXCEPT !.copy = "none"]
    /\ UNCHANGED <<program, env, backups, enabled, tools, runs, ghosts>>

(* The script is killed alone; bash still runs the trap for a signal that  *)
(* can be caught, but not the else branch of a command it interrupts.      *)
Kill ==
    /\ "kill" \in Faults
    /\ pc # "idle"
    /\ service' \in {service} \cup (IF run.active /\ ~service THEN Starts ELSE {})
    /\ pc' = "idle" /\ ended' = "killed"
    /\ strays' = Abandoned /\ run' = [run EXCEPT !.copy = "none"]
    /\ UNCHANGED <<program, env, backups, enabled, tools, runs, ghosts>>

(* The host goes down, clears /tmp and boots; what was written before is   *)
(* on its disk.                                                            *)
HostDown ==
    /\ "down" \in Faults
    /\ pc' = "idle" /\ ended' = "killed"
    /\ service' \in IF enabled THEN Starts ELSE {FALSE}
    /\ strays' = {} /\ run' = [run EXCEPT !.copy = "none"]
    /\ UNCHANGED <<program, env, backups, enabled, tools, runs, ghosts>>

InstallStep == \/ Stop \/ Backup \/ Sync \/ Forget \/ Save \/ Build \/ BuildFails \/ Unbuild
               \/ Restore \/ Hash \/ Open \/ WriteSettings \/ Tools \/ Migrate \/ Start
               \/ Finish \/ CommandFails \/ StepRefused \/ Trap
AdminStep   == Copy \/ Unlink \/ Fill \/ Clean \/ Restart
Next == Begin \/ InstallStep \/ AdminStep \/ Disable \/ Remove \/ Quit \/ Kill \/ HostDown

Spec == Init /\ [][Next]_vars
-------------------------------------------------------------------------------
Over == pc = "idle" /\ ended \in {"well", "badly"}

(* The environment in use when a run of install.sh began is not lost       *)
(* before another one is built, wherever the run fails or is killed: one   *)
(* of the two places has a complete one.  A run that ends by itself leaves *)
(* a complete one in use, whatever earlier runs left behind, unless it was *)
(* the way back that failed.                                               *)
EnvironmentRestored ==
    "venv" \in had =>
        /\ venv \in Complete \/ saved \in Complete
        /\ Over /\ run.failed \notin {"unbuild", "restore"} => venv \in Complete

(* Between the first change of the program and the end of the environment  *)
(* that is built for it.                                                   *)
Swap == {"synced", "forget", "save", "build", "built", "unbuild", "restore"}

(* A run of install.sh that stopped a service it could have started, and   *)
(* ends by itself, has it running again, unless it failed with the program *)
(* replaced and no environment built for it.                               *)
ServiceUpAgain == Over /\ run.active /\ fit => service \/ (run.failed \in Swap /\ code # venv)

(* Whatever earlier runs left half done, one of install.sh that ends well  *)
(* leaves a database migrated to the program in use and, unless it only    *)
(* reconfigured, an environment built for it.                              *)
TogetherAgain ==
    pc = "idle" /\ ended = "well" /\ run.mode \in Modes =>
        /\ code = "mixed" \/ schema = code
        /\ run.mode = "reconfigure" \/ (code = "new" /\ venv = code)

(* A hash of a creator PIN, once there, is lost only with /tmp: by a host  *)
(* that goes down while a copy that set-pin or set-language left there is  *)
(* the last to have it.  No other failure, kill or sequence of commands    *)
(* takes it from the settings file and from every copy of it.              *)
PinKept == "whole" \in backups \cup strays \cup {env, run.copy}
PinRecoverable ==
    [][PinKept /\ ~PinKept' =>
          HostDown /\ "whole" \in Abandoned /\ "whole" \notin backups \cup {env}]_vars

(* TaskDropBox_Design_Document.md:477: "It is safely rerunnable, [...]     *)
(* preserves configuration": a run of the installer that ends well leaves  *)
(* the settings a PIN if they ever had one.                                *)
SettingsPreserved == pc = "idle" /\ ended = "well" /\ run.mode \in Modes /\ stored => env = "whole"

(* docs/troubleshooting.md:38: the installer "constructs a clean           *)
(* replacement, and restores the previous environment if construction      *)
(* fails"; install.sh:245 then says "the previous one was restored".  A    *)
(* host that had a complete one has one after such a failure.              *)
PreviousEnvironmentBack == Over /\ run.failed \in {"build", "built"} /\ had # {} => venv \in Complete
===============================================================================

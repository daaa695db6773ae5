---------------------------- MODULE InstallerProofs ----------------------------
(* What TLAPS proves of Installer, for any number of runs of any commands  *)
(* under any of the accidents.                                             *)
EXTENDS Installer, TLAPS

Runs == [mode : Modes \cup Commands, pin : BOOLEAN, hash : BOOLEAN, active : BOOLEAN,
         copy : {"none", "cut", "blank", "whole"}, failed : {"none"} \cup Steps]

(* The local variables of a script are set at its beginning and by a few   *)
(* of its steps; nothing but Begin counts the runs.                        *)
LEMMA RunTyped == TypeOK /\ Next => run' \in Runs /\ runs' \in 0..MaxRuns
<1> SUFFICES ASSUME TypeOK, Next PROVE run' \in Runs /\ runs' \in 0..MaxRuns
  OBVIOUS
<1>1. run \in Runs /\ runs \in 0..MaxRuns
  BY DEF TypeOK, Runs
<1>2. CASE Begin
  BY <1>1, <1>2, InstallerAssumption DEF Begin, Runs
<1>3. /\ \A a \in BOOLEAN : [run EXCEPT !.active = a] \in Runs /\ [run EXCEPT !.hash = a] \in Runs
      /\ \A c \in {"none", "cut", "blank", "whole"} : [run EXCEPT !.copy = c] \in Runs
      /\ \A s \in Steps : /\ [run EXCEPT !.failed = s] \in Runs
                          /\ [run EXCEPT !.active = TRUE, !.failed = s] \in Runs
  BY <1>1 DEF Runs
<1>4. CASE CommandFails \/ StepRefused \/ BuildFails \/ Stop \/ Start
  <2>1. runs' = runs /\ pc \in Steps
    BY <1>4 DEF CommandFails, StepRefused, BuildFails, Stop, Start, Steps
  <2>2. run' \in {run, [run EXCEPT !.active = service], [run EXCEPT !.failed = pc],
                  [run EXCEPT !.active = TRUE, !.failed = pc]}
    BY <1>4 DEF CommandFails, StepRefused, BuildFails, Stop, Start, Fails
  <2> QED
    BY <1>1, <1>3, <2>1, <2>2 DEF TypeOK
<1>5. CASE InstallStep /\ ~(CommandFails \/ StepRefused \/ BuildFails \/ Stop \/ Start)
  <2>1. runs' = runs /\ run' \in {run, [run EXCEPT !.hash = run.pin \/ env = "whole"]}
    BY <1>5 DEF InstallStep, Backup, Sync, Forget, Save, Build, Unbuild, Restore, Hash, Open,
       WriteSettings, Tools, Migrate, Finish, Trap
  <2> QED
    BY <1>1, <1>3, <2>1 DEF TypeOK
<1>6. CASE AdminStep \/ Disable \/ Remove \/ Quit \/ Kill \/ HostDown
  <2>1. runs' = runs /\ run' \in {run, [run EXCEPT !.copy = "whole"], [run EXCEPT !.copy = env],
                                  [run EXCEPT !.copy = "none"]}
    BY <1>6 DEF AdminStep, Copy, Unlink, Fill, Clean, Restart, Disable, Remove, Quit, Kill,
       HostDown
  <2> QED
    BY <1>1, <1>3, <2>1 DEF TypeOK
<1> QED
  BY <1>1, <1>2, <1>4, <1>5, <1>6 DEF Next

LEMMA TypeInductive == TypeOK /\ [Next]_vars => TypeOK'
<1>0. TypeOK /\ UNCHANGED vars => TypeOK'
  BY DEF TypeOK, vars, host, program, settings, unit, ghosts
<1> SUFFICES ASSUME TypeOK, Next PROVE TypeOK'
  BY <1>0
<1>1. code' \in Versions \cup {"mixed"} /\ schema' \in Versions
  BY DEF TypeOK, Next, InstallStep, AdminStep, Begin, Stop, Backup, Sync, Forget, Save,
     Build, BuildFails, Unbuild, Restore, Hash, Open, WriteSettings, Tools, Migrate, Start, Finish,
     CommandFails, StepRefused, Fails, Trap, Copy, Unlink, Fill, Clean, Restart, Disable, Remove, Quit, Kill,
     HostDown, host, program, Versions
<1>2. venv' \in Versions \cup {"partial"}
  BY DEF TypeOK, Next, InstallStep, AdminStep, Begin, Stop, Backup, Sync, Forget, Save,
     Build, BuildFails, Unbuild, Restore, Hash, Open, WriteSettings, Tools, Migrate, Start, Finish,
     CommandFails, StepRefused, Fails, Trap, Copy, Unlink, Fill, Clean, Restart, Disable, Remove, Quit, Kill,
     HostDown, host, program, Versions
<1>3. saved' \in Versions \cup {"partial"}
  BY DEF TypeOK, Next, InstallStep, AdminStep, Begin, Stop, Backup, Sync, Forget, Save,
     Build, BuildFails, Unbuild, Restore, Hash, Open, WriteSettings, Tools, Migrate, Start, Finish,
     CommandFails, StepRefused, Fails, Trap, Copy, Unlink, Fill, Clean, Restart, Disable, Remove, Quit, Kill,
     HostDown, host, program, Versions
<1>4. /\ env' \in {"none", "cut", "blank", "whole"}
      /\ backups' \subseteq {"cut", "blank", "whole"} /\ strays' \subseteq {"cut", "blank", "whole"}
  BY DEF TypeOK, Next, InstallStep, AdminStep, Begin, Stop, Backup, Sync, Forget, Save,
     Build, BuildFails, Unbuild, Restore, Hash, Open, WriteSettings, Tools, Migrate, Start, Finish,
     CommandFails, StepRefused, Fails, Trap, Copy, Unlink, Fill, Clean, Restart, Disable, Remove, Quit, Kill,
     HostDown, host, settings, Abandoned
<1>5. service' \in BOOLEAN /\ enabled' \in BOOLEAN /\ tools' \in BOOLEAN
  BY DEF TypeOK, Next, InstallStep, AdminStep, Begin, Stop, Backup, Sync, Forget, Save,
     Build, BuildFails, Unbuild, Restore, Hash, Open, WriteSettings, Tools, Migrate, Start, Finish,
     CommandFails, StepRefused, Fails, Trap, Copy, Unlink, Fill, Clean, Restart, Disable, Remove, Quit, Kill,
     HostDown, host, unit, Starts
<1>6. /\ had' \subseteq {"venv", "saved"} /\ fit' \in BOOLEAN /\ stored' \in BOOLEAN
      /\ ended' \in {"never", "well", "badly", "killed"}
  BY DEF TypeOK, Next, InstallStep, AdminStep, Begin, Stop, Backup, Sync, Forget, Save,
     Build, BuildFails, Unbuild, Restore, Hash, Open, WriteSettings, Tools, Migrate, Start,
     Finish, CommandFails, StepRefused, Fails, Trap, Copy, Unlink, Fill, Clean, Restart,
     Disable, Remove, Quit, Kill, HostDown, ghosts
<1>7. pc' \in {"idle", "trap"} \cup Steps \cup AdminSteps
  BY DEF TypeOK, Next, InstallStep, AdminStep, Begin, Stop, Backup, Sync, Forget, Save,
     Build, BuildFails, Unbuild, Restore, Hash, Open, WriteSettings, Tools, Migrate, Start,
     Finish, CommandFails, StepRefused, Fails, Trap, Copy, Unlink, Fill, Clean, Restart,
     Disable, Remove, Quit, Kill, HostDown, Steps, AdminSteps
<1> QED
  BY <1>1, <1>2, <1>3, <1>4, <1>5, <1>6, <1>7, RunTyped DEF TypeOK, Runs

LEMMA InitTyped == Init => TypeOK
<1> SUFFICES ASSUME Init PROVE TypeOK
  OBVIOUS
<1>1. /\ code \in Versions /\ venv \in Versions /\ schema \in Versions /\ saved \in Versions
      /\ env \in {"none", "whole"}
  BY DEF Init, Versions
<1>2. service \in BOOLEAN /\ enabled \in BOOLEAN /\ tools \in BOOLEAN /\ stored \in BOOLEAN
  BY DEF Init
<1>3. run \in Runs
  BY DEF Init, Runs, Modes
<1>4. runs \in 0..MaxRuns
  BY InstallerAssumption DEF Init
<1> QED
  BY <1>1, <1>2, <1>3, <1>4 DEF Init, TypeOK, Runs

(* Every variable keeps its type.                                          *)
THEOREM TypeCorrect == Spec => []TypeOK
BY InitTyped, TypeInductive, PTL DEF Spec

-------------------------------------------------------------------------------
(* Where a run of install.sh stands with the environment set aside, and    *)
(* with what the settings file had in a backup.                            *)
SetAside == {"build", "built", "unbuild", "restore"}
Copied   == SetAside \cup {"sync", "synced", "forget", "save", "drop", "hash", "open"}

(* Where its program is in place, and where its environment is too.        *)
Rebuilt  == {"drop", "hash", "open", "write", "tools", "migrate", "start", "health"}
Replaced == Rebuilt \cup (Swap \ {"synced"})

(* The step that failed is known where the script is on its way out.       *)
FailureHeld ==
    /\ pc \in Steps \ {"unbuild", "restore"} => run.failed = "none"
    /\ pc \in {"unbuild", "restore"} => run.failed \in {"build", "built"}

(* The environment that was in use is in use, or set aside for the way out *)
(* of a failure.                                                           *)
EnvironmentHeld ==
    /\ "venv" \in had => venv \in Complete \/ saved \in Complete
    /\ "venv" \in had /\ pc \in SetAside => saved \in Complete
    /\ "venv" \in had /\ (pc \in (Steps \ SetAside) \cup {"trap"} \/ Over) =>
           run.failed \in {"unbuild", "restore"} \/ venv \in Complete
    /\ pc \in AdminSteps => had = {}

(* A program that could be started when the run began has its unit and its *)
(* settings, and outside the swap its environment, when the run ends.      *)
ServiceHeld ==
    /\ pc \in AdminSteps => ~run.active /\ ~fit
    /\ pc \in {"forget", "save", "build", "built", "drop"} => code = "new"
    /\ fit /\ pc \in Steps \cup {"trap"} => tools /\ env # "none" /\ code # "none"
    /\ fit /\ pc \in Steps \ Swap => code = venv
    /\ fit /\ pc = "trap" => code = venv \/ run.failed \in Swap
    /\ ServiceUpAgain

(* What a script is about to overwrite is in a backup or in its copy.      *)
SettingsHeld ==
    /\ pc \in Copied => env = "none" \/ env \in backups
    /\ pc = "write" => env = "cut"
    /\ pc \notin {"unlink", "fill", "clean"} => run.copy = "none"
    /\ pc = "unlink" => run.copy \in {"whole", env}
    /\ pc = "fill" => env \in {"none", "cut"}
    /\ pc = "clean" => run.copy = env

(* Which versions a run of install.sh has put together by which step; the  *)
(* program is never replaced by an older one.                              *)
VersionsHeld ==
    /\ code = "old" => schema = "old"
    /\ pc \in AdminSteps => run.mode \notin Modes
    /\ pc \in Steps => run.mode \in Modes
    /\ pc \in {"sync", "synced"} \cup Swap \cup {"drop"} => run.mode # "reconfigure"
    /\ pc \in Steps /\ run.mode = "reconfigure" => code # "none"
    /\ pc \in Replaced /\ run.mode # "reconfigure" => code = "new"
    /\ pc \in Rebuilt /\ run.mode # "reconfigure" => venv = "new"
    /\ pc \in {"start", "health"} => code = "mixed" \/ schema = code
    /\ TogetherAgain

(* Each way out of a failing step notes it.                                *)
LEMMA FailureInductive == TypeOK /\ FailureHeld /\ [Next]_vars => FailureHeld'
<1>0. FailureHeld /\ UNCHANGED vars => FailureHeld'
  BY DEF FailureHeld, vars
<1> SUFFICES ASSUME TypeOK, FailureHeld, Next PROVE FailureHeld'
  BY <1>0
<1> USE DEF TypeOK, FailureHeld, Steps, AdminSteps, Modes
<1>1. CASE Begin
  BY <1>1 DEF Begin
<1>2. CASE InstallStep
  BY <1>2 DEF InstallStep, Stop, Backup, Sync, Forget, Save, Build, BuildFails, Unbuild, Restore,
     Hash, Open, WriteSettings, Tools, Migrate, Start, Finish, CommandFails, StepRefused, Fails,
     Trap
<1>3. CASE AdminStep \/ Disable \/ Remove \/ Quit \/ Kill \/ HostDown
  BY <1>3 DEF AdminStep, Copy, Unlink, Fill, Clean, Restart, Disable, Remove, Quit, Kill, HostDown
<1> QED
  BY <1>1, <1>2, <1>3 DEF Next

(* The swap of the environments, step by step.                             *)
LEMMA EnvironmentInductive ==
    TypeOK /\ FailureHeld /\ EnvironmentHeld /\ [Next]_vars => EnvironmentHeld'
<1>0. EnvironmentHeld /\ UNCHANGED vars => EnvironmentHeld'
  BY DEF EnvironmentHeld, Over, vars, host, program, ghosts
<1> SUFFICES ASSUME TypeOK, FailureHeld, EnvironmentHeld, Next PROVE EnvironmentHeld'
  BY <1>0
<1> USE DEF TypeOK, FailureHeld, EnvironmentHeld, SetAside, Steps, AdminSteps, Over, Complete,
   Modes, host, program, ghosts
<1>1. CASE Begin
  BY <1>1 DEF Begin
<1>2. CASE Forget \/ Save
  BY <1>2 DEF Forget, Save
<1>3. CASE Build \/ BuildFails \/ Unbuild \/ Restore
  BY <1>3 DEF Build, BuildFails, Unbuild, Restore
<1>4. CASE Stop \/ Backup \/ Sync
  BY <1>4 DEF Stop, Backup, Sync
<1>5. CASE Hash \/ Open \/ WriteSettings \/ Tools \/ Migrate
  BY <1>5 DEF Hash, Open, WriteSettings, Tools, Migrate
<1>6. CASE Start \/ Finish \/ Trap
  BY <1>6 DEF Start, Fails, Finish, Trap
<1>7. CASE CommandFails
  BY <1>7 DEF CommandFails, Fails
<1>8. CASE StepRefused
  BY <1>8 DEF StepRefused
<1>9. CASE AdminStep \/ Disable \/ Remove \/ Quit
  BY <1>9 DEF AdminStep, Copy, Unlink, Fill, Clean, Restart, Disable, Remove, Quit
<1>10. CASE Kill \/ HostDown
  BY <1>10 DEF Kill, HostDown
<1> QED
  BY <1>1, <1>2, <1>3, <1>4, <1>5, <1>6, <1>7, <1>8, <1>9, <1>10 DEF Next, InstallStep

(* A program with its own environment, its unit and its settings starts.   *)
LEMMA FitStarts ==
    ASSUME TypeOK, tools, env # "none", code # "none", code = venv
    PROVE  Starts = {TRUE}
<1>1. venv \in Complete
  BY DEF TypeOK, Versions, Complete
<1> QED
  BY <1>1 DEF Starts

LEMMA FitBegins == TypeOK /\ Starts = {TRUE} => tools /\ env # "none" /\ code # "none" /\ code = venv
<1> SUFFICES ASSUME TypeOK, Starts = {TRUE}
             PROVE  tools /\ env # "none" /\ code # "none" /\ code = venv
  OBVIOUS
<1>1. {FALSE} # {TRUE} /\ BOOLEAN # {TRUE}
  OBVIOUS
<1>2. tools /\ env # "none" /\ venv \in Complete
  <2>1. ~tools \/ env = "none" \/ venv \notin Complete => Starts = {FALSE}
    BY DEF Starts
  <2> QED
    BY <1>1, <2>1
<1>3. code = venv
  BY <1>1, <1>2 DEF Starts
<1> QED
  BY <1>2, <1>3 DEF Complete

LEMMA ServiceInductive == TypeOK /\ FailureHeld /\ ServiceHeld /\ [Next]_vars => ServiceHeld'
<1>0. ServiceHeld /\ UNCHANGED vars => ServiceHeld'
  BY DEF ServiceHeld, ServiceUpAgain, Over, vars, host, program, settings, unit, ghosts
<1> SUFFICES ASSUME TypeOK, FailureHeld, ServiceHeld, Next PROVE ServiceHeld'
  BY <1>0
<1>1. CASE Begin
  <2>1. pc' # "idle" /\ run'.active = FALSE /\ UNCHANGED host
    BY <1>1 DEF Begin, Modes
  <2>2. pc' \notin AdminSteps => pc' = "stop"
    BY <1>1 DEF Begin, AdminSteps
  <2>3. pc' \in AdminSteps => ~fit'
    BY <1>1 DEF Begin, AdminSteps, Modes
  <2>4. fit' => tools /\ env # "none" /\ code # "none" /\ code = venv
    BY <1>1, FitBegins DEF Begin
  <2> QED
    BY <2>1, <2>2, <2>3, <2>4 DEF ServiceHeld, ServiceUpAgain, Over, AdminSteps, host, program,
       settings, unit
<1> USE DEF TypeOK, FailureHeld, ServiceHeld, ServiceUpAgain, Swap, Steps, AdminSteps, Over,
   Modes, host, program, settings, unit, ghosts
<1>2. CASE Stop \/ Backup
  BY <1>2 DEF Stop, Backup
<1>3. CASE Sync \/ Forget \/ Save
  BY <1>3 DEF Sync, Forget, Save
<1>4. CASE Build \/ BuildFails \/ Unbuild \/ Restore
  BY <1>4 DEF Build, BuildFails, Unbuild, Restore
<1>5. CASE Hash \/ Open \/ WriteSettings \/ Tools \/ Migrate
  BY <1>5 DEF Hash, Open, WriteSettings, Tools, Migrate
<1>6. CASE Start \/ Finish
  BY <1>6 DEF Start, Fails, Finish
<1>7. CASE Trap
  <2>1. fit /\ run.active /\ ~service /\ code = venv => Starts = {TRUE}
    BY <1>7, FitStarts DEF Trap
  <2> QED
    BY <1>7, <2>1 DEF Trap
<1>8. CASE CommandFails
  BY <1>8 DEF CommandFails, Fails
<1>9. CASE StepRefused
  BY <1>9 DEF StepRefused
<1>10. CASE AdminStep \/ Disable \/ Remove \/ Quit
  <2>1. pc \in AdminSteps /\ pc' \in AdminSteps \cup {"idle"} /\ fit' = fit
    BY <1>10 DEF AdminStep, Copy, Unlink, Fill, Clean, Restart, Disable, Remove, Quit
  <2>2. run'.active = run.active
    BY <1>10 DEF AdminStep, Copy, Unlink, Fill, Clean, Restart, Disable, Remove, Quit
  <2> QED
    BY <2>1, <2>2
<1>11. CASE Kill \/ HostDown
  BY <1>11 DEF Kill, HostDown
<1> QED
  BY <1>1, <1>2, <1>3, <1>4, <1>5, <1>6, <1>7, <1>8, <1>9, <1>10, <1>11 DEF Next, InstallStep

LEMMA VersionsInductive == TypeOK /\ VersionsHeld /\ [Next]_vars => VersionsHeld'
<1>0. VersionsHeld /\ UNCHANGED vars => VersionsHeld'
  BY DEF VersionsHeld, TogetherAgain, vars, host, program
<1> SUFFICES ASSUME TypeOK, VersionsHeld, Next PROVE VersionsHeld'
  BY <1>0
<1> USE DEF TypeOK, VersionsHeld, TogetherAgain, Swap, Rebuilt, Replaced, Steps, AdminSteps,
   Modes, host, program
<1>1. CASE Begin
  BY <1>1 DEF Begin, Accepted
<1>2. CASE Stop \/ Backup \/ Sync
  BY <1>2 DEF Stop, Backup, Sync
<1>3. CASE Forget \/ Save
  BY <1>3 DEF Forget, Save
<1>4. CASE Build \/ BuildFails \/ Unbuild \/ Restore
  BY <1>4 DEF Build, BuildFails, Unbuild, Restore
<1>5. CASE Hash \/ Open \/ WriteSettings \/ Tools
  BY <1>5 DEF Hash, Open, WriteSettings, Tools
<1>6. CASE Migrate
  BY <1>6 DEF Migrate, Versions
<1>7. CASE Start \/ Finish \/ Trap
  BY <1>7 DEF Start, Fails, Finish, Trap
<1>8. CASE CommandFails \/ StepRefused
  BY <1>8 DEF CommandFails, StepRefused, Fails
<1>9. CASE AdminStep \/ Disable \/ Remove \/ Quit
  BY <1>9 DEF AdminStep, Copy, Unlink, Fill, Clean, Restart, Disable, Remove, Quit
<1>10. CASE Kill \/ HostDown
  BY <1>10 DEF Kill, HostDown
<1> QED
  BY <1>1, <1>2, <1>3, <1>4, <1>5, <1>6, <1>7, <1>8, <1>9, <1>10 DEF Next, InstallStep

(* Nothing overwrites the settings file before they are copied.            *)
LEMMA SettingsInductive == TypeOK /\ SettingsHeld /\ [Next]_vars => SettingsHeld'
<1>0. SettingsHeld /\ UNCHANGED vars => SettingsHeld'
  BY DEF SettingsHeld, vars, host, settings
<1> SUFFICES ASSUME TypeOK, SettingsHeld, Next PROVE SettingsHeld'
  BY <1>0
<1> USE DEF TypeOK, SettingsHeld, SetAside, Copied, Steps, AdminSteps, Modes, host, settings
<1>1. CASE Begin
  BY <1>1 DEF Begin
<1>2. CASE Stop \/ Backup
  BY <1>2 DEF Stop, Backup
<1>3. CASE Sync \/ Forget \/ Save \/ Build \/ BuildFails \/ Unbuild \/ Restore
  BY <1>3 DEF Sync, Forget, Save, Build, BuildFails, Unbuild, Restore
<1>4. CASE Hash \/ Open \/ WriteSettings \/ Tools \/ Migrate
  BY <1>4 DEF Hash, Open, WriteSettings, Tools, Migrate
<1>5. CASE Start \/ Finish \/ CommandFails \/ StepRefused \/ Trap
  BY <1>5 DEF Start, Finish, CommandFails, StepRefused, Fails, Trap
<1>6. CASE AdminStep
  BY <1>6 DEF AdminStep, Copy, Unlink, Fill, Clean, Restart
<1>7. CASE Disable \/ Remove \/ Quit \/ Kill \/ HostDown
  BY <1>7 DEF Disable, Remove, Quit, Kill, HostDown
<1> QED
  BY <1>1, <1>2, <1>3, <1>4, <1>5, <1>6, <1>7 DEF Next, InstallStep

InstallerInv ==
    TypeOK /\ FailureHeld /\ EnvironmentHeld /\ ServiceHeld /\ VersionsHeld /\ SettingsHeld

LEMMA InstallerInvariant == Spec => []InstallerInv
<1>1. Init => InstallerInv
  <2>1. Init => TypeOK
    BY InitTyped
  <2>2. Init => FailureHeld /\ EnvironmentHeld /\ SettingsHeld
    BY DEF Init, FailureHeld, EnvironmentHeld, SettingsHeld, SetAside, Copied, Steps,
       AdminSteps, Over
  <2>3. Init => ServiceHeld
    BY DEF Init, ServiceHeld, ServiceUpAgain, Steps, AdminSteps, Over
  <2>4. Init => VersionsHeld
    BY DEF Init, VersionsHeld, TogetherAgain, Swap, Rebuilt, Replaced, Steps, AdminSteps
  <2> QED
    BY <2>1, <2>2, <2>3, <2>4 DEF InstallerInv
<1>2. InstallerInv /\ [Next]_vars => InstallerInv'
  BY TypeInductive, FailureInductive, EnvironmentInductive, ServiceInductive, VersionsInductive,
     SettingsInductive DEF InstallerInv
<1> QED
  BY <1>1, <1>2, PTL DEF Spec

(* Wherever a run of install.sh fails or is killed, the steps of the way   *)
(* back included, the host keeps a complete environment in one of the two  *)
(* places; one that ends by itself has it in use, unless the way back      *)
(* failed.                                                                 *)
THEOREM EnvironmentComesBack == Spec => []EnvironmentRestored
<1>1. InstallerInv => EnvironmentRestored
  BY DEF InstallerInv, EnvironmentHeld, EnvironmentRestored
<1> QED
  BY <1>1, InstallerInvariant, PTL

(* A service that the run found running, and that could be started then,   *)
(* is up when the run ends by itself, unless the program was replaced and  *)
(* no environment built for it.                                            *)
THEOREM ServiceComesBack == Spec => []ServiceUpAgain
<1>1. InstallerInv => ServiceUpAgain
  BY DEF InstallerInv, ServiceHeld
<1> QED
  BY <1>1, InstallerInvariant, PTL

(* A run that ends well has the program, its database and its environment  *)
(* of one version, whichever half-done runs came before it.                *)
THEOREM VersionsComeTogether == Spec => []TogetherAgain
<1>1. InstallerInv => TogetherAgain
  BY DEF InstallerInv, VersionsHeld
<1> QED
  BY <1>1, InstallerInvariant, PTL

(* Only a host that goes down loses the PIN: what a step overwrites has been copied.     *)
LEMMA PinSteps == InstallerInv /\ Next /\ PinKept /\ ~PinKept' => HostDown
<1> SUFFICES ASSUME InstallerInv, Next, PinKept, ~HostDown PROVE PinKept'
  OBVIOUS
<1>1. TypeOK /\ SettingsHeld /\ run \in Runs
  BY DEF InstallerInv, TypeOK, Runs
<1>2. CASE Begin
  BY <1>1, <1>2 DEF Begin, SettingsHeld, PinKept, host, settings
<1>3. CASE InstallStep
  <2>1. run'.copy = run.copy
    BY <1>1, <1>3 DEF InstallStep, Stop, Backup, Sync, Forget, Save, Build, BuildFails, Unbuild,
       Restore, Hash, Open, WriteSettings, Tools, Migrate, Start, Finish, CommandFails,
       StepRefused, Fails, Trap, Runs
  <2>2. strays' = strays /\ backups \subseteq backups' /\ (env' = env \/ Open \/ WriteSettings)
    BY <1>3 DEF InstallStep, Stop, Backup, Sync, Forget, Save, Build, BuildFails, Unbuild,
       Restore, Hash, Open, WriteSettings, Tools, Migrate, Start, Finish, CommandFails,
       StepRefused, Trap, host, settings
  <2>3. CASE Open \/ WriteSettings
    BY <1>1, <2>1, <2>2, <2>3 DEF Open, WriteSettings, SettingsHeld, Copied, PinKept
  <2> QED
    BY <2>1, <2>2, <2>3 DEF PinKept
<1>4. CASE AdminStep
  BY <1>1, <1>4 DEF AdminStep, Copy, Unlink, Fill, Clean, Restart, SettingsHeld, PinKept, Runs,
     host, settings
<1>5. CASE Disable \/ Remove
  BY <1>5 DEF Disable, Remove, PinKept, settings
<1>6. CASE Quit \/ Kill
  BY <1>1, <1>6 DEF Quit, Kill, Abandoned, PinKept, Runs
<1> QED
  BY <1>2, <1>3, <1>4, <1>5, <1>6 DEF Next

(* A stored hash outlives every run: it is lost to a host that goes down   *)
(* and to nothing else, and then only where /tmp had the last copy.        *)
THEOREM PinOutlives == Spec => PinRecoverable
<1>1. InstallerInv /\ [Next]_vars =>
        [PinKept /\ ~PinKept' =>
            HostDown /\ "whole" \in Abandoned /\ "whole" \notin backups \cup {env}]_vars
  <2> SUFFICES ASSUME InstallerInv, Next, PinKept, ~PinKept'
               PROVE  HostDown /\ "whole" \in Abandoned /\ "whole" \notin backups \cup {env}
    OBVIOUS
  <2>1. HostDown
    BY PinSteps
  <2>2. backups' = backups /\ env' = env
    BY <2>1 DEF HostDown
  <2> QED
    BY <2>1, <2>2 DEF PinKept, Abandoned
<1> QED
  BY <1>1, InstallerInvariant, PTL DEF Spec, PinRecoverable
================================================================================

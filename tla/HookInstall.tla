-------------------------------- MODULE HookInstall --------------------------------
(***************************************************************************)
(* install-hook and uninstall-hook (__main__.py, hook/install.py,          *)
(* hook/deploy.py) on the files of Reqable, which keeps its configuration  *)
(* in memory while it runs and writes it back on its own schedule.         *)
(*                                                                         *)
(* One step is one file read, written or copied; a command may end between *)
(* any two, by an error or because its process is killed.  A command's     *)
(* steps, in order:                                                        *)
(*   install:   check, saveConfig, saveEnviron, deploy, read, write, environ *)
(*   uninstall: cut, restore                                               *)
(*                                                                         *)
(* A configuration is who has scripts in it, whether scripts are on, and   *)
(* whose directory execHome is; an environment is whose Python it names.   *)
(***************************************************************************)
EXTENDS Naturals, FiniteSets, Sequences

CONSTANTS
  Others,        \* scripts that are not ours
  ForceArgs,         \* the values of --force
  MaxCommands,   \* bound: the commands run
  Hasty,         \* whether a command may begin in the same second as the one before
  MaxEdits       \* bound: what the user changes in Reqable

ASSUME InstallAssumption ==
  /\ "ours" \notin Others /\ IsFiniteSet(Others)
  /\ ForceArgs \subseteq BOOLEAN
  /\ MaxCommands \in Nat /\ Hasty \in BOOLEAN /\ MaxEdits \in Nat

TemplateFiles == <<"main.py", "reqable.py", "addons.py">>

Config == [scripts : SUBSET (Others \cup {"ours"}), on : BOOLEAN, home : {"user", "ours", ""}]

VARIABLES
  config,     \* capture_config
  environ,    \* script_environment: whose it is, and its mtime
  memory,     \* what a running Reqable holds of config; NotRunning
  hook,       \* hook[f]: "none", "old" or "new", the file in ~/.reqable-mcp/hook
  backups,    \* the files in ~/.reqable-mcp/backup
  clock,      \* time.time(), in seconds
  command,    \* the command under way
  commands,   \* the commands begun, for the bound
  edits,      \* the user's changes, for the bound
  (* history *)
  raced,      \* Reqable has run during a command that went on
  theirs,     \* the other scripts, as Reqable last saved them
  replaced    \* the configurations an install has replaced

installVars == <<config, environ, memory, hook, backups, clock, command, commands, edits,
                 raced, theirs, replaced>>

NotRunning == [running |-> FALSE]
Running == memory # NotRunning
NoCommand == [at |-> "none"]

Steps == {"check", "saveConfig", "saveEnviron", "deploy", "write", "environ", "cut", "restore"}

InstallTypeOK ==
  /\ config \in Config
  /\ memory \in Config \cup {NotRunning}
  /\ hook \in [DOMAIN TemplateFiles -> {"none", "old", "new"}]
  /\ command \in {NoCommand} \cup [at : Steps, ts : Nat, read : Config]
  /\ clock \in Nat
  /\ raced \in BOOLEAN
  /\ theirs \subseteq Others

InstallInit ==
  /\ config \in {[scripts |-> s, on |-> on, home |-> "user"] : s \in SUBSET Others, on \in BOOLEAN}
  /\ environ = [of |-> "user", mtime |-> 0]
  /\ memory = NotRunning
  /\ \E version \in {"none", "old"} : hook = [i \in DOMAIN TemplateFiles |-> version]
  /\ backups = {}
  /\ clock = 0
  /\ command = NoCommand
  /\ commands = 0 /\ edits = 0
  /\ raced = FALSE
  /\ theirs = config.scripts
  /\ replaced = {}

reqableVars == <<memory, theirs, edits>>

Goes(from, to) == command.at = from /\ command' = [command EXCEPT !.at = to]

-------------------------------------------------------------------------------
(* install-hook.                                                            *)

\* The second a command begins in.
NextSecond == {clock + 1} \cup (IF Hasty THEN {clock} ELSE {})

\* make_plan names the backups by the second.
Plan ==
  /\ command = NoCommand /\ commands < MaxCommands
  /\ clock' \in NextSecond
  /\ command' = [at |-> "check", ts |-> clock', read |-> config]
  /\ commands' = commands + 1
  /\ UNCHANGED <<config, environ, hook, backups, raced, replaced, reqableVars>>

\* apply_plan refuses beside a running Reqable, unless it is forced.
CheckRunning ==
  /\ command.at = "check"
  /\ \E force \in ForceArgs :
       IF Running /\ ~force THEN command' = NoCommand /\ UNCHANGED raced
       ELSE command' = [command EXCEPT !.at = "saveConfig"] /\ raced' = (raced \/ Running)
  /\ UNCHANGED <<config, environ, hook, backups, clock, commands, replaced, reqableVars>>

\* Mutant of Copied: one backup of a kind is kept, the latest.
CopiedOver(kind, content) ==
  {b \in backups : b.kind # kind} \cup {[kind |-> kind, ts |-> command.ts, content |-> content]}

\* copy2, over a backup of the same second.
Copied(kind, content) ==
  {b \in backups : b.kind # kind \/ b.ts # command.ts} \cup
    {[kind |-> kind, ts |-> command.ts, content |-> content]}

SaveConfig ==
  /\ Goes("saveConfig", "saveEnviron")
  /\ backups' = Copied("config", config)
  /\ UNCHANGED <<config, environ, hook, clock, commands, raced, replaced, reqableVars>>

SaveEnviron ==
  /\ Goes("saveEnviron", "deploy")
  /\ backups' = Copied("environ", environ)
  /\ UNCHANGED <<config, environ, hook, clock, commands, raced, replaced, reqableVars>>

Deployed == \A i \in DOMAIN hook : hook[i] = "new"

\* Mutant of MayEdit: the configuration is edited whether or not the files are there.
MayEditEarly == TRUE

MayEdit == Deployed

\* deploy_to: the next file that is not up to date.
DeployFile ==
  /\ command.at = "deploy"
  /\ \E i \in DOMAIN hook :
       /\ hook[i] # "new" /\ \A j \in 1 .. i - 1 : hook[j] = "new"
       /\ hook' = [hook EXCEPT ![i] = "new"]
  /\ UNCHANGED <<config, environ, backups, clock, command, commands, raced, replaced, reqableVars>>

ReadConfig ==
  /\ command.at = "deploy" /\ MayEdit
  /\ command' = [command EXCEPT !.at = "write", !.read = config]
  /\ UNCHANGED <<config, environ, hook, backups, clock, commands, raced, replaced, reqableVars>>

\* Mutant of WithOurs: ours becomes the only script.
WithOursAlone(c) == [scripts |-> {"ours"}, on |-> TRUE, home |-> "ours"]

\* Our entry replaces one of its id; the others stay.
WithOurs(c) == [scripts |-> c.scripts \cup {"ours"}, on |-> TRUE, home |-> "ours"]

WriteConfig ==
  /\ Goes("write", "environ")
  /\ config' = WithOurs(command.read)
  /\ replaced' = replaced \cup {config}
  /\ UNCHANGED <<environ, hook, backups, clock, commands, raced, reqableVars>>

WriteEnviron ==
  /\ command.at = "environ"
  /\ environ' = [of |-> "ours", mtime |-> clock]
  /\ command' = NoCommand
  /\ UNCHANGED <<config, hook, backups, clock, commands, raced, replaced, reqableVars>>

-------------------------------------------------------------------------------
(* uninstall-hook, which does not look whether Reqable runs.                *)

BeginUninstall ==
  /\ command = NoCommand /\ commands < MaxCommands
  /\ clock' \in NextSecond
  /\ command' = [at |-> "cut", ts |-> clock', read |-> config]
  /\ commands' = commands + 1
  /\ raced' = (raced \/ Running)
  /\ UNCHANGED <<config, environ, hook, backups, replaced, reqableVars>>

\* Scripts go off with the last of them; execHome stays ours while there are others.
WithoutOurs(c) ==
  LET left == c.scripts \ {"ours"} IN
  IF left = {} THEN [scripts |-> {}, on |-> FALSE, home |-> ""] ELSE [c EXCEPT !.scripts = left]

CutEntry ==
  /\ Goes("cut", "restore")
  /\ config' = IF "ours" \in command.read.scripts THEN WithoutOurs(command.read) ELSE config
  /\ UNCHANGED <<environ, hook, backups, clock, commands, raced, replaced, reqableVars>>

\* script_environment from the backup whose mtime, kept by copy2, is the latest: that
\* of the file when it was backed up.
RestoreEnviron ==
  /\ command.at = "restore"
  /\ LET saved == {b.content : b \in {b \in backups : b.kind = "environ"}} IN
       environ' = IF saved = {} THEN environ
                  ELSE CHOOSE e \in saved : \A f \in saved : f.mtime <= e.mtime
  /\ command' = NoCommand
  /\ UNCHANGED <<config, hook, backups, clock, commands, raced, replaced, reqableVars>>

\* A command raises, or is killed.
Die ==
  /\ command # NoCommand
  /\ command' = NoCommand
  /\ UNCHANGED <<config, environ, hook, backups, clock, commands, raced, replaced, reqableVars>>

-------------------------------------------------------------------------------
(* Reqable and its user.                                                    *)

OpenReqable ==
  /\ ~Running
  /\ memory' = config
  /\ raced' = (raced \/ command # NoCommand)
  /\ UNCHANGED <<config, environ, hook, backups, clock, command, commands, replaced, theirs, edits>>

\* A script is added or removed in Reqable, or scripts are turned on or off.
EditInReqable ==
  /\ Running /\ edits < MaxEdits
  /\ edits' = edits + 1
  /\ \/ \E s \in Others :
          memory' = [memory EXCEPT !.scripts = IF s \in @ THEN @ \ {s} ELSE @ \cup {s}]
     \/ memory' = [memory EXCEPT !.on = ~@]
  /\ UNCHANGED <<config, environ, hook, backups, clock, command, commands, raced, theirs, replaced>>

\* Reqable writes its files, and may go on or quit.
SaveReqable ==
  /\ Running
  /\ config' = memory
  /\ theirs' = memory.scripts \ {"ours"}
  /\ memory' \in {memory, NotRunning}
  /\ UNCHANGED <<environ, hook, backups, clock, command, commands, edits, raced, replaced>>

InstallNext ==
  \/ Plan \/ CheckRunning \/ SaveConfig \/ SaveEnviron \/ DeployFile \/ ReadConfig \/ WriteConfig
  \/ WriteEnviron \/ BeginUninstall \/ CutEntry \/ RestoreEnviron \/ Die
  \/ OpenReqable \/ EditInReqable \/ SaveReqable

InstallSpec == InstallInit /\ [][InstallNext]_installVars

-------------------------------------------------------------------------------
\* Reqable is never told of a hook that is not there: whatever was interrupted, and
\* whatever Reqable writes back, an entry of ours in its configuration points to a
\* directory with the three files (install.py:214-229).
HookIsThere ==
  "ours" \in config.scripts \/ (Running /\ "ours" \in memory.scripts) =>
    \A i \in DOMAIN hook : hook[i] # "none"

\* No command, complete or interrupted, adds or loses a script of the user, as long as
\* Reqable was shut while commands went on (install.py:12-15, 224, 248).
OthersSurvive ==
  ~raced => config.scripts \ {"ours"} = theirs

\* What an install replaced can be had back from a backup, also after further installs
\* and interrupted ones: "the backup IS the rollback" (tests/test_hook_install.py:175).
ReplacedIsBackedUp ==
  ~raced => \A c \in replaced : \E b \in backups : b.kind = "config" /\ b.content = c

===============================================================================

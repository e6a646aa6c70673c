--------------------------- MODULE HookInstall_proofs ---------------------------
(***************************************************************************)
(* Theorems about HookInstall, for any scripts of the user's, any number   *)
(* of commands and edits: the hook Reqable is told of is there, the user's *)
(* scripts survive, and what an install replaced is in a backup.           *)
(***************************************************************************)
EXTENDS HookInstall, TLAPS

LEMMA InitTypes == InstallInit => InstallTypeOK
<1> SUFFICES ASSUME InstallInit PROVE InstallTypeOK
  OBVIOUS
<1>1. config \in Config /\ config.scripts \subseteq Others
  <2>1. PICK s \in SUBSET Others, b \in BOOLEAN :
          config = [scripts |-> s, on |-> b, home |-> "user"]
    BY DEF InstallInit
  <2> QED BY <2>1 DEF Config
<1>2. hook \in [DOMAIN TemplateFiles -> {"none", "old", "new"}]
  BY DEF InstallInit
<1>3. theirs \subseteq Others
  BY <1>1 DEF InstallInit
<1> QED BY <1>1, <1>2, <1>3 DEF InstallInit, InstallTypeOK

\* A command that moves on keeps its type.
LEMMA GoesTypes ==
  ASSUME InstallTypeOK, NEW from \in Steps, NEW to \in Steps, Goes(from, to)
  PROVE  command \in [at : Steps, ts : Nat, read : Config] /\ command' = [command EXCEPT !.at = to]
         /\ command' \in [at : Steps, ts : Nat, read : Config]
<1>1. command # NoCommand
  BY DEF Goes, NoCommand, Steps
<1> QED BY <1>1 DEF Goes, InstallTypeOK

LEMMA EntryTypes ==
  ASSUME NEW c \in Config
  PROVE  /\ WithOurs(c) \in Config /\ WithOurs(c).scripts = c.scripts \cup {"ours"}
         /\ WithoutOurs(c) \in Config /\ WithoutOurs(c).scripts = c.scripts \ {"ours"}
BY DEF Config, WithOurs, WithoutOurs

\* The user's edits leave our entry alone.
LEMMA EditTypes ==
  ASSUME InstallTypeOK, EditInReqable
  PROVE  memory' \in Config /\ ("ours" \in memory'.scripts => "ours" \in memory.scripts)
<1>1. memory \in Config
  BY DEF EditInReqable, Running, InstallTypeOK
<1>2. CASE memory' = [memory EXCEPT !.on = ~@]
  BY <1>1, <1>2 DEF Config
<1>3. ASSUME NEW s \in Others,
             memory' = [memory EXCEPT !.scripts = IF s \in @ THEN @ \ {s} ELSE @ \cup {s}]
      PROVE  memory' \in Config /\ ("ours" \in memory'.scripts => "ours" \in memory.scripts)
  <2>1. memory'.scripts = IF s \in memory.scripts THEN memory.scripts \ {s}
                                                  ELSE memory.scripts \cup {s}
    BY <1>1, <1>3 DEF Config
  <2>2. memory' \in Config
    BY <1>1, <1>3 DEF Config
  <2> QED BY <2>1, <2>2, InstallAssumption
<1> QED BY <1>2, <1>3 DEF EditInReqable

LEMMA StepTypes == InstallTypeOK /\ [InstallNext]_installVars => InstallTypeOK'
<1> SUFFICES ASSUME InstallTypeOK, [InstallNext]_installVars PROVE InstallTypeOK'
  OBVIOUS
<1>1. CASE Plan
  <2>1. clock' \in Nat
    BY <1>1 DEF Plan, NextSecond, InstallTypeOK
  <2> QED BY <1>1, <2>1 DEF Plan, InstallTypeOK, reqableVars, Steps
<1>2. CASE CheckRunning
  <2>1. command \in [at : Steps, ts : Nat, read : Config]
    BY <1>2 DEF CheckRunning, InstallTypeOK, NoCommand
  <2>2. command' = NoCommand \/ command' = [command EXCEPT !.at = "saveConfig"]
    BY <1>2 DEF CheckRunning
  <2>3. [command EXCEPT !.at = "saveConfig"] \in [at : Steps, ts : Nat, read : Config]
    BY <2>1 DEF Steps
  <2>4. raced' = raced \/ raced' = (raced \/ Running)
    BY <1>2 DEF CheckRunning
  <2>5. raced' \in BOOLEAN
    BY <2>4 DEF InstallTypeOK
  <2> QED BY <1>2, <2>2, <2>3, <2>5 DEF CheckRunning, InstallTypeOK, reqableVars
<1>3. CASE SaveConfig
  BY <1>3, GoesTypes DEF SaveConfig, InstallTypeOK, reqableVars, Steps
<1>4. CASE SaveEnviron
  BY <1>4, GoesTypes DEF SaveEnviron, InstallTypeOK, reqableVars, Steps
<1>5. CASE DeployFile
  BY <1>5 DEF DeployFile, InstallTypeOK, reqableVars
<1>6. CASE ReadConfig
  <2>1. command \in [at : Steps, ts : Nat, read : Config]
    BY <1>6 DEF ReadConfig, InstallTypeOK, NoCommand
  <2> QED BY <1>6, <2>1 DEF ReadConfig, InstallTypeOK, reqableVars, Steps
<1>7. CASE WriteConfig
  <2>1. command \in [at : Steps, ts : Nat, read : Config] /\ command' \in [at : Steps, ts : Nat, read : Config]
    BY <1>7, GoesTypes DEF WriteConfig, Steps
  <2> QED BY <1>7, <2>1, EntryTypes DEF WriteConfig, InstallTypeOK, reqableVars
<1>8. CASE WriteEnviron
  BY <1>8 DEF WriteEnviron, InstallTypeOK, reqableVars
<1>9. CASE BeginUninstall
  <2>1. clock' \in Nat
    BY <1>9 DEF BeginUninstall, NextSecond, InstallTypeOK
  <2>2. raced' \in BOOLEAN
    BY <1>9 DEF BeginUninstall, InstallTypeOK, Running
  <2> QED BY <1>9, <2>1, <2>2 DEF BeginUninstall, InstallTypeOK, reqableVars, Steps
<1>10. CASE CutEntry
  <2>1. command \in [at : Steps, ts : Nat, read : Config] /\ command' \in [at : Steps, ts : Nat, read : Config]
    BY <1>10, GoesTypes DEF CutEntry, Steps
  <2> QED BY <1>10, <2>1, EntryTypes DEF CutEntry, InstallTypeOK, reqableVars
<1>11. CASE RestoreEnviron
  BY <1>11 DEF RestoreEnviron, InstallTypeOK, reqableVars
<1>12. CASE Die
  BY <1>12 DEF Die, InstallTypeOK, reqableVars
<1>13. CASE OpenReqable
  <2>1. raced' \in BOOLEAN
    BY <1>13 DEF OpenReqable, InstallTypeOK
  <2> QED BY <1>13, <2>1 DEF OpenReqable, InstallTypeOK
<1>14. CASE EditInReqable
  <2>1. memory' \in Config
    BY <1>14, EditTypes
  <2> QED BY <1>14, <2>1 DEF EditInReqable, InstallTypeOK
<1>15. CASE SaveReqable
  <2>1. memory \in Config
    BY <1>15 DEF SaveReqable, Running, InstallTypeOK
  <2>2. memory.scripts \ {"ours"} \subseteq Others
    BY <2>1 DEF Config
  <2> QED BY <1>15, <2>1, <2>2 DEF SaveReqable, InstallTypeOK
<1>16. CASE UNCHANGED installVars
  BY <1>16 DEF installVars, InstallTypeOK
<1> QED BY <1>1, <1>2, <1>3, <1>4, <1>5, <1>6, <1>7, <1>8, <1>9, <1>10, <1>11, <1>12, <1>13,
           <1>14, <1>15, <1>16 DEF InstallNext

\* The configurations, the hook's files and the command under way keep their types.
THEOREM InstallTypeCorrect == InstallSpec => []InstallTypeOK
BY InitTypes, StepTypes, PTL DEF InstallSpec

-------------------------------------------------------------------------------
(* The hook is there.                                                       *)

\* An entry of ours, in Reqable's file or in its memory, or about to be written,
\* points to files that are there.
EntryHasFiles ==
  "ours" \in config.scripts \/ (Running /\ "ours" \in memory.scripts) \/ command.at = "write" =>
    \A i \in DOMAIN hook : hook[i] # "none"

HookInv == InstallTypeOK /\ EntryHasFiles

LEMMA EntryHasFilesInit == InstallInit => EntryHasFiles
<1> SUFFICES ASSUME InstallInit PROVE EntryHasFiles
  OBVIOUS
<1>1. "ours" \notin config.scripts
  <2>1. PICK s \in SUBSET Others, b \in BOOLEAN :
          config = [scripts |-> s, on |-> b, home |-> "user"]
    BY DEF InstallInit
  <2> QED BY <2>1, InstallAssumption
<1> QED BY <1>1 DEF InstallInit, EntryHasFiles, Running, NoCommand

LEMMA EntryHasFilesStep == HookInv /\ [InstallNext]_installVars => EntryHasFiles'
<1> SUFFICES ASSUME HookInv, [InstallNext]_installVars PROVE EntryHasFiles'
  OBVIOUS
<1> USE DEF HookInv, EntryHasFiles, Running, reqableVars
<1>1. CASE Plan \/ CheckRunning
  <2>1. command'.at # "write"
    <3>1. CASE Plan
      BY <3>1 DEF Plan
    <3>2. CASE CheckRunning
      <4>1. command' = NoCommand \/ command' = [command EXCEPT !.at = "saveConfig"]
        BY <3>2 DEF CheckRunning
      <4>2. command \in [at : Steps, ts : Nat, read : Config]
        BY <3>2 DEF CheckRunning, InstallTypeOK, NoCommand
      <4> QED BY <4>1, <4>2 DEF NoCommand
    <3> QED BY <1>1, <3>1, <3>2
  <2> QED BY <1>1, <2>1 DEF Plan, CheckRunning
<1>2. CASE SaveConfig \/ SaveEnviron
  <2>1. command'.at # "write"
    BY <1>2, GoesTypes DEF SaveConfig, SaveEnviron, Steps
  <2> QED BY <1>2, <2>1 DEF SaveConfig, SaveEnviron
<1>3. CASE DeployFile
  <2>1. \A i \in DOMAIN hook' : hook'[i] = hook[i] \/ hook'[i] = "new"
    BY <1>3 DEF DeployFile, InstallTypeOK
  <2>2. DOMAIN hook' = DOMAIN hook
    BY <1>3 DEF DeployFile, InstallTypeOK
  <2> QED BY <1>3, <2>1, <2>2 DEF DeployFile
<1>4. CASE ReadConfig
  BY <1>4 DEF ReadConfig, MayEdit, Deployed
<1>5. CASE WriteConfig
  BY <1>5 DEF WriteConfig, Goes
<1>6. CASE WriteEnviron \/ RestoreEnviron \/ Die
  BY <1>6 DEF WriteEnviron, RestoreEnviron, Die, NoCommand
<1>7. CASE BeginUninstall
  BY <1>7 DEF BeginUninstall
<1>8. CASE CutEntry
  <2>1. command'.at # "write"
    BY <1>8, GoesTypes DEF CutEntry, Steps
  <2>2. "ours" \notin config'.scripts \/ config' = config
    <3>1. command.read \in Config
      BY <1>8, GoesTypes DEF CutEntry, Steps
    <3> QED BY <1>8, <3>1, EntryTypes DEF CutEntry
  <2> QED BY <1>8, <2>1, <2>2 DEF CutEntry
<1>9. CASE OpenReqable
  BY <1>9 DEF OpenReqable
<1>10. CASE EditInReqable
  <2>1. "ours" \in memory'.scripts => "ours" \in memory.scripts
    BY <1>10, EditTypes
  <2> QED BY <1>10, <2>1 DEF EditInReqable
<1>11. CASE SaveReqable
  BY <1>11 DEF SaveReqable
<1>12. CASE UNCHANGED installVars
  BY <1>12 DEF installVars
<1> QED BY <1>1, <1>2, <1>3, <1>4, <1>5, <1>6, <1>7, <1>8, <1>9, <1>10, <1>11, <1>12
        DEF InstallNext

\* Reqable is never told of a hook that is not there (install.py apply_plan).
THEOREM HookIsThereHolds == InstallSpec => []HookIsThere
<1>1. HookInv => HookIsThere
  BY DEF HookInv, EntryHasFiles, HookIsThere
<1>2. InstallInit => HookInv
  BY InitTypes, EntryHasFilesInit DEF HookInv
<1>3. HookInv /\ [InstallNext]_installVars => HookInv'
  BY StepTypes, EntryHasFilesStep DEF HookInv
<1> QED BY <1>1, <1>2, <1>3, PTL DEF InstallSpec

-------------------------------------------------------------------------------
(* The user's scripts, and the backups, when Reqable is shut while commands *)
(* go on.                                                                   *)

Under == Steps \ {"check"}

\* No Reqable runs beside a command that is past its check, and what the command
\* has read is what is there.
Undisturbed ==
  ~raced =>
    /\ command.at \in Under => ~Running
    /\ command.at \in {"write", "cut"} => command.read = config

LEMMA UndisturbedInit == InstallInit => Undisturbed
BY DEF InstallInit, Undisturbed, NoCommand, Under, Steps

LEMMA UndisturbedStep ==
  InstallTypeOK /\ Undisturbed /\ [InstallNext]_installVars => Undisturbed'
<1> SUFFICES ASSUME InstallTypeOK, Undisturbed, [InstallNext]_installVars PROVE Undisturbed'
  OBVIOUS
<1> USE DEF Undisturbed, Running, reqableVars, Under, Steps
<1>1. CASE Plan
  BY <1>1 DEF Plan
<1>2. CASE CheckRunning
  <2>1. command \in [at : Steps, ts : Nat, read : Config]
    BY <1>2 DEF CheckRunning, InstallTypeOK, NoCommand
  <2>2. \/ command' = NoCommand
        \/ command' = [command EXCEPT !.at = "saveConfig"] /\ (raced' <=> raced \/ Running)
    BY <1>2 DEF CheckRunning
  <2>3. CASE command' = NoCommand
    BY <2>3 DEF NoCommand
  <2>4. CASE command' = [command EXCEPT !.at = "saveConfig"] /\ (raced' <=> raced \/ Running)
    <3>1. command'.at = "saveConfig" /\ memory' = memory
      BY <1>2, <2>1, <2>4 DEF CheckRunning
    <3> QED BY <2>4, <3>1
  <2> QED BY <2>2, <2>3, <2>4
<1>3. CASE SaveConfig
  BY <1>3, GoesTypes DEF SaveConfig, Goes
<1>4. CASE SaveEnviron
  BY <1>4, GoesTypes DEF SaveEnviron, Goes
<1>5. CASE DeployFile
  BY <1>5 DEF DeployFile
<1>6. CASE ReadConfig
  <2>1. command \in [at : Steps, ts : Nat, read : Config]
    BY <1>6 DEF ReadConfig, InstallTypeOK, NoCommand
  <2> QED BY <1>6, <2>1 DEF ReadConfig
<1>7. CASE WriteConfig
  BY <1>7, GoesTypes DEF WriteConfig, Goes
<1>8. CASE WriteEnviron \/ RestoreEnviron \/ Die
  BY <1>8 DEF WriteEnviron, RestoreEnviron, Die, NoCommand
<1>9. CASE BeginUninstall
  <2>1. raced' = (raced \/ Running) /\ memory' = memory /\ config' = config
        /\ command'.read = config
    BY <1>9 DEF BeginUninstall
  <2> QED BY <2>1
<1>10. CASE CutEntry
  BY <1>10, GoesTypes DEF CutEntry, Goes
<1>11. CASE OpenReqable
  <2>1. ~raced' => ~raced /\ command = NoCommand
    BY <1>11 DEF OpenReqable
  <2> QED BY <1>11, <2>1 DEF OpenReqable, NoCommand
<1>12. CASE EditInReqable \/ SaveReqable
  <2>1. ~raced => command.at \notin Under
    BY <1>12 DEF EditInReqable, SaveReqable
  <2> QED BY <1>12, <2>1 DEF EditInReqable, SaveReqable
<1>13. CASE UNCHANGED installVars
  BY <1>13 DEF installVars
<1> QED BY <1>1, <1>2, <1>3, <1>4, <1>5, <1>6, <1>7, <1>8, <1>9, <1>10, <1>11, <1>12, <1>13
        DEF InstallNext

LEMMA UndisturbedHolds == InstallSpec => [](InstallTypeOK /\ Undisturbed)
BY InitTypes, StepTypes, UndisturbedInit, UndisturbedStep, PTL DEF InstallSpec

\* Neither command adds or loses a script of the user's while Reqable is shut.
THEOREM OthersSurviveHolds == InstallSpec => []OthersSurvive
<1>1. InstallInit => OthersSurvive
  <2> SUFFICES ASSUME InstallInit PROVE OthersSurvive
    OBVIOUS
  <2>1. PICK s \in SUBSET Others, b \in BOOLEAN :
          config = [scripts |-> s, on |-> b, home |-> "user"]
    BY DEF InstallInit
  <2> QED BY <2>1, InstallAssumption DEF InstallInit, OthersSurvive
<1>2. InstallTypeOK /\ Undisturbed /\ OthersSurvive /\ [InstallNext]_installVars => OthersSurvive'
  <2> SUFFICES ASSUME InstallTypeOK, Undisturbed, OthersSurvive, [InstallNext]_installVars, ~raced'
               PROVE  config'.scripts \ {"ours"} = theirs'
    BY DEF OthersSurvive
  <2> USE DEF OthersSurvive, reqableVars
  <2>1. CASE WriteConfig
    <3>1. command.at = "write" /\ ~raced /\ command.read = config
      BY <2>1 DEF WriteConfig, Goes, Undisturbed
    <3>2. config'.scripts = config.scripts \cup {"ours"}
      BY <2>1, <3>1, EntryTypes DEF WriteConfig, InstallTypeOK
    <3> QED BY <2>1, <3>1, <3>2 DEF WriteConfig
  <2>2. CASE CutEntry
    <3>1. command.at = "cut" /\ ~raced /\ command.read = config
      BY <2>2 DEF CutEntry, Goes, Undisturbed
    <3>2. config'.scripts \ {"ours"} = config.scripts \ {"ours"}
      BY <2>2, <3>1, EntryTypes DEF CutEntry, InstallTypeOK
    <3> QED BY <2>2, <3>1, <3>2 DEF CutEntry
  <2>3. CASE SaveReqable
    BY <2>3 DEF SaveReqable
  <2>4. ASSUME ~raced, UNCHANGED <<config, theirs>> PROVE config'.scripts \ {"ours"} = theirs'
    BY <2>4
  <2>5. CASE Plan \/ SaveConfig \/ SaveEnviron \/ DeployFile \/ ReadConfig
    BY <2>4, <2>5 DEF Plan, SaveConfig, SaveEnviron, DeployFile, ReadConfig
  <2>6. CASE WriteEnviron \/ RestoreEnviron \/ Die \/ EditInReqable
    BY <2>4, <2>6 DEF WriteEnviron, RestoreEnviron, Die, EditInReqable
  <2>7. CASE CheckRunning \/ BeginUninstall \/ OpenReqable
    <3>1. ~raced
      BY <2>7 DEF CheckRunning, BeginUninstall, OpenReqable
    <3> QED BY <2>4, <2>7, <3>1 DEF CheckRunning, BeginUninstall, OpenReqable
  <2>8. CASE UNCHANGED installVars
    BY <2>4, <2>8 DEF installVars
  <2> QED BY <2>1, <2>2, <2>3, <2>5, <2>6, <2>7, <2>8 DEF InstallNext
<1> QED BY <1>1, <1>2, UndisturbedHolds, PTL DEF InstallSpec

\* A backup names the second it was made in, and each second is one command's.
BackupsArePast ==
  /\ \A b \in backups : b.ts \in Nat /\ b.ts <= clock
  /\ command.at \in {"check", "saveConfig"} => \A b \in backups : b.ts < command.ts
  /\ command.at \in Steps => command.ts = clock

\* What has been replaced, and what is about to be, has its backup.
CurrentIsBackedUp ==
  ~raced /\ command.at \in {"saveEnviron", "deploy", "write"} =>
    \E b \in backups : b.kind = "config" /\ b.content = config

BackupInv == BackupsArePast /\ CurrentIsBackedUp /\ ReplacedIsBackedUp

\* A copy never overwrites a backup of another kind, nor an earlier one.
LEMMA CopiedKeeps ==
  ASSUME NEW kind, NEW content
  PROVE  /\ \A b \in backups : b.kind # kind \/ b.ts # command.ts => b \in Copied(kind, content)
         /\ \E b \in Copied(kind, content) : b.kind = kind /\ b.content = content
         /\ \A b \in Copied(kind, content) : b \in backups \/ b.ts = command.ts
<1> DEFINE copy == [kind |-> kind, ts |-> command.ts, content |-> content]
<1>1. copy.kind = kind /\ copy.content = content /\ copy.ts = command.ts
  OBVIOUS
<1>2. copy \in Copied(kind, content)
  BY DEF Copied
<1>3. \A b \in Copied(kind, content) : b \in backups \/ b = copy
  BY DEF Copied
<1>4. \A b \in backups : b.kind # kind \/ b.ts # command.ts => b \in Copied(kind, content)
  BY DEF Copied
<1> HIDE DEF copy
<1> QED BY <1>1, <1>2, <1>3, <1>4

\* A step that leaves configuration, backups and what was replaced alone.
LEMMA QuietKeepsBackups ==
  ASSUME InstallTypeOK, BackupInv, ~raced' => ~raced, UNCHANGED <<config, backups, replaced, clock>>,
         \/ command' = NoCommand
         \/ /\ command' \in [at : Steps, ts : Nat, read : Config]
            /\ command \in [at : Steps, ts : Nat, read : Config] /\ command'.ts = command.ts
            /\ command'.at \in {"check", "saveConfig"} => command.at \in {"check", "saveConfig"}
            /\ command'.at \in {"saveEnviron", "deploy", "write"} =>
                 command.at \in {"saveEnviron", "deploy", "write"}
  PROVE  BackupInv'
<1> USE DEF BackupInv
<1>1. BackupsArePast'
  BY DEF BackupsArePast, NoCommand, Steps
<1>2. CurrentIsBackedUp'
  BY DEF CurrentIsBackedUp, NoCommand
<1>3. ReplacedIsBackedUp'
  BY DEF ReplacedIsBackedUp
<1> QED BY <1>1, <1>2, <1>3
LEMMA BackupInvInit == InstallInit => BackupInv
BY DEF InstallInit, BackupInv, BackupsArePast, CurrentIsBackedUp, ReplacedIsBackedUp, NoCommand, Steps

LEMMA BackupInvStep ==
  ASSUME Hasty = FALSE, InstallTypeOK, Undisturbed, BackupInv, [InstallNext]_installVars
  PROVE  BackupInv'
<1> USE DEF reqableVars
<1> DEFINE Commands == [at : Steps, ts : Nat, read : Config]
<1>1. CASE Plan \/ BeginUninstall
  <2>1. clock' = clock + 1 /\ clock \in Nat /\ (~raced' => ~raced)
    BY <1>1 DEF Plan, BeginUninstall, NextSecond, InstallTypeOK
  <2>2. UNCHANGED <<config, backups, replaced>>
    BY <1>1 DEF Plan, BeginUninstall
  <2>3. command'.ts = clock' /\ command'.at \in {"check", "cut"}
    BY <1>1 DEF Plan, BeginUninstall
  <2> QED BY <2>1, <2>2, <2>3 DEF BackupInv, BackupsArePast, CurrentIsBackedUp, ReplacedIsBackedUp
<1>2. CASE CheckRunning
  <2>1. command \in Commands /\ command.at = "check"
    BY <1>2 DEF CheckRunning, InstallTypeOK, NoCommand
  <2>2. command' = NoCommand \/ command' = [command EXCEPT !.at = "saveConfig"]
    BY <1>2 DEF CheckRunning
  <2>3. [command EXCEPT !.at = "saveConfig"] \in Commands
        /\ [command EXCEPT !.at = "saveConfig"].ts = command.ts
    BY <2>1 DEF Steps
  <2>4. (~raced' => ~raced) /\ UNCHANGED <<config, backups, replaced, clock>>
    BY <1>2 DEF CheckRunning
  <2> QED BY <2>1, <2>2, <2>3, <2>4, QuietKeepsBackups
<1>3. CASE SaveConfig
  <2>1. /\ command \in Commands /\ command' \in Commands /\ command'.ts = command.ts
        /\ command.at = "saveConfig" /\ command'.at = "saveEnviron"
    BY <1>3, GoesTypes DEF SaveConfig, Goes, Steps
  <2>2. backups' = Copied("config", config) /\ UNCHANGED <<config, clock, raced, replaced>>
    BY <1>3 DEF SaveConfig
  <2>3. \A b \in backups : b.ts # command.ts /\ b \in backups'
    BY <2>1, <2>2, CopiedKeeps DEF BackupInv, BackupsArePast, InstallTypeOK
  <2>4. \E b \in backups' : b.kind = "config" /\ b.content = config
    BY <2>2, CopiedKeeps
  <2>5. BackupsArePast'
    BY <2>1, <2>2, CopiedKeeps DEF BackupInv, BackupsArePast, InstallTypeOK
  <2> QED BY <2>2, <2>3, <2>4, <2>5 DEF BackupInv, CurrentIsBackedUp, ReplacedIsBackedUp
<1>4. CASE SaveEnviron
  <2>1. /\ command \in Commands /\ command' \in Commands /\ command'.ts = command.ts
        /\ command.at = "saveEnviron" /\ command'.at = "deploy"
    BY <1>4, GoesTypes DEF SaveEnviron, Goes, Steps
  <2>2. backups' = Copied("environ", environ) /\ UNCHANGED <<config, clock, raced, replaced>>
    BY <1>4 DEF SaveEnviron
  <2>3. \A b \in backups : b.kind = "config" => b \in backups'
    BY <2>2, CopiedKeeps
  <2>4. BackupsArePast'
    BY <2>1, <2>2, CopiedKeeps DEF BackupInv, BackupsArePast, InstallTypeOK
  <2> QED BY <2>1, <2>2, <2>3, <2>4 DEF BackupInv, CurrentIsBackedUp, ReplacedIsBackedUp
<1>5. CASE ReadConfig
  <2>1. command \in Commands /\ command.at = "deploy"
    BY <1>5 DEF ReadConfig, InstallTypeOK, NoCommand
  <2>2. command' \in Commands /\ command'.ts = command.ts /\ command'.at = "write"
    BY <1>5, <2>1 DEF ReadConfig, InstallTypeOK, Steps
  <2> QED BY <1>5, <2>1, <2>2, QuietKeepsBackups DEF ReadConfig
<1>6. CASE WriteConfig
  <2>1. /\ command \in Commands /\ command' \in Commands /\ command'.ts = command.ts
        /\ command.at = "write" /\ command'.at = "environ"
    BY <1>6, GoesTypes DEF WriteConfig, Goes, Steps
  <2>2. replaced' = replaced \cup {config} /\ UNCHANGED <<backups, clock, raced>>
    BY <1>6 DEF WriteConfig
  <2>3. BackupsArePast' /\ CurrentIsBackedUp'
    BY <2>1, <2>2 DEF BackupInv, BackupsArePast, CurrentIsBackedUp
  <2>4. ReplacedIsBackedUp'
    BY <2>1, <2>2 DEF BackupInv, CurrentIsBackedUp, ReplacedIsBackedUp
  <2> QED BY <2>3, <2>4 DEF BackupInv
<1>7. CASE CutEntry
  <2>1. /\ command \in Commands /\ command' \in Commands /\ command'.ts = command.ts
        /\ command.at = "cut" /\ command'.at = "restore"
    BY <1>7, GoesTypes DEF CutEntry, Goes, Steps
  <2> QED BY <1>7, <2>1
          DEF CutEntry, BackupInv, BackupsArePast, CurrentIsBackedUp, ReplacedIsBackedUp
<1>8. CASE WriteEnviron \/ RestoreEnviron \/ Die
  BY <1>8, QuietKeepsBackups DEF WriteEnviron, RestoreEnviron, Die
<1>9. CASE DeployFile \/ OpenReqable \/ EditInReqable
  <2>1. command' = command /\ (command = NoCommand \/ command \in Commands)
    BY <1>9 DEF DeployFile, OpenReqable, EditInReqable, InstallTypeOK
  <2>2. UNCHANGED <<config, backups, replaced, clock>>
    BY <1>9 DEF DeployFile, OpenReqable, EditInReqable
  <2>3. raced' = raced \/ raced' = (raced \/ command # NoCommand)
    BY <1>9 DEF DeployFile, OpenReqable, EditInReqable
  <2>4. ~raced' => ~raced
    BY <2>3
  <2> QED BY <2>1, <2>2, <2>4, QuietKeepsBackups
<1>10. CASE SaveReqable
  <2>1. ~raced => command.at \notin Under
    BY <1>10 DEF SaveReqable, Undisturbed
  <2> QED BY <1>10, <2>1 DEF SaveReqable, Under, Steps, BackupInv, BackupsArePast,
             CurrentIsBackedUp, ReplacedIsBackedUp
<1>11. CASE UNCHANGED installVars
  BY <1>11 DEF installVars, BackupInv, BackupsArePast, CurrentIsBackedUp, ReplacedIsBackedUp
<1> QED BY <1>1, <1>2, <1>3, <1>4, <1>5, <1>6, <1>7, <1>8, <1>9, <1>10, <1>11 DEF InstallNext

\* What an install replaced is in a backup, through further commands and those that
\* were interrupted, if no two commands begin in the same second.
THEOREM ReplacedIsBackedUpHolds ==
  ASSUME Hasty = FALSE
  PROVE  InstallSpec => []ReplacedIsBackedUp
<1>1. InstallTypeOK /\ Undisturbed /\ BackupInv /\ [InstallNext]_installVars => BackupInv'
  BY BackupInvStep
<1> QED BY <1>1, BackupInvInit, UndisturbedHolds, PTL DEF InstallSpec, BackupInv
================================================================================

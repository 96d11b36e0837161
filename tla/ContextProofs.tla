--------------------------- MODULE ContextProofs ---------------------------
(***************************************************************************)
(* Updater in its two surroundings: under an operator who goes by the exit *)
(* codes (Operator), and next to the flags of bad slots (SlotHealth).      *)
(***************************************************************************)
EXTENDS ExclusiveProofs, Operator, SlotHealth

-----------------------------------------------------------------------------
(* The operator does nothing that Updater does not do.  The handlers he    *)
(* runs are those of Q, where nothing fails: what Q defines without        *)
(* failures is what Updater defines.                                       *)

LEMMA SameStates ==
    /\ Q!Idle = Idle
    /\ Q!Components = Components
    /\ Q!IncompleteUpdate = IncompleteUpdate
    /\ Q!RollbackPending = RollbackPending
    /\ Q!Failed = Failed
    /\ Q!Signals = Signals
    /\ Q!Advanced = Advanced
    /\ \A C : Q!IncompleteFor(C) = IncompleteFor(C)
BY DEF Q!Idle, Idle, Q!Components, Components, Q!IncompleteUpdate, IncompleteUpdate,
   Q!RollbackPending, RollbackPending, Q!Failed, Failed, Q!Signals, Signals,
   Q!Advanced, Advanced, Q!IncompleteFor, IncompleteFor

LEMMA SameCodes ==
    /\ Q!CLI_VALIDATION = CLI_VALIDATION
    /\ Q!COMMIT_STATE = COMMIT_STATE
    /\ Q!FIRMWARE_STATE = FIRMWARE_STATE
    /\ Q!APPLICATION_STATE = APPLICATION_STATE
    /\ Q!FIRMWARE_AND_APPLICATION_STATE = FIRMWARE_AND_APPLICATION_STATE
    /\ Q!UPDATE_ROLLBACK_STATE = UPDATE_ROLLBACK_STATE
    /\ Q!UPDATE_REBOOT_STATE = UPDATE_REBOOT_STATE
    /\ Q!APPLY_UPDATE_STATE = APPLY_UPDATE_STATE
BY DEF Q!CLI_VALIDATION, CLI_VALIDATION, Q!COMMIT_STATE, COMMIT_STATE,
   Q!FIRMWARE_STATE, FIRMWARE_STATE, Q!APPLICATION_STATE, APPLICATION_STATE,
   Q!FIRMWARE_AND_APPLICATION_STATE, FIRMWARE_AND_APPLICATION_STATE,
   Q!UPDATE_ROLLBACK_STATE, UPDATE_ROLLBACK_STATE,
   Q!UPDATE_REBOOT_STATE, UPDATE_REBOOT_STATE,
   Q!APPLY_UPDATE_STATE, APPLY_UPDATE_STATE

LEMMA SameAnswers ==
    /\ \A C : Q!InstalledCode(C) = InstalledCode(C)
    /\ \A s, r : Q!ReportedCode(s, r) = ReportedCode(s, r)
BY SameStates, SameCodes DEF Q!InstalledCode, InstalledCode, Q!ReportedCode, ReportedCode

LEMMA SameParts ==
    ASSUME NEW s
    PROVE  Q!Parts(s) = Parts(s)
BY SameStates DEF Q!Parts, Parts, Q!About, About

LEMMA SameSelection ==
    ASSUME NEW c
    PROVE  Q!SelectOther(c) <=> SelectOther(c)
<1>1. \A C : Q!RollbackFor(C) = RollbackFor(C)
  BY SameStates DEF Q!RollbackFor, RollbackFor
<1>2. \A s : Q!RolledBack(c, s) = RolledBack(c, s)
  BY <1>1, SameParts, SameStates DEF Q!RolledBack, RolledBack
<1> QED
  BY <1>2 DEF Q!SelectOther, SelectOther

LEMMA SameControl ==
    ASSUME NEW p, NEW x
    PROVE  /\ Q!Goto(p, x) <=> Goto(p, x)
           /\ Q!Remember(p, x) <=> Remember(p, x)
           /\ Q!Exit(p, x) <=> Exit(p, x)
BY SameStates DEF Q!Goto, Goto, Q!Remember, Remember, Q!Exit, Exit, Q!NoExit, NoExit

LEMMA QuietHandler ==
    ASSUME NEW p \in Procs, Q!Handler(p)
    PROVE  Handler(p)
<1> USE SameStates, SameCodes, SameControl
<1>1. Q!UpdateFile(p) => UpdateFile(p)
  BY DEF Q!UpdateFile, UpdateFile, Q!device, device, Q!workdir, workdir
<1>2. Q!Automatic(p) => Automatic(p)
  BY DEF Q!Automatic, Automatic, Q!device, device, Q!workdir, workdir
<1>3. Q!InstallStarts(p) => InstallStarts(p)
  BY DEF Q!InstallStarts, InstallStarts, Q!device, device
<1>4. /\ Q!InstallSelects(p) => InstallSelects(p)
      /\ Q!InstallSelectsRest(p) => InstallSelectsRest(p)
  BY SameParts DEF Q!InstallSelects, InstallSelects, Q!InstallSelectsRest, InstallSelectsRest,
     Q!Select, Select, Q!NoExit, NoExit, Q!workdir, workdir
<1>4a. Q!InstallSignals(p) => InstallSignals(p)
  BY SameAnswers, SameParts DEF Q!InstallSignals, InstallSignals, Q!device, device
<1>5. Q!CommitSucceeds(p) => CommitSucceeds(p)
  BY DEF Q!CommitSucceeds, CommitSucceeds, Q!workdir, workdir
<1>6. Q!CommitDeclined(p) => CommitDeclined(p)
  BY DEF Q!CommitDeclined, CommitDeclined, Q!device, device, Q!workdir, workdir
<1>7. Q!RollbackRead(p) => RollbackRead(p)
  BY DEF Q!RollbackRead, RollbackRead, Q!device, device, Q!workdir, workdir
<1>8. Q!RollbackWorkDir(p) => RollbackWorkDir(p)
  BY DEF Q!RollbackWorkDir, RollbackWorkDir, Q!device, device
<1>9. Q!SwitchRead(p) => SwitchRead(p)
  BY DEF Q!SwitchRead, SwitchRead, Q!device, device, Q!workdir, workdir
<1>10. Q!SwitchWorkDir(p) => SwitchWorkDir(p)
  BY DEF Q!SwitchWorkDir, SwitchWorkDir, Q!device, device
<1>11. Q!RollbackApplication(p) => RollbackApplication(p)
  BY SameSelection DEF Q!RollbackApplication, RollbackApplication, Q!workdir, workdir
<1>12. Q!RollbackFirmware(p) => RollbackFirmware(p)
  BY SameSelection DEF Q!RollbackFirmware, RollbackFirmware, Q!workdir, workdir
<1>13. Q!RollbackMarker(p) => RollbackMarker(p)
  BY DEF Q!RollbackMarker, RollbackMarker, Q!device, device
<1>14. /\ Q!PrintState(p) => PrintState(p)
       /\ Q!PrintRebooted(p) => PrintRebooted(p)
  BY SameAnswers DEF Q!PrintState, PrintState, Q!PrintRebooted, PrintRebooted,
     Q!AsksForReboot, AsksForReboot, Q!device, device, Q!workdir, workdir
<1>15. Q!ApplyCheckInstalled(p) => ApplyCheckInstalled(p)
  BY DEF Q!ApplyCheckInstalled, ApplyCheckInstalled, Q!device, device, Q!workdir, workdir
<1>16. Q!ApplyMode(p) => ApplyMode(p)
  BY DEF Q!ApplyMode, ApplyMode, Q!device, device, Q!workdir, workdir
<1>17. Q!ApplyMarker(p) => ApplyMarker(p)
  BY DEF Q!ApplyMarker, ApplyMarker, Q!device, device
<1>18. Q!ApplyCheckRollback(p) => ApplyCheckRollback(p)
  BY DEF Q!ApplyCheckRollback, ApplyCheckRollback, Q!device, device, Q!workdir, workdir
<1>19. Q!ApplyRead(p) => ApplyRead(p)
  BY DEF Q!ApplyRead, ApplyRead, Q!device, device, Q!workdir, workdir
<1>20. Q!ApplyAdvance(p) => ApplyAdvance(p)
  BY DEF Q!ApplyAdvance, ApplyAdvance, Q!workdir, workdir
<1>21. Q!Reboot(p) => Reboot(p)
  BY DEF Q!Reboot, Reboot, Q!device, device, Q!workdir, workdir
<1>22. Q!ApplyRestore(p) => ApplyRestore(p)
  BY DEF Q!ApplyRestore, ApplyRestore, Q!REBOOT_FAILED, REBOOT_FAILED, Q!workdir, workdir
\* What fails does not occur.
<1>23. ~ \/ Q!InstallFails(p) \/ Q!RollbackThrows(p) \/ Q!WorkDirThrows(p)
         \/ Q!EnvThrows(p) \/ Q!ApplyWriteThrows(p)
  BY DEF Q!InstallFails, Q!RollbackThrows, Q!WorkDirThrows, Q!EnvThrows,
     Q!ApplyWriteThrows
<1> QED
  BY <1>1, <1>2, <1>3, <1>4, <1>4a, <1>5, <1>6, <1>7, <1>8, <1>9, <1>10, <1>11, <1>12,
     <1>13, <1>14, <1>15, <1>16, <1>17, <1>18, <1>19, <1>20, <1>21, <1>22, <1>23
     DEF Q!Handler, Handler

\* A reboot by hand is one of the power cycles of Updater.
LEMMA OperatorStep ==
    ASSUME "power" \in Faults, [OpNext]_opVars
    PROVE  [Next]_vars
<1>1. CASE Storm
  BY <1>1 DEF Storm
<1>2. CASE CalmDown \/ UNCHANGED opVars
  BY <1>2 DEF CalmDown, opVars
<1>3. ASSUME NEW p \in Procs, Issue(p)
      PROVE  Next
  BY <1>3 DEF Issue, Next
<1>4. ASSUME NEW p \in Procs, Proceed(p)
      PROVE  Next
  BY <1>4, QuietHandler DEF Proceed, Next
<1>5. CASE ComesUp \/ RebootByHand
  BY <1>5 DEF ComesUp, RebootByHand, PowerCycle, Next
<1>6. CASE AgentReboots \/ AgentGoesOn
  BY <1>6 DEF AgentReboots, AgentGoesOn, Agent, Next
<1> QED
  BY <1>1, <1>2, <1>3, <1>4, <1>5, <1>6 DEF OpNext

(***************************************************************************)
(* An operator who goes by the exit codes, and reboots by hand where they  *)
(* say so, is a user of Updater like any other: what is proved of Spec     *)
(* holds for his device.                                                   *)
(***************************************************************************)
THEOREM OperatorIsAUser ==
    ASSUME "power" \in Faults
    PROVE  OpSpec => Spec
<1>1. OpInit => Init
  BY DEF OpInit
<1>2. [OpNext]_opVars => [Next]_vars
  BY OperatorStep
<1> QED
  BY <1>1, <1>2, PTL DEF OpSpec, Spec

(***************************************************************************)
(* The device such an operator works on goes along the lifecycle, with     *)
(* rollbacks that are complete, and what was committed is not undone.      *)
(***************************************************************************)
THEOREM OperatorKeepsLifecycle ==
    ASSUME Exclusive, "power" \in Faults
    PROVE  OpSpec => /\ LifecycleSpec
                     /\ CommitIsFinal
                     /\ [](TypeOK /\ PreparedInFull)
BY OperatorIsAUser, ImplementsLifecycle, CommitsAreFinalExclusive, TypeCorrect,
   RollbacksAreComplete, PTL

-----------------------------------------------------------------------------
(* Next to the flags of bad slots.  A command about the flags leaves       *)
(* everything Updater knows of alone, and a rejected target ends a handler *)
(* before its call of the library has changed anything.                    *)

\* All of Updater but the answer to the caller.
Aside == /\ UNCHANGED <<device, workdir, power, pc, cmd, seen>>
         /\ exit' = NoExit

\* A step of SlotHealth is one of Updater, one aside, or a rejected target.
LEMMA HealthSteps ==
    ASSUME [HealthNext]_healthVars
    PROVE  \/ [Next]_vars
           \/ Aside
           \/ \E p \in Procs : TargetIsBad(p)
<1>1. ASSUME NEW p \in Procs, Flags(p)
      PROVE  Aside
  BY <1>1 DEF Flags, Aside
<1>2. ASSUME NEW p \in Procs, Works(p)
      PROVE  Next
  BY <1>2 DEF Works, Next
<1>3. CASE BootsUp \/ AgentWorks
  BY <1>3 DEF BootsUp, AgentWorks, Next
<1>4. CASE UNCHANGED healthVars
  BY <1>4 DEF healthVars
<1> QED
  BY <1>1, <1>2, <1>3, <1>4 DEF HealthNext

LEMMA AsideKeeps ==
    ASSUME ExclusiveInv, Aside
    PROVE  ExclusiveInv'
<1> USE DEF ExclusiveInv, TypeInv
<1>1. UNCHANGED <<rebootState, rebooted, flip, files, owed, power, pc, cmd, seen>>
  BY DEF Aside, device, workdir
<1>2. DeviceTypeOK' /\ ProcInv'
  BY QuietType, BystanderType DEF Aside
<1>3. OneAtATime' /\ AllKnow'
  BY <1>1 DEF OneAtATime, AllKnow, Knows, SwitchOr, Halfway, PartlyInstalled
<1> QED
  BY <1>2, <1>3

\* What the caller of a rejected rollback or switch gets.
LEMMA RejectedExit ==
    ASSUME NEW p \in Procs, TargetIsBad(p)
    PROVE  /\ pc[p] \in Selecting
           /\ UNCHANGED <<device, workdir, power>>
           /\ \E code \in {13, 54} : /\ Exit(p, code)
                                     /\ code = 54 => cmd[p] # "rollback_update"
BY DEF TargetIsBad, UPDATE_ROLLBACK_STATE, SETGET_UPDATE_STATE

LEMMA RejectedKeeps ==
    ASSUME ExclusiveInv, NEW p \in Procs, TargetIsBad(p)
    PROVE  ExclusiveInv'
<1> USE DEF ExclusiveInv, TypeInv, ProcInv
<1>1. UNCHANGED <<device, workdir, power>> /\ pc[p] # "idle"
  BY RejectedExit DEF Selecting
<1>2. PICK code \in 0..124 : Exit(p, code)
  BY RejectedExit
<1>3. DeviceTypeOK' /\ ProcInv'
  BY <1>1, <1>2, QuietType, ExitType
<1>4. OneAtATime' /\ AllKnow'
  BY <1>1, <1>2, ExitKnows
<1> QED
  BY <1>3, <1>4

LEMMA HealthStep ==
    ASSUME Exclusive, ExclusiveInv, [HealthNext]_healthVars
    PROVE  ExclusiveInv'
BY HealthSteps, ExclusiveStep, AsideKeeps, RejectedKeeps

LEMMA HealthAlways ==
    ASSUME Exclusive
    PROVE  HealthSpec => []ExclusiveInv
<1>1. HealthInit => ExclusiveInv
  BY ExclusiveInit DEF HealthInit
<1>2. ExclusiveInv /\ [HealthNext]_healthVars => ExclusiveInv'
  BY HealthStep
<1> QED
  BY <1>1, <1>2, PTL DEF HealthSpec

(***************************************************************************)
(* Flags and rejected switches take the device nowhere: it still goes      *)
(* along the lifecycle.                                                    *)
(***************************************************************************)
THEOREM FlagsKeepLifecycle ==
    ASSUME Exclusive
    PROVE  HealthSpec => LifecycleSpec
<1>1. HealthInit => L!Init
  BY NoParts DEF HealthInit, Init, L!Init, Phase, Rest
<1>2. ASSUME ExclusiveInv, [HealthNext]_healthVars
      PROVE  [L!Next]_L!vars
  <2>1. ASSUME NEW p \in Procs, TargetIsBad(p)
        PROVE  [L!Next]_L!vars
    <3>1. pc[p] # "idle" /\ UNCHANGED device
      BY <2>1, RejectedExit DEF Selecting
    <3>2. Rest' = {}
      BY <1>2, <2>1, <3>1, RejectedExit, RestAfterExit DEF ExclusiveInv, TypeInv, ProcInv
    <3> QED
      BY <3>1, <3>2, QuietStutters DEF device
  <2>2. CASE Aside
    <3>1. Rest' = Rest
      BY <2>2 DEF Aside, Rest, device
    <3> QED
      BY <2>2, <3>1, QuietStutters DEF Aside, device
  <2> QED
    BY <1>2, <2>1, <2>2, HealthSteps, LifecycleStep
<1> QED
  BY <1>1, <1>2, HealthAlways, PTL DEF HealthSpec, LifecycleSpec, L!Spec

LEMMA RejectedClaim ==
    ASSUME ExclusiveInv, ClaimInv, NEW p \in Procs, TargetIsBad(p)
    PROVE  ClaimInv'
<1> USE DEF ExclusiveInv, TypeInv, ProcInv
<1>1. UNCHANGED <<device, power>> /\ pc[p] \notin Applying \cup {"idle"}
  BY RejectedExit DEF Selecting, Applying
<1>2. Settled
  BY <1>1, OneElsewhere, IsSettled
<1>3. Settled'
  BY <1>1, <1>2 DEF Settled, Happens, device
<1>4. \E code : Exit(p, code)
  BY RejectedExit
<1> QED
  BY <1>1, <1>3, <1>4, ExitClaim

(***************************************************************************)
(* Next to the flags too, a rollback that is reported as done has happened *)
(* or is about to.                                                         *)
(***************************************************************************)
THEOREM FlagsKeepClaims ==
    ASSUME Exclusive, Undisturbed
    PROVE  HealthSpec => []RollbackClaimIsTrue
<1>1. HealthInit => ClaimInv
  BY DEF HealthInit, Init, ClaimInv, RollbackClaimIsTrue, Happens, Applying
<1>2. ASSUME ExclusiveInv, ClaimInv, [HealthNext]_healthVars
      PROVE  ClaimInv'
  <2>1. CASE Aside
    BY <1>2, <2>1 DEF Aside, ClaimInv, RollbackClaimIsTrue, Happens, Applying, device
  <2> QED
    BY <1>2, <2>1, HealthSteps, ClaimStep, RejectedClaim
<1>3. ClaimInv => RollbackClaimIsTrue
  BY DEF ClaimInv
<1> QED
  BY <1>1, <1>2, <1>3, HealthAlways, PTL DEF HealthSpec

-----------------------------------------------------------------------------
(* The rejected switch.  54 answers every EPERM and ECANCELED a switch     *)
(* meets, whatever the call had done by then, so neither the library nor   *)
(* the environment may fail otherwise.                                     *)

Reliable == Faults \cap {"lib", "env"} = {}

\* Only what is pending selects slots that do not run yet.
SlotInv ==
    /\ rebooted => flip = {}
    /\ rebootState = Idle => rebooted

LEMMA SelectOtherSlots ==
    ASSUME NEW c \in Components, SelectOther(c)
    PROVE  SlotInv'
BY RolledBackType, NotIdle DEF SelectOther, SlotInv

LEMMA SlotStep ==
    ASSUME ExclusiveInv, SlotInv, [Next]_vars
    PROVE  SlotInv'
<1>1. ASSUME NEW p \in Procs, InstallSelects(p) \/ InstallSelectsRest(p)
      PROVE  SlotInv'
  BY <1>1, IncompleteForType, NotIdle DEF InstallSelects, InstallSelectsRest, Select, SlotInv
<1>2. ASSUME NEW p \in Procs, InstallFails(p)
      PROVE  SlotInv'
  BY <1>2 DEF InstallFails, SlotInv, Idle
<1>3. ASSUME NEW p \in Procs, CommitSucceeds(p)
      PROVE  SlotInv'
  BY <1>3 DEF CommitSucceeds, SlotInv
<1>4. ASSUME NEW p \in Procs,
             RollbackApplication(p) \/ RollbackFirmware(p) \/ RollbackThrows(p)
      PROVE  SlotInv'
  BY <1>4, SelectOtherSlots DEF RollbackApplication, RollbackFirmware, RollbackThrows,
     Components, device, SlotInv
<1>5. ASSUME NEW p \in Procs, ApplyAdvance(p)
      PROVE  SlotInv'
  <2>1. seen[p] \in RollbackPending
    BY <1>5 DEF ApplyAdvance, ExclusiveInv, TypeInv, ProcInv, AdvanceOK
  <2> QED
    BY <1>5, <2>1, AdvancedType, NotIdle DEF ApplyAdvance, SlotInv
<1>6. ASSUME NEW p \in Procs, ApplyRestore(p)
      PROVE  SlotInv'
  <2>1. rebootState' = Idle => rebootState = Idle
    BY <1>6, NotIdle DEF ApplyRestore, ExclusiveInv, AllKnow, Knows
  <2> QED
    BY <1>6, <2>1 DEF ApplyRestore, SlotInv
<1>7. ASSUME Boot
      PROVE  SlotInv'
  BY <1>7 DEF Boot, SlotInv
<1>8. ASSUME NEW p \in Procs,
             \/ Start(p) \/ Kill(p) \/ UpdateFile(p) \/ Automatic(p)
             \/ InstallStarts(p) \/ CommitDeclined(p) \/ RollbackRead(p)
             \/ RollbackWorkDir(p) \/ SwitchRead(p) \/ SwitchWorkDir(p)
             \/ RollbackMarker(p) \/ WorkDirThrows(p) \/ EnvThrows(p)
             \/ InstallSignals(p) \/ PrintState(p) \/ PrintRebooted(p)
             \/ ApplyCheckInstalled(p) \/ ApplyMode(p) \/ ApplyMarker(p) \/ ApplyCheckRollback(p)
             \/ ApplyRead(p) \/ Reboot(p) \/ ApplyWriteThrows(p)
      PROVE  SlotInv'
  <2>1. UNCHANGED device
    BY <1>8 DEF Start, Kill, UpdateFile, Automatic, InstallStarts, CommitDeclined,
       RollbackRead, RollbackWorkDir, SwitchRead, SwitchWorkDir, RollbackMarker,
       WorkDirThrows, EnvThrows, InstallSignals, PrintState, PrintRebooted,
       ApplyCheckInstalled, ApplyMode, ApplyMarker, ApplyCheckRollback, ApplyRead, Reboot,
       ApplyWriteThrows
  <2> QED
    BY <2>1 DEF device, SlotInv
<1>9. ASSUME Agent \/ UNCHANGED vars
      PROVE  SlotInv'
  BY <1>9 DEF Agent, AgentDownload, DownloadRequested, AgentMarksInstalled,
     AgentApplies, vars, device, SlotInv
<1> QED
  BY <1>1, <1>2, <1>3, <1>4, <1>5, <1>6, <1>7, <1>8, <1>9
     DEF Next, Handler, FinishReboot, PowerCycle

\* No report of a state is the code of a rejected target.
LEMMA ReportsNoBadSlot ==
    ASSUME NEW s \in BootStates, NEW r
    PROVE  ReportedCode(s, r) # 54
<1>1. \A t \in BootStates : UPDATE_REBOOT_STATE[t] # 54
  BY DEF UPDATE_REBOOT_STATE, BootStates, Idle, Failed, IncompleteUpdate,
         RollbackPending, IncompleteRollback
<1>2. s \in RollbackPending => Advanced[s] \in BootStates
  BY AdvancedType DEF BootStates
<1>3. UPDATE_REBOOT_STATE.UPDATE_REBOOT_PENDING # 54
  BY DEF UPDATE_REBOOT_STATE
<1> QED
  BY <1>1, <1>2, <1>3 DEF ReportedCode

\* No handler answers 54 as long as nothing throws.
LEMMA AnswersNoBadSlot ==
    ASSUME Reliable, TypeInv, Next
    PROVE  exit'.code # 54
<1>1. ASSUME NEW p \in Procs, NEW code, Exit(p, code), code # 54
      PROVE  exit'.code # 54
  BY <1>1 DEF Exit
<1>2. ASSUME exit' = NoExit
      PROVE  exit'.code # 54
  BY <1>2 DEF NoExit
<1>3. ASSUME NEW p \in Procs, NEW label, Goto(p, label) \/ Remember(p, label)
      PROVE  exit'.code # 54
  BY <1>2, <1>3 DEF Goto, Remember
<1>4. ASSUME NEW p \in Procs,
             Start(p) \/ Kill(p) \/ Agent \/ Boot
      PROVE  exit'.code # 54
  BY <1>2, <1>4 DEF Start, Kill, Agent, AgentDownload, DownloadRequested,
     AgentMarksInstalled, AgentApplies, Boot
<1>5. ASSUME NEW p \in Procs,
             \/ UpdateFile(p) \/ Automatic(p) \/ InstallStarts(p)
             \/ InstallSelects(p) \/ InstallSelectsRest(p) \/ InstallSignals(p)
      PROVE  exit'.code # 54
  <2>1. \A C : InstalledCode(C) # 54
    BY DEF InstalledCode, FIRMWARE_AND_APPLICATION_STATE, FIRMWARE_STATE,
       APPLICATION_STATE
  <2> QED
    BY <1>1, <1>2, <1>3, <1>5, <2>1 DEF UpdateFile, Automatic, InstallStarts,
       InstallSelects, InstallSelectsRest, InstallSignals, CLI_VALIDATION, FIRMWARE_AND_APPLICATION_STATE
<1>6. ASSUME NEW p \in Procs, CommitSucceeds(p) \/ CommitDeclined(p)
      PROVE  exit'.code # 54
  BY <1>1, <1>6 DEF CommitSucceeds, CommitDeclined, COMMIT_STATE
<1>7. ASSUME NEW p \in Procs, PrintState(p) \/ PrintRebooted(p)
      PROVE  exit'.code # 54
  BY <1>1, <1>3, <1>7, ReportsNoBadSlot DEF PrintState, PrintRebooted, TypeInv,
     DeviceTypeOK, ProcInv, ProcTypeOK
<1>8. ASSUME NEW p \in Procs,
             \/ RollbackRead(p) \/ RollbackWorkDir(p) \/ SwitchRead(p)
             \/ SwitchWorkDir(p) \/ RollbackApplication(p) \/ RollbackFirmware(p)
             \/ ApplyCheckInstalled(p) \/ ApplyMode(p) \/ ApplyRead(p)
             \/ ApplyAdvance(p)
      PROVE  exit'.code # 54
  BY <1>3, <1>8 DEF RollbackRead, RollbackWorkDir, SwitchRead, SwitchWorkDir,
     RollbackApplication, RollbackFirmware, ApplyCheckInstalled, ApplyMode, ApplyRead,
     ApplyAdvance
<1>9. ASSUME NEW p \in Procs,
             \/ RollbackMarker(p) \/ ApplyMarker(p) \/ ApplyCheckRollback(p)
             \/ Reboot(p) \/ ApplyRestore(p)
      PROVE  exit'.code # 54
  BY <1>1, <1>3, <1>9 DEF RollbackMarker, ApplyMarker, ApplyCheckRollback, Reboot,
     ApplyRestore, UPDATE_ROLLBACK_STATE, APPLY_UPDATE_STATE, REBOOT_FAILED
<1>10. ASSUME NEW p \in Procs,
              \/ InstallFails(p) \/ RollbackThrows(p) \/ WorkDirThrows(p)
              \/ EnvThrows(p) \/ ApplyWriteThrows(p)
       PROVE  FALSE
  BY <1>10 DEF InstallFails, RollbackThrows, WorkDirThrows, EnvThrows,
     ApplyWriteThrows, Reliable
<1> QED
  BY <1>2, <1>4, <1>5, <1>6, <1>7, <1>8, <1>9, <1>10
     DEF Next, Handler, FinishReboot, PowerCycle, Agent, AgentDownload,
         DownloadRequested, AgentMarksInstalled, AgentApplies, Boot

\* Whoever is about to select a slot has wiped the work directory.
WipedInv == \A p \in Procs : pc[p] \in Selecting => "rollbackUpdate" \notin files

RejectedInv == SlotInv /\ WipedInv /\ RejectedIsNoSwitch

\* A handler that goes on to select keeps the directory wiped.
LEMMA WipedOnly ==
    ASSUME ExclusiveInv, NEW p \in Procs, pc[p] # "idle",
           \A q \in Procs \ {p} : pc'[q] = pc[q],
           pc'[p] \in Selecting => "rollbackUpdate" \notin files'
    PROVE  WipedInv'
BY DEF WipedInv, ExclusiveInv, OneAtATime, Selecting

LEMMA WipedStep ==
    ASSUME ExclusiveInv, WipedInv, [Next]_vars
    PROVE  WipedInv'
<1> USE DEF ExclusiveInv, TypeInv, ProcInv, ProcTypeOK
<1>1. ASSUME NEW p \in Procs, NEW code, pc[p] # "idle", Exit(p, code)
      PROVE  WipedInv'
  BY <1>1, WipedOnly DEF Exit, Selecting
<1>2. ASSUME NEW p \in Procs, NEW label, label \notin Selecting, pc[p] # "idle",
             Goto(p, label) \/ Remember(p, label)
      PROVE  WipedInv'
  BY <1>2, WipedOnly DEF Goto, Remember
<1>3. ASSUME NEW p \in Procs, NEW label, pc[p] # "idle", Goto(p, label),
             "rollbackUpdate" \notin files'
      PROVE  WipedInv'
  BY <1>3, WipedOnly DEF Goto
<1>4. ASSUME NEW p \in Procs, Start(p)
      PROVE  WipedInv'
  <2>1. PICK c \in AllCommands : pc' = [pc EXCEPT ![p] = c] /\ UNCHANGED files
    BY <1>4, ConstantsAssumption DEF Start, workdir
  <2>2. c \notin Selecting
    BY DEF AllCommands, Selecting
  <2> QED
    BY <2>1, <2>2 DEF WipedInv
<1>5. ASSUME NEW p \in Procs, Kill(p)
      PROVE  WipedInv'
  BY <1>5, WipedOnly DEF Kill, Selecting
<1>6. ASSUME Boot
      PROVE  WipedInv'
  BY <1>6 DEF Boot, WipedInv, Selecting
<1>7. ASSUME Agent \/ UNCHANGED vars
      PROVE  WipedInv'
  BY <1>7 DEF Agent, AgentDownload, DownloadRequested, AgentMarksInstalled,
     AgentApplies, vars, workdir, WipedInv
<1>8. ASSUME NEW p \in Procs, RollbackWorkDir(p) \/ SwitchWorkDir(p)
      PROVE  WipedInv'
  BY <1>8, <1>3 DEF RollbackWorkDir, SwitchWorkDir, Signals
<1>9. ASSUME NEW p \in Procs, RollbackApplication(p) \/ RollbackFirmware(p)
      PROVE  WipedInv'
  <2>1. "rollbackUpdate" \notin files' /\ pc[p] # "idle"
    BY <1>9 DEF RollbackApplication, RollbackFirmware, workdir, WipedInv, Selecting
  <2> QED
    BY <1>9, <2>1, <1>3 DEF RollbackApplication, RollbackFirmware
<1>10. ASSUME NEW p \in Procs,
              \/ InstallFails(p) \/ CommitSucceeds(p) \/ CommitDeclined(p)
              \/ InstallSignals(p) \/ RollbackMarker(p) \/ PrintRebooted(p)
              \/ ApplyMarker(p) \/ ApplyRestore(p)
       PROVE  WipedInv'
  BY <1>10, <1>1 DEF InstallFails, CommitSucceeds, CommitDeclined, InstallSignals,
     RollbackMarker, PrintRebooted, ApplyMarker, ApplyRestore
<1>11. ASSUME NEW p \in Procs,
              \/ RollbackThrows(p) \/ WorkDirThrows(p) \/ EnvThrows(p)
              \/ ApplyWriteThrows(p)
       PROVE  WipedInv'
  BY <1>11, <1>1 DEF RollbackThrows, WorkDirThrows, EnvThrows, ApplyWriteThrows,
     Caught, EnvReads, AllCommands
<1>12. ASSUME NEW p \in Procs,
              \/ UpdateFile(p) \/ Automatic(p) \/ InstallStarts(p)
              \/ InstallSelectsRest(p) \/ RollbackRead(p) \/ PrintState(p)
              \/ ApplyCheckRollback(p) \/ ApplyAdvance(p) \/ Reboot(p)
       PROVE  WipedInv'
  BY <1>12, <1>1, <1>2 DEF UpdateFile, Automatic, InstallStarts, InstallSelectsRest,
     RollbackRead, PrintState, ApplyCheckRollback, ApplyAdvance, Reboot, Selecting
<1>13. ASSUME NEW p \in Procs,
              \/ SwitchRead(p) \/ ApplyCheckInstalled(p) \/ ApplyMode(p)
              \/ ApplyRead(p)
       PROVE  WipedInv'
  BY <1>13, <1>2 DEF SwitchRead, ApplyCheckInstalled, ApplyMode, ApplyRead, Selecting
<1>14. ASSUME NEW p \in Procs, InstallSelects(p)
       PROVE  WipedInv'
  BY <1>14, WipedOnly DEF InstallSelects, Selecting
<1> QED
  BY <1>4, <1>5, <1>6, <1>7, <1>8, <1>9, <1>10, <1>11, <1>12, <1>13, <1>14
     DEF Next, Handler, FinishReboot, PowerCycle

LEMMA RejectedStep ==
    ASSUME Reliable, ExclusiveInv, RejectedInv, [HealthNext]_healthVars
    PROVE  RejectedInv'
<1> USE DEF RejectedInv
<1>0. SETGET_UPDATE_STATE.UPDATE_STATE_BAD = 54
  BY DEF SETGET_UPDATE_STATE
<1>1. CASE Next
  <2>1. RejectedIsNoSwitch'
    BY <1>0, <1>1, AnswersNoBadSlot DEF ExclusiveInv, RejectedIsNoSwitch
  <2> QED
    BY <1>1, <2>1, SlotStep, WipedStep
<1>2. CASE UNCHANGED vars
  BY <1>2 DEF vars, SlotInv, WipedInv, RejectedIsNoSwitch
<1>3. CASE Aside
  <2>1. exit'.code # 54
    BY <1>3 DEF Aside, NoExit
  <2> QED
    BY <1>0, <1>3, <2>1 DEF Aside, device, workdir, SlotInv, WipedInv, RejectedIsNoSwitch
<1>4. ASSUME NEW p \in Procs, TargetIsBad(p)
      PROVE  RejectedInv'
  <2>1. UNCHANGED <<device, workdir>> /\ pc[p] \in Selecting
    BY <1>4, RejectedExit
  <2>2. ASSUME exit'.code = 54
        PROVE  rebootState = Idle
    <3>1. cmd[p] # "rollback_update"
      BY <1>4, <2>2, RejectedExit DEF Exit
    <3> QED
      BY <2>1, <3>1 DEF Selecting, ExclusiveInv, AllKnow, Knows, SwitchOr
  <2>3. (rebootState = Idle => flip = {}) /\ "rollbackUpdate" \notin files
    BY <2>1 DEF SlotInv, WipedInv
  <2>4. WipedInv'
    BY <1>4, <2>1, <2>3 DEF WipedInv, workdir
  <2> QED
    BY <1>0, <2>1, <2>2, <2>3, <2>4 DEF device, workdir, SlotInv, RejectedIsNoSwitch
<1> QED
  BY <1>1, <1>2, <1>3, <1>4, HealthSteps

(***************************************************************************)
(* For any number of processes taking turns, killed or cut off from power  *)
(* at any moment: a switch that is answered with 54 has prepared nothing.  *)
(***************************************************************************)
THEOREM RejectedChangesNothing ==
    ASSUME Exclusive, Reliable
    PROVE  HealthSpec => []RejectedIsNoSwitch
<1>1. ASSUME HealthInit
      PROVE  RejectedInv
  <2>1. exit.code # SETGET_UPDATE_STATE.UPDATE_STATE_BAD
    BY <1>1 DEF HealthInit, Init, NoExit, SETGET_UPDATE_STATE
  <2> QED
    BY <1>1, <2>1 DEF HealthInit, Init, RejectedInv, SlotInv, WipedInv, RejectedIsNoSwitch
<1>2. ExclusiveInv /\ RejectedInv /\ [HealthNext]_healthVars => RejectedInv'
  BY RejectedStep
<1>3. RejectedInv => RejectedIsNoSwitch
  BY DEF RejectedInv
<1> QED
  BY <1>1, <1>2, <1>3, HealthAlways, PTL DEF HealthSpec
=============================================================================

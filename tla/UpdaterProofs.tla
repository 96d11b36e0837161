--------------------------- MODULE UpdaterProofs ---------------------------
(***************************************************************************)
(* Proofs about Updater and Session for any processes, packages, faults.   *)
(***************************************************************************)
EXTENDS Session, TLAPS

-----------------------------------------------------------------------------
(* What the helper operators return.                                       *)

LEMMA AdvancedType ==
    ASSUME NEW s \in RollbackPending
    PROVE  Advanced[s] \in IncompleteRollback
BY DEF Advanced, RollbackPending, IncompleteRollback

LEMMA RolledBackType ==
    ASSUME NEW c \in Components, NEW s
    PROVE  RolledBack(c, s) \subseteq RollbackPending
BY DEF RolledBack, RollbackFor, RollbackPending, Components

LEMMA IncompleteForType ==
    ASSUME NEW C
    PROVE  IncompleteFor(C) \in IncompleteUpdate
BY DEF IncompleteFor, IncompleteUpdate

\* Every exit code stays below 125.
LEMMA ReportedCodeType ==
    ASSUME NEW s \in BootStates, NEW r \in BOOLEAN
    PROVE  ReportedCode(s, r) \in 0..124
<1>1. \A t \in BootStates : UPDATE_REBOOT_STATE[t] \in 0..124
  BY DEF UPDATE_REBOOT_STATE, BootStates, Idle, Failed, IncompleteUpdate,
         RollbackPending, IncompleteRollback
<1>2. s \in RollbackPending => Advanced[s] \in BootStates
  BY AdvancedType DEF BootStates
<1>3. UPDATE_REBOOT_STATE.UPDATE_REBOOT_PENDING \in 0..124
  BY DEF UPDATE_REBOOT_STATE
<1> QED
  BY <1>1, <1>2, <1>3 DEF ReportedCode

-----------------------------------------------------------------------------
(* Type correctness.  Advanced is defined for pending rollbacks only, so   *)
(* the types are inductive together with what --apply_update has read.     *)

AdvanceOK ==
    \A p \in Procs : pc[p] = "apply_advance" => seen[p] \in RollbackPending

ProcInv == ProcTypeOK /\ AdvanceOK

TypeInv == DeviceTypeOK /\ ProcInv

\* How a handler goes on keeps the processes well typed.
LEMMA GotoType ==
    ASSUME ProcInv, NEW p \in Procs, NEW label \in Labels \ {"apply_advance"},
           Goto(p, label)
    PROVE  ProcInv'
BY DEF ProcInv, ProcTypeOK, AdvanceOK, Goto, NoExit, AllCommands

LEMMA RememberType ==
    ASSUME TypeInv, NEW p \in Procs, NEW label \in Labels, Remember(p, label),
           label = "apply_advance" => rebootState \in RollbackPending
    PROVE  ProcInv'
BY DEF TypeInv, DeviceTypeOK, ProcInv, ProcTypeOK, AdvanceOK, Remember, NoExit,
       AllCommands

LEMMA ExitType ==
    ASSUME ProcInv, NEW p \in Procs, NEW code \in 0..124, Exit(p, code)
    PROVE  ProcInv'
BY DEF ProcInv, ProcTypeOK, AdvanceOK, Exit, Labels, AllCommands, BootStates, Idle

LEMMA CaughtType ==
    ASSUME ProcInv, NEW p \in Procs, Caught(p)
    PROVE  ProcInv'
<1>1. CaughtCodes(cmd[p]) \subseteq 0..124
  BY DEF CaughtCodes, UPDATE_ROLLBACK_STATE, SETGET_UPDATE_STATE, COMMIT_STATE,
         UNHANDLED_EXCEPTION
<1> QED
  BY <1>1, ExitType DEF Caught

LEMMA SelectOtherType ==
    ASSUME DeviceTypeOK, NEW c \in Components, SelectOther(c),
           UNCHANGED <<workdir, power>>
    PROVE  DeviceTypeOK'
BY RolledBackType DEF DeviceTypeOK, SelectOther, BootStates, workdir

LEMMA SelectType ==
    ASSUME DeviceTypeOK, NEW C \in SUBSET Components, Select(C),
           UNCHANGED <<workdir, power>>
    PROVE  DeviceTypeOK'
BY IncompleteForType DEF DeviceTypeOK, Select, BootStates, workdir

\* A step that leaves the device and the work directory alone.
LEMMA QuietType ==
    ASSUME DeviceTypeOK, UNCHANGED <<device, workdir, power>>
    PROVE  DeviceTypeOK'
BY DEF DeviceTypeOK, device, workdir

\* No process is running.
LEMMA NobodyType ==
    ASSUME pc = [p \in Procs |-> "idle"], cmd = [p \in Procs |-> "none"],
           seen = [p \in Procs |-> Idle], exit = NoExit
    PROVE  ProcInv
<1>1. Idle \in BootStates
  BY DEF BootStates
<1>2. "idle" \in Labels
  BY DEF Labels
<1>3. NoExit \in [cmd : AllCommands \cup {"none"}, code : 0..124]
  BY DEF NoExit
<1> QED
  BY <1>1, <1>2, <1>3 DEF ProcInv, ProcTypeOK, AdvanceOK

\* What the surroundings do leaves the processes as they are.
LEMMA BystanderType ==
    ASSUME ProcInv, exit' = NoExit, UNCHANGED <<pc, cmd, seen>>
    PROVE  ProcInv'
BY DEF ProcInv, ProcTypeOK, AdvanceOK, NoExit

LEMMA TypeInit == Init => TypeInv
<1> SUFFICES ASSUME Init PROVE TypeInv
  OBVIOUS
<1>1. DeviceTypeOK
  BY DEF Init, DeviceTypeOK, BootStates
<1> QED
  BY <1>1, NobodyType DEF Init, TypeInv

LEMMA TypeStep ==
    ASSUME TypeInv, [Next]_vars
    PROVE  TypeInv'
<1> USE ConstantsAssumption DEF TypeInv
<1>1. ASSUME NEW p \in Procs, Start(p)
      PROVE  TypeInv'
  BY <1>1 DEF Start, DeviceTypeOK, ProcInv, ProcTypeOK, AdvanceOK, device, workdir,
     Labels, NoExit, AllCommands
<1>2. ASSUME NEW p \in Procs, UpdateFile(p) \/ Automatic(p)
      PROVE  TypeInv'
  <2>1. DeviceTypeOK'
    BY <1>2, QuietType DEF UpdateFile, Automatic
  <2>2. ProcInv'
    BY <1>2, ExitType, GotoType DEF UpdateFile, Automatic, CLI_VALIDATION, Labels
  <2> QED
    BY <2>1, <2>2
<1>3. ASSUME NEW p \in Procs, InstallStarts(p)
      PROVE  TypeInv'
  <2>1. DeviceTypeOK'
    BY <1>3 DEF InstallStarts, DeviceTypeOK, device
  <2>2. ProcInv'
    BY <1>3, ExitType, GotoType DEF InstallStarts, Labels,
       FIRMWARE_AND_APPLICATION_STATE
  <2> QED
    BY <2>1, <2>2
<1>4. ASSUME NEW p \in Procs, InstallSelects(p)
      PROVE  TypeInv'
  <2>1. PICK C \in Bundles : \E D \in (SUBSET C) \ {{}} :
           /\ Select(D)
           /\ seen' = [seen EXCEPT ![p] = IncompleteFor(C)]
           /\ pc' = [pc EXCEPT ![p] = IF D = C THEN "install_signal"
                                              ELSE "install_rest"]
    BY <1>4 DEF InstallSelects
  <2>2. PICK D \in SUBSET C :
           /\ Select(D)
           /\ pc' = [pc EXCEPT ![p] = IF D = C THEN "install_signal"
                                              ELSE "install_rest"]
    BY <2>1
  <2>3. D \subseteq Components
    BY <2>2
  <2>4. DeviceTypeOK'
    BY <1>4, <2>2, <2>3, SelectType DEF InstallSelects
  <2>5. seen' \in [Procs -> BootStates] /\ IncompleteFor(C) \in BootStates
    BY <2>1, IncompleteForType DEF BootStates, ProcInv, ProcTypeOK
  <2>6. pc' \in [Procs -> Labels]
    BY <2>2 DEF ProcInv, ProcTypeOK, Labels
  <2>7. AdvanceOK'
    BY <2>1, <2>2 DEF ProcInv, ProcTypeOK, AdvanceOK
  <2>8. cmd' \in [Procs -> AllCommands \cup {"none"}]
        /\ exit' \in [cmd : AllCommands \cup {"none"}, code : 0..124]
    BY <1>4 DEF InstallSelects, ProcInv, ProcTypeOK, NoExit
  <2> QED
    BY <2>4, <2>5, <2>6, <2>7, <2>8 DEF ProcInv, ProcTypeOK
<1>4a. ASSUME NEW p \in Procs, InstallSelectsRest(p)
      PROVE  TypeInv'
  <2>1. DeviceTypeOK'
    BY <1>4a, SelectType DEF InstallSelectsRest, Parts
  <2> QED
    BY <1>4a, <2>1, GotoType DEF InstallSelectsRest, Labels
<1>4b. ASSUME NEW p \in Procs, InstallSignals(p)
      PROVE  TypeInv'
  <2>1. DeviceTypeOK'
    BY <1>4b DEF InstallSignals, DeviceTypeOK, device, Signals
  <2>2. \A C : InstalledCode(C) \in 0..124
    BY DEF InstalledCode, FIRMWARE_AND_APPLICATION_STATE, FIRMWARE_STATE,
       APPLICATION_STATE
  <2>3. ProcInv'
    BY <1>4b, <2>2, ExitType DEF InstallSignals
  <2> QED
    BY <2>1, <2>3
<1>5. ASSUME NEW p \in Procs, InstallFails(p)
      PROVE  TypeInv'
  <2>1. DeviceTypeOK'
    BY <1>5 DEF InstallFails, DeviceTypeOK, BootStates, Failed
  <2>2. ProcInv'
    BY <1>5, ExitType DEF InstallFails, FIRMWARE_AND_APPLICATION_STATE
  <2> QED
    BY <2>1, <2>2
<1>6. ASSUME NEW p \in Procs, CommitSucceeds(p) \/ CommitDeclined(p)
      PROVE  TypeInv'
  <2>1. DeviceTypeOK'
    BY <1>6 DEF CommitSucceeds, CommitDeclined, DeviceTypeOK, BootStates, device, workdir
  <2>2. ProcInv'
    BY <1>6, ExitType DEF CommitSucceeds, CommitDeclined, COMMIT_STATE
  <2> QED
    BY <2>1, <2>2
<1>7. ASSUME NEW p \in Procs, RollbackRead(p) \/ SwitchRead(p)
      PROVE  TypeInv'
  <2>1. DeviceTypeOK'
    BY <1>7, QuietType DEF RollbackRead, SwitchRead
  <2>2. ProcInv'
    BY <1>7, RememberType DEF RollbackRead, SwitchRead, Labels
  <2> QED
    BY <2>1, <2>2
<1>8. ASSUME NEW p \in Procs, RollbackWorkDir(p) \/ SwitchWorkDir(p)
      PROVE  TypeInv'
  <2>1. DeviceTypeOK'
    BY <1>8 DEF RollbackWorkDir, SwitchWorkDir, DeviceTypeOK, device
  <2>2. ProcInv'
    BY <1>8, GotoType DEF RollbackWorkDir, SwitchWorkDir, Labels
  <2> QED
    BY <2>1, <2>2
<1>9. ASSUME NEW p \in Procs, RollbackApplication(p) \/ RollbackFirmware(p)
      PROVE  TypeInv'
  <2>1. DeviceTypeOK'
    BY <1>9, SelectOtherType DEF RollbackApplication, RollbackFirmware, Components
  <2>2. ProcInv'
    BY <1>9, GotoType DEF RollbackApplication, RollbackFirmware, Labels
  <2> QED
    BY <2>1, <2>2
<1>10. ASSUME NEW p \in Procs, RollbackMarker(p)
       PROVE  TypeInv'
  <2>1. DeviceTypeOK'
    BY <1>10 DEF RollbackMarker, DeviceTypeOK, device, Signals
  <2>2. ProcInv'
    BY <1>10, ExitType DEF RollbackMarker, UPDATE_ROLLBACK_STATE
  <2> QED
    BY <2>1, <2>2
<1>11. ASSUME NEW p \in Procs, RollbackThrows(p)
       PROVE  TypeInv'
  <2>1. DeviceTypeOK'
    BY <1>11, SelectOtherType, QuietType DEF RollbackThrows, Components
  <2> QED
    BY <1>11, <2>1, CaughtType DEF RollbackThrows
<1>12. ASSUME NEW p \in Procs, WorkDirThrows(p)
       PROVE  TypeInv'
  <2>1. DeviceTypeOK'
    BY <1>12 DEF WorkDirThrows, DeviceTypeOK, device
  <2> QED
    BY <1>12, <2>1, CaughtType DEF WorkDirThrows
<1>13. ASSUME NEW p \in Procs, EnvThrows(p) \/ ApplyWriteThrows(p)
       PROVE  TypeInv'
  <2>1. DeviceTypeOK'
    BY <1>13, QuietType DEF EnvThrows, ApplyWriteThrows
  <2>2. UNHANDLED_EXCEPTION \in 0..124
    BY DEF UNHANDLED_EXCEPTION
  <2> QED
    BY <1>13, <2>1, <2>2, CaughtType, ExitType DEF EnvThrows, ApplyWriteThrows
<1>14. ASSUME NEW p \in Procs, PrintState(p) \/ PrintRebooted(p)
       PROVE  TypeInv'
  <2>1. DeviceTypeOK'
    BY <1>14, QuietType DEF PrintState, PrintRebooted
  <2>2. /\ ReportedCode(rebootState, rebooted) \in 0..124
        /\ ReportedCode(seen[p], rebooted) \in 0..124
    BY ReportedCodeType DEF DeviceTypeOK, ProcInv, ProcTypeOK
  <2> QED
    BY <1>14, <2>1, <2>2, ExitType, RememberType DEF PrintState, PrintRebooted, Labels
<1>15. ASSUME NEW p \in Procs, ApplyCheckInstalled(p) \/ ApplyMode(p)
       PROVE  TypeInv'
  <2>1. DeviceTypeOK'
    BY <1>15, QuietType DEF ApplyCheckInstalled, ApplyMode
  <2> QED
    BY <1>15, <2>1, GotoType DEF ApplyCheckInstalled, ApplyMode, Labels
<1>16. ASSUME NEW p \in Procs, ApplyMarker(p)
       PROVE  TypeInv'
  <2>1. DeviceTypeOK'
    BY <1>16 DEF ApplyMarker, DeviceTypeOK, device, Signals
  <2> QED
    BY <1>16, <2>1, ExitType DEF ApplyMarker, APPLY_UPDATE_STATE
<1>17. ASSUME NEW p \in Procs, ApplyCheckRollback(p)
       PROVE  TypeInv'
  <2>1. DeviceTypeOK'
    BY <1>17, QuietType DEF ApplyCheckRollback
  <2> QED
    BY <1>17, <2>1, GotoType, ExitType DEF ApplyCheckRollback, Labels, APPLY_UPDATE_STATE
<1>18. ASSUME NEW p \in Procs, ApplyRead(p)
       PROVE  TypeInv'
  <2>1. DeviceTypeOK'
    BY <1>18, QuietType DEF ApplyRead
  <2> QED
    BY <1>18, <2>1, RememberType DEF ApplyRead, Labels
<1>19. ASSUME NEW p \in Procs, ApplyAdvance(p)
       PROVE  TypeInv'
  <2>1. Advanced[seen[p]] \in IncompleteRollback
    BY <1>19, AdvancedType DEF ApplyAdvance, ProcInv, AdvanceOK
  <2>2. DeviceTypeOK'
    BY <1>19, <2>1 DEF ApplyAdvance, DeviceTypeOK, BootStates, workdir
  <2> QED
    BY <1>19, <2>2, GotoType DEF ApplyAdvance, Labels
<1>20. ASSUME NEW p \in Procs, Reboot(p)
       PROVE  TypeInv'
  <2>1. DeviceTypeOK'
    BY <1>20 DEF Reboot, DeviceTypeOK, device, workdir
  <2> QED
    BY <1>20, <2>1, GotoType, ExitType DEF Reboot, Labels, APPLY_UPDATE_STATE,
       REBOOT_FAILED
<1>21. ASSUME NEW p \in Procs, ApplyRestore(p)
       PROVE  TypeInv'
  <2>1. DeviceTypeOK'
    BY <1>21 DEF ApplyRestore, DeviceTypeOK, ProcInv, ProcTypeOK, workdir
  <2> QED
    BY <1>21, <2>1, ExitType DEF ApplyRestore, REBOOT_FAILED
<1>22. ASSUME NEW p \in Procs, Kill(p)
       PROVE  TypeInv'
  BY <1>22, QuietType DEF Kill, ProcInv, ProcTypeOK, AdvanceOK, Labels, BootStates, Idle,
     NoExit
<1>23. ASSUME Boot
       PROVE  TypeInv'
  <2>1. DeviceTypeOK'
    BY <1>23 DEF Boot, DeviceTypeOK, BootStates, Failed
  <2>2. ProcInv'
    <3>1. /\ pc' = [p \in Procs |-> "idle"] /\ cmd' = [p \in Procs |-> "none"]
          /\ seen' = [p \in Procs |-> Idle] /\ exit' = NoExit
      BY <1>23 DEF Boot
    <3>2. Idle \in BootStates /\ "idle" \in Labels
      BY DEF BootStates, Labels
    <3>3. NoExit \in [cmd : AllCommands \cup {"none"}, code : 0..124]
      BY DEF NoExit
    <3> QED
      BY <3>1, <3>2, <3>3 DEF ProcInv, ProcTypeOK, AdvanceOK
  <2> QED
    BY <2>1, <2>2
<1>24. ASSUME Agent
       PROVE  TypeInv'
  <2>1. DeviceTypeOK'
    BY <1>24 DEF Agent, AgentDownload, DownloadRequested, AgentMarksInstalled,
       AgentApplies, DeviceTypeOK, device, workdir, Signals
  <2>2. exit' = NoExit /\ UNCHANGED <<pc, cmd, seen>>
    BY <1>24 DEF Agent, AgentDownload, DownloadRequested, AgentMarksInstalled,
       AgentApplies
  <2>3. ProcInv'
    BY <2>2, BystanderType
  <2> QED
    BY <2>1, <2>3
<1>25. CASE UNCHANGED vars
  BY <1>25 DEF vars, DeviceTypeOK, ProcInv, ProcTypeOK, AdvanceOK
<1> QED
  BY <1>1, <1>2, <1>3, <1>4, <1>5, <1>6, <1>7, <1>8, <1>9, <1>10, <1>11, <1>12,
     <1>13, <1>14, <1>15, <1>16, <1>17, <1>18, <1>19, <1>20, <1>21, <1>22, <1>23,
     <1>24, <1>25, <1>4a, <1>4b DEF Next, Handler, FinishReboot, PowerCycle

\* Every variable stays within its type, exit codes within POSIX's range.
THEOREM TypeCorrect == Spec => []TypeOK
<1>1. TypeInv => TypeOK
  BY DEF TypeInv, ProcInv, TypeOK
<1> QED
  BY <1>1, TypeInit, TypeStep, PTL DEF Spec

-----------------------------------------------------------------------------
(* Nothing is announced or rebooted without cause, for any number of       *)
(* processes that run side by side and any failures, once nothing is left  *)
(* from the session before.  The properties follow from an invariant about *)
(* everything that leads to a reboot (Session's Cause): as long as there   *)
(* is such a cause, an update or rollback is pending and the device has    *)
(* not booted since.  Only a commit makes the state idle, and it waits for *)
(* the boot; the boot either leaves no cause or ends swept, and swept      *)
(* holds again when the last cause is gone.                                *)

Pending == rebootState # Idle /\ ~rebooted

\* What --apply_update may write back is not the idle state.
RestoreOK ==
    \A p \in Procs : pc[p] \in {"reboot_rollback", "apply_restore"} => seen[p] # Idle

CauseInv == TypeInv /\ (Cause => Pending) /\ RestoreOK

SessionInv == TypeInv /\ swept \in BOOLEAN /\ (swept => CauseInv)

LEMMA NotIdle ==
    /\ Idle \notin Failed /\ Idle \notin IncompleteUpdate
    /\ Idle \notin RollbackPending /\ Idle \notin IncompleteRollback
BY DEF Idle, Failed, IncompleteUpdate, RollbackPending, IncompleteRollback

LEMMA CauseInit == Init => CauseInv
BY TypeInit DEF Init, CauseInv, Cause, Busy, CausePCs, CauseSignals, RestoreOK

LEMMA GotoCause ==
    ASSUME ProcTypeOK, RestoreOK, NEW p \in Procs, NEW label, Goto(p, label),
           label \in {"reboot_rollback", "apply_restore"} => seen[p] # Idle
    PROVE  (Busy' => Busy \/ label \in CausePCs) /\ RestoreOK'
BY DEF ProcTypeOK, RestoreOK, Goto, Busy

LEMMA RememberCause ==
    ASSUME ProcTypeOK, RestoreOK, NEW p \in Procs, NEW label, Remember(p, label),
           label \in {"reboot_rollback", "apply_restore"} => rebootState # Idle
    PROVE  (Busy' => Busy \/ label \in CausePCs) /\ RestoreOK'
BY DEF ProcTypeOK, RestoreOK, Remember, Busy

LEMMA ExitCause ==
    ASSUME ProcTypeOK, RestoreOK, NEW p \in Procs, NEW code, Exit(p, code)
    PROVE  (Busy' => Busy) /\ RestoreOK'
BY DEF ProcTypeOK, RestoreOK, Exit, Busy, CausePCs

LEMMA CaughtCause ==
    ASSUME ProcTypeOK, RestoreOK, NEW p \in Procs, Caught(p)
    PROVE  (Busy' => Busy) /\ RestoreOK'
BY ExitCause DEF Caught

LEMMA SelectOtherPending ==
    ASSUME NEW c \in Components, SelectOther(c)
    PROVE  Pending'
BY RolledBackType, NotIdle DEF SelectOther, Pending

\* Within a session.
LEMMA CauseStep ==
    ASSUME CauseInv,
           \/ \E p \in Procs : Start(p) \/ Handler(p) \/ Kill(p)
           \/ Agent
           \/ UNCHANGED vars
    PROVE  CauseInv'
<1> USE DEF CauseInv, TypeInv, ProcInv
<1>0. TypeInv'
  BY TypeStep DEF Next
<1>1. ASSUME NEW p \in Procs, Start(p)
      PROVE  CauseInv'
  <2>1. (Busy' => Busy) /\ RestoreOK'
    BY <1>1, ConstantsAssumption DEF Start, Busy, RestoreOK, ProcTypeOK, CausePCs, AllCommands
  <2> QED
    BY <1>0, <1>1, <2>1 DEF Start, Cause, Pending, device, workdir
<1>2. ASSUME NEW p \in Procs, UpdateFile(p) \/ Automatic(p)
      PROVE  CauseInv'
  <2>1. (Busy' => Busy) /\ RestoreOK'
    BY <1>2, GotoCause, ExitCause DEF UpdateFile, Automatic, CausePCs
  <2> QED
    BY <1>0, <1>2, <2>1 DEF UpdateFile, Automatic, Cause, Pending, device, workdir
<1>3. ASSUME NEW p \in Procs, InstallStarts(p)
      PROVE  CauseInv'
  <2>1. (Busy' => Busy) /\ RestoreOK'
    BY <1>3, GotoCause, ExitCause DEF InstallStarts, CausePCs
  <2> QED
    BY <1>0, <1>3, <2>1 DEF InstallStarts, Cause, CauseSignals, Pending, device
<1>4. ASSUME NEW p \in Procs, InstallSelects(p) \/ InstallSelectsRest(p)
      PROVE  CauseInv'
  <2>1. pc' = [pc EXCEPT ![p] = "install_signal"] \/ pc' = [pc EXCEPT ![p] = "install_rest"]
    BY <1>4 DEF InstallSelects, InstallSelectsRest, Goto
  <2>2. \A q \in Procs : q # p => seen'[q] = seen[q]
    BY <1>4 DEF InstallSelects, InstallSelectsRest, Goto, ProcTypeOK
  <2>3. RestoreOK'
    BY <2>1, <2>2 DEF RestoreOK, ProcTypeOK
  <2>4. Pending'
    BY <1>4, IncompleteForType, NotIdle DEF InstallSelects, InstallSelectsRest, Select,
       Pending
  <2> QED
    BY <1>0, <2>3, <2>4
<1>4a. ASSUME NEW p \in Procs, InstallSignals(p)
      PROVE  CauseInv'
  <2>1. RestoreOK'
    BY <1>4a, ExitCause DEF InstallSignals
  <2>2. Pending
    BY <1>4a DEF InstallSignals, Cause, Busy, CausePCs
  <2> QED
    BY <1>0, <1>4a, <2>1, <2>2 DEF InstallSignals, Pending, device
<1>5. ASSUME NEW p \in Procs, InstallFails(p)
      PROVE  CauseInv'
  <2>1. (Busy' => Busy) /\ RestoreOK'
    BY <1>5, ExitCause DEF InstallFails
  <2>2. Pending => Pending'
    BY <1>5 DEF InstallFails, Pending, Idle
  <2> QED
    BY <1>0, <1>5, <2>1, <2>2 DEF InstallFails, Cause, CauseSignals
<1>6. ASSUME NEW p \in Procs, CommitSucceeds(p)
      PROVE  CauseInv'
  <2>1. (Busy' => Busy) /\ RestoreOK'
    BY <1>6, ExitCause DEF CommitSucceeds
  <2>2. rebooted
    BY <1>6 DEF CommitSucceeds
  <2>3. ~Cause'
    BY <1>6, <2>1, <2>2 DEF CommitSucceeds, Cause, Pending, workdir
  <2> QED
    BY <1>0, <2>1, <2>3
<1>7. ASSUME NEW p \in Procs, CommitDeclined(p) \/ PrintState(p) \/ PrintRebooted(p)
      PROVE  CauseInv'
  <2>1. (Busy' => Busy) /\ RestoreOK'
    BY <1>7, ExitCause, RememberCause DEF CommitDeclined, PrintState, PrintRebooted,
       CausePCs
  <2> QED
    BY <1>0, <1>7, <2>1 DEF CommitDeclined, PrintState, PrintRebooted, Cause, Pending,
       device, workdir
<1>8. ASSUME NEW p \in Procs, RollbackRead(p) \/ SwitchRead(p)
      PROVE  CauseInv'
  <2>1. (Busy' => Busy) /\ RestoreOK'
    BY <1>8, RememberCause DEF RollbackRead, SwitchRead, CausePCs
  <2> QED
    BY <1>0, <1>8, <2>1 DEF RollbackRead, SwitchRead, Cause, Pending, device, workdir
<1>9. ASSUME NEW p \in Procs, RollbackWorkDir(p) \/ SwitchWorkDir(p)
      PROVE  CauseInv'
  <2>1. (Busy' => Busy) /\ RestoreOK'
    BY <1>9, GotoCause DEF RollbackWorkDir, SwitchWorkDir, CausePCs
  <2> QED
    BY <1>0, <1>9, <2>1 DEF RollbackWorkDir, SwitchWorkDir, Cause, Pending, device
<1>10. ASSUME NEW p \in Procs, RollbackApplication(p) \/ RollbackFirmware(p)
       PROVE  CauseInv'
  <2>1. RestoreOK'
    BY <1>10, GotoCause DEF RollbackApplication, RollbackFirmware
  <2>2. Pending'
    BY <1>10, SelectOtherPending DEF RollbackApplication, RollbackFirmware, Components
  <2> QED
    BY <1>0, <2>1, <2>2
<1>11. ASSUME NEW p \in Procs, RollbackMarker(p)
       PROVE  CauseInv'
  <2>1. RestoreOK'
    BY <1>11, ExitCause DEF RollbackMarker
  <2>2. Pending
    BY <1>11 DEF RollbackMarker, Cause, Busy, CausePCs
  <2> QED
    BY <1>0, <1>11, <2>1, <2>2 DEF RollbackMarker, Pending, device
<1>12. ASSUME NEW p \in Procs, RollbackThrows(p)
       PROVE  CauseInv'
  <2>1. (Busy' => Busy) /\ RestoreOK'
    BY <1>12, CaughtCause DEF RollbackThrows
  <2>2. Pending' \/ UNCHANGED device
    BY <1>12, SelectOtherPending DEF RollbackThrows, Components
  <2> QED
    BY <1>0, <1>12, <2>1, <2>2 DEF RollbackThrows, Cause, Pending, device, workdir
<1>13. ASSUME NEW p \in Procs, WorkDirThrows(p)
       PROVE  CauseInv'
  <2>1. (Busy' => Busy) /\ RestoreOK'
    BY <1>13, CaughtCause DEF WorkDirThrows
  <2> QED
    BY <1>0, <1>13, <2>1 DEF WorkDirThrows, Cause, Pending, device
<1>14. ASSUME NEW p \in Procs, EnvThrows(p) \/ ApplyWriteThrows(p)
       PROVE  CauseInv'
  <2>1. (Busy' => Busy) /\ RestoreOK'
    BY <1>14, CaughtCause, ExitCause DEF EnvThrows, ApplyWriteThrows
  <2> QED
    BY <1>0, <1>14, <2>1 DEF EnvThrows, ApplyWriteThrows, Cause, Pending, device, workdir
<1>15. ASSUME NEW p \in Procs, ApplyCheckInstalled(p)
       PROVE  CauseInv'
  <2>1. RestoreOK' /\ (Busy' => Busy \/ "updateInstalled" \in files)
    BY <1>15, GotoCause DEF ApplyCheckInstalled, CausePCs
  <2> QED
    BY <1>0, <1>15, <2>1 DEF ApplyCheckInstalled, Cause, CauseSignals, Pending, device,
       workdir
<1>16. ASSUME NEW p \in Procs, ApplyMode(p)
       PROVE  CauseInv'
  <2>1. RestoreOK'
    BY <1>16, GotoCause DEF ApplyMode
  <2>2. Pending
    BY <1>16 DEF ApplyMode, Cause, Busy, CausePCs
  <2> QED
    BY <1>0, <1>16, <2>1, <2>2 DEF ApplyMode, Pending, device
<1>17. ASSUME NEW p \in Procs, ApplyMarker(p)
       PROVE  CauseInv'
  <2>1. RestoreOK'
    BY <1>17, ExitCause DEF ApplyMarker
  <2>2. Pending
    BY <1>17 DEF ApplyMarker, Cause, Busy, CausePCs
  <2> QED
    BY <1>0, <1>17, <2>1, <2>2 DEF ApplyMarker, Pending, device
<1>18. ASSUME NEW p \in Procs, ApplyCheckRollback(p)
       PROVE  CauseInv'
  <2>1. RestoreOK' /\ (Busy' => Busy \/ "rollbackUpdate" \in files)
    BY <1>18, GotoCause, ExitCause DEF ApplyCheckRollback
  <2> QED
    BY <1>0, <1>18, <2>1 DEF ApplyCheckRollback, Cause, CauseSignals, Pending, device,
       workdir
<1>19. ASSUME NEW p \in Procs, ApplyRead(p)
       PROVE  CauseInv'
  <2>1. Pending
    BY <1>19 DEF ApplyRead, Cause, Busy, CausePCs
  <2>2. RestoreOK'
    BY <1>19, <2>1, RememberCause DEF ApplyRead, Pending
  <2> QED
    BY <1>0, <1>19, <2>1, <2>2 DEF ApplyRead, Pending, device
<1>20. ASSUME NEW p \in Procs, ApplyAdvance(p)
       PROVE  CauseInv'
  <2>1. Pending /\ seen[p] \in RollbackPending
    BY <1>20 DEF ApplyAdvance, Cause, Busy, CausePCs, AdvanceOK
  <2>2. Advanced[seen[p]] \in IncompleteRollback
    BY <2>1, AdvancedType
  <2>3. RestoreOK'
    BY <1>20, <2>1, NotIdle, GotoCause DEF ApplyAdvance
  <2> QED
    BY <1>0, <1>20, <2>1, <2>2, <2>3, NotIdle DEF ApplyAdvance, Pending
<1>21. ASSUME NEW p \in Procs, Reboot(p)
       PROVE  CauseInv'
  <2>1. Pending
    BY <1>21 DEF Reboot, Cause, Busy, CausePCs
  <2>2. RestoreOK'
    <3>1. pc[p] = "reboot_rollback" => seen[p] # Idle
      BY DEF RestoreOK
    <3> QED
      BY <1>21, <3>1, GotoCause, ExitCause DEF Reboot
  <2> QED
    BY <1>0, <1>21, <2>1, <2>2 DEF Reboot, Pending, device
<1>22. ASSUME NEW p \in Procs, ApplyRestore(p)
       PROVE  CauseInv'
  <2>1. Pending /\ seen[p] # Idle
    BY <1>22 DEF ApplyRestore, Cause, Busy, CausePCs, RestoreOK
  <2>2. RestoreOK'
    BY <1>22, ExitCause DEF ApplyRestore
  <2> QED
    BY <1>0, <1>22, <2>1, <2>2 DEF ApplyRestore, Pending
<1>23. ASSUME NEW p \in Procs, Kill(p)
       PROVE  CauseInv'
  <2>1. (Busy' => Busy) /\ RestoreOK'
    BY <1>23 DEF Kill, Busy, RestoreOK, ProcTypeOK, CausePCs
  <2> QED
    BY <1>0, <1>23, <2>1 DEF Kill, Cause, Pending, device, workdir
<1>25. ASSUME Agent
       PROVE  CauseInv'
  <2>1. (Busy' <=> Busy) /\ RestoreOK'
    BY <1>25 DEF Agent, AgentDownload, DownloadRequested, AgentMarksInstalled,
       AgentApplies, Busy, RestoreOK
  <2>2. Cause' => Cause
    BY <1>25, <2>1 DEF Agent, AgentDownload, DownloadRequested, AgentMarksInstalled,
       AgentApplies, Cause, CauseSignals, workdir
  <2>3. Pending' <=> Pending
    BY <1>25 DEF Agent, AgentDownload, DownloadRequested, AgentMarksInstalled,
       AgentApplies, Pending, device
  <2> QED
    BY <1>0, <2>1, <2>2, <2>3
<1>26. CASE UNCHANGED vars
  BY <1>0, <1>26 DEF vars, Cause, Busy, Pending, RestoreOK
<1> QED
  BY <1>1, <1>2, <1>3, <1>4, <1>4a, <1>5, <1>6, <1>7, <1>8, <1>9, <1>10, <1>11,
     <1>12, <1>13, <1>14, <1>15, <1>16, <1>17, <1>18, <1>19, <1>20, <1>21, <1>22,
     <1>23, <1>25, <1>26 DEF Handler

LEMMA SessionStep ==
    ASSUME SessionInv, [SessionNext]_sessionVars
    PROVE  SessionInv'
<1> USE DEF SessionInv
\* Where nothing leads to a reboot there is nothing to restore.
<1>0. TypeInv' /\ ~Cause' => CauseInv'
  BY DEF CauseInv, Cause, Busy, CausePCs, RestoreOK
<1>1. CASE NewSession
  <2>1. TypeInv'
    BY <1>1, TypeStep DEF NewSession, Next
  <2>2. swept' = ~Cause'
    BY <1>1 DEF NewSession
  <2>3. swept' \in BOOLEAN
    BY <2>2
  <2>4. swept' => CauseInv'
    BY <1>0, <2>1, <2>2
  <2> QED
    BY <2>1, <2>3, <2>4
<1>2. CASE Goes
  <2>1. TypeInv'
    BY <1>2, TypeStep DEF Goes, Next
  <2>2. swept' = (swept \/ ~Cause')
    BY <1>2 DEF Goes
  <2>3. swept' \in BOOLEAN
    BY <2>2
  <2>4. swept => CauseInv'
    BY <1>2, CauseStep DEF Goes
  <2>5. swept' => CauseInv'
    BY <1>0, <2>1, <2>2, <2>4
  <2> QED
    BY <2>1, <2>3, <2>5
<1>3. CASE UNCHANGED sessionVars
  <2>1. UNCHANGED vars /\ UNCHANGED swept
    BY <1>3 DEF sessionVars
  <2>2. TypeInv'
    BY <2>1, TypeStep
  <2>3. swept => CauseInv'
    BY <2>1, CauseStep
  <2> QED
    BY <2>1, <2>2, <2>3
<1> QED
  BY <1>1, <1>2, <1>3 DEF SessionNext

LEMMA SessionInvariant == SessionSpec => []SessionInv
<1>1. SessionInit => SessionInv
  BY CauseInit, TypeInit DEF SessionInit, SessionInv
<1>2. SessionInv /\ [SessionNext]_sessionVars => SessionInv'
  BY SessionStep
<1> QED
  BY <1>1, <1>2, PTL DEF SessionSpec

(***************************************************************************)
(* Once nothing is left from the session before, a reboot that             *)
(* --apply_update requests has an update or rollback to finish.            *)
(***************************************************************************)
THEOREM RebootsHaveCause == SessionSpec => []SweptRebootsHaveCause
<1>1. SessionInv => SweptRebootsHaveCause
  BY DEF SessionInv, CauseInv, Cause, Pending, SweptRebootsHaveCause, NoIdleReboot
<1> QED
  BY <1>1, SessionInvariant, PTL

(***************************************************************************)
(* Once nothing is left from the session before, the files --apply_update  *)
(* decides on agree with the U-Boot environment.                           *)
(***************************************************************************)
THEOREM SignalsHaveCause == SessionSpec => []SweptSignalsArePending
<1>1. SessionInv => SweptSignalsArePending
  BY DEF SessionInv, CauseInv, Cause, CauseSignals, Pending, SweptSignalsArePending,
     SignalsArePending
<1> QED
  BY <1>1, SessionInvariant, PTL

-----------------------------------------------------------------------------
(* What is committed stays committed.                                      *)

\* A handler about to write a state that it has read finds no idle device,
\* or it has read just that.
WritesOK ==
    \A p \in Procs :
        /\ pc[p] = "apply_advance" => rebootState # Idle
        /\ pc[p] = "apply_restore" => rebootState # Idle \/ seen[p] = Idle

LEMMA WritesPending == CauseInv => WritesOK
BY DEF CauseInv, Cause, Busy, CausePCs, Pending, WritesOK

LEMMA IdleLeft ==
    ASSUME WritesOK, [Next]_vars
    PROVE  LeavesIdle
<1> SUFFICES ASSUME rebootState = Idle, rebootState' # Idle
             PROVE  \E p \in Procs : pc[p] \in EndsIdle
  BY DEF LeavesIdle
<1>1. ASSUME NEW p \in Procs,
             InstallSelects(p) \/ InstallSelectsRest(p) \/ InstallFails(p)
      PROVE  pc[p] \in EndsIdle
  BY <1>1 DEF InstallSelects, InstallSelectsRest, InstallFails, EndsIdle
<1>2. ASSUME NEW p \in Procs,
             RollbackApplication(p) \/ RollbackFirmware(p) \/ RollbackThrows(p)
      PROVE  pc[p] \in EndsIdle
  BY <1>2 DEF RollbackApplication, RollbackFirmware, RollbackThrows, EndsIdle
<1>3. ASSUME NEW p \in Procs, ApplyAdvance(p) \/ ApplyRestore(p)
      PROVE  FALSE
  BY <1>3 DEF ApplyAdvance, ApplyRestore, WritesOK
<1>4. ASSUME NEW p \in Procs, CommitSucceeds(p)
      PROVE  FALSE
  BY <1>4 DEF CommitSucceeds
<1>5. ASSUME Boot
      PROVE  FALSE
  BY <1>5 DEF Boot, Idle
<1>6. ASSUME NEW p \in Procs,
             \/ Start(p) \/ Kill(p) \/ UpdateFile(p) \/ Automatic(p)
             \/ InstallStarts(p) \/ InstallSignals(p) \/ CommitDeclined(p)
             \/ RollbackRead(p) \/ RollbackWorkDir(p) \/ SwitchRead(p)
             \/ SwitchWorkDir(p) \/ RollbackMarker(p) \/ WorkDirThrows(p)
             \/ EnvThrows(p) \/ PrintState(p) \/ PrintRebooted(p)
             \/ ApplyCheckInstalled(p) \/ ApplyMode(p) \/ ApplyMarker(p)
             \/ ApplyCheckRollback(p) \/ ApplyRead(p) \/ Reboot(p)
             \/ ApplyWriteThrows(p)
      PROVE  FALSE
  <2>1. UNCHANGED device
    BY <1>6 DEF Start, Kill, UpdateFile, Automatic, InstallStarts, InstallSignals,
       CommitDeclined, RollbackRead, RollbackWorkDir, SwitchRead, SwitchWorkDir,
       RollbackMarker, WorkDirThrows, EnvThrows, PrintState, PrintRebooted,
       ApplyCheckInstalled, ApplyMode, ApplyMarker, ApplyCheckRollback, ApplyRead,
       Reboot, ApplyWriteThrows
  <2> QED
    BY <2>1 DEF device
<1>7. ASSUME Agent
      PROVE  FALSE
  BY <1>7 DEF Agent, AgentDownload, DownloadRequested, AgentMarksInstalled,
     AgentApplies, device
<1>8. CASE UNCHANGED vars
  BY <1>8 DEF vars
<1> QED
  BY <1>1, <1>2, <1>3, <1>4, <1>5, <1>6, <1>7, <1>8
     DEF Next, Handler, FinishReboot, PowerCycle

(***************************************************************************)
(* However many invocations run side by side and whatever fails: once      *)
(* nothing is left from the session before, no late write of               *)
(* --apply_update brings back a state that was committed.                  *)
(***************************************************************************)
THEOREM CommitsAreFinal == SessionSpec => SweptCommitIsFinal
<1>1. SessionInv /\ [SessionNext]_sessionVars => [swept => LeavesIdle]_sessionVars
  <2> SUFFICES ASSUME SessionInv, [SessionNext]_sessionVars, swept
               PROVE  LeavesIdle
    OBVIOUS
  <2>1. [Next]_vars
    BY DEF SessionNext, NewSession, Goes, Next, sessionVars
  <2> QED
    BY <2>1, IdleLeft, WritesPending DEF SessionInv
<1> QED
  BY <1>1, SessionInvariant, PTL DEF SessionSpec, SweptCommitIsFinal
=============================================================================

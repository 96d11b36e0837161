-------------------------- MODULE ExclusiveProofs --------------------------
(***************************************************************************)
(* Proofs about Updater when one invocation runs at a time: what a handler *)
(* read when it began is still true when it acts on it.                    *)
(***************************************************************************)
EXTENDS UpdaterProofs

OneAtATime ==
    \A p, q \in Procs : pc[p] # "idle" /\ pc[q] # "idle" => p = q

\* A rollback of both components has prepared the application's.
Halfway ==
    rebootState \in RollbackPending /\ ~rebooted /\ "app" \in Parts(rebootState)

\* A switch begins when nothing is pending.
SwitchOr(p, rollback) ==
    IF cmd[p] = "rollback_update"
      THEN rollback
      ELSE rebootState = Idle /\ seen[p] = Idle

\* Of the package that p installs, some components are selected and not all.
PartlyInstalled(p) ==
    /\ rebootState \in IncompleteUpdate
    /\ ~rebooted
    /\ seen[p] \in IncompleteUpdate
    /\ Parts(rebootState) \subseteq Parts(seen[p])
    /\ Parts(rebootState) # Parts(seen[p])

\* What process p may rely on where it is.
Knows(p) ==
    /\ pc[p] \in AllCommands => cmd[p] = pc[p]
    /\ pc[p] \in {"rb_workdir", "rb_app_fw"} => cmd[p] = "rollback_update"
    /\ pc[p] = "sw_workdir" =>
          cmd[p] # "rollback_update" /\ rebootState = Idle /\ seen[p] = Idle
    /\ pc[p] = "installing" => rebootState = Idle
    /\ pc[p] = "install_rest" => PartlyInstalled(p)
    /\ pc[p] \in {"rb_workdir", "apply_advance"} => rebootState = seen[p]
    /\ pc[p] = "rb_app_fw" =>
          rebootState = seen[p] /\ seen[p] = "INCOMPLETE_APP_FW_UPDATE"
    /\ pc[p] = "rb_app" => SwitchOr(p,
          rebootState = seen[p] /\ seen[p] = "INCOMPLETE_APP_UPDATE")
    /\ pc[p] = "rb_fw" => SwitchOr(p,
          \/ rebootState = seen[p] /\ seen[p] = "INCOMPLETE_FW_UPDATE"
          \/ Halfway /\ seen[p] = "INCOMPLETE_APP_FW_UPDATE")
    /\ pc[p] = "rb_marker" =>
          /\ rebootState \in RollbackPending
          /\ cmd[p] = "rollback_update" => Parts(seen[p]) \subseteq Parts(rebootState)
    /\ pc[p] \in {"reboot_rollback", "apply_restore"} =>
          rebootState = IF seen[p] \in RollbackPending THEN Advanced[seen[p]]
                                                       ELSE seen[p]

AllKnow == \A p \in Procs : Knows(p)

ExclusiveInv == TypeInv /\ OneAtATime /\ AllKnow

-----------------------------------------------------------------------------
(* What is known stays true.                                               *)

LEMMA PartsOfPackage ==
    ASSUME NEW C \in (SUBSET Components) \ {{}}
    PROVE  Parts(RollbackFor(C)) = C /\ Parts(IncompleteFor(C)) = C
<1>1. CASE C = Components
  BY <1>1 DEF Parts, About, RollbackFor, IncompleteFor, Components
<1>2. CASE C = {"fw"}
  BY <1>2 DEF Parts, About, RollbackFor, IncompleteFor, Components
<1>3. CASE C = {"app"}
  BY <1>3 DEF Parts, About, RollbackFor, IncompleteFor, Components
<1> QED
  BY <1>1, <1>2, <1>3 DEF Components

LEMMA PartsOfRollback ==
    ASSUME NEW c \in Components, NEW s \in BootStates, NEW t \in RolledBack(c, s)
    PROVE  /\ t \in RollbackPending
           /\ c \in Parts(t)
           /\ s \in RollbackPending => Parts(s) \subseteq Parts(t)
<1>1. \A C \in (SUBSET Components) \ {{}} : Parts(RollbackFor(C)) = C
  BY PartsOfPackage
<1>2. CASE s = "INCOMPLETE_APP_FW_UPDATE"
  BY <1>1, <1>2, RolledBackType DEF RolledBack, Components, RollbackPending
<1>3. CASE s \in RollbackPending
  <2>1. Parts(s) \cup {c} \in (SUBSET Components) \ {{}}
    BY DEF Parts
  <2>2. t = RollbackFor(Parts(s) \cup {c})
    BY <1>3 DEF RolledBack, RollbackPending
  <2> QED
    BY <1>1, <2>1, <2>2, RolledBackType
<1>4. CASE s \notin RollbackPending /\ s # "INCOMPLETE_APP_FW_UPDATE"
  <2>1. t = RollbackFor({c})
    BY <1>4 DEF RolledBack
  <2> QED
    BY <1>1, <1>4, <2>1, RolledBackType
<1> QED
  BY <1>2, <1>3, <1>4

\* Where p goes next is all that matters: the others are idle.
LEMMA OnlyOne ==
    ASSUME OneAtATime, NEW p \in Procs, pc[p] # "idle",
           \A q \in Procs \ {p} : pc'[q] = pc[q], Knows(p)'
    PROVE  OneAtATime' /\ AllKnow'
<1>1. \A q \in Procs \ {p} : pc'[q] = "idle"
  BY DEF OneAtATime
<1>2. \A q \in Procs \ {p} : Knows(q)'
  BY <1>1 DEF Knows, AllCommands
<1> QED
  BY <1>1, <1>2 DEF OneAtATime, AllKnow

LEMMA ExitKnows ==
    ASSUME OneAtATime, ProcTypeOK, NEW p \in Procs, pc[p] # "idle", NEW code,
           Exit(p, code)
    PROVE  OneAtATime' /\ AllKnow'
BY OnlyOne DEF Exit, ProcTypeOK, Knows, AllCommands

LEMMA CaughtKnows ==
    ASSUME OneAtATime, ProcTypeOK, NEW p \in Procs, pc[p] # "idle", Caught(p)
    PROVE  OneAtATime' /\ AllKnow'
BY ExitKnows DEF Caught

LEMMA GotoKnows ==
    ASSUME OneAtATime, ProcTypeOK, NEW p \in Procs, pc[p] # "idle", NEW label,
           Goto(p, label), Knows(p)'
    PROVE  OneAtATime' /\ AllKnow'
BY OnlyOne DEF Goto, ProcTypeOK

LEMMA RememberKnows ==
    ASSUME OneAtATime, ProcTypeOK, NEW p \in Procs, pc[p] # "idle", NEW label,
           Remember(p, label), Knows(p)'
    PROVE  OneAtATime' /\ AllKnow'
BY OnlyOne DEF Remember, ProcTypeOK

LEMMA NobodyKnows ==
    ASSUME pc = [p \in Procs |-> "idle"]
    PROVE  OneAtATime /\ AllKnow
BY DEF OneAtATime, AllKnow, Knows, AllCommands

LEMMA ExclusiveInit == Init => ExclusiveInv
BY TypeInit, NobodyKnows DEF Init, ExclusiveInv

LEMMA ExclusiveStep ==
    ASSUME Exclusive, ExclusiveInv, [Next]_vars
    PROVE  ExclusiveInv'
<1> USE DEF ExclusiveInv, TypeInv, ProcInv
<1>0. TypeInv'
  BY TypeStep
<1> SUFFICES OneAtATime' /\ AllKnow'
  BY <1>0
<1>1. ASSUME NEW p \in Procs, Start(p)
      PROVE  OneAtATime' /\ AllKnow'
  <2>1. \A q \in Procs \ {p} : pc'[q] = "idle"
    BY <1>1 DEF Start, ProcTypeOK
  <2>2. PICK c \in AllCommands : pc'[p] = c /\ cmd'[p] = c
    BY <1>1, ConstantsAssumption DEF Start, ProcTypeOK
  <2>3. Knows(p)'
    BY <2>2 DEF Knows, AllCommands
  <2>4. \A q \in Procs \ {p} : Knows(q)'
    BY <2>1 DEF Knows, AllCommands
  <2> QED
    BY <2>1, <2>3, <2>4 DEF OneAtATime, AllKnow
<1>2. ASSUME NEW p \in Procs, UpdateFile(p) \/ Automatic(p)
      PROVE  OneAtATime' /\ AllKnow'
  <2>1. pc[p] # "idle"
    BY <1>2 DEF UpdateFile, Automatic
  <2>2. CASE Goto(p, "update_image")
    BY <2>1, <2>2, GotoKnows DEF Goto, Knows, AllCommands, ProcTypeOK
  <2> QED
    BY <1>2, <2>1, <2>2, ExitKnows DEF UpdateFile, Automatic
<1>3. ASSUME NEW p \in Procs, InstallStarts(p)
      PROVE  OneAtATime' /\ AllKnow'
  <2>1. CASE rebootState = Idle /\ Goto(p, "installing")
    <3>1. Knows(p)'
      BY <1>3, <2>1 DEF InstallStarts, device, Goto, Knows, AllCommands, ProcTypeOK
    <3> QED
      BY <1>3, <2>1, <3>1, GotoKnows DEF InstallStarts
  <2> QED
    BY <1>3, <2>1, ExitKnows DEF InstallStarts
<1>4. ASSUME NEW p \in Procs, InstallSelects(p)
      PROVE  OneAtATime' /\ AllKnow'
  <2>1. PICK C \in Bundles : \E D \in (SUBSET C) \ {{}} :
           /\ Select(D)
           /\ seen' = [seen EXCEPT ![p] = IncompleteFor(C)]
           /\ pc' = [pc EXCEPT ![p] = IF D = C THEN "install_signal"
                                              ELSE "install_rest"]
    BY <1>4 DEF InstallSelects
  <2>2. PICK D \in (SUBSET C) \ {{}} :
           /\ Select(D)
           /\ seen' = [seen EXCEPT ![p] = IncompleteFor(C)]
           /\ pc' = [pc EXCEPT ![p] = IF D = C THEN "install_signal"
                                              ELSE "install_rest"]
    BY <2>1
  <2>3. C \in (SUBSET Components) \ {{}} /\ D \in (SUBSET Components) \ {{}}
    BY ConstantsAssumption, <2>2
  <2>4. /\ pc'[p] = IF D = C THEN "install_signal" ELSE "install_rest"
        /\ seen'[p] = IncompleteFor(C)
        /\ rebootState' = IncompleteFor(D)
        /\ ~rebooted'
    BY <2>2 DEF Select, ProcTypeOK
  <2>5. Parts(IncompleteFor(C)) = C /\ Parts(IncompleteFor(D)) = D
    BY <2>3, PartsOfPackage
  <2>6. D # C => PartlyInstalled(p)'
    BY <2>2, <2>4, <2>5, IncompleteForType DEF PartlyInstalled
  <2>7. Knows(p)'
    BY <2>4, <2>6 DEF Knows, AllCommands
  <2>8. pc[p] # "idle" /\ \A q \in Procs \ {p} : pc'[q] = pc[q]
    BY <1>4, <2>2 DEF InstallSelects, ProcTypeOK
  <2> QED
    BY <2>7, <2>8, OnlyOne
<1>4a. ASSUME NEW p \in Procs, InstallSelectsRest(p)
      PROVE  OneAtATime' /\ AllKnow'
  <2>1. pc'[p] = "install_signal"
    BY <1>4a DEF InstallSelectsRest, Goto, ProcTypeOK
  <2>2. Knows(p)'
    BY <2>1 DEF Knows, AllCommands
  <2> QED
    BY <1>4a, <2>2, GotoKnows DEF InstallSelectsRest
<1>4b. ASSUME NEW p \in Procs, InstallSignals(p) \/ InstallFails(p)
      PROVE  OneAtATime' /\ AllKnow'
  BY <1>4b, ExitKnows DEF InstallSignals, InstallFails
<1>5. ASSUME NEW p \in Procs,
             CommitSucceeds(p) \/ CommitDeclined(p) \/ PrintRebooted(p)
      PROVE  OneAtATime' /\ AllKnow'
  BY <1>5, ExitKnows DEF CommitSucceeds, CommitDeclined, PrintRebooted
<1>5a. ASSUME NEW p \in Procs, PrintState(p)
      PROVE  OneAtATime' /\ AllKnow'
  <2>1. CASE Remember(p, "print_rebooted")
    <3>1. pc'[p] = "print_rebooted"
      BY <2>1 DEF Remember, ProcTypeOK
    <3>2. Knows(p)'
      BY <3>1 DEF Knows, AllCommands
    <3> QED
      BY <1>5a, <2>1, <3>2, RememberKnows DEF PrintState
  <2> QED
    BY <1>5a, <2>1, ExitKnows DEF PrintState
<1>6. ASSUME NEW p \in Procs, RollbackRead(p)
      PROVE  OneAtATime' /\ AllKnow'
  <2>1. Knows(p)'
    BY <1>6 DEF RollbackRead, Remember, device, Knows, AllKnow, AllCommands, ProcTypeOK
  <2> QED
    BY <1>6, <2>1, RememberKnows DEF RollbackRead
<1>7. ASSUME NEW p \in Procs, SwitchRead(p)
      PROVE  OneAtATime' /\ AllKnow'
  <2>1. Knows(p)'
    BY <1>7 DEF SwitchRead, Remember, device, Knows, AllKnow, AllCommands, ProcTypeOK
  <2> QED
    BY <1>7, <2>1, RememberKnows DEF SwitchRead
<1>8. ASSUME NEW p \in Procs, RollbackWorkDir(p)
      PROVE  OneAtATime' /\ AllKnow'
  <2>1. PICK label \in {"rb_app_fw", "rb_fw", "rb_app", "print"} :
            /\ Goto(p, label)
            /\ label = "rb_app_fw" => seen[p] = "INCOMPLETE_APP_FW_UPDATE"
            /\ label = "rb_fw" => seen[p] = "INCOMPLETE_FW_UPDATE"
            /\ label = "rb_app" => seen[p] = "INCOMPLETE_APP_UPDATE"
    BY <1>8 DEF RollbackWorkDir
  <2>2. cmd[p] = "rollback_update" /\ rebootState = seen[p]
    BY <1>8 DEF RollbackWorkDir, AllKnow, Knows
  <2>3. pc'[p] = label /\ cmd'[p] = cmd[p] /\ seen'[p] = seen[p]
        /\ rebootState' = rebootState
    BY <1>8, <2>1 DEF RollbackWorkDir, Goto, device, ProcTypeOK
  <2>4. Knows(p)'
    BY <2>1, <2>2, <2>3 DEF Knows, SwitchOr, AllCommands
  <2> QED
    BY <1>8, <2>1, <2>4, GotoKnows DEF RollbackWorkDir
<1>9. ASSUME NEW p \in Procs, SwitchWorkDir(p)
      PROVE  OneAtATime' /\ AllKnow'
  <2>1. PICK label \in {"rb_fw", "rb_app"} : Goto(p, label)
    BY <1>9 DEF SwitchWorkDir
  <2>2. cmd[p] # "rollback_update" /\ rebootState = Idle /\ seen[p] = Idle
    BY <1>9 DEF SwitchWorkDir, AllKnow, Knows
  <2>3. pc'[p] = label /\ cmd'[p] = cmd[p] /\ rebootState' = rebootState
        /\ seen'[p] = seen[p]
    BY <1>9, <2>1 DEF SwitchWorkDir, Goto, device, ProcTypeOK
  <2>4. Knows(p)'
    BY <2>1, <2>2, <2>3 DEF Knows, SwitchOr, AllCommands
  <2> QED
    BY <1>9, <2>1, <2>4, GotoKnows DEF SwitchWorkDir
<1>10. ASSUME NEW p \in Procs, RollbackApplication(p)
       PROVE  OneAtATime' /\ AllKnow'
  <2>1. rebootState \in BootStates /\ rebootState' \in RolledBack("app", rebootState)
        /\ ~rebooted'
    BY <1>10 DEF RollbackApplication, SelectOther, DeviceTypeOK
  <2>2. rebootState' \in RollbackPending /\ "app" \in Parts(rebootState')
    BY <2>1, PartsOfRollback DEF Components
  <2>3. CASE pc[p] = "rb_app_fw"
    <3>1. cmd[p] = "rollback_update" /\ seen[p] = "INCOMPLETE_APP_FW_UPDATE"
      BY <2>3 DEF AllKnow, Knows
    <3>2. Goto(p, "rb_fw")
      BY <1>10, <2>3 DEF RollbackApplication
    <3>3. pc'[p] = "rb_fw" /\ cmd'[p] = cmd[p] /\ seen'[p] = seen[p]
      BY <3>2 DEF Goto, ProcTypeOK
    <3>4. Knows(p)'
      BY <2>1, <2>2, <3>1, <3>3 DEF Knows, SwitchOr, Halfway, AllCommands
    <3> QED
      BY <2>3, <3>2, <3>4, GotoKnows
  <2>4. CASE pc[p] = "rb_app"
    <3>1. cmd[p] = "rollback_update" => seen[p] = "INCOMPLETE_APP_UPDATE"
      BY <2>4 DEF AllKnow, Knows, SwitchOr
    <3>2. Goto(p, "rb_marker")
      BY <1>10, <2>4 DEF RollbackApplication
    <3>3. pc'[p] = "rb_marker" /\ cmd'[p] = cmd[p] /\ seen'[p] = seen[p]
      BY <3>2 DEF Goto, ProcTypeOK
    <3>4. Parts("INCOMPLETE_APP_UPDATE") = {"app"}
      BY DEF Parts, About, Components
    <3>5. Knows(p)'
      BY <2>2, <3>1, <3>3, <3>4 DEF Knows, AllCommands
    <3> QED
      BY <2>4, <3>2, <3>5, GotoKnows
  <2> QED
    BY <1>10, <2>3, <2>4 DEF RollbackApplication
<1>11. ASSUME NEW p \in Procs, RollbackFirmware(p)
       PROVE  OneAtATime' /\ AllKnow'
  <2>1. rebootState \in BootStates /\ rebootState' \in RolledBack("fw", rebootState)
    BY <1>11 DEF RollbackFirmware, SelectOther, DeviceTypeOK
  <2>2. /\ rebootState' \in RollbackPending /\ "fw" \in Parts(rebootState')
        /\ rebootState \in RollbackPending => Parts(rebootState) \subseteq Parts(rebootState')
    BY <2>1, PartsOfRollback DEF Components
  <2>3. pc'[p] = "rb_marker" /\ cmd'[p] = cmd[p] /\ seen'[p] = seen[p]
    BY <1>11 DEF RollbackFirmware, Goto, ProcTypeOK
  <2>4. ASSUME cmd[p] = "rollback_update"
        PROVE  Parts(seen[p]) \subseteq Parts(rebootState')
    <3>1. CASE seen[p] = "INCOMPLETE_FW_UPDATE"
      BY <2>2, <3>1 DEF Parts, About, Components
    <3>2. CASE Halfway
      <4>1. {"app", "fw"} \subseteq Parts(rebootState')
        BY <2>2, <3>2 DEF Halfway
      <4> QED
        BY <4>1 DEF Parts, Components
    <3> QED
      BY <1>11, <2>4, <3>1, <3>2 DEF RollbackFirmware, AllKnow, Knows, SwitchOr
  <2>5. Knows(p)'
    BY <2>2, <2>3, <2>4 DEF Knows, AllCommands
  <2> QED
    BY <1>11, <2>5, GotoKnows DEF RollbackFirmware
<1>12. ASSUME NEW p \in Procs, RollbackThrows(p) \/ WorkDirThrows(p) \/ ApplyWriteThrows(p)
       PROVE  OneAtATime' /\ AllKnow'
  BY <1>12, CaughtKnows DEF RollbackThrows, WorkDirThrows, ApplyWriteThrows
<1>13. ASSUME NEW p \in Procs, EnvThrows(p)
       PROVE  OneAtATime' /\ AllKnow'
  <2>1. pc[p] # "idle"
    BY <1>13 DEF EnvThrows, EnvReads, AllCommands
  <2> QED
    BY <1>13, <2>1, ExitKnows, CaughtKnows DEF EnvThrows
<1>14. ASSUME NEW p \in Procs, RollbackMarker(p) \/ ApplyMarker(p) \/ ApplyRestore(p)
       PROVE  OneAtATime' /\ AllKnow'
  BY <1>14, ExitKnows DEF RollbackMarker, ApplyMarker, ApplyRestore
<1>15. ASSUME NEW p \in Procs, ApplyCheckInstalled(p) \/ ApplyMode(p)
       PROVE  OneAtATime' /\ AllKnow'
  <2>1. PICK label \in {"apply_mode", "apply_check_rollback", "reboot", "apply_marker"} :
            Goto(p, label)
    BY <1>15 DEF ApplyCheckInstalled, ApplyMode
  <2>2. pc'[p] = label
    BY <2>1 DEF Goto, ProcTypeOK
  <2>3. Knows(p)'
    BY <2>2 DEF Knows, AllCommands
  <2> QED
    BY <1>15, <2>1, <2>3, GotoKnows DEF ApplyCheckInstalled, ApplyMode
<1>16. ASSUME NEW p \in Procs, ApplyCheckRollback(p)
       PROVE  OneAtATime' /\ AllKnow'
  <2>1. CASE Goto(p, "apply_read")
    <3>1. Knows(p)'
      BY <2>1 DEF Goto, Knows, AllCommands, ProcTypeOK
    <3> QED
      BY <1>16, <2>1, <3>1, GotoKnows DEF ApplyCheckRollback
  <2> QED
    BY <1>16, <2>1, ExitKnows DEF ApplyCheckRollback
<1>17. ASSUME NEW p \in Procs, ApplyRead(p)
       PROVE  OneAtATime' /\ AllKnow'
  <2>1. seen'[p] = rebootState /\ rebootState' = rebootState
    BY <1>17 DEF ApplyRead, Remember, device, ProcTypeOK
  <2>2. pc'[p] = IF rebootState \in RollbackPending THEN "apply_advance"
                                                   ELSE "reboot_rollback"
    BY <1>17 DEF ApplyRead, Remember, ProcTypeOK
  <2>3. Knows(p)'
    BY <2>1, <2>2 DEF Knows, AllCommands
  <2> QED
    BY <1>17, <2>3, RememberKnows DEF ApplyRead
<1>18. ASSUME NEW p \in Procs, ApplyAdvance(p)
       PROVE  OneAtATime' /\ AllKnow'
  <2>1. seen[p] \in RollbackPending
    BY <1>18 DEF ApplyAdvance, AdvanceOK
  <2>2. pc'[p] = "reboot_rollback" /\ seen'[p] = seen[p]
        /\ rebootState' = Advanced[seen[p]]
    BY <1>18 DEF ApplyAdvance, Goto, ProcTypeOK
  <2>3. Knows(p)'
    BY <2>1, <2>2 DEF Knows, AllCommands
  <2> QED
    BY <1>18, <2>3, GotoKnows DEF ApplyAdvance
<1>19. ASSUME NEW p \in Procs, Reboot(p)
       PROVE  OneAtATime' /\ AllKnow'
  <2>1. CASE pc[p] = "reboot_rollback" /\ Goto(p, "apply_restore")
    <3>1. rebootState = IF seen[p] \in RollbackPending THEN Advanced[seen[p]] ELSE seen[p]
      BY <2>1 DEF AllKnow, Knows
    <3>2. pc'[p] = "apply_restore" /\ seen'[p] = seen[p] /\ rebootState' = rebootState
      BY <1>19, <2>1 DEF Reboot, Goto, device, ProcTypeOK
    <3>3. Knows(p)'
      BY <3>1, <3>2 DEF Knows, AllCommands
    <3> QED
      BY <1>19, <2>1, <3>3, GotoKnows DEF Reboot
  <2> QED
    BY <1>19, <2>1, ExitKnows DEF Reboot
<1>20. ASSUME NEW p \in Procs, Kill(p)
       PROVE  OneAtATime' /\ AllKnow'
  <2>1. pc'[p] = "idle" /\ \A q \in Procs \ {p} : pc'[q] = pc[q]
    BY <1>20 DEF Kill, ProcTypeOK
  <2>2. Knows(p)'
    BY <2>1 DEF Knows, AllCommands
  <2> QED
    BY <1>20, <2>1, <2>2, OnlyOne DEF Kill
<1>21. ASSUME Boot
       PROVE  OneAtATime' /\ AllKnow'
  BY <1>21 DEF Boot, OneAtATime, AllKnow, Knows, AllCommands
<1>22. ASSUME Agent \/ UNCHANGED vars
       PROVE  OneAtATime' /\ AllKnow'
  <2>1. UNCHANGED <<device, pc, cmd, seen>>
    BY <1>22 DEF Agent, AgentDownload, DownloadRequested, AgentMarksInstalled,
       AgentApplies, vars, device
  <2> QED
    BY <2>1 DEF OneAtATime, AllKnow, Knows, SwitchOr, Halfway, PartlyInstalled, device
<1> QED
  BY <1>1, <1>2, <1>3, <1>4, <1>4a, <1>4b, <1>5, <1>5a, <1>6, <1>7, <1>8, <1>9, <1>10, <1>11, <1>12,
     <1>13, <1>14, <1>15, <1>16, <1>17, <1>18, <1>19, <1>20, <1>21, <1>22
     DEF Next, Handler, FinishReboot, PowerCycle

LEMMA ExclusiveAlways ==
    ASSUME Exclusive
    PROVE  Spec => []ExclusiveInv
<1>1. ExclusiveInv /\ [Next]_vars => ExclusiveInv'
  BY ExclusiveStep
<1> QED
  BY <1>1, ExclusiveInit, PTL DEF Spec

(***************************************************************************)
(* --rollback_update announces a rollback only when every component of the *)
(* update it found is in it, whatever fails.                               *)
(***************************************************************************)
THEOREM RollbacksAreComplete ==
    ASSUME Exclusive
    PROVE  Spec => []PreparedInFull
<1>1. ExclusiveInv => PreparedInFull
  BY DEF ExclusiveInv, AllKnow, Knows, PreparedInFull
<1> QED
  BY <1>1, ExclusiveAlways, PTL

(***************************************************************************)
(* With one invocation at a time what is committed stays committed, even   *)
(* where old signals lead --apply_update to work that is done: then it     *)
(* finds the idle state, and that is what it restores.                     *)
(***************************************************************************)
THEOREM CommitsAreFinalExclusive ==
    ASSUME Exclusive
    PROVE  Spec => CommitIsFinal
<1>1. ASSUME ExclusiveInv
      PROVE  WritesOK
  <2>1. \A p \in Procs : Knows(p) /\ (pc[p] = "apply_advance" => seen[p] \in RollbackPending)
    BY <1>1 DEF ExclusiveInv, TypeInv, ProcInv, AdvanceOK, AllKnow
  <2>2. \A s \in RollbackPending : s # Idle /\ Advanced[s] # Idle
    BY NotIdle, AdvancedType DEF Idle, RollbackPending, IncompleteRollback
  <2>3. ASSUME NEW p \in Procs, pc[p] = "apply_advance"
        PROVE  rebootState # Idle
    BY <2>1, <2>2, <2>3 DEF Knows
  <2>4. ASSUME NEW p \in Procs, pc[p] = "apply_restore"
        PROVE  rebootState # Idle \/ seen[p] = Idle
    BY <2>1, <2>2, <2>4 DEF Knows
  <2> QED
    BY <2>3, <2>4 DEF WritesOK
<1>2. ExclusiveInv /\ [Next]_vars => [LeavesIdle]_vars
  BY <1>1, IdleLeft DEF ExclusiveInv, TypeInv
<1> QED
  BY <1>2, ExclusiveAlways, PTL DEF Spec, CommitIsFinal

-----------------------------------------------------------------------------
(* The handlers implement the lifecycle: every step of Updater is a step   *)
(* of Lifecycle under Phase, Parts(rebootState) and Rest, or changes none. *)

\* Only here is something left to select.
AtRest == {"install_rest", "rb_fw"}

LEMMA NoParts ==
    /\ Parts(Idle) = {}
    /\ \A s \in Failed : Parts(s) = {}
BY DEF Parts, About, Components, Idle, Failed

LEMMA NoRest ==
    ASSUME \A p \in Procs : pc[p] \notin AtRest
    PROVE  Rest = {}
BY DEF Rest, AtRest

LEMMA RestOfOne ==
    ASSUME OneAtATime, NEW p \in Procs, pc[p] \in AtRest
    PROVE  Rest = Parts(seen[p]) \ Parts(rebootState)
BY DEF OneAtATime, AtRest, Rest, Parts

\* Whoever goes elsewhere leaves nothing to be selected.
LEMMA RestIsOver ==
    ASSUME OneAtATime, ProcTypeOK, NEW p \in Procs, pc[p] # "idle",
           NEW label, label \notin AtRest, pc' = [pc EXCEPT ![p] = label]
    PROVE  Rest' = {}
<1>1. \A q \in Procs : pc'[q] \notin AtRest
  BY DEF OneAtATime, ProcTypeOK, AtRest
<1> QED
  BY <1>1 DEF Rest, AtRest

LEMMA RestAfterExit ==
    ASSUME OneAtATime, ProcTypeOK, NEW p \in Procs, pc[p] # "idle", NEW code,
           Exit(p, code)
    PROVE  Rest' = {}
BY RestIsOver DEF Exit, AtRest

LEMMA RestAfterGoto ==
    ASSUME OneAtATime, ProcTypeOK, NEW p \in Procs, pc[p] # "idle", NEW label,
           label \notin AtRest, Goto(p, label) \/ Remember(p, label)
    PROVE  Rest' = {}
BY RestIsOver DEF Goto, Remember

LEMMA QuietStutters ==
    ASSUME UNCHANGED <<rebootState, rebooted>>, Rest' = Rest \/ Rest' = {}
    PROVE  [L!Next]_L!vars
<1>1. UNCHANGED <<Phase, Parts(rebootState)>>
  BY DEF Phase
<1> QED
  BY <1>1 DEF L!vars, L!Next, L!GiveUp

LEMMA SwitchImplements ==
    ASSUME NEW c \in Components, rebootState = Idle, SelectOther(c), Rest' = {}
    PROVE  L!Switch
<1>1. rebootState' = RollbackFor({c})
  BY NotIdle DEF SelectOther, RolledBack, Idle
<1>2. Parts(rebootState)' = {c}
  BY <1>1, PartsOfPackage
<1>3. rebootState' \in RollbackPending /\ ~rebooted'
  BY RolledBackType DEF SelectOther
<1>4. Phase = "idle" /\ Phase' = "rollingBack"
  BY <1>3 DEF Phase, Idle, Failed, IncompleteUpdate, RollbackPending
<1> QED
  BY <1>2, <1>4 DEF L!Switch

LEMMA RollbackImplements ==
    ASSUME NEW c \in Parts(rebootState), rebootState \in IncompleteUpdate,
           SelectOther(c),
           Rest' \subseteq Parts(rebootState) \ Parts(rebootState')
    PROVE  L!Rollback
<1>1. c \in Components
  BY DEF Parts
<1>2. PICK C \in (SUBSET Components) \ {{}} :
          rebootState' = RollbackFor(C) /\ C \subseteq Parts(rebootState)
  <2>1. CASE rebootState = "INCOMPLETE_APP_FW_UPDATE"
    <3>1. Parts(rebootState) = Components
      BY <2>1 DEF Parts, About, Components
    <3>2. rebootState' \in {RollbackFor({c}), RollbackFor(Components)}
      BY <2>1 DEF SelectOther, RolledBack
    <3> QED
      BY <1>1, <3>1, <3>2
  <2>2. CASE rebootState # "INCOMPLETE_APP_FW_UPDATE"
    <3>1. rebootState' = RollbackFor({c})
      BY <2>2 DEF SelectOther, RolledBack, IncompleteUpdate, RollbackPending
    <3> QED
      BY <1>1, <3>1
  <2> QED
    BY <2>1, <2>2
<1>3. Parts(rebootState)' \in (SUBSET Parts(rebootState)) \ {{}}
  BY <1>2, PartsOfPackage
<1>4. rebootState' \in RollbackPending /\ ~rebooted'
  BY <1>1, RolledBackType DEF SelectOther
<1>5. Phase \in {"installed", "trial"} /\ Phase' = "rollingBack"
  BY <1>4 DEF Phase, Idle, Failed, IncompleteUpdate, RollbackPending
<1> QED
  BY <1>3, <1>5 DEF L!Rollback

\* The firmware after the application, of a rollback of both.
LEMMA ContinueImplements ==
    ASSUME Halfway, SelectOther("fw"), Rest' = {},
           Rest = Components \ Parts(rebootState)
    PROVE  L!Continue
<1>1. /\ rebootState' \in RollbackPending /\ ~rebooted'
      /\ Parts(rebootState) \subseteq Parts(rebootState')
      /\ "fw" \in Parts(rebootState')
  BY PartsOfRollback DEF Halfway, SelectOther, BootStates, Components
<1>2. Phase = "rollingBack" /\ Phase' = "rollingBack"
  BY <1>1 DEF Halfway, Phase, Idle, Failed, IncompleteUpdate, RollbackPending
<1>3. Parts(rebootState') = Components
  BY <1>1 DEF Halfway, Parts, Components
<1>4. Parts(rebootState)' = Parts(rebootState) \cup Rest
  BY <1>3 DEF Parts
<1> QED
  BY <1>2, <1>4 DEF L!Continue

\* Whoever selects the other slot of c may do so in the lifecycle.
LEMMA SelectOtherImplements ==
    ASSUME OneAtATime, AllKnow, NEW p \in Procs, NEW c \in Components, SelectOther(c),
           \/ pc[p] \in {"rb_app_fw", "rb_app"} /\ c = "app"
           \/ pc[p] = "rb_fw" /\ c = "fw",
           \/ Rest' = {}
           \/ pc[p] = "rb_app_fw" /\ Rest' = Components \ Parts(rebootState')
    PROVE  L!Next
<1>1. CASE rebootState = Idle
  <2>1. Rest' = {}
    BY <1>1 DEF AllKnow, Knows, Idle
  <2> QED
    BY <1>1, <2>1, SwitchImplements DEF L!Next
<1>2. CASE pc[p] = "rb_fw" /\ Halfway /\ seen[p] = "INCOMPLETE_APP_FW_UPDATE"
  <2>1. Parts("INCOMPLETE_APP_FW_UPDATE") = Components
    BY DEF Parts, About, Components
  <2>2. Rest = Components \ Parts(rebootState)
    BY <1>2, <2>1, RestOfOne DEF AtRest
  <2> QED
    BY <1>2, <2>2, ContinueImplements DEF L!Next
<1>3. CASE rebootState \in IncompleteUpdate /\ c \in Parts(rebootState)
           /\ Rest' = {}
  BY <1>3, RollbackImplements DEF L!Next
<1>4. CASE pc[p] = "rb_app_fw" /\ Rest' = Components \ Parts(rebootState')
  <2>0. pc[p] = "rb_app_fw" /\ Knows(p)
    BY <1>4 DEF AllKnow
  <2>1. rebootState = "INCOMPLETE_APP_FW_UPDATE"
    BY <2>0 DEF Knows
  <2>2. Parts(rebootState) = Components
    BY <2>1 DEF Parts, About, Components
  <2> QED
    BY <1>4, <2>1, <2>2, RollbackImplements DEF L!Next, IncompleteUpdate
<1>5. \/ rebootState = Idle
      \/ pc[p] = "rb_fw" /\ Halfway /\ seen[p] = "INCOMPLETE_APP_FW_UPDATE"
      \/ rebootState = "INCOMPLETE_APP_FW_UPDATE"
      \/ rebootState = "INCOMPLETE_APP_UPDATE" /\ c = "app"
      \/ rebootState = "INCOMPLETE_FW_UPDATE" /\ c = "fw"
  BY DEF AllKnow, Knows, SwitchOr
<1> QED
  BY <1>1, <1>2, <1>3, <1>4, <1>5 DEF IncompleteUpdate, Parts, About, Components

\* Advancing a rollback, and taking the advance back, are no steps of it.
LEMMA AdvanceStutters ==
    ASSUME NEW s \in RollbackPending, UNCHANGED <<rebooted, Rest>>,
           \/ rebootState = s /\ rebootState' = Advanced[s]
           \/ rebootState = Advanced[s] /\ rebootState' = s
    PROVE  UNCHANGED L!vars
<1>1. Parts(Advanced[s]) = Parts(s)
  <2>1. CASE s = "ROLLBACK_FW_REBOOT_PENDING"
    BY <2>1 DEF Parts, About, Advanced, Components
  <2>2. CASE s = "ROLLBACK_APP_REBOOT_PENDING"
    BY <2>2 DEF Parts, About, Advanced, Components
  <2>3. CASE s = "ROLLBACK_APP_FW_REBOOT_PENDING"
    BY <2>3 DEF Parts, About, Advanced, Components
  <2> QED
    BY <2>1, <2>2, <2>3 DEF RollbackPending
<1>2. Parts(rebootState)' = Parts(rebootState)
  BY <1>1
<1>3. UNCHANGED Phase
  BY AdvancedType DEF Phase, Idle, Failed, IncompleteUpdate, RollbackPending,
     IncompleteRollback
<1> QED
  BY <1>2, <1>3 DEF L!vars

LEMMA InstallImplements ==
    ASSUME NEW p \in Procs, OneAtATime, AllKnow, ProcTypeOK, InstallSelects(p)
    PROVE  L!Install
<1>1. PICK C \in Bundles : \E D \in (SUBSET C) \ {{}} :
         /\ Select(D)
         /\ seen' = [seen EXCEPT ![p] = IncompleteFor(C)]
         /\ pc' = [pc EXCEPT ![p] = IF D = C THEN "install_signal"
                                            ELSE "install_rest"]
  BY DEF InstallSelects
<1>2. PICK D \in (SUBSET C) \ {{}} :
         /\ Select(D)
         /\ seen' = [seen EXCEPT ![p] = IncompleteFor(C)]
         /\ pc' = [pc EXCEPT ![p] = IF D = C THEN "install_signal"
                                            ELSE "install_rest"]
  BY <1>1
<1>3. C \in (SUBSET Components) \ {{}} /\ D \in (SUBSET Components) \ {{}}
  BY ConstantsAssumption, <1>2
<1>4. Parts(IncompleteFor(C)) = C /\ Parts(IncompleteFor(D)) = D
  BY <1>3, PartsOfPackage
<1>5. Parts(rebootState)' = D
  BY <1>2, <1>4 DEF Select
<1>6. rebootState = Idle /\ rebootState' \in IncompleteUpdate /\ ~rebooted'
  BY <1>2, IncompleteForType DEF InstallSelects, Select, AllKnow, Knows
<1>7. Phase = "idle" /\ Phase' = "installed"
  BY <1>6 DEF Phase, Idle, Failed, IncompleteUpdate
<1>8. Rest' \subseteq Components \ Parts(rebootState)'
  BY DEF Rest
<1> QED
  BY <1>3, <1>5, <1>7, <1>8 DEF L!Install

LEMMA InstallContinues ==
    ASSUME NEW p \in Procs, OneAtATime, AllKnow, ProcTypeOK, InstallSelectsRest(p)
    PROVE  L!Continue
<1>1. PartlyInstalled(p) /\ pc[p] = "install_rest"
  BY DEF InstallSelectsRest, AllKnow, Knows
<1>2. Rest = Parts(seen[p]) \ Parts(rebootState)
  BY <1>1, RestOfOne DEF AtRest
<1>3. Rest' = {}
  BY RestAfterGoto DEF InstallSelectsRest, AtRest
<1>4. rebootState' = IncompleteFor(Parts(seen[p])) /\ ~rebooted'
  BY DEF InstallSelectsRest, Select
<1>5. Parts(seen[p]) \in (SUBSET Components) \ {{}}
  BY <1>1 DEF PartlyInstalled, IncompleteUpdate, Parts, About, Components
<1>6. Parts(rebootState)' = Parts(seen[p])
  BY <1>4, <1>5, PartsOfPackage
<1>7. Parts(rebootState)' = Parts(rebootState) \cup Rest
  BY <1>1, <1>2, <1>6 DEF PartlyInstalled
<1>8. Phase = "installed" /\ Phase' = "installed"
  BY <1>1, <1>4, IncompleteForType
     DEF PartlyInstalled, Phase, Idle, Failed, IncompleteUpdate
<1> QED
  BY <1>3, <1>7, <1>8 DEF L!Continue

LEMMA FailImplements ==
    ASSUME NEW p \in Procs, OneAtATime, AllKnow, ProcTypeOK, InstallFails(p)
    PROVE  [L!Next]_L!vars
<1>1. Rest' = {}
  BY RestAfterExit DEF InstallFails
<1>2. CASE rebootState' = rebootState
  BY <1>1, <1>2, QuietStutters DEF InstallFails
<1>3. CASE rebootState' # rebootState
  <2>1. /\ pc[p] \in {"installing", "install_rest"}
        /\ rebootState' \in Failed
    BY <1>3 DEF InstallFails, Failed
  <2>2. Parts(rebootState)' = {}
    BY <2>1, NoParts
  <2>3. Phase' = "failed"
    BY <2>1 DEF Phase, Idle, Failed
  <2>4. CASE pc[p] = "installing"
    <3>1. Phase = "idle"
      BY <2>4 DEF AllKnow, Knows, Phase
    <3> QED
      BY <1>1, <2>2, <2>3, <3>1 DEF L!Next, L!Fail
  <2>5. CASE pc[p] = "install_rest"
    <3>1. PartlyInstalled(p)
      BY <2>5 DEF AllKnow, Knows
    <3>2. Phase = "installed"
      BY <3>1 DEF PartlyInstalled, Phase, Idle, Failed, IncompleteUpdate
    <3>3. Rest # {}
      BY <2>5, <3>1, RestOfOne DEF PartlyInstalled, AtRest
    <3> QED
      BY <1>1, <2>2, <2>3, <3>2, <3>3 DEF L!Next, L!Fail
  <2> QED
    BY <2>1, <2>4, <2>5
<1> QED
  BY <1>2, <1>3

LEMMA CommitImplements ==
    ASSUME DeviceTypeOK, NEW p \in Procs, CommitSucceeds(p), Rest' = {}
    PROVE  L!Commit
<1>1. rebootState \in BootStates \ {Idle} /\ rebooted /\ rebootState' = Idle
  BY DEF CommitSucceeds, DeviceTypeOK
<1>2. Phase \in {"trial", "rolledBack", "failed"}
  BY <1>1 DEF Phase
<1>3. Phase' = "idle" /\ Parts(rebootState)' = {}
  BY <1>1, NoParts DEF Phase
<1> QED
  BY <1>2, <1>3 DEF L!Commit

LEMMA BootImplements ==
    ASSUME DeviceTypeOK, Boot
    PROVE  [L!Next]_L!vars
<1>1. rebooted' /\ pc' = [p \in Procs |-> "idle"]
  BY DEF Boot
<1>0. Rest' = {}
  BY <1>1 DEF Rest
<1>2. CASE rebootState' # rebootState
  <2>1. /\ rebootState \in {"INCOMPLETE_FW_UPDATE", "INCOMPLETE_APP_FW_UPDATE"}
        /\ ~rebooted
        /\ rebootState' = "FW_UPDATE_REBOOT_FAILED"
    BY <1>2 DEF Boot
  <2>2. Phase = "installed" /\ Phase' = "failed"
    BY <2>1 DEF Phase, Idle, Failed, IncompleteUpdate
  <2>3. Parts(rebootState)' = {}
    BY <2>1, NoParts DEF Failed
  <2> QED
    BY <1>0, <2>2, <2>3 DEF L!Next, L!Boot
<1>3. CASE rebootState' = rebootState /\ rebooted
  BY <1>0, <1>1, <1>3, QuietStutters DEF Boot
<1>4. CASE rebootState' = rebootState /\ ~rebooted
  <2>1. UNCHANGED Parts(rebootState)
    BY <1>4
  <2>2. CASE rebootState \in {Idle} \cup Failed
    <3>1. UNCHANGED Phase
      BY <1>4, <2>2 DEF Phase
    <3> QED
      BY <1>0, <2>1, <3>1 DEF L!Next, L!GiveUp
  <2>3. CASE rebootState \notin {Idle} \cup Failed /\ rebootState \in IncompleteUpdate
    <3>1. Phase = "installed" /\ Phase' = "trial"
      BY <1>1, <1>4, <2>3 DEF Phase
    <3> QED
      BY <1>0, <2>1, <3>1 DEF L!Next, L!Boot
  <2>4. CASE rebootState \notin {Idle} \cup Failed \cup IncompleteUpdate
    <3>1. Phase = "rollingBack" /\ Phase' = "rolledBack"
      BY <1>1, <1>4, <2>4 DEF Phase
    <3> QED
      BY <1>0, <2>1, <3>1 DEF L!Next, L!Boot
  <2> QED
    BY <2>2, <2>3, <2>4
<1> QED
  BY <1>2, <1>3, <1>4 DEF DeviceTypeOK

\* A call of rollback_application or rollback_firmware.
LEMMA RollbackCallImplements ==
    ASSUME ExclusiveInv, NEW p \in Procs,
           RollbackApplication(p) \/ RollbackFirmware(p) \/ RollbackThrows(p)
    PROVE  [L!Next]_L!vars
<1> USE DEF ExclusiveInv, TypeInv, ProcInv
<1>1. CASE RollbackApplication(p) /\ pc[p] = "rb_app_fw"
  <2>1. pc'[p] = "rb_fw" /\ seen'[p] = seen[p] /\ \A q \in Procs \ {p} : pc'[q] = pc[q]
    BY <1>1 DEF RollbackApplication, Goto, ProcTypeOK
  <2>2. seen[p] = "INCOMPLETE_APP_FW_UPDATE"
    BY <1>1 DEF AllKnow, Knows
  <2>3. Parts(seen[p]) = Components
    BY <2>2 DEF Parts, About, Components
  <2>4. \A q \in Procs \ {p} : pc'[q] = "idle"
    BY <1>1, <2>1 DEF OneAtATime
  <2>5. Rest' = Components \ Parts(rebootState')
    BY <2>1, <2>3, <2>4 DEF Rest, Parts
  <2> QED
    BY <1>1, <2>5, SelectOtherImplements DEF RollbackApplication, Components
<1>2. CASE (RollbackApplication(p) /\ pc[p] # "rb_app_fw") \/ RollbackFirmware(p)
  <2>1. Rest' = {}
    BY <1>2, RestAfterGoto DEF RollbackApplication, RollbackFirmware, AtRest
  <2> QED
    BY <1>2, <2>1, SelectOtherImplements DEF RollbackApplication, RollbackFirmware,
       Components
<1>3. CASE RollbackThrows(p)
  <2>1. Rest' = {}
    BY <1>3, RestAfterExit DEF RollbackThrows, Caught
  <2>2. CASE UNCHANGED device
    BY <2>1, <2>2, QuietStutters DEF device
  <2>3. CASE ~UNCHANGED device
    BY <1>3, <2>1, <2>3, SelectOtherImplements DEF RollbackThrows, Components
  <2> QED
    BY <2>2, <2>3
<1> QED
  BY <1>1, <1>2, <1>3

\* A step of a handler that leaves the device alone.
LEMMA HandlerStutters ==
    ASSUME ExclusiveInv, NEW p \in Procs, UNCHANGED device, pc[p] # "idle",
           \/ \E code : Exit(p, code)
           \/ \E label \in Labels \ AtRest : Goto(p, label) \/ Remember(p, label)
    PROVE  [L!Next]_L!vars
<1>1. Rest' = {}
  BY RestAfterExit, RestAfterGoto DEF ExclusiveInv, TypeInv, ProcInv
<1> QED
  BY <1>1, QuietStutters DEF device

\* Rollbacks and switches of the firmware alone have one call to make.
LEMMA WorkDirStutters ==
    ASSUME ExclusiveInv, NEW p \in Procs, RollbackWorkDir(p) \/ SwitchWorkDir(p)
    PROVE  [L!Next]_L!vars
<1> USE DEF ExclusiveInv, TypeInv, ProcInv
<1>1. /\ UNCHANGED <<rebootState, rebooted>>
      /\ seen' = seen
      /\ \A q \in Procs \ {p} : pc'[q] = "idle"
  BY DEF RollbackWorkDir, SwitchWorkDir, device, Goto, OneAtATime, ProcTypeOK
<1>2. CASE RollbackWorkDir(p)
  <2>1. rebootState = seen[p]
    BY <1>2 DEF RollbackWorkDir, AllKnow, Knows
  <2> QED
    BY <1>1, <2>1, QuietStutters DEF Rest
<1>3. CASE SwitchWorkDir(p)
  <2>1. Parts(seen[p]) = {}
    BY <1>3, NoParts DEF SwitchWorkDir, AllKnow, Knows
  <2> QED
    BY <1>1, <2>1, QuietStutters DEF Rest
<1> QED
  BY <1>2, <1>3

LEMMA LifecycleStep ==
    ASSUME Exclusive, ExclusiveInv, [Next]_vars
    PROVE  [L!Next]_L!vars
<1> USE DEF ExclusiveInv, TypeInv, ProcInv
<1>1. ASSUME NEW p \in Procs, InstallSelects(p) \/ InstallSelectsRest(p) \/ InstallFails(p)
      PROVE  [L!Next]_L!vars
  BY <1>1, InstallImplements, InstallContinues, FailImplements DEF L!Next
<1>2. ASSUME NEW p \in Procs, CommitSucceeds(p)
      PROVE  [L!Next]_L!vars
  <2>1. Rest' = {}
    BY <1>2, RestAfterExit DEF CommitSucceeds
  <2> QED
    BY <1>2, <2>1, CommitImplements DEF L!Next
<1>3. ASSUME NEW p \in Procs,
             RollbackApplication(p) \/ RollbackFirmware(p) \/ RollbackThrows(p)
      PROVE  [L!Next]_L!vars
  BY <1>3, RollbackCallImplements
<1>4. ASSUME NEW p \in Procs, ApplyAdvance(p)
      PROVE  [L!Next]_L!vars
  <2>1. seen[p] \in RollbackPending /\ rebootState = seen[p]
    BY <1>4 DEF ApplyAdvance, AdvanceOK, AllKnow, Knows
  <2>2. Rest' = {} /\ Rest = {}
    BY <1>4, RestAfterGoto, NoRest DEF ApplyAdvance, AtRest, OneAtATime
  <2> QED
    BY <1>4, <2>1, <2>2, AdvanceStutters DEF ApplyAdvance
<1>5. ASSUME NEW p \in Procs, ApplyRestore(p)
      PROVE  [L!Next]_L!vars
  <2>1. rebootState = IF seen[p] \in RollbackPending THEN Advanced[seen[p]]
                                                     ELSE seen[p]
    BY <1>5 DEF ApplyRestore, AllKnow, Knows
  <2>2. rebootState' = seen[p] /\ UNCHANGED rebooted
    BY <1>5 DEF ApplyRestore
  <2>3. Rest' = {} /\ Rest = {}
    BY <1>5, RestAfterExit, NoRest DEF ApplyRestore, AtRest, OneAtATime
  <2> QED
    BY <2>1, <2>2, <2>3, AdvanceStutters, QuietStutters
<1>6. ASSUME Boot
      PROVE  [L!Next]_L!vars
  BY <1>6, BootImplements
<1>7. ASSUME NEW p \in Procs, RollbackWorkDir(p) \/ SwitchWorkDir(p)
      PROVE  [L!Next]_L!vars
  BY <1>7, WorkDirStutters
<1>8. ASSUME NEW p \in Procs,
             \/ UpdateFile(p) \/ Automatic(p) \/ InstallStarts(p)
             \/ InstallSignals(p) \/ CommitDeclined(p) \/ RollbackRead(p)
             \/ SwitchRead(p) \/ RollbackMarker(p) \/ WorkDirThrows(p)
             \/ EnvThrows(p) \/ PrintState(p) \/ PrintRebooted(p)
             \/ ApplyCheckInstalled(p) \/ ApplyMode(p) \/ ApplyMarker(p)
             \/ ApplyCheckRollback(p) \/ ApplyRead(p) \/ Reboot(p)
             \/ ApplyWriteThrows(p)
      PROVE  [L!Next]_L!vars
  <2>1. UNCHANGED device /\ pc[p] # "idle"
    BY <1>8 DEF UpdateFile, Automatic, InstallStarts, InstallSignals, CommitDeclined,
       RollbackRead, SwitchRead, RollbackMarker, WorkDirThrows, EnvThrows, EnvReads,
       AllCommands, PrintState, PrintRebooted, ApplyCheckInstalled, ApplyMode,
       ApplyMarker, ApplyCheckRollback, ApplyRead, Reboot, ApplyWriteThrows
  <2>2. \/ \E code : Exit(p, code)
        \/ \E label \in Labels \ AtRest : Goto(p, label) \/ Remember(p, label)
    BY <1>8 DEF UpdateFile, Automatic, InstallStarts, InstallSignals, CommitDeclined,
       RollbackRead, SwitchRead, RollbackMarker, WorkDirThrows, EnvThrows, Caught,
       PrintState, PrintRebooted, ApplyCheckInstalled, ApplyMode,
       ApplyMarker, ApplyCheckRollback, ApplyRead, Reboot, ApplyWriteThrows, Labels,
       AtRest
  <2> QED
    BY <2>1, <2>2, HandlerStutters
<1>9. ASSUME NEW p \in Procs, Start(p) \/ Kill(p)
      PROVE  [L!Next]_L!vars
  <2>1. \A q \in Procs : pc'[q] \notin AtRest
    BY <1>9, ConstantsAssumption DEF Start, Kill, ProcTypeOK, OneAtATime, AtRest,
       AllCommands
  <2>2. Rest' = {}
    BY <2>1 DEF Rest, AtRest
  <2> QED
    BY <1>9, <2>2, QuietStutters DEF Start, Kill, device
<1>10. ASSUME Agent \/ UNCHANGED vars
       PROVE  [L!Next]_L!vars
  <2>1. UNCHANGED <<rebootState, rebooted, pc, seen>>
    BY <1>10 DEF Agent, AgentDownload, DownloadRequested, AgentMarksInstalled,
       AgentApplies, vars, device
  <2>2. Rest' = Rest
    BY <2>1 DEF Rest
  <2> QED
    BY <2>1, <2>2, QuietStutters
<1> QED
  BY <1>1, <1>2, <1>3, <1>4, <1>5, <1>6, <1>7, <1>8, <1>9, <1>10
     DEF Next, Handler, FinishReboot, PowerCycle

(***************************************************************************)
(* Run one at a time, the handlers take the device along the lifecycle,    *)
(* whatever fails and whatever is killed.                                  *)
(***************************************************************************)
THEOREM ImplementsLifecycle ==
    ASSUME Exclusive
    PROVE  Spec => LifecycleSpec
<1>1. Init => L!Init
  BY NoParts, NoRest DEF Init, L!Init, Phase, AtRest
<1>2. ExclusiveInv /\ [Next]_vars => [L!Next]_L!vars
  BY LifecycleStep
<1> QED
  BY <1>1, <1>2, ExclusiveAlways, PTL DEF Spec, LifecycleSpec, L!Spec

-----------------------------------------------------------------------------
(* "Rolled back" is said of a device that has, or will have: the state is  *)
(* advanced by --apply_update alone, which then reboots or restores it.    *)
(* That takes a process that is not killed and a state that can be         *)
(* written.  What a second --apply_update reads and restores may be an     *)
(* advanced state, so it must have been settled by then.                   *)

Applying == {"reboot_rollback", "apply_restore"}

Happens == rebooted \/ power = "rebooting"

Settled == rebootState \in IncompleteRollback => Happens

ClaimInv ==
    /\ RollbackClaimIsTrue
    /\ \A p \in Procs :
          pc[p] \in Applying /\ seen[p] \in IncompleteRollback => Happens

\* No process is killed and the U-Boot environment can be written.
Undisturbed == Faults \cap {"kill", "env"} = {}

LEMMA NobodyApplies ==
    ASSUME Settled, \A p \in Procs : pc[p] \notin Applying
    PROVE  ClaimInv
BY DEF Settled, Happens, ClaimInv, RollbackClaimIsTrue

\* A process at work elsewhere, or none, leaves nothing unsettled.
LEMMA IsSettled ==
    ASSUME ClaimInv, \A p \in Procs : pc[p] \notin Applying
    PROVE  Settled
BY DEF Settled, Happens, ClaimInv, RollbackClaimIsTrue, Applying

LEMMA OneElsewhere ==
    ASSUME OneAtATime, NEW p \in Procs, pc[p] \notin Applying \cup {"idle"}
    PROVE  \A q \in Procs : pc[q] \notin Applying
BY DEF OneAtATime, Applying

LEMMA ExitClaim ==
    ASSUME OneAtATime, ProcTypeOK, NEW p \in Procs, pc[p] # "idle", NEW code,
           Exit(p, code), Settled'
    PROVE  ClaimInv'
<1>1. \A q \in Procs : pc'[q] = "idle"
  BY DEF OneAtATime, ProcTypeOK, Exit
<1> QED
  BY <1>1, NobodyApplies DEF Settled, Happens, ClaimInv, RollbackClaimIsTrue, Applying

LEMMA CaughtClaim ==
    ASSUME OneAtATime, ProcTypeOK, NEW p \in Procs, pc[p] # "idle", Caught(p), Settled'
    PROVE  ClaimInv'
BY ExitClaim DEF Caught

LEMMA GotoClaim ==
    ASSUME OneAtATime, ProcTypeOK, NEW p \in Procs, pc[p] # "idle",
           NEW label, label \notin Applying,
           Goto(p, label) \/ Remember(p, label), Settled'
    PROVE  ClaimInv'
<1>1. \A q \in Procs : pc'[q] \notin Applying
  BY DEF OneAtATime, ProcTypeOK, Goto, Remember, Applying
<1> QED
  BY <1>1 DEF Settled, Happens, ClaimInv, RollbackClaimIsTrue

LEMMA SelectOtherSettled ==
    ASSUME NEW c \in Components, SelectOther(c)
    PROVE  Settled'
BY RolledBackType DEF SelectOther, Settled, RollbackPending, IncompleteRollback

LEMMA ClaimStep ==
    ASSUME Exclusive, Undisturbed, ExclusiveInv, ClaimInv, [Next]_vars
    PROVE  ClaimInv'
<1> USE DEF ExclusiveInv, TypeInv, ProcInv
<1>1. ASSUME NEW p \in Procs, Start(p)
      PROVE  ClaimInv'
  <2>1. \A q \in Procs : pc[q] = "idle" /\ pc'[q] \notin Applying
    BY <1>1, ConstantsAssumption DEF Start, ProcTypeOK, Applying, AllCommands
  <2>2. Settled
    BY <2>1, IsSettled DEF Applying
  <2> QED
    BY <1>1, <2>1, <2>2 DEF Start, device, Settled, Happens, ClaimInv,
       RollbackClaimIsTrue
<1>2. ASSUME NEW p \in Procs,
             \/ UpdateFile(p) \/ Automatic(p) \/ InstallStarts(p)
             \/ CommitDeclined(p) \/ RollbackRead(p) \/ RollbackWorkDir(p)
             \/ SwitchRead(p) \/ SwitchWorkDir(p) \/ RollbackMarker(p)
             \/ InstallSignals(p) \/ PrintState(p) \/ PrintRebooted(p)
             \/ ApplyCheckInstalled(p) \/ ApplyMode(p) \/ ApplyMarker(p)
             \/ ApplyCheckRollback(p)
      PROVE  ClaimInv'
  <2>1. pc[p] \notin Applying \cup {"idle"}
    BY <1>2 DEF UpdateFile, Automatic, InstallStarts, CommitDeclined, RollbackRead,
       RollbackWorkDir, SwitchRead, SwitchWorkDir, RollbackMarker,
       InstallSignals, PrintState, PrintRebooted, ApplyCheckInstalled, ApplyMode, ApplyMarker,
       ApplyCheckRollback, Applying
  <2>2. UNCHANGED <<device, power>>
    BY <1>2 DEF UpdateFile, Automatic, InstallStarts, CommitDeclined, RollbackRead,
       RollbackWorkDir, SwitchRead, SwitchWorkDir, RollbackMarker,
       InstallSignals, PrintState, PrintRebooted, ApplyCheckInstalled, ApplyMode, ApplyMarker,
       ApplyCheckRollback
  <2>3. Settled'
    BY <2>1, <2>2, OneElsewhere, IsSettled DEF Settled, Happens, device
  <2>4. \/ \E code : Exit(p, code)
        \/ \E label \in Labels \ Applying : Goto(p, label) \/ Remember(p, label)
    BY <1>2 DEF UpdateFile, Automatic, InstallStarts, CommitDeclined, RollbackRead,
       RollbackWorkDir, SwitchRead, SwitchWorkDir, RollbackMarker,
       InstallSignals, PrintState, PrintRebooted, ApplyCheckInstalled, ApplyMode, ApplyMarker,
       ApplyCheckRollback, Applying, Labels
  <2> QED
    BY <2>1, <2>3, <2>4, ExitClaim, GotoClaim
<1>3. ASSUME NEW p \in Procs, InstallSelects(p) \/ InstallSelectsRest(p)
      PROVE  ClaimInv'
  <2>1. rebootState' \in IncompleteUpdate
    BY <1>3, IncompleteForType DEF InstallSelects, InstallSelectsRest, Select
  <2>2. pc'[p] \notin Applying /\ \A q \in Procs \ {p} : pc'[q] = "idle"
    BY <1>3 DEF InstallSelects, InstallSelectsRest, Goto, ProcTypeOK, OneAtATime,
       Applying
  <2> QED
    BY <2>1, <2>2 DEF ClaimInv, RollbackClaimIsTrue, Applying, IncompleteUpdate,
       IncompleteRollback
<1>4. ASSUME NEW p \in Procs, InstallFails(p)
      PROVE  ClaimInv'
  <2>1. Settled
    BY <1>4, OneElsewhere, IsSettled DEF InstallFails, Applying
  <2>2. Settled'
    BY <1>4, <2>1 DEF InstallFails, Settled, Happens, IncompleteRollback
  <2> QED
    BY <1>4, <2>2, ExitClaim DEF InstallFails
<1>5. ASSUME NEW p \in Procs, CommitSucceeds(p)
      PROVE  ClaimInv'
  <2>1. Settled'
    BY <1>5, NotIdle DEF CommitSucceeds, Settled
  <2> QED
    BY <1>5, <2>1, ExitClaim DEF CommitSucceeds
<1>6. ASSUME NEW p \in Procs, RollbackApplication(p) \/ RollbackFirmware(p)
      PROVE  ClaimInv'
  <2>1. Settled'
    BY <1>6, SelectOtherSettled DEF RollbackApplication, RollbackFirmware, Components
  <2>2. PICK label \in {"rb_fw", "rb_marker"} : Goto(p, label)
    BY <1>6 DEF RollbackApplication, RollbackFirmware
  <2> QED
    BY <1>6, <2>1, <2>2, GotoClaim DEF RollbackApplication, RollbackFirmware, Applying
<1>7. ASSUME NEW p \in Procs, RollbackThrows(p) \/ WorkDirThrows(p)
      PROVE  ClaimInv'
  <2>1. Settled
    BY <1>7, OneElsewhere, IsSettled DEF RollbackThrows, WorkDirThrows, Applying
  <2>2. Settled'
    BY <1>7, <2>1, SelectOtherSettled DEF RollbackThrows, WorkDirThrows, Components,
       device, Settled, Happens
  <2> QED
    BY <1>7, <2>2, CaughtClaim DEF RollbackThrows, WorkDirThrows
<1>8. ASSUME NEW p \in Procs, ApplyRead(p)
      PROVE  ClaimInv'
  <2>1. Settled
    BY <1>8, OneElsewhere, IsSettled DEF ApplyRead, Applying
  <2>2. seen'[p] = rebootState /\ UNCHANGED <<device, power>>
        /\ \A q \in Procs \ {p} : pc'[q] = "idle"
    BY <1>8 DEF ApplyRead, Remember, ProcTypeOK, OneAtATime
  <2> QED
    BY <2>1, <2>2 DEF ClaimInv, RollbackClaimIsTrue, Settled, Happens, Applying, device
<1>9. ASSUME NEW p \in Procs, ApplyAdvance(p)
      PROVE  ClaimInv'
  <2>1. pc'[p] = "reboot_rollback" /\ seen'[p] = seen[p]
        /\ \A q \in Procs \ {p} : pc'[q] = "idle"
    BY <1>9 DEF ApplyAdvance, Goto, ProcTypeOK, OneAtATime
  <2>2. seen[p] \notin IncompleteRollback
    BY <1>9 DEF ApplyAdvance, AdvanceOK, RollbackPending, IncompleteRollback
  <2> QED
    BY <2>1, <2>2 DEF ClaimInv, RollbackClaimIsTrue, Applying
<1>10. ASSUME NEW p \in Procs, Reboot(p)
       PROVE  ClaimInv'
  <2>1. CASE power' = "rebooting"
    BY <2>1 DEF ClaimInv, RollbackClaimIsTrue, Happens
  <2>2. CASE pc[p] = "reboot" /\ UNCHANGED <<device, power>> /\ Exit(p, REBOOT_FAILED)
    <3>1. Settled'
      BY <2>2, OneElsewhere, IsSettled DEF Applying, Settled, Happens, device
    <3> QED
      BY <2>2, <3>1, ExitClaim
  <2>3. CASE pc[p] = "reboot_rollback" /\ UNCHANGED <<device, power>>
             /\ Goto(p, "apply_restore")
    <3>1. pc'[p] = "apply_restore" /\ seen'[p] = seen[p]
          /\ \A q \in Procs \ {p} : pc'[q] = "idle"
      BY <2>3 DEF Goto, ProcTypeOK, OneAtATime
    <3> QED
      BY <2>3, <3>1 DEF ClaimInv, RollbackClaimIsTrue, Happens, Applying, device
  <2> QED
    BY <1>10, <2>1, <2>2, <2>3 DEF Reboot
<1>11. ASSUME NEW p \in Procs, ApplyRestore(p)
       PROVE  ClaimInv'
  <2>1. Settled'
    BY <1>11 DEF ApplyRestore, ClaimInv, Settled, Happens, Applying
  <2> QED
    BY <1>11, <2>1, ExitClaim DEF ApplyRestore
<1>12. ASSUME NEW p \in Procs, Kill(p) \/ EnvThrows(p) \/ ApplyWriteThrows(p)
       PROVE  FALSE
  BY <1>12 DEF Kill, EnvThrows, ApplyWriteThrows, Undisturbed
<1>13. ASSUME Boot
       PROVE  ClaimInv'
  BY <1>13 DEF Boot, ClaimInv, RollbackClaimIsTrue, Happens
<1>14. ASSUME Agent \/ UNCHANGED vars
       PROVE  ClaimInv'
  <2>1. UNCHANGED <<device, pc, seen>> /\ power' \in {power, "rebooting"}
    BY <1>14 DEF Agent, AgentDownload, DownloadRequested, AgentMarksInstalled,
       AgentApplies, vars, device
  <2> QED
    BY <2>1 DEF ClaimInv, RollbackClaimIsTrue, Happens, Applying, device
<1> QED
  BY <1>1, <1>2, <1>3, <1>4, <1>5, <1>6, <1>7, <1>8, <1>9, <1>10, <1>11, <1>12,
     <1>13, <1>14 DEF Next, Handler, FinishReboot, PowerCycle

(***************************************************************************)
(* A rollback that --update_reboot_state reports as done has happened or   *)
(* is about to, however many power cuts, failed reboots and failures of    *)
(* the library there were.                                                 *)
(***************************************************************************)
THEOREM RollbackClaims ==
    ASSUME Exclusive, Undisturbed
    PROVE  Spec => []RollbackClaimIsTrue
<1>1. Init => ClaimInv
  BY DEF Init, ClaimInv, RollbackClaimIsTrue, Happens, Applying
<1>2. ExclusiveInv /\ ClaimInv /\ [Next]_vars => ClaimInv'
  BY ClaimStep
<1>3. ClaimInv => RollbackClaimIsTrue
  BY DEF ClaimInv
<1> QED
  BY <1>1, <1>2, <1>3, ExclusiveAlways, PTL DEF Spec

=============================================================================

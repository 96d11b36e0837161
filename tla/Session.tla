------------------------------ MODULE Session ------------------------------
(***************************************************************************)
(* Updater from one boot to the next.                                      *)
(*                                                                         *)
(* The work directory may outlive a boot, and --apply_update cannot tell   *)
(* the signal of an update that is pending from that of one long           *)
(* committed.  What it decides is therefore right under a condition: that  *)
(* no signal is left from the session before, or that the directory has    *)
(* been wiped since (create_work_dir, which every Download, rollback and   *)
(* switch begins with).  swept says so; it is a history variable, and no   *)
(* step of Updater depends on it.                                          *)
(*                                                                         *)
(* Under that condition the properties hold for any number of invocations  *)
(* side by side.  The run leftover shows that without it they do not.      *)
(***************************************************************************)
EXTENDS Updater

VARIABLE
    swept  \* nothing that may lead to a reboot is left from before the boot

sessionVars == <<vars, swept>>

CauseSignals == {"updateInstalled", "rollbackUpdate", "applyUpdate"}

\* A handler at one of these has found or is about to create a signal file.
CausePCs == {"install_signal", "rb_marker", "apply_mode", "apply_marker", "apply_read",
             "apply_advance", "reboot", "reboot_rollback", "apply_restore"}

Busy == \E p \in Procs : pc[p] \in CausePCs

\* Whatever leads to a reboot: a signal, who is about to write one, a handler
\* that has found one, the agent's request.
Cause ==
    \/ files \cap CauseSignals # {}
    \/ owed
    \/ power = "rebooting"
    \/ Busy

SessionInit == Init /\ swept = TRUE

\* Whatever a session starts with is from before its boot.
NewSession == (FinishReboot \/ PowerCycle) /\ swept' = ~Cause'

Goes ==
    /\ (\E p \in Procs : Start(p) \/ Handler(p) \/ Kill(p)) \/ Agent
    /\ swept' = (swept \/ ~Cause')

SessionNext == NewSession \/ Goes

SessionSpec == SessionInit /\ [][SessionNext]_sessionVars

-----------------------------------------------------------------------------
(***************************************************************************)
(* Once nothing is left from the session before, --apply_update and the    *)
(* agent never reboot the device for nothing (cli.cpp:909-966), whoever    *)
(* commits, rolls back or downloads beside them.                           *)
(***************************************************************************)
SweptRebootsHaveCause == swept => NoIdleReboot

(***************************************************************************)
(* Once nothing is left from the session before, updateInstalled and       *)
(* rollbackUpdate agree with the U-Boot environment, although the files    *)
(* and the environment are written one after the other and by several      *)
(* invocations at once.                                                    *)
(***************************************************************************)
SweptSignalsArePending == swept => SignalsArePending

(***************************************************************************)
(* Once nothing is left from the session before, no --apply_update that    *)
(* has read the state before a commit writes it back after it              *)
(* (cli.cpp:947-970).                                                      *)
(***************************************************************************)
SweptCommitIsFinal == [][swept => LeavesIdle]_sessionVars
=============================================================================

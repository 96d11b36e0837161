------------------------------ MODULE Operator ------------------------------
(***************************************************************************)
(* Whoever has to bring a device back to the idle state with nothing but   *)
(* the commands and their exit codes.                                      *)
(*                                                                         *)
(* First anything may happen to the device: every step of Updater, every   *)
(* failure.  From some moment on it is calm: no call fails any more and    *)
(* the operator is the only one to issue commands, while the ADU agent     *)
(* goes on as it likes.                                                    *)
(***************************************************************************)
EXTENDS Updater

VARIABLES
    calm,  \* is the operator alone with the device?
    todo   \* what the operator does next: a command, or "reboot"

opVars == <<vars, calm, todo>>

\* The steps of the handlers when nothing fails.
Q == INSTANCE Updater WITH Faults <- {}

OpInit == Init /\ calm = FALSE /\ todo = "update_reboot_state"

Reports(states) == {UPDATE_REBOOT_STATE[s] : s \in states}

(***************************************************************************)
(* What follows an answer.  What --update_reboot_state reports is acted on *)
(* as docs/reference/cli.md says: a pending reboot is applied, what runs   *)
(* after its reboot is committed (72-74, 117), and a failed update is      *)
(* rolled back (114-116).  Where the documents end the operator goes on    *)
(* with what is left: a rollback that answers with the failed state again  *)
(* is followed by a commit ("Confirm success of installation, rollback,    *)
(* switch or fail", the help text of cli.cpp:54), and a device that        *)
(* --apply_update finds nothing to do for, or that refuses the commit, is  *)
(* rebooted by hand.                                                       *)
(***************************************************************************)
Reported(answer, states) ==
    answer.cmd = "update_reboot_state" /\ answer.code \in Reports(states)

RebootDue(answer) ==
    \/ Reported(answer, RollbackPending)
    \/ answer = [cmd |-> "update_reboot_state",
                 code |-> UPDATE_REBOOT_STATE.UPDATE_REBOOT_PENDING]

RollbackRefused(answer) ==
    answer.cmd = "rollback_update" /\ answer.code \in Reports(Failed)

NothingElseLeft(answer) ==
    answer \in {[cmd |-> "apply_update", code |-> APPLY_UPDATE_STATE.APPLY_FAILED],
                [cmd |-> "commit_update", code |-> COMMIT_STATE.NOT_ALLOWED_UBOOT_STATE]}

After(answer) ==
    IF RebootDue(answer) THEN "apply_update"
    ELSE IF Reported(answer, Failed) THEN "rollback_update"
    ELSE IF \/ Reported(answer, IncompleteUpdate \cup IncompleteRollback)
            \/ RollbackRefused(answer)
      THEN "commit_update"
    ELSE IF NothingElseLeft(answer) THEN "reboot"
    ELSE "update_reboot_state"

-----------------------------------------------------------------------------
Storm == ~calm /\ Next /\ UNCHANGED <<calm, todo>>

CalmDown == ~calm /\ calm' = TRUE /\ UNCHANGED <<vars, todo>>

Issue(p) ==
    /\ calm
    /\ Start(p)
    /\ cmd'[p] = todo
    /\ UNCHANGED <<calm, todo>>

\* Whatever ends, the operator looks at its answer.
Hear == todo' = IF exit' = NoExit THEN todo ELSE After(exit')

Proceed(p) == calm /\ Q!Handler(p) /\ Hear /\ UNCHANGED calm

Commits(p) == calm /\ CommitSucceeds(p) /\ Hear /\ UNCHANGED calm

ComesUp == calm /\ FinishReboot /\ UNCHANGED <<calm, todo>>

RebootByHand ==
    /\ calm
    /\ todo = "reboot"
    /\ Boot
    /\ todo' = "update_reboot_state"
    /\ UNCHANGED calm

AgentReboots == calm /\ AgentApplies /\ UNCHANGED <<calm, todo>>

AgentGoesOn ==
    /\ calm
    /\ AgentDownload \/ DownloadRequested \/ AgentMarksInstalled
    /\ UNCHANGED <<calm, todo>>

OpNext ==
    \/ Storm \/ CalmDown
    \/ \E p \in Procs : Issue(p) \/ Proceed(p)
    \/ ComesUp \/ RebootByHand \/ AgentReboots \/ AgentGoesOn

(***************************************************************************)
(* A command that has been started runs to its end, a requested reboot     *)
(* takes place, and the operator acts.  The library may refuse a commit    *)
(* that is due, but not for ever.  The agent looks for applyUpdate: it may *)
(* miss one that its own Download wipes, but not every one.                *)
(***************************************************************************)
OpFairness ==
    /\ \A p \in Procs : /\ WF_opVars(Issue(p))
                        /\ WF_opVars(Proceed(p))
                        /\ SF_opVars(Commits(p))
    /\ WF_opVars(ComesUp)
    /\ WF_opVars(RebootByHand)
    /\ SF_opVars(AgentReboots)

OpSpec == OpInit /\ [][OpNext]_opVars /\ OpFairness

-----------------------------------------------------------------------------
(***************************************************************************)
(* Whatever has happened to the device, the exit codes lead back to the    *)
(* idle state, and it stays there: no reachable state is a dead end, and   *)
(* no two commands send the operator to each other for ever.               *)
(***************************************************************************)
Recovers == calm ~> [](rebootState = Idle)
=============================================================================

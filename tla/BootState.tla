----------------------------- MODULE BootState -----------------------------
(***************************************************************************)
(* The U-Boot variable update_reboot_state as fs-updater sees it: the      *)
(* states of UBootBootstateFlags (an enum of the library, known here by    *)
(* the names cli.cpp compares it with), how the CLI reports a state, and   *)
(* how --apply_update advances one.                                        *)
(***************************************************************************)
EXTENDS ReturnCodes

Components == {"fw", "app"}

Idle == "NO_UPDATE_REBOOT_PENDING"

Failed == {"FAILED_APP_UPDATE", "FAILED_FW_UPDATE", "FW_UPDATE_REBOOT_FAILED"}

IncompleteUpdate == {"INCOMPLETE_FW_UPDATE", "INCOMPLETE_APP_UPDATE",
                     "INCOMPLETE_APP_FW_UPDATE"}

RollbackPending == {"ROLLBACK_FW_REBOOT_PENDING", "ROLLBACK_APP_REBOOT_PENDING",
                    "ROLLBACK_APP_FW_REBOOT_PENDING"}

IncompleteRollback == {"INCOMPLETE_FW_ROLLBACK", "INCOMPLETE_APP_ROLLBACK",
                       "INCOMPLETE_APP_FW_ROLLBACK"}

BootStates == {Idle} \cup Failed \cup IncompleteUpdate
                     \cup RollbackPending \cup IncompleteRollback

\* The states that are about a component, and the components of a state.
About ==
    [fw  |-> {"INCOMPLETE_FW_UPDATE", "INCOMPLETE_APP_FW_UPDATE",
              "ROLLBACK_FW_REBOOT_PENDING", "ROLLBACK_APP_FW_REBOOT_PENDING",
              "INCOMPLETE_FW_ROLLBACK", "INCOMPLETE_APP_FW_ROLLBACK"},
     app |-> {"INCOMPLETE_APP_UPDATE", "INCOMPLETE_APP_FW_UPDATE",
              "ROLLBACK_APP_REBOOT_PENDING", "ROLLBACK_APP_FW_REBOOT_PENDING",
              "INCOMPLETE_APP_ROLLBACK", "INCOMPLETE_APP_FW_ROLLBACK"}]

Parts(s) == {c \in Components : s \in About[c]}

(***************************************************************************)
(* --apply_update turns "rollback prepared" into "rollback to be           *)
(* committed" just before it reboots.                                      *)
(***************************************************************************)
Advanced ==
    [ROLLBACK_FW_REBOOT_PENDING     |-> "INCOMPLETE_FW_ROLLBACK",
     ROLLBACK_APP_REBOOT_PENDING    |-> "INCOMPLETE_APP_ROLLBACK",
     ROLLBACK_APP_FW_REBOOT_PENDING |-> "INCOMPLETE_APP_FW_ROLLBACK"]

\* Mutant: nobody asks whether the reboot has happened.
ReportedCodeOfState(s, rebooted) == UPDATE_REBOOT_STATE[s]

(***************************************************************************)
(* The exit code of --update_reboot_state.  rebooted is the answer of the  *)
(* library's is_reboot_complete and pendingUpdateRollback: whether the     *)
(* device has booted since its slots were last selected.                   *)
(***************************************************************************)
ReportedCode(s, rebooted) ==
    IF s \in IncompleteUpdate /\ ~rebooted
      THEN UPDATE_REBOOT_STATE.UPDATE_REBOOT_PENDING
      ELSE IF s \in RollbackPending /\ rebooted
             THEN UPDATE_REBOOT_STATE[Advanced[s]]
             ELSE UPDATE_REBOOT_STATE[s]

(***************************************************************************)
(* What the library leaves behind.  IncompleteFor(C): an installation of   *)
(* the components C.  RolledBack(c, s): a rollback of component c in state *)
(* s.  When an update of both components is rolled back one by one, the    *)
(* state between the two calls is the library's affair.                    *)
(***************************************************************************)
IncompleteFor(C) ==
    IF C = Components THEN "INCOMPLETE_APP_FW_UPDATE"
    ELSE IF "fw" \in C THEN "INCOMPLETE_FW_UPDATE" ELSE "INCOMPLETE_APP_UPDATE"

RollbackFor(C) ==
    IF C = Components THEN "ROLLBACK_APP_FW_REBOOT_PENDING"
    ELSE IF "fw" \in C THEN "ROLLBACK_FW_REBOOT_PENDING"
                       ELSE "ROLLBACK_APP_REBOOT_PENDING"

RolledBack(c, s) ==
    IF s = "INCOMPLETE_APP_FW_UPDATE"
      THEN {RollbackFor({c}), RollbackFor(Components)}
      ELSE IF s \in RollbackPending
             THEN {RollbackFor(Parts(s) \cup {c})}
             ELSE {RollbackFor({c})}
=============================================================================

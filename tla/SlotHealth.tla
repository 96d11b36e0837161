----------------------------- MODULE SlotHealth -----------------------------
(***************************************************************************)
(* The flags that mark a slot as bad, next to the commands that select     *)
(* slots: --set_fw_state_bad, --set_app_state_bad, --is_fw_state_bad and   *)
(* --is_app_state_bad keep one flag per component and slot, and a switch   *)
(* or rollback to a flagged slot is rejected by the library with EPERM or  *)
(* ECANCELED.                                                              *)
(***************************************************************************)
EXTENDS Updater

\* In either case, which the handlers and the library take for the same.
Letters == {"A", "B"}
Slots == Components \X Letters

SetCommands == {"set_fw_state_bad", "set_app_state_bad"}
IsCommands == {"is_fw_state_bad", "is_app_state_bad"}

VARIABLES
    running,  \* the slot each component runs from
    bad,      \* the slots the library has flagged
    answer    \* the last answer of one of the four commands

health == <<running, bad>>
healthVars == <<vars, running, bad, answer>>

\* out: what is printed, "" when nothing is.
NoAnswer == [cmd |-> "none", letter |-> "A", out |-> "", code |-> 0]

HealthInit ==
    /\ Init
    /\ running = [c \in Components |-> "A"]
    /\ bad = {}
    /\ answer = NoAnswer

Other(letter) == IF letter = "A" THEN "B" ELSE "A"

\* The slot a component starts from next time, and the one it could select.
Selected(c) == IF c \in flip THEN Other(running[c]) ELSE running[c]
Target(c) == <<c, Other(Selected(c))>>

-----------------------------------------------------------------------------
\* firmware_update_state or application_update_state, as each command passes it.
StateType == [set_fw_state_bad |-> "fw", set_app_state_bad |-> "app",
              is_fw_state_bad  |-> "fw", is_app_state_bad  |-> "app"]

Answer(c, letter, out, code) ==
    answer' = [cmd |-> c, letter |-> letter, out |-> out, code |-> code]

(***************************************************************************)
(* set_firmware_state_bad, set_application_state_bad: the library checks   *)
(* the letter, stores the flag and returns 0.  The handlers look at EINVAL *)
(* alone: any other errno that it returns is answered like a success, and  *)
(* what it throws is not caught before main.                               *)
(***************************************************************************)
SetStateBad(c, letter) ==
    \/ /\ letter \in Letters
       /\ bad' = bad \cup {<<StateType[c], letter>>}
       /\ Answer(c, letter, "", SETGET_UPDATE_STATE.GETSET_STATE_SUCCESSFUL)
    \/ /\ letter \notin Letters
       /\ Answer(c, letter, "",
                 SETGET_UPDATE_STATE.PASSING_PARAM_UPDATE_STATE_WRONG)
       /\ UNCHANGED bad
    \/ /\ letter \in Letters
       /\ "flag" \in Faults
       /\ \E code \in {SETGET_UPDATE_STATE.GETSET_STATE_SUCCESSFUL,
                       UNHANDLED_EXCEPTION} : Answer(c, letter, "", code)
       /\ UNCHANGED bad

(***************************************************************************)
(* is_firmware_state_bad, is_application_state_bad: a slot is answered on  *)
(* stdout; the exit code stays what the constructor set it to.             *)
(***************************************************************************)
IsStateBad(c, letter) ==
    /\ \/ /\ letter \in Letters
          /\ Answer(c, letter, IF <<StateType[c], letter>> \in bad THEN "1" ELSE "0", 0)
       \/ /\ letter \notin Letters
          /\ Answer(c, letter, "X",
                    SETGET_UPDATE_STATE.PASSING_PARAM_UPDATE_STATE_WRONG)
       \/ /\ letter \in Letters
          /\ "flag" \in Faults
          /\ Answer(c, letter, "", UNHANDLED_EXCEPTION)
    /\ UNCHANGED bad

\* One of the four commands, which make a single call of the library.
Flags(p) ==
    /\ pc[p] = "idle"
    /\ Exclusive => \A q \in Procs : pc[q] = "idle"
    /\ \E letter \in Letters \cup {"C"} :
          \/ \E c \in SetCommands : SetStateBad(c, letter)
          \/ \E c \in IsCommands : IsStateBad(c, letter)
    /\ exit' = NoExit
    /\ UNCHANGED <<device, workdir, power, pc, cmd, seen, running>>

Selecting == {"rb_app_fw", "rb_fw", "rb_app"}
ToSelect(p) == IF pc[p] = "rb_fw" THEN "fw" ELSE "app"

\* rollback_firmware or rollback_application throws GenericException.
TargetIsBad(p) ==
    /\ pc[p] \in Selecting
    /\ Target(ToSelect(p)) \in bad
    /\ Exit(p, IF cmd[p] = "rollback_update"
                 THEN UPDATE_ROLLBACK_STATE.PROGRESS_ERROR
                 ELSE SETGET_UPDATE_STATE.UPDATE_STATE_BAD)
    /\ answer' = NoAnswer
    /\ UNCHANGED <<device, workdir, power, health>>

\* An installation and a commit rewrite flags in the variable "update".
Rewritten(p) ==
    \/ /\ pc[p] \in {"installing", "install_rest", "commit_update"}
       /\ bad' \in SUBSET bad
    \/ UNCHANGED bad

Works(p) ==
    /\ Start(p) \/ Handler(p) \/ Kill(p)
    /\ pc[p] \in Selecting => Target(ToSelect(p)) \notin bad
    /\ Rewritten(p)
    /\ answer' = NoAnswer
    /\ UNCHANGED running

\* After a fallback of the boot loader the firmware is the old one.
BootsUp ==
    /\ FinishReboot \/ PowerCycle
    /\ running' = [c \in Components |->
                      IF c = "fw" /\ rebootState' # rebootState
                        THEN running[c] ELSE Selected(c)]
    /\ answer' = NoAnswer
    /\ UNCHANGED bad

AgentWorks == Agent /\ answer' = NoAnswer /\ UNCHANGED health

HealthNext ==
    \/ \E p \in Procs : Flags(p) \/ TargetIsBad(p) \/ Works(p)
    \/ BootsUp \/ AgentWorks

HealthSpec == HealthInit /\ [][HealthNext]_healthVars

-----------------------------------------------------------------------------
(***************************************************************************)
(* A switch rejected for its target (54) is no switch: the device is idle, *)
(* starts from the slots it runs, and --apply_update has nothing to apply. *)
(***************************************************************************)
RejectedIsNoSwitch ==
    exit.code = SETGET_UPDATE_STATE.UPDATE_STATE_BAD =>
        /\ rebootState = Idle
        /\ flip = {}
        /\ "rollbackUpdate" \notin files

=============================================================================

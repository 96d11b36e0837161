------------------------------ MODULE Updater ------------------------------
(***************************************************************************)
(* The fs-updater commands that install, commit, roll back, switch and     *)
(* apply, run by any number of processes over the U-Boot environment and   *)
(* the signal files of the work directory.                                 *)
(*                                                                         *)
(* Every invocation is a process of its own that takes one command, runs   *)
(* its handler to an exit code and ends.  A handler is cut where it calls  *)
(* the library, the kernel or the file system: between two such calls      *)
(* another process, the ADU agent, a signal or a power cut may come.       *)
(* fs-updater takes no lock, so nothing in the code keeps two invocations  *)
(* apart; Exclusive states the rule an integrator may impose.              *)
(*                                                                         *)
(* The update library (U-Boot environment, slots, bundles), the boot       *)
(* loader and the ADU agent are external: they are modelled by what        *)
(* cli.cpp expects of them, with every failure it has a handler for.       *)
(***************************************************************************)
EXTENDS BootState, FiniteSets

CONSTANTS
    Procs,      \* the processes that may be running fs-updater
    Exclusive,  \* TRUE: whoever runs the CLI runs one invocation at a time
    Commands,   \* the commands that are issued
    Bundles,    \* the sets of components that update packages contain
    Faults,     \* what may fail (see AllFaults)
    WithAgent   \* TRUE: an ADU agent shares the work directory

AllCommands == {"update_file", "automatic", "commit_update", "rollback_update",
                "switch_fw_slot", "switch_app_slot", "apply_update",
                "update_reboot_state"}

AllFaults == {"env",      \* reading or writing the U-Boot environment throws
              "lib",      \* an installation, a rollback, create_work_dir throw
              "marker",   \* a signal file cannot be created
              "reboot",   \* kill(1, SIGINT) fails
              "kill",     \* a process is killed between two steps
              "power",    \* the device restarts at any moment
              "boot",     \* the boot loader falls back to the old firmware
              "flag"}     \* the flag of a bad slot is not read or written

ASSUME ConstantsAssumption ==
    /\ Exclusive \in BOOLEAN
    /\ Commands \subseteq AllCommands
    /\ Bundles \subseteq (SUBSET Components) \ {{}}
    /\ Faults \subseteq AllFaults
    /\ WithAgent \in BOOLEAN

Signals == {"updateInstalled", "rollbackUpdate", "applyUpdate", "downloadUpdate"}

VARIABLES
    rebootState,  \* U-Boot variable update_reboot_state
    rebooted,     \* has the device booted since its slots were last selected?
    flip,         \* components whose selected slot is not the running one
    files,        \* signal files, and the temporary application image
    owed,         \* the agent has an installation to mark as updateInstalled
    power,        \* "on", or "rebooting" once systemd has got its SIGINT
    pc,           \* per process: where it is in its handler
    cmd,          \* per process: the command it runs
    seen,         \* per process: its local update_reboot_state (of an
                  \* installation: the state it is to arrive at)
    exit          \* what the last step returned to a caller, if it ended one

device == <<rebootState, rebooted, flip>>
workdir == <<files, owed>>
vars == <<rebootState, rebooted, flip, files, owed, power, pc, cmd, seen, exit>>

Labels == {"idle", "update_image", "installing", "install_rest", "install_signal",
           "rb_workdir", "sw_workdir", "rb_app_fw", "rb_fw", "rb_app",
           "rb_marker", "print", "print_rebooted", "apply_mode",
           "apply_marker", "apply_check_rollback", "apply_read",
           "apply_advance", "reboot", "reboot_rollback", "apply_restore"}
          \cup AllCommands

\* Where a handler reads the U-Boot environment, directly or in the library.
EnvReads == {"commit_update", "rollback_update", "switch_fw_slot",
             "switch_app_slot", "update_reboot_state", "print",
             "print_rebooted", "apply_read"}

NoExit == [cmd |-> "none", code |-> 0]

DeviceTypeOK ==
    /\ rebootState \in BootStates
    /\ rebooted \in BOOLEAN
    /\ flip \subseteq Components
    /\ files \subseteq Signals \cup {"tempApp"}
    /\ owed \in BOOLEAN
    /\ power \in {"on", "rebooting"}

ProcTypeOK ==
    /\ pc \in [Procs -> Labels]
    /\ cmd \in [Procs -> AllCommands \cup {"none"}]
    /\ seen \in [Procs -> BootStates]
    /\ exit \in [cmd : AllCommands \cup {"none"}, code : 0..124]

\* The exit code is within the range POSIX leaves to programs.
TypeOK == DeviceTypeOK /\ ProcTypeOK

Init ==
    /\ rebootState = Idle
    /\ rebooted = TRUE
    /\ flip = {}
    /\ files = {}
    /\ owed = FALSE
    /\ power = "on"
    /\ pc = [p \in Procs |-> "idle"]
    /\ cmd = [p \in Procs |-> "none"]
    /\ seen = [p \in Procs |-> Idle]
    /\ exit = NoExit

-----------------------------------------------------------------------------
(* Control flow of one invocation.                                         *)

Goto(p, label) ==
    /\ pc' = [pc EXCEPT ![p] = label]
    /\ exit' = NoExit
    /\ UNCHANGED <<cmd, seen>>

\* The handler keeps update_reboot_state in a local variable and goes on.
Remember(p, label) ==
    /\ pc' = [pc EXCEPT ![p] = label]
    /\ seen' = [seen EXCEPT ![p] = rebootState]
    /\ exit' = NoExit
    /\ UNCHANGED cmd

\* main returns getReturnCode(), or 124 for an exception nobody caught.
Exit(p, code) ==
    /\ pc' = [pc EXCEPT ![p] = "idle"]
    /\ cmd' = [cmd EXCEPT ![p] = "none"]
    /\ seen' = [seen EXCEPT ![p] = Idle]
    /\ exit' = [cmd |-> cmd[p], code |-> code]

\* The exit codes of the catch blocks around a handler (main's: 124).
CaughtCodes(c) ==
    {code \in {UPDATE_ROLLBACK_STATE.PROGRESS_ERROR,
              UPDATE_ROLLBACK_STATE.INTERNAL_ERROR,
              UPDATE_ROLLBACK_STATE.SYSTEM_ERROR} :
        c \in {"rollback_update", "switch_fw_slot", "switch_app_slot"}}
    \cup {code \in {SETGET_UPDATE_STATE.UPDATE_STATE_BAD} :
            c \in {"switch_fw_slot", "switch_app_slot"}}
    \cup {code \in {COMMIT_STATE.SYSTEM_ERROR} : c = "commit_update"}
    \cup {code \in {UNHANDLED_EXCEPTION} :
            c \in {"apply_update", "update_reboot_state"}}

Caught(p) == \E code \in CaughtCodes(cmd[p]) : Exit(p, code)

\* parse_input finds exactly one action flag and enters its handler.
Start(p) == \E c \in Commands :
    /\ pc[p] = "idle"
    /\ Exclusive => \A q \in Procs : pc[q] = "idle"
    /\ pc' = [pc EXCEPT ![p] = c]
    /\ cmd' = [cmd EXCEPT ![p] = c]
    /\ exit' = NoExit
    /\ UNCHANGED <<device, workdir, power, seen>>

-----------------------------------------------------------------------------
(* --update_file and --automatic.                                          *)

\* handle_update_file: the path is checked first, the update type after it.
UpdateFile(p) ==
    /\ pc[p] = "update_file"
    /\ \/ Exit(p, CLI_VALIDATION.UPDATE_FILE_NOT_FOUND)
       \/ Exit(p, CLI_VALIDATION.INVALID_UPDATE_TYPE)
       \/ Goto(p, "update_image")
    /\ UNCHANGED <<device, workdir, power>>

\* handle_automatic: the path comes from two environment variables.
Automatic(p) ==
    /\ pc[p] = "automatic"
    /\ \/ Exit(p, CLI_VALIDATION.MISSING_ENV_UPDATE_STICK)
       \/ Exit(p, CLI_VALIDATION.MISSING_ENV_UPDATE_FILE)
       \/ Goto(p, "update_image")
    /\ UNCHANGED <<device, workdir, power>>

\* The exit code of a successful installation of the components C.
InstalledCode(C) ==
    (IF C = Components THEN FIRMWARE_AND_APPLICATION_STATE
     ELSE IF "fw" \in C THEN FIRMWARE_STATE ELSE APPLICATION_STATE
    ).UPDATE_SUCCESSFUL

(***************************************************************************)
(* update_image begins by refusing (UpdateInProgress) unless the system is *)
(* idle; then it installs, which takes minutes.                            *)
(***************************************************************************)
InstallStarts(p) ==
    /\ pc[p] = "update_image"
    /\ \/ /\ rebootState = Idle
          /\ Goto(p, "installing")
          /\ files' \in {files, files \cup {"tempApp"}}
       \/ /\ rebootState # Idle
          /\ Exit(p, FIRMWARE_AND_APPLICATION_STATE.UPDATE_PROGRESS_ERROR)
          /\ UNCHANGED files
    /\ UNCHANGED <<device, owed, power>>

(***************************************************************************)
(* The library selects the slots of the components it has written and      *)
(* records the update.  Of a package of both components it may do so for   *)
(* one component after the other.                                          *)
(***************************************************************************)
Select(C) ==
    /\ rebootState' = IncompleteFor(C)
    /\ rebooted' = FALSE
    /\ flip' = flip \cup C

InstallSelects(p) ==
    /\ pc[p] = "installing"
    /\ \E C \in Bundles : \E D \in (SUBSET C) \ {{}} :
          /\ Select(D)
          /\ seen' = [seen EXCEPT ![p] = IncompleteFor(C)]
          /\ pc' = [pc EXCEPT ![p] = IF D = C THEN "install_signal"
                                             ELSE "install_rest"]
    /\ exit' = NoExit
    /\ UNCHANGED <<workdir, power, cmd>>

InstallSelectsRest(p) ==
    /\ pc[p] = "install_rest"
    /\ Select(Parts(seen[p]))
    /\ Goto(p, "install_signal")
    /\ UNCHANGED <<workdir, power>>

\* The installation ends: the library or the agent creates updateInstalled.
InstallSignals(p) ==
    /\ pc[p] = "install_signal"
    /\ Exit(p, InstalledCode(Parts(seen[p])))
    /\ \/ /\ files' = (files \ {"tempApp"}) \cup {"updateInstalled"}
          /\ UNCHANGED owed
       \/ /\ WithAgent
          /\ owed' = TRUE
          /\ files' = files \ {"tempApp"}
    /\ UNCHANGED <<device, power>>

(***************************************************************************)
(* update_image throws in the middle, or returns without an update type.   *)
(* As long as slots are left to be selected it may have set a FAILED_*     *)
(* state, and it may leave the temporary application image; only the       *)
(* handler of BaseFSUpdateException removes that image.                    *)
(***************************************************************************)
InstallFails(p) ==
    /\ pc[p] \in {"update_image", "installing", "install_rest", "install_signal"}
    /\ "lib" \in Faults
    /\ \/ UNCHANGED rebootState
       \/ /\ pc[p] \in {"installing", "install_rest"}
          /\ rebootState' \in {"FAILED_FW_UPDATE", "FAILED_APP_UPDATE"}
    /\ \/ /\ Exit(p, FIRMWARE_AND_APPLICATION_STATE.UPDATE_INTERNAL_ERROR)
          /\ files' = files \ {"tempApp"}
       \/ /\ \E code \in {FIRMWARE_AND_APPLICATION_STATE.UPDATE_PROGRESS_ERROR,
                          FIRMWARE_AND_APPLICATION_STATE.UPDATE_SYSTEM_ERROR} :
                Exit(p, code)
          /\ UNCHANGED files
    /\ UNCHANGED <<rebooted, flip, owed, power>>

-----------------------------------------------------------------------------
(* --commit_update.                                                        *)

\* The library commits after the reboot only, as cli.md:74 asks.
CommitSucceeds(p) ==
    /\ pc[p] = "commit_update"
    /\ rebootState # Idle
    /\ rebooted
    /\ rebootState' = Idle
    /\ Exit(p, COMMIT_STATE.COMMIT_SUCCESSFUL)
    /\ UNCHANGED <<rebooted, flip, workdir, power>>

CommitDeclined(p) ==
    /\ pc[p] = "commit_update"
    /\ \/ /\ rebootState = Idle
          /\ Exit(p, COMMIT_STATE.NOT_NEEDED)
       \/ /\ rebootState # Idle
          /\ Exit(p, COMMIT_STATE.NOT_ALLOWED_UBOOT_STATE)
    /\ UNCHANGED <<device, workdir, power>>

-----------------------------------------------------------------------------
(* --rollback_update, --switch_fw_slot, --switch_app_slot.                 *)

\* rollback_update creates the work directory before it looks at the state.
RollbackRead(p) ==
    /\ pc[p] = "rollback_update"
    /\ Remember(p, "rb_workdir")
    /\ UNCHANGED <<device, workdir, power>>

\* Mutant: a combined update loses its call of rollback_application.
RollbackWorkDirFirmwareOnly(p) ==
    /\ pc[p] = "rb_workdir"
    /\ files' = files \ Signals
    /\ \/ seen[p] \in IncompleteUpdate \cap About.fw /\ Goto(p, "rb_fw")
       \/ seen[p] = "INCOMPLETE_APP_UPDATE" /\ Goto(p, "rb_app")
       \/ seen[p] \notin IncompleteUpdate /\ Goto(p, "print")
    /\ UNCHANGED <<device, owed, power>>

RollbackWorkDir(p) ==
    /\ pc[p] = "rb_workdir"
    /\ files' = files \ Signals
    /\ \/ seen[p] = "INCOMPLETE_APP_FW_UPDATE" /\ Goto(p, "rb_app_fw")
       \/ seen[p] = "INCOMPLETE_FW_UPDATE" /\ Goto(p, "rb_fw")
       \/ seen[p] = "INCOMPLETE_APP_UPDATE" /\ Goto(p, "rb_app")
       \/ seen[p] \notin IncompleteUpdate /\ Goto(p, "print")
    /\ UNCHANGED <<device, owed, power>>

\* Mutant: a switch does not look at the state.
SwitchReadUnguarded(p) ==
    /\ pc[p] \in {"switch_fw_slot", "switch_app_slot"}
    /\ Remember(p, "sw_workdir")
    /\ UNCHANGED <<device, workdir, power>>

\* A switch looks at the state first.
SwitchRead(p) ==
    /\ pc[p] \in {"switch_fw_slot", "switch_app_slot"}
    /\ Remember(p, IF rebootState = Idle THEN "sw_workdir" ELSE "print")
    /\ UNCHANGED <<device, workdir, power>>

\* Mutant: the marker is created along with the directory.
SwitchWorkDirMarked(p) ==
    /\ pc[p] = "sw_workdir"
    /\ files' = (files \ Signals) \cup {"rollbackUpdate"}
    /\ Goto(p, IF cmd[p] = "switch_fw_slot" THEN "rb_fw" ELSE "rb_app")
    /\ UNCHANGED <<device, owed, power>>

SwitchWorkDir(p) ==
    /\ pc[p] = "sw_workdir"
    /\ files' = files \ Signals
    /\ Goto(p, IF cmd[p] = "switch_fw_slot" THEN "rb_fw" ELSE "rb_app")
    /\ UNCHANGED <<device, owed, power>>

\* The library selects the other slot of c and records a pending rollback.
SelectOther(c) ==
    /\ rebootState' \in RolledBack(c, rebootState)
    /\ rebooted' = FALSE
    /\ flip' = IF c \in flip THEN flip \ {c} ELSE flip \cup {c}

RollbackApplication(p) ==
    /\ pc[p] \in {"rb_app_fw", "rb_app"}
    /\ SelectOther("app")
    /\ Goto(p, IF pc[p] = "rb_app_fw" THEN "rb_fw" ELSE "rb_marker")
    /\ UNCHANGED <<workdir, power>>

RollbackFirmware(p) ==
    /\ pc[p] = "rb_fw"
    /\ SelectOther("fw")
    /\ Goto(p, "rb_marker")
    /\ UNCHANGED <<workdir, power>>

\* The library throws; the slot may have been selected all the same.
RollbackThrows(p) ==
    /\ pc[p] \in {"rb_app_fw", "rb_fw", "rb_app"}
    /\ "lib" \in Faults
    /\ \/ SelectOther(IF pc[p] = "rb_fw" THEN "fw" ELSE "app")
       \/ UNCHANGED device
    /\ Caught(p)
    /\ UNCHANGED <<workdir, power>>

\* create_work_dir throws; it may have removed the directory by then.
WorkDirThrows(p) ==
    /\ pc[p] \in {"rb_workdir", "sw_workdir"}
    /\ "lib" \in Faults
    /\ files' \in {files, files \ Signals}
    /\ Caught(p)
    /\ UNCHANGED <<device, owed, power>>

\* create_rollback_marker.
RollbackMarker(p) ==
    /\ pc[p] = "rb_marker"
    /\ \/ /\ files' = files \cup {"rollbackUpdate"}
          /\ Exit(p, UPDATE_ROLLBACK_STATE.SUCCESSFUL)
       \/ /\ "marker" \in Faults
          /\ Exit(p, UPDATE_ROLLBACK_STATE.PROGRESS_ERROR)
          /\ UNCHANGED files
    /\ UNCHANGED <<device, owed, power>>

\* States whose report depends on whether the device has booted since.
AsksForReboot == IncompleteUpdate \cup RollbackPending

\* Mutant: no return after the report of a refused rollback.
PrintWithoutReturn(p) ==
    /\ pc[p] \in {"print", "update_reboot_state"}
    /\ IF cmd[p] = "rollback_update"
         THEN Goto(p, "rb_marker")
         ELSE Exit(p, ReportedCode(rebootState, rebooted))
    /\ UNCHANGED <<device, workdir, power>>

(***************************************************************************)
(* print_update_reboot_state: --update_reboot_state, and the report a      *)
(* refused rollback or switch ends with.  It reads the state, and of some  *)
(* states it asks in a second call whether the device has booted since.    *)
(***************************************************************************)
PrintState(p) ==
    /\ pc[p] \in {"print", "update_reboot_state"}
    /\ \/ rebootState \in AsksForReboot /\ Remember(p, "print_rebooted")
       \/ /\ rebootState \notin AsksForReboot
          /\ Exit(p, ReportedCode(rebootState, rebooted))
    /\ UNCHANGED <<device, workdir, power>>

PrintRebooted(p) ==
    /\ pc[p] = "print_rebooted"
    /\ Exit(p, ReportedCode(seen[p], rebooted))
    /\ UNCHANGED <<device, workdir, power>>

\* get_update_reboot_state, or the constructor of FSUpdate, throws.
EnvThrows(p) ==
    /\ "env" \in Faults
    /\ \/ pc[p] \in EnvReads /\ Caught(p)
       \/ pc[p] \in AllCommands /\ Exit(p, UNHANDLED_EXCEPTION)
    /\ UNCHANGED <<device, workdir, power>>

-----------------------------------------------------------------------------
(* --apply_update: two checks of the work directory, then a reboot.        *)

ApplyCheckInstalled(p) ==
    /\ pc[p] = "apply_update"
    /\ Goto(p, IF "updateInstalled" \in files
                 THEN "apply_mode" ELSE "apply_check_rollback")
    /\ UNCHANGED <<device, workdir, power>>

\* Without a pending applyUpdate or downloadUpdate the mode is local.
ApplyMode(p) ==
    /\ pc[p] = "apply_mode"
    /\ Goto(p, IF {"applyUpdate", "downloadUpdate"} \cap files = {}
                 THEN "reboot" ELSE "apply_marker")
    /\ UNCHANGED <<device, workdir, power>>

ApplyMarker(p) ==
    /\ pc[p] = "apply_marker"
    /\ \/ /\ files' = files \cup {"applyUpdate"}
          /\ Exit(p, APPLY_UPDATE_STATE.APPLY_SUCCESSFUL)
       \/ /\ "marker" \in Faults
          /\ Exit(p, APPLY_UPDATE_STATE.APPLY_FAILED)
          /\ UNCHANGED files
    /\ UNCHANGED <<device, owed, power>>

\* Mutant: whatever is not an installation is taken for a rollback.
ApplyCheckNothing(p) ==
    /\ pc[p] = "apply_check_rollback"
    /\ Goto(p, "apply_read")
    /\ UNCHANGED <<device, workdir, power>>

ApplyCheckRollback(p) ==
    /\ pc[p] = "apply_check_rollback"
    /\ \/ "rollbackUpdate" \in files /\ Goto(p, "apply_read")
       \/ "rollbackUpdate" \notin files /\ Exit(p, APPLY_UPDATE_STATE.APPLY_FAILED)
    /\ UNCHANGED <<device, workdir, power>>

ApplyRead(p) ==
    /\ pc[p] = "apply_read"
    /\ Remember(p, IF rebootState \in RollbackPending
                     THEN "apply_advance" ELSE "reboot_rollback")
    /\ UNCHANGED <<device, workdir, power>>

\* The state is written before the reboot is requested.
ApplyAdvance(p) ==
    /\ pc[p] = "apply_advance"
    /\ rebootState' = Advanced[seen[p]]
    /\ Goto(p, "reboot_rollback")
    /\ UNCHANGED <<rebooted, flip, workdir, power>>

\* reboot() only sends a signal: it returns while the system is still up.
Reboot(p) ==
    /\ pc[p] \in {"reboot", "reboot_rollback"}
    /\ \/ /\ power' = "rebooting"
          /\ Exit(p, APPLY_UPDATE_STATE.APPLY_SUCCESSFUL)
       \/ /\ "reboot" \in Faults
          /\ \/ pc[p] = "reboot" /\ Exit(p, REBOOT_FAILED)
             \/ pc[p] = "reboot_rollback" /\ Goto(p, "apply_restore")
          /\ UNCHANGED power
    /\ UNCHANGED <<device, workdir>>

\* Mutant: what is restored is the state --apply_update is meant for.
ApplyRestorePending(p) ==
    /\ pc[p] = "apply_restore"
    /\ rebootState' = "ROLLBACK_FW_REBOOT_PENDING"
    /\ Exit(p, REBOOT_FAILED)
    /\ UNCHANGED <<rebooted, flip, workdir, power>>

\* Mutant: a failed reboot restores nothing.
ApplyForget(p) ==
    /\ pc[p] = "apply_restore"
    /\ Exit(p, REBOOT_FAILED)
    /\ UNCHANGED <<device, workdir, power>>

\* After a failed reboot the state read at the beginning is written back.
ApplyRestore(p) ==
    /\ pc[p] = "apply_restore"
    /\ rebootState' = seen[p]
    /\ Exit(p, REBOOT_FAILED)
    /\ UNCHANGED <<rebooted, flip, workdir, power>>

\* Writing the state throws, and nothing in the handler catches it.
ApplyWriteThrows(p) ==
    /\ pc[p] \in {"apply_advance", "apply_restore"}
    /\ "env" \in Faults
    /\ Caught(p)
    /\ UNCHANGED <<device, workdir, power>>

-----------------------------------------------------------------------------
(* The surroundings.                                                       *)

\* SIGKILL, SIGPIPE or a terminal closed.
Kill(p) ==
    /\ "kill" \in Faults
    /\ pc[p] # "idle"
    /\ pc' = [pc EXCEPT ![p] = "idle"]
    /\ cmd' = [cmd EXCEPT ![p] = "none"]
    /\ seen' = [seen EXCEPT ![p] = Idle]
    /\ exit' = NoExit
    /\ UNCHANGED <<device, workdir, power>>

(***************************************************************************)
(* The device comes up in its selected slots; no process survives, but     *)
(* the signal files of the work directory may (azure-device-update.md:100- *)
(* 104).  The boot loader may have fallen back from a firmware that does   *)
(* not start.                                                              *)
(***************************************************************************)
Boot ==
    /\ \/ UNCHANGED rebootState
       \/ /\ "boot" \in Faults
          /\ ~rebooted
          /\ rebootState \in {"INCOMPLETE_FW_UPDATE", "INCOMPLETE_APP_FW_UPDATE"}
          /\ rebootState' = "FW_UPDATE_REBOOT_FAILED"
    /\ rebooted' = TRUE
    /\ flip' = {}
    /\ files' \in {files, {}}
    /\ owed' = FALSE
    /\ power' = "on"
    /\ pc' = [p \in Procs |-> "idle"]
    /\ cmd' = [p \in Procs |-> "none"]
    /\ seen' = [p \in Procs |-> Idle]
    /\ exit' = NoExit

FinishReboot == power = "rebooting" /\ Boot

PowerCycle == "power" \in Faults /\ Boot

\* The agent's handler starts a Download: create_work_dir wipes the signals.
AgentDownload ==
    /\ WithAgent
    /\ files' = files \ Signals
    /\ exit' = NoExit
    /\ UNCHANGED <<device, owed, power, pc, cmd, seen>>

\* --download_update, whose signal the mode of --apply_update depends on.
DownloadRequested ==
    /\ WithAgent
    /\ files' = files \cup {"downloadUpdate"}
    /\ exit' = NoExit
    /\ UNCHANGED <<device, owed, power, pc, cmd, seen>>

\* The agent has run fs-updater --update_file and now says so.
AgentMarksInstalled ==
    /\ owed
    /\ owed' = FALSE
    /\ files' = files \cup {"updateInstalled"}
    /\ exit' = NoExit
    /\ UNCHANGED <<device, power, pc, cmd, seen>>

\* Apply(), after an Install() of this session, has waited for applyUpdate.
AgentApplies ==
    /\ WithAgent
    /\ ~rebooted
    /\ "applyUpdate" \in files
    /\ power' = "rebooting"
    /\ exit' = NoExit
    /\ UNCHANGED <<device, workdir, pc, cmd, seen>>

-----------------------------------------------------------------------------
Handler(p) ==
    \/ UpdateFile(p) \/ Automatic(p)
    \/ InstallStarts(p) \/ InstallSelects(p) \/ InstallSelectsRest(p)
    \/ InstallSignals(p) \/ InstallFails(p)
    \/ CommitSucceeds(p) \/ CommitDeclined(p)
    \/ RollbackRead(p) \/ RollbackWorkDir(p) \/ SwitchRead(p) \/ SwitchWorkDir(p)
    \/ RollbackApplication(p) \/ RollbackFirmware(p) \/ RollbackMarker(p)
    \/ RollbackThrows(p) \/ WorkDirThrows(p) \/ EnvThrows(p)
    \/ PrintState(p) \/ PrintRebooted(p)
    \/ ApplyCheckInstalled(p) \/ ApplyMode(p) \/ ApplyMarker(p)
    \/ ApplyCheckRollback(p) \/ ApplyRead(p) \/ ApplyAdvance(p)
    \/ Reboot(p) \/ ApplyRestore(p) \/ ApplyWriteThrows(p)

Agent == AgentDownload \/ DownloadRequested \/ AgentMarksInstalled \/ AgentApplies

Next ==
    \/ \E p \in Procs : Start(p) \/ Handler(p) \/ Kill(p)
    \/ FinishReboot \/ PowerCycle
    \/ Agent

Spec == Init /\ [][Next]_vars

-----------------------------------------------------------------------------
(* Properties that hold under conditions: Session says which of them need  *)
(* an invocation at a time, and which a session free of old signals.       *)

(***************************************************************************)
(* The device is never rebooted for nothing (docs/reference/cli.md:179:    *)
(* "Initiate reboot to complete a pending update or rollback"): when       *)
(* --apply_update, or the agent it signalled, has requested the reboot, an *)
(* update or a rollback is pending in the U-Boot environment.              *)
(***************************************************************************)
NoIdleReboot == power = "rebooting" => rebootState # Idle

(***************************************************************************)
(* The two files --apply_update decides on never announce work that the    *)
(* U-Boot environment does not know of: while one of them exists an        *)
(* update or rollback is pending and the device has not booted since.      *)
(***************************************************************************)
SignalsArePending ==
    files \cap {"updateInstalled", "rollbackUpdate"} # {}
        => rebootState # Idle /\ ~rebooted

(***************************************************************************)
(* What is committed stays committed.  --apply_update writes a state it    *)
(* has read before: however late the write, only an installation, a        *)
(* rollback or a switch ends the idle state.                               *)
(***************************************************************************)
EndsIdle == {"installing", "install_rest", "rb_app_fw", "rb_fw", "rb_app"}

LeavesIdle ==
    rebootState = Idle /\ rebootState' # Idle =>
        \E p \in Procs : pc[p] \in EndsIdle

CommitIsFinal == [][LeavesIdle]_vars

-----------------------------------------------------------------------------
(* Properties that need one invocation at a time.                          *)

(***************************************************************************)
(* "Rolled back, awaiting commit" (exit codes 31 to 33) is said only of a  *)
(* device that has booted since the rollback was prepared, is about to, or *)
(* whose --apply_update is still at work on it.                            *)
(***************************************************************************)
RollbackClaimIsTrue ==
    rebootState \in IncompleteRollback =>
        \/ rebooted
        \/ power = "rebooting"
        \/ \E p \in Procs : pc[p] \in {"reboot_rollback", "apply_restore"}

(***************************************************************************)
(* When --rollback_update comes to announce its rollback, every component  *)
(* of the update it found is in it.                                        *)
(***************************************************************************)
PreparedInFull ==
    \A p \in Procs : pc[p] = "rb_marker" /\ cmd[p] = "rollback_update" =>
        /\ rebootState \in RollbackPending
        /\ Parts(seen[p]) \subseteq Parts(rebootState)

(***************************************************************************)
(* The abstract lifecycle.  A state that the U-Boot variable calls         *)
(* INCOMPLETE_*_ROLLBACK before the reboot is still rolling back, also     *)
(* when the --apply_update that wrote it has died: what is then reported   *)
(* of it is the subject of RollbackClaimIsTrue.                            *)
(***************************************************************************)
Phase ==
    IF rebootState = Idle THEN "idle"
    ELSE IF rebootState \in Failed THEN "failed"
    ELSE IF rebootState \in IncompleteUpdate
      THEN IF rebooted THEN "trial" ELSE "installed"
      ELSE IF rebooted THEN "rolledBack" ELSE "rollingBack"

\* What the installation or rollback under way has still to select.
Rest ==
    {c \in Components :
        \E p \in Procs : /\ pc[p] \in {"install_rest", "rb_fw"}
                         /\ c \in Parts(seen[p]) \ Parts(rebootState)}

L == INSTANCE Lifecycle WITH phase <- Phase, parts <- Parts(rebootState),
                             rest <- Rest

(***************************************************************************)
(* One invocation at a time, whatever it is killed by and whatever fails,  *)
(* takes the device along the lifecycle: no commit before the reboot, no   *)
(* rollback of a component that was not updated, no switch while something *)
(* else is pending, and an apply that fails or dies leads to no phase.     *)
(***************************************************************************)
LifecycleSpec == L!Spec

-----------------------------------------------------------------------------
(* What the documents say and the handlers do not do.                      *)

(***************************************************************************)
(* docs/reference/cli.md:150-153: a prepared rollback is completed by a    *)
(* reboot via --apply_update, which needs the file rollbackUpdate.         *)
(***************************************************************************)
RollbackStaysApplicable ==
    /\ rebootState \in RollbackPending
    /\ ~rebooted
    /\ \A p \in Procs : pc[p] = "idle"
    => "rollbackUpdate" \in files

(***************************************************************************)
(* docs/reference/cli.md:114-116: --rollback_update is the next action in  *)
(* each of the three FAILED states, so it is not answered with a report of *)
(* that state.                                                             *)
(***************************************************************************)
FailedCanBeRolledBack ==
    exit.cmd = "rollback_update" =>
        exit.code \notin {UPDATE_REBOOT_STATE[s] : s \in Failed}
=============================================================================

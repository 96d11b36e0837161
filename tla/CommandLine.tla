---------------------------- MODULE CommandLine ----------------------------
(***************************************************************************)
(* One invocation from main to its handler: the command line is parsed,    *)
(* logging and the update handler are set up, the table of the nineteen    *)
(* actions is searched for the flags that were given, and one handler, or  *)
(* none, is called.  What a handler does is the matter of Updater,         *)
(* AduPipeline and SlotHealth.                                             *)
(***************************************************************************)
EXTENDS ReturnCodes, FiniteSets, Sequences

CONSTANTS
    CommandLines, \* the sets of flags that are given
    Faults        \* what may fail: "console", "setup", "handler"

\* The dispatch table, in its order.
Actions == <<"update_file", "commit_update", "update_reboot_state", "automatic",
             "application_version", "firmware_version", "version",
             "is_update_available", "download_update", "download_progress",
             "install_update", "apply_update", "rollback_update",
             "switch_fw_slot", "switch_app_slot",
             "set_app_state_bad", "is_app_state_bad",
             "set_fw_state_bad", "is_fw_state_bad">>

ActionFlags == {Actions[k] : k \in DOMAIN Actions}

\* The flags the constructor declares; TCLAP adds neither help nor version.
Declared == ActionFlags \cup {"update_type", "debug"}

ASSUME CommandLineAssumption ==
    /\ CommandLines \subseteq SUBSET (Declared \cup {"help"})
    /\ Faults \subseteq {"console", "setup", "handler"}

VARIABLES
    given,           \* the flags of the command line
    pc,              \* where the invocation is
    serial_cout,     \* has the serial port been set up?
    entry,           \* the next entry of the table
    matched_handler, \* the last action found, or "none"
    action_count,    \* how many actions were found
    ran,             \* the handlers that were called
    code             \* the exit code, once there is one

vars == <<given, pc, serial_cout, entry, matched_handler, action_count, ran, code>>

TypeOK ==
    /\ given \in CommandLines
    /\ pc \in {"parse", "setup", "scan", "type", "dispatch", "handler", "exit"}
    /\ serial_cout \in BOOLEAN
    /\ entry \in 1..Len(Actions) + 1
    /\ matched_handler \in ActionFlags \cup {"none"}
    /\ action_count \in 0..Len(Actions)
    /\ ran \subseteq ActionFlags
    /\ code \in 0..124

Init ==
    /\ given \in CommandLines
    /\ pc = "parse"
    /\ serial_cout = FALSE
    /\ entry = 1
    /\ matched_handler = "none"
    /\ action_count = 0
    /\ ran = {}
    /\ code = 0

Exit(c) == pc' = "exit" /\ code' = c

-----------------------------------------------------------------------------
\* TCLAP's own exit code for a command line it does not accept.
PARSE_ERROR == 1

\* An unknown flag or a missing or malformed value ends the process here.
Parse ==
    /\ pc = "parse"
    /\ \/ given \subseteq Declared /\ pc' = "setup" /\ UNCHANGED code
       \/ Exit(PARSE_ERROR)
    /\ UNCHANGED <<given, serial_cout, entry, matched_handler, action_count, ran>>

\* Mutant: the port is opened for the debug output.
SetupLoggingDebug ==
    /\ pc = "setup"
    /\ serial_cout' = ("debug" \in given)
    /\ pc' = "scan"
    /\ UNCHANGED <<given, entry, matched_handler, action_count, ran, code>>

(***************************************************************************)
(* setup_logging: the serial port for --automatic, stdout otherwise, then  *)
(* the update handler.  The port is named by the U-Boot variable console.  *)
(***************************************************************************)
SetupLogging ==
    /\ pc = "setup"
    /\ \/ /\ serial_cout' = ("automatic" \in given)
          /\ pc' = "scan"
          /\ UNCHANGED code
       \/ /\ "console" \in Faults /\ "automatic" \in given
          /\ Exit(UNHANDLED_EXCEPTION)
          /\ UNCHANGED serial_cout
       \/ /\ "setup" \in Faults
          /\ serial_cout' = ("automatic" \in given)
          /\ Exit(UNHANDLED_EXCEPTION)
    /\ UNCHANGED <<given, entry, matched_handler, action_count, ran>>

\* Mutant: the search stops at the first action found.
ScanFirst ==
    /\ pc = "scan"
    /\ IF entry > Len(Actions) \/ matched_handler # "none"
         THEN pc' = "type" /\ UNCHANGED <<entry, matched_handler, action_count>>
         ELSE /\ entry' = entry + 1
              /\ matched_handler' = IF Actions[entry] \in given
                                      THEN Actions[entry] ELSE matched_handler
              /\ action_count' = action_count + IF Actions[entry] \in given THEN 1 ELSE 0
              /\ UNCHANGED pc
    /\ UNCHANGED <<given, serial_cout, ran, code>>

\* The loop over the table.
Scan ==
    /\ pc = "scan"
    /\ \/ /\ entry > Len(Actions)
          /\ pc' = "type"
          /\ UNCHANGED <<entry, matched_handler, action_count>>
       \/ /\ entry <= Len(Actions)
          /\ entry' = entry + 1
          /\ IF Actions[entry] \in given
               THEN /\ matched_handler' = Actions[entry]
                    /\ action_count' = action_count + 1
               ELSE UNCHANGED <<matched_handler, action_count>>
          /\ UNCHANGED pc
    /\ UNCHANGED <<given, serial_cout, ran, code>>

CheckUpdateType ==
    /\ pc = "type"
    /\ IF "update_type" \in given /\ "update_file" \notin given
         THEN Exit(CLI_VALIDATION.UPDATE_TYPE_WITHOUT_FILE)
         ELSE pc' = "dispatch" /\ UNCHANGED code
    /\ UNCHANGED <<given, serial_cout, entry, matched_handler, action_count, ran>>

\* Without an action the version is printed, and the exit code stays 0.
Dispatch ==
    /\ pc = "dispatch"
    /\ \/ action_count = 0 /\ Exit(0) /\ UNCHANGED ran
       \/ /\ action_count = 1
          /\ pc' = "handler"
          /\ ran' = ran \cup {matched_handler}
          /\ UNCHANGED code
       \/ /\ action_count > 1
          /\ Exit(CLI_VALIDATION.INCOMPATIBLE_ARG_COMBO)
          /\ UNCHANGED ran
    /\ UNCHANGED <<given, serial_cout, entry, matched_handler, action_count>>

Versions == {"version", "firmware_version", "application_version"}

Fields(enum) == {enum[f] : f \in DOMAIN enum}

\* The exit codes the handlers set themselves; the parser keeps 64 and 65.
HandlerCodes ==
    (UNION {Fields(enum) : enum \in
        {FIRMWARE_STATE, APPLICATION_STATE, FIRMWARE_AND_APPLICATION_STATE,
         UPDATE_ROLLBACK_STATE, COMMIT_STATE, UPDATE_REBOOT_STATE,
         IS_UPDATE_AVAILABLE_STATE, DOWNLOAD_UPDATE_STATE,
         DOWNLOAD_PROGRESS_STATE, INSTALL_UPDATE_STATE, APPLY_UPDATE_STATE,
         SETGET_UPDATE_STATE}})
    \cup {REBOOT_FAILED}
    \cup (Fields(CLI_VALIDATION) \ {CLI_VALIDATION.UPDATE_TYPE_WITHOUT_FILE,
                                   CLI_VALIDATION.INCOMPATIBLE_ARG_COMBO})

(***************************************************************************)
(* The matched handler returns or throws.  Those that print a version set  *)
(* no exit code; which of the others sets which is left to their modules.  *)
(***************************************************************************)
Handle ==
    /\ pc = "handler"
    /\ \/ matched_handler \in Versions /\ Exit(code)
       \/ matched_handler \notin Versions /\ \E c \in HandlerCodes : Exit(c)
       \/ "handler" \in Faults /\ Exit(UNHANDLED_EXCEPTION)
    /\ UNCHANGED <<given, serial_cout, entry, matched_handler, action_count, ran>>

Next == Parse \/ SetupLogging \/ Scan \/ CheckUpdateType \/ Dispatch \/ Handle

Spec == Init /\ [][Next]_vars

-----------------------------------------------------------------------------
(***************************************************************************)
(* A handler runs only when its flag is the one action of the command      *)
(* line, at most one runs, and a command line that is refused (64, 65)     *)
(* has run none.                                                           *)
(***************************************************************************)
OneHandler ==
    /\ ran # {} => ran = given \cap ActionFlags /\ Cardinality(ran) = 1
    /\ pc = "exit" /\ code \in {CLI_VALIDATION.UPDATE_TYPE_WITHOUT_FILE,
                               CLI_VALIDATION.INCOMPATIBLE_ARG_COMBO}
         => ran = {}

(***************************************************************************)
(* handle_automatic uses the serial port without a check: whenever it      *)
(* runs, setup_logging has created the port.                               *)
(***************************************************************************)
PortIsReady == "automatic" \in ran => serial_cout
=============================================================================

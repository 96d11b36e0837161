------------------------- MODULE CommandLineProofs -------------------------
(***************************************************************************)
(* Proofs about CommandLine for any set of command lines and any failures. *)
(***************************************************************************)
EXTENDS CommandLine, FiniteSetTheorems, TLAPS

\* Nineteen actions, each a flag.
LEMMA TableLength == Len(Actions) = 19 /\ DOMAIN Actions = 1..19
BY DEF Actions

LEMMA EntryIsFlag ==
    ASSUME NEW k \in 1..19
    PROVE  Actions[k] \in ActionFlags
BY TableLength DEF ActionFlags

LEMMA AutomaticIsAction == "automatic" \in ActionFlags
<1>1. Actions[4] = "automatic"
  BY DEF Actions
<1> QED
  BY <1>1, EntryIsFlag

\* No handler sets the codes of the parser, and none leaves the range.
LEMMA CodesOfHandlers ==
    ASSUME NEW c \in HandlerCodes
    PROVE  c \in 0..124 \ {64, 65}
<1> DEFINE ExitCodes == 0..124 \ {64, 65}
<1>1. /\ Fields(FIRMWARE_STATE) \subseteq ExitCodes
      /\ Fields(APPLICATION_STATE) \subseteq ExitCodes
      /\ Fields(FIRMWARE_AND_APPLICATION_STATE) \subseteq ExitCodes
      /\ Fields(UPDATE_ROLLBACK_STATE) \subseteq ExitCodes
      /\ Fields(COMMIT_STATE) \subseteq ExitCodes
  BY DEF Fields, FIRMWARE_STATE, APPLICATION_STATE, FIRMWARE_AND_APPLICATION_STATE,
     UPDATE_ROLLBACK_STATE, COMMIT_STATE
<1>2. Fields(UPDATE_REBOOT_STATE) \subseteq ExitCodes
  BY DEF Fields, UPDATE_REBOOT_STATE
<1>3. /\ Fields(IS_UPDATE_AVAILABLE_STATE) \subseteq ExitCodes
      /\ Fields(DOWNLOAD_UPDATE_STATE) \subseteq ExitCodes
      /\ Fields(DOWNLOAD_PROGRESS_STATE) \subseteq ExitCodes
      /\ Fields(INSTALL_UPDATE_STATE) \subseteq ExitCodes
      /\ Fields(APPLY_UPDATE_STATE) \subseteq ExitCodes
      /\ Fields(SETGET_UPDATE_STATE) \subseteq ExitCodes
  BY DEF Fields, IS_UPDATE_AVAILABLE_STATE, DOWNLOAD_UPDATE_STATE,
     DOWNLOAD_PROGRESS_STATE, INSTALL_UPDATE_STATE, APPLY_UPDATE_STATE,
     SETGET_UPDATE_STATE
<1>4. Fields(CLI_VALIDATION) \ {64, 65} \subseteq ExitCodes
  BY DEF Fields, CLI_VALIDATION
<1>5. REBOOT_FAILED \in ExitCodes
  BY DEF REBOOT_FAILED
<1>6. CLI_VALIDATION.UPDATE_TYPE_WITHOUT_FILE = 64
      /\ CLI_VALIDATION.INCOMPATIBLE_ARG_COMBO = 65
  BY DEF CLI_VALIDATION
<1> QED
  BY <1>1, <1>2, <1>3, <1>4, <1>5, <1>6 DEF HandlerCodes

-----------------------------------------------------------------------------
(* The inductive invariant.                                                *)

\* The flags of the command line that the search has come past.
Found == {Actions[k] : k \in 1..entry - 1} \cap given

\* matched_handler and action_count sum up what was found, as long as it is
\* no more than one action.
SearchInv ==
    /\ action_count < entry
    /\ action_count = 0 => Found = {}
    /\ action_count = 1 => Found = {matched_handler}
    /\ action_count > 0 => matched_handler \in ActionFlags

\* The handler is called behind the search and the setup, with one action found.
CallInv ==
    /\ pc \in {"parse", "setup", "scan", "type", "dispatch"} => ran = {}
    /\ pc \in {"type", "dispatch", "handler"} => entry = Len(Actions) + 1
    /\ ran # {} => /\ entry = Len(Actions) + 1
                   /\ action_count = 1
                   /\ ran = {matched_handler}
    /\ pc \in {"scan", "type", "dispatch", "handler"} \/ ran # {}
         => ("automatic" \in given => serial_cout)

\* The codes of a refused command line are the parser's alone.
CodeInv ==
    /\ pc # "exit" => code = 0
    /\ pc = "exit" /\ code \in {64, 65} => ran = {}

LineInv == TypeOK /\ SearchInv /\ CallInv /\ CodeInv

LEMMA LineInit == Init => LineInv
<1> SUFFICES ASSUME Init PROVE LineInv
  OBVIOUS
<1>1. Found = {}
  BY DEF Init, Found
<1>2. TypeOK
  <2>1. serial_cout \in BOOLEAN /\ ran \subseteq ActionFlags
    BY Zenon DEF Init
  <2> QED
    BY <2>1, TableLength DEF Init, TypeOK
<1>3. SearchInv
  BY <1>1 DEF Init, SearchInv
<1>4. CallInv /\ CodeInv
  BY DEF Init, CallInv, CodeInv
<1> QED
  BY <1>2, <1>3, <1>4 DEF LineInv

\* One entry further.
LEMMA ScanStep ==
    ASSUME LineInv, Scan
    PROVE  LineInv'
<1> USE TableLength DEF LineInv
<1>1. CASE entry > Len(Actions)
  <2>1. pc' = "type" /\ UNCHANGED <<entry, matched_handler, action_count>>
    BY <1>1 DEF Scan, TypeOK
  <2>2. UNCHANGED Found
    BY <2>1 DEF Scan, Found
  <2> QED
    BY <1>1, <2>1, <2>2 DEF Scan, TypeOK, SearchInv, CallInv, CodeInv
<1>2. CASE entry <= Len(Actions)
  <2>1. entry \in 1..19 /\ entry' = entry + 1 /\ pc' = "scan" /\ given' = given
    BY <1>2 DEF Scan, TypeOK
  <2>2. Actions[entry] \in ActionFlags
    BY <2>1, EntryIsFlag
  <2>3. 1..entry' - 1 = (1..entry - 1) \cup {entry}
    BY <2>1
  <2>4. Found' = Found \cup ({Actions[entry]} \cap given)
    BY <2>1, <2>3 DEF Found
  <2>5. CASE Actions[entry] \in given
    <3>1. matched_handler' = Actions[entry] /\ action_count' = action_count + 1
      BY <2>5, <1>2 DEF Scan, TypeOK
    <3>2. TypeOK' /\ action_count' < entry'
      BY <2>1, <2>2, <3>1 DEF Scan, TypeOK, SearchInv
    <3>3. action_count' = 1 => Found' = {matched_handler'}
      BY <2>4, <2>5, <3>1 DEF TypeOK, SearchInv
    <3>4. SearchInv'
      BY <2>2, <3>1, <3>2, <3>3 DEF TypeOK, SearchInv
    <3> QED
      BY <2>1, <3>2, <3>4 DEF Scan, CallInv, CodeInv
  <2>6. CASE Actions[entry] \notin given
    <3>1. UNCHANGED <<matched_handler, action_count>>
      BY <2>6, <1>2 DEF Scan, TypeOK
    <3>2. Found' = Found
      BY <2>4, <2>6
    <3>3. TypeOK' /\ SearchInv'
      BY <2>1, <3>1, <3>2 DEF Scan, TypeOK, SearchInv
    <3> QED
      BY <2>1, <3>3 DEF Scan, CallInv, CodeInv
  <2> QED
    BY <2>5, <2>6
<1> QED
  BY <1>1, <1>2 DEF TypeOK

\* What leaves the search alone leaves its sum alone.
LEMMA SearchKept ==
    ASSUME SearchInv, UNCHANGED <<given, entry, matched_handler, action_count>>
    PROVE  SearchInv'
BY DEF SearchInv, Found

LEMMA LineStep ==
    ASSUME LineInv, [Next]_vars
    PROVE  LineInv'
<1> USE TableLength DEF LineInv
<1>1. CASE Parse
  <2>1. SearchInv'
    BY <1>1, SearchKept DEF Parse
  <2> QED
    BY <1>1, <2>1 DEF Parse, Exit, PARSE_ERROR, TypeOK, CallInv, CodeInv
<1>2. CASE SetupLogging
  <2>1. SearchInv'
    BY <1>2, SearchKept DEF SetupLogging
  <2>2. ("automatic" \in given) \in BOOLEAN
    OBVIOUS
  <2>3. serial_cout' \in BOOLEAN
    BY <1>2, <2>2, Zenon DEF SetupLogging, TypeOK
  <2>4. pc' = "scan" => serial_cout' = ("automatic" \in given)
    BY <1>2, Zenon DEF SetupLogging, Exit
  <2>5. \/ pc' = "scan" /\ code' = code
        \/ pc' = "exit" /\ code' = 124
    BY <1>2 DEF SetupLogging, Exit, UNHANDLED_EXCEPTION
  <2>6. pc = "setup" /\ UNCHANGED <<given, entry, matched_handler, action_count, ran>>
    BY <1>2 DEF SetupLogging
  <2>7. TypeOK' /\ CodeInv'
    BY <2>3, <2>5, <2>6 DEF TypeOK, CallInv, CodeInv
  <2>8. CallInv'
    BY <2>4, <2>5, <2>6 DEF CallInv
  <2> QED
    BY <2>1, <2>7, <2>8
<1>3. CASE Scan
  BY <1>3, ScanStep
<1>4. CASE CheckUpdateType
  <2>1. SearchInv'
    BY <1>4, SearchKept DEF CheckUpdateType
  <2> QED
    BY <1>4, <2>1 DEF CheckUpdateType, Exit, CLI_VALIDATION, TypeOK, CallInv, CodeInv
<1>5. CASE Dispatch
  <2>1. SearchInv'
    BY <1>5, SearchKept DEF Dispatch
  <2>2. CASE action_count = 1
    <3>1. pc' = "handler" /\ ran' = {matched_handler} /\ code' = code
      BY <1>5, <2>2 DEF Dispatch, CallInv
    <3>2. matched_handler \in ActionFlags
      BY <2>2 DEF SearchInv
    <3> QED
      BY <1>5, <2>1, <2>2, <3>1, <3>2 DEF Dispatch, TypeOK, CallInv, CodeInv
  <2>3. CASE action_count # 1
    <3>1. pc' = "exit" /\ code' \in {0, 65} /\ ran' = ran /\ ran = {}
      BY <1>5, <2>3 DEF Dispatch, Exit, CLI_VALIDATION, CallInv
    <3> QED
      BY <1>5, <2>1, <3>1 DEF Dispatch, TypeOK, CallInv, CodeInv
  <2> QED
    BY <2>2, <2>3
<1>6. CASE Handle
  <2>1. SearchInv'
    BY <1>6, SearchKept DEF Handle
  <2>2. pc' = "exit" /\ code' \in 0..124 \ {64, 65}
    BY <1>6, CodesOfHandlers DEF Handle, Exit, UNHANDLED_EXCEPTION, CodeInv
  <2> QED
    BY <1>6, <2>1, <2>2 DEF Handle, TypeOK, CallInv, CodeInv
<1>7. CASE UNCHANGED vars
  BY <1>7, SearchKept DEF vars, TypeOK, CallInv, CodeInv
<1> QED
  BY <1>1, <1>2, <1>3, <1>4, <1>5, <1>6, <1>7 DEF Next

LEMMA LineAlways == Spec => []LineInv
<1>1. LineInv /\ [Next]_vars => LineInv'
  BY LineStep
<1> QED
  BY <1>1, LineInit, PTL DEF Spec

-----------------------------------------------------------------------------
\* Types, for any set of command lines.
THEOREM CommandLineTypes == Spec => []TypeOK
<1>1. LineInv => TypeOK
  BY DEF LineInv
<1> QED
  BY <1>1, LineAlways, PTL

(***************************************************************************)
(* Whatever flags are given together, with whatever modifiers: a handler   *)
(* runs only for the one action of the command line, and a command line    *)
(* that is answered with 64 or 65 has run none.                            *)
(***************************************************************************)
THEOREM RunsOneHandler == Spec => []OneHandler
<1>1. ASSUME LineInv
      PROVE  OneHandler
  <2>1. ASSUME ran # {}
        PROVE  ran = given \cap ActionFlags /\ Cardinality(ran) = 1
    <3>1. ran = {matched_handler} /\ Found = ran
      BY <1>1, <2>1 DEF LineInv, CallInv, SearchInv
    <3>2. Found = given \cap ActionFlags
      BY <1>1, <2>1, TableLength DEF LineInv, CallInv, Found, ActionFlags
    <3>3. Cardinality({matched_handler}) = 1
      BY FS_Singleton
    <3> QED
      BY <3>1, <3>2, <3>3
  <2>2. CLI_VALIDATION.UPDATE_TYPE_WITHOUT_FILE = 64
        /\ CLI_VALIDATION.INCOMPATIBLE_ARG_COMBO = 65
    BY DEF CLI_VALIDATION
  <2> QED
    BY <1>1, <2>1, <2>2 DEF LineInv, CodeInv, OneHandler
<1> QED
  BY <1>1, LineAlways, PTL

\* handle_automatic never runs without its port.
THEOREM PortReady == Spec => []PortIsReady
<1>1. ASSUME LineInv
      PROVE  PortIsReady
  <2>1. "automatic" \in ran => "automatic" \in given
    BY <1>1 DEF LineInv, CallInv, SearchInv, Found
  <2> QED
    BY <1>1, <2>1 DEF LineInv, CallInv, PortIsReady
<1> QED
  BY <1>1, LineAlways, PTL
=============================================================================

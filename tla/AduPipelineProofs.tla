------------------------- MODULE AduPipelineProofs -------------------------
(***************************************************************************)
(* Proofs about AduPipeline for any processes, packages, sizes and faults, *)
(* and Downloads at any moment.                                            *)
(***************************************************************************)
EXTENDS Overtaken, UpdateSizeProofs

-----------------------------------------------------------------------------
(* What a handler may rely on unless a Download overtakes it: the files it *)
(* has found stay, and so does the offer whose size it has read.           *)

\* The files a handler has seen by the time it is at a label.
Found(label) ==
    IF label = "download_version" THEN {"update_type"}
    ELSE IF label = "download_size" THEN {"update_type", "update_version"}
    ELSE IF label \in {"download_marker", "download_create"} THEN Metadata
    ELSE IF label \in {"install_marker", "install_create"} THEN {"update_location"}
    ELSE IF label \in {"apply_marker", "apply_download", "apply_create"}
      THEN {"updateInstalled"}
    ELSE {}

FoundStays == \A p \in Procs \ overtaken : Found(pc[p]) \subseteq files

\* The labels at which a handler holds what it has read of the offer.
HasRead == {"available_version", "available_size", "progress_stat_location",
            "progress_location", "progress_exists", "progress_stat"}

Measures == {"progress_stat_location", "progress_location", "progress_exists",
             "progress_stat"}

ReadStays == \A p \in Procs \ overtaken :
    /\ pc[p] \in HasRead => seen[p] \in {offer, Nothing}
    /\ pc[p] \in Measures => seen[p] = offer

EmptyDir == agent = "mkdir" => files = {}

OnlyRunning == overtaken \subseteq Running

Inv == TypeOK /\ EmptyDir /\ OnlyRunning /\ FoundStays /\ ReadStays /\ PromptSignalsMatch

\* What the history variables make of a step of p.
Recorded(p) ==
    /\ overtaken' = overtaken \cap Running'
    /\ late' = IF p \in overtaken THEN late \cup (files' \ files) ELSE late

-----------------------------------------------------------------------------
(* What the helper operators keep.                                         *)

LEMMA GotoKeeps ==
    ASSUME Inv, NEW p \in Procs, NEW label \in Labels, Goto(p, label), Recorded(p),
           UNCHANGED <<agentVars, files>>,
           p \notin overtaken => Found(label) \subseteq files,
           p \in overtaken => label # "idle",
           label \in HasRead => pc[p] \in HasRead,
           label \in Measures => pc[p] \in Measures
    PROVE  Inv'
<1>1. TypeOK' /\ EmptyDir'
  BY DEF Inv, TypeOK, EmptyDir, Goto, agentVars, NoExit
<1>2. OnlyRunning' /\ overtaken' = overtaken
  BY DEF Inv, TypeOK, OnlyRunning, Recorded, Running, Goto
<1>3. FoundStays'
  BY <1>2 DEF Inv, TypeOK, FoundStays, Goto
<1>4. ReadStays'
  BY <1>2 DEF Inv, TypeOK, ReadStays, Goto, agentVars
<1>5. PromptSignalsMatch'
  BY DEF Inv, PromptSignalsMatch, Recorded
<1> QED
  BY <1>1, <1>2, <1>3, <1>4, <1>5 DEF Inv

LEMMA RememberKeeps ==
    ASSUME Inv, NEW p \in Procs, NEW label \in Labels, NEW f, Remember(p, f, label),
           Recorded(p), UNCHANGED <<agentVars, files>>,
           Found(label) = {}, label # "idle",
           label \in Measures => f \in filled
    PROVE  Inv'
<1>1. TypeOK' /\ EmptyDir'
  BY DEF Inv, TypeOK, EmptyDir, Remember, agentVars, NoExit
<1>2. OnlyRunning' /\ overtaken' = overtaken
  BY DEF Inv, TypeOK, OnlyRunning, Recorded, Running, Remember
<1>3. FoundStays'
  BY <1>2 DEF Inv, TypeOK, FoundStays, Remember
<1>4. ReadStays'
  BY <1>2 DEF Inv, TypeOK, ReadStays, Remember, agentVars
<1>5. PromptSignalsMatch'
  BY DEF Inv, PromptSignalsMatch, Recorded
<1> QED
  BY <1>1, <1>2, <1>3, <1>4, <1>5 DEF Inv

\* An invocation that has ended relies on nothing.
LEMMA ExitKeeps ==
    ASSUME Inv, NEW p \in Procs, NEW code \in {NoExit} \cup 34..51,
           pc' = [pc EXCEPT ![p] = "idle"], seen' = [seen EXCEPT ![p] = Nothing],
           exit' = code, files \subseteq files', files' \subseteq Files, Recorded(p),
           agent' = "mkdir" => files' = {},
           agent' \in Places, UNCHANGED <<offer, filled, got>>, PromptSignalsMatch'
    PROVE  Inv'
<1>1. TypeOK' /\ EmptyDir'
  BY DEF Inv, TypeOK, EmptyDir, Labels
<1>2. OnlyRunning' /\ overtaken' = overtaken \ {p}
  BY DEF Inv, TypeOK, OnlyRunning, Recorded, Running
<1>3. FoundStays'
  BY <1>2 DEF Inv, TypeOK, FoundStays, Found
<1>4. ReadStays'
  BY <1>2 DEF Inv, TypeOK, ReadStays, HasRead, Measures
<1> QED
  BY <1>1, <1>2, <1>3, <1>4 DEF Inv

LEMMA AnswerKeeps ==
    ASSUME Inv, NEW p \in Procs, NEW code \in 34..51, Exit(p, code), Recorded(p),
           UNCHANGED <<agentVars, files>>
    PROVE  Inv'
<1>1. PromptSignalsMatch'
  BY DEF Inv, PromptSignalsMatch, Recorded
<1> QED
  BY <1>1, ExitKeeps DEF Exit, agentVars, Inv, TypeOK, EmptyDir

LEMMA CreateKeeps ==
    ASSUME Inv, NEW p \in Procs, NEW f \in Signals, Recorded(p),
           NEW done \in 34..51, NEW failed \in 34..51,
           CreateMarker(p, f, done, failed), UNCHANGED agentVars,
           p \notin overtaken /\ f = "downloadUpdate" => Metadata \subseteq files,
           p \notin overtaken /\ f = "installUpdate" => "update_location" \in files
    PROVE  Inv'
<1>1. CASE files' = files
  BY <1>1, AnswerKeeps DEF CreateMarker
<1>2. CASE /\ WorkDir \in files
           /\ files' = files \cup {f}
           /\ Exit(p, done)
  <2>1. files \subseteq files' /\ files' \subseteq Files
    BY <1>2 DEF Files, Inv, TypeOK
  <2>2. PromptSignalsMatch'
    <3>1. CASE p \in overtaken
      BY <1>2, <3>1 DEF PromptSignalsMatch, Inv, Recorded
    <3>2. CASE p \notin overtaken
      BY <1>2, <3>2 DEF PromptSignalsMatch, Inv, Recorded
    <3> QED
      BY <3>1, <3>2
  <2>3. agent' \in Places /\ agent' # "mkdir"
    BY <1>2 DEF agentVars, Inv, TypeOK, EmptyDir
  <2> QED
    BY <1>2, <2>1, <2>2, <2>3, ExitKeeps DEF Exit, agentVars
<1> QED
  BY <1>1, <1>2 DEF CreateMarker

\* What the history variables make of a step of the agent but Download.
Noted == /\ overtaken' = overtaken \cap Running'
         /\ late' = late \cap files'

\* Once the directory is there the agent only adds to it.
LEMMA AgentKeeps ==
    ASSUME Inv, AgentStep, Noted, offer' = offer, agent' \in Places, agent' # "mkdir",
           files \subseteq files',
           files' \subseteq files \cup Metadata
                               \cup {WorkDir, "update_location", "updateInstalled"},
           filled' \subseteq files',
           got' \in Int, NoFile <= got', got' <= Size[offer]
    PROVE  Inv'
<1>1. TypeOK' /\ EmptyDir'
  BY DEF Inv, TypeOK, EmptyDir, AgentStep, Files, Signals, NoExit
<1>2. OnlyRunning' /\ overtaken' = overtaken
  BY DEF Inv, OnlyRunning, Noted, Running, AgentStep
<1>3. FoundStays'
  BY <1>2 DEF Inv, TypeOK, FoundStays, AgentStep
<1>4. ReadStays'
  BY <1>2 DEF Inv, TypeOK, ReadStays, AgentStep
<1>5. PromptSignalsMatch'
  BY DEF Inv, PromptSignalsMatch, Metadata, WorkDir, Noted
<1> QED
  BY <1>1, <1>2, <1>3, <1>4, <1>5 DEF Inv

\* A directory that begins anew: who knows the old one is overtaken.
LEMMA FreshKeeps ==
    ASSUME \A p \in Procs \ overtaken' : pc'[p] = "idle", OnlyRunning',
           pc' \in [Procs -> Labels], seen' \in [Procs -> Packages \cup {Nothing}],
           agent' \in Places, offer' \in Packages,
           files' \subseteq {WorkDir}, filled' = {}, got' = NoFile, exit' = NoExit,
           agent' = "mkdir" => files' = {}
    PROVE  Inv'
<1>1. Size[offer'] \in Nat
  BY PipelineAssumption
<1>2. TypeOK' /\ EmptyDir'
  BY <1>1 DEF TypeOK, EmptyDir, Files, NoFile
<1>3. FoundStays' /\ ReadStays'
  BY DEF FoundStays, ReadStays, Found, HasRead, Measures
<1>4. PromptSignalsMatch'
  BY DEF PromptSignalsMatch, WorkDir
<1> QED
  BY <1>2, <1>3, <1>4 DEF Inv

-----------------------------------------------------------------------------
(* One lemma per part of the system.                                       *)

LEMMA StartKeeps ==
    ASSUME Inv, NEW p \in Procs, NEW c \in Commands, Start(p, c), Recorded(p)
    PROVE  Inv'
<1>1. Found(c) = {} /\ c \notin HasRead /\ c \notin Measures /\ c \in Labels
      /\ c # "idle"
  BY DEF Commands, Found, HasRead, Measures, Labels
<1> QED
  BY <1>1, GotoKeeps DEF Start, Goto

LEMMA AvailableKeeps ==
    ASSUME Inv, NEW p \in Procs, Recorded(p),
           AvailableType(p) \/ AvailableVersion(p) \/ AvailableSize(p)
    PROVE  Inv'
<1>1. \A type : AvailableCode(type) \in 34..51
  BY DEF AvailableCode, IS_UPDATE_AVAILABLE_STATE
<1>2. ASSUME Unavailable(p), UNCHANGED <<agentVars, files>> PROVE Inv'
  BY <1>2, AnswerKeeps DEF Unavailable, IS_UPDATE_AVAILABLE_STATE
<1>3. CASE AvailableType(p)
  <2>1. "available_version" \in Labels /\ Found("available_version") = {}
        /\ "available_version" \notin Measures
    BY DEF Labels, Found, Measures
  <2> QED
    BY <1>2, <1>3, <2>1, RememberKeeps DEF AvailableType
<1>4. CASE AvailableVersion(p)
  <2>1. /\ "available_size" \in Labels /\ Found("available_size") = {}
        /\ "available_size" \notin Measures /\ "available_version" \in HasRead
    BY DEF Labels, Found, HasRead, Measures
  <2> QED
    BY <1>2, <1>4, <2>1, GotoKeeps DEF AvailableVersion
<1>5. CASE AvailableSize(p)
  BY <1>1, <1>2, <1>5, AnswerKeeps DEF AvailableSize
<1> QED
  BY <1>3, <1>4, <1>5

LEMMA DownloadKeeps ==
    ASSUME Inv, NEW p \in Procs, Recorded(p),
           DownloadQueued(p) \/ DownloadMarker(p) \/ DownloadCreate(p)
    PROVE  Inv'
<1>1. \A f \in DOMAIN DOWNLOAD_UPDATE_STATE : DOWNLOAD_UPDATE_STATE[f] \in 34..51
  BY DEF DOWNLOAD_UPDATE_STATE
<1>2. p \notin overtaken => Found(pc[p]) \subseteq files
  BY DEF Inv, FoundStays
<1>3. CASE DownloadQueued(p)
  <2>1. ASSUME pc[p] = "download_update", "update_type" \in files,
               Goto(p, "download_version"), UNCHANGED <<agentVars, files>>
        PROVE  Inv'
    BY <2>1, GotoKeeps DEF Labels, Found, HasRead, Measures
  <2>2. ASSUME pc[p] = "download_version", "update_version" \in files,
               Goto(p, "download_size"), UNCHANGED <<agentVars, files>>
        PROVE  Inv'
    BY <1>2, <2>2, GotoKeeps DEF Labels, Found, HasRead, Measures
  <2>3. ASSUME pc[p] = "download_size", "update_size" \in files,
               Goto(p, "download_marker"), UNCHANGED <<agentVars, files>>
        PROVE  Inv'
    BY <1>2, <2>3, GotoKeeps DEF Labels, Found, HasRead, Measures, Metadata
  <2>4. ASSUME Exit(p, DOWNLOAD_UPDATE_STATE.NO_DOWNLOAD_QUEUED),
               UNCHANGED <<agentVars, files>>
        PROVE  Inv'
    BY <2>4, AnswerKeeps DEF DOWNLOAD_UPDATE_STATE
  <2> QED
    BY <1>3, <2>1, <2>2, <2>3, <2>4 DEF DownloadQueued, DownloadChecks
<1>4. CASE DownloadMarker(p)
  <2>1. ASSUME Goto(p, "download_create"), UNCHANGED <<agentVars, files>>,
               pc[p] = "download_marker"
        PROVE  Inv'
    BY <1>2, <2>1, GotoKeeps DEF Labels, Found, HasRead, Measures
  <2>2. ASSUME Exit(p, DOWNLOAD_UPDATE_STATE.STARTED_BEFORE),
               UNCHANGED <<agentVars, files>>
        PROVE  Inv'
    BY <2>2, AnswerKeeps DEF DOWNLOAD_UPDATE_STATE
  <2> QED
    BY <1>4, <2>1, <2>2 DEF DownloadMarker
<1>5. CASE DownloadCreate(p)
  <2>1. p \notin overtaken => Metadata \subseteq files
    BY <1>2, <1>5 DEF DownloadCreate, Found
  <2>2. DOWNLOAD_UPDATE_STATE.STARTED \in 34..51
        /\ DOWNLOAD_UPDATE_STATE.FAILED \in 34..51
    BY DEF DOWNLOAD_UPDATE_STATE
  <2> QED
    BY <1>5, <2>1, <2>2, CreateKeeps DEF DownloadCreate, Signals
<1> QED
  BY <1>3, <1>4, <1>5

LEMMA ProgressCodeType ==
    ASSUME NEW t, NEW g
    PROVE  ProgressCode(t, g) \in 34..51
BY DEF ProgressCode, DOWNLOAD_PROGRESS_STATE

LEMMA ProgressKeeps ==
    ASSUME Inv, NEW p \in Procs, Recorded(p),
           \/ ProgressMarker(p) \/ ProgressSize(p) \/ ProgressLocation(p)
           \/ ProgressExists(p) \/ ProgressStat(p)
    PROVE  Inv'
<1>1. ASSUME NotStarted(p) \/ Waiting(p), UNCHANGED <<agentVars, files>>
      PROVE  Inv'
  BY <1>1, AnswerKeeps DEF NotStarted, Waiting, DOWNLOAD_PROGRESS_STATE
<1>2. ASSUME NEW label, Goto(p, label), UNCHANGED <<agentVars, files>>,
             label \in {"progress_location", "progress_exists", "progress_stat"},
             pc[p] \in Measures
      PROVE  Inv'
  <2>1. /\ label \in Labels /\ Found(label) = {}
        /\ pc[p] \in HasRead
    BY <1>2 DEF Labels, Found, HasRead, Measures
  <2> QED
    BY <1>2, <2>1, GotoKeeps
<1>3. CASE ProgressMarker(p)
  <2>1. /\ "progress_size" \in Labels /\ Found("progress_size") = {}
        /\ "progress_size" \notin HasRead /\ "progress_size" \notin Measures
    BY DEF Labels, Found, HasRead, Measures
  <2> QED
    BY <1>1, <1>3, <2>1, GotoKeeps DEF ProgressMarker
<1>4. CASE ProgressSize(p)
  <2>1. "progress_stat_location" \in Labels /\ Found("progress_stat_location") = {}
    BY DEF Labels, Found
  <2> QED
    BY <1>1, <1>4, <2>1, RememberKeeps DEF ProgressSize
<1>5. CASE ProgressLocation(p)
  <2>1. pc[p] \in Measures
    BY <1>5 DEF ProgressLocation, Measures
  <2> QED
    BY <1>1, <1>2, <1>5, <2>1 DEF ProgressLocation
<1>6. CASE ProgressExists(p)
  <2>1. pc[p] \in Measures
    BY <1>6 DEF ProgressExists, Measures
  <2> QED
    BY <1>1, <1>2, <1>6, <2>1 DEF ProgressExists
<1>7. CASE ProgressStat(p)
  BY <1>7, AnswerKeeps, ProgressCodeType DEF ProgressStat
<1> QED
  BY <1>3, <1>4, <1>5, <1>6, <1>7

LEMMA InstallKeeps ==
    ASSUME Inv, NEW p \in Procs, Recorded(p),
           \/ InstallFinished(p) \/ InstallLocation(p)
           \/ InstallMarker(p) \/ InstallCreate(p)
    PROVE  Inv'
<1>1. /\ INSTALL_UPDATE_STATE.FINISHED \in 34..51
      /\ INSTALL_UPDATE_STATE.NO_INSTALLATION_QUEUED \in 34..51
      /\ INSTALL_UPDATE_STATE.IN_PROGRESS \in 34..51
      /\ INSTALL_UPDATE_STATE.FAILED \in 34..51
  BY DEF INSTALL_UPDATE_STATE
<1>2. p \notin overtaken => Found(pc[p]) \subseteq files
  BY DEF Inv, FoundStays
<1>3. CASE InstallFinished(p)
  <2>1. /\ "install_location" \in Labels /\ Found("install_location") = {}
        /\ "install_location" \notin HasRead /\ "install_location" \notin Measures
    BY DEF Labels, Found, HasRead, Measures
  <2> QED
    BY <1>1, <1>3, <2>1, GotoKeeps, AnswerKeeps DEF InstallFinished
<1>4. CASE InstallLocation(p)
  <2>1. /\ "install_marker" \in Labels /\ Found("install_marker") = {"update_location"}
        /\ "install_marker" \notin HasRead /\ "install_marker" \notin Measures
    BY DEF Labels, Found, HasRead, Measures
  <2>2. ASSUME "update_location" \in files, Goto(p, "install_marker"),
               UNCHANGED <<agentVars, files>>
        PROVE  Inv'
    BY <2>1, <2>2, GotoKeeps
  <2> QED
    BY <1>1, <1>4, <2>2, AnswerKeeps DEF InstallLocation
<1>5. CASE InstallMarker(p)
  <2>1. /\ "install_create" \in Labels
        /\ p \notin overtaken => Found("install_create") \subseteq files
        /\ "install_create" \notin HasRead /\ "install_create" \notin Measures
    BY <1>2, <1>5 DEF Labels, Found, HasRead, Measures, InstallMarker
  <2>2. ASSUME Goto(p, "install_create"), UNCHANGED <<agentVars, files>> PROVE Inv'
    BY <2>1, <2>2, GotoKeeps
  <2> QED
    BY <1>1, <1>5, <2>2, AnswerKeeps DEF InstallMarker
<1>6. CASE InstallCreate(p)
  <2>1. p \notin overtaken => "update_location" \in files
    BY <1>2, <1>6 DEF InstallCreate, Found
  <2> QED
    BY <1>1, <1>6, <2>1, CreateKeeps DEF InstallCreate, Signals
<1> QED
  BY <1>3, <1>4, <1>5, <1>6

LEMMA ApplyKeeps ==
    ASSUME Inv, NEW p \in Procs, Recorded(p),
           ApplyInstalled(p) \/ ApplyMode(p) \/ ApplyCreate(p) \/ Reboot(p)
    PROVE  Inv'
<1>1. /\ APPLY_UPDATE_STATE.APPLY_SUCCESSFUL \in 34..51
      /\ APPLY_UPDATE_STATE.APPLY_FAILED \in 34..51
  BY DEF APPLY_UPDATE_STATE
<1>2. ASSUME p \notin overtaken => "updateInstalled" \in files, NEW label, Goto(p, label),
             label \in {"apply_marker", "apply_download", "apply_create", "reboot"},
             UNCHANGED <<agentVars, files>>
      PROVE  Inv'
  <2>1. /\ label \in Labels /\ Found(label) \subseteq {"updateInstalled"}
        /\ label \notin HasRead /\ label \notin Measures
    BY <1>2 DEF Labels, Found, HasRead, Measures
  <2> QED
    BY <1>2, <2>1, GotoKeeps
<1>3. p \notin overtaken => Found(pc[p]) \subseteq files
  BY DEF Inv, FoundStays
<1>4. CASE ApplyInstalled(p)
  BY <1>1, <1>2, <1>4, AnswerKeeps DEF ApplyInstalled
<1>5. CASE ApplyMode(p)
  <2>1. p \notin overtaken => "updateInstalled" \in files
    BY <1>3, <1>5 DEF ApplyMode, Found
  <2> QED
    BY <1>2, <1>5, <2>1 DEF ApplyMode
<1>6. CASE ApplyCreate(p)
  BY <1>1, <1>6, CreateKeeps DEF ApplyCreate, Signals
<1>7. CASE Reboot(p)
  <2>1. "rebooting" \in Places /\ files \subseteq Files /\ PromptSignalsMatch
    BY DEF Places, Inv, TypeOK
  <2>2. PromptSignalsMatch'
    BY <1>7, <2>1 DEF Reboot, PromptSignalsMatch, Recorded
  <2> QED
    BY <1>1, <1>7, <2>1, <2>2, ExitKeeps DEF Reboot, Exit
<1> QED
  BY <1>4, <1>5, <1>6, <1>7

LEMMA KillKeeps ==
    ASSUME Inv, NEW p \in Procs, Kill(p), Recorded(p)
    PROVE  Inv'
<1>1. PromptSignalsMatch'
  BY DEF Inv, PromptSignalsMatch, Recorded, Kill
<1> QED
  BY <1>1, ExitKeeps DEF Kill, agentVars, Inv, TypeOK, EmptyDir

LEMMA AgentWorksKeeps ==
    ASSUME Inv, AgentWorks \/ AgentFails \/ AgentRestarts, Noted
    PROVE  Inv'
<1>1. filled \subseteq files /\ got \in Int /\ NoFile <= got /\ got <= Size[offer]
      /\ Size[offer] \in Nat
  BY PipelineAssumption DEF Inv, TypeOK
<1>2. CASE AgentMakesDir
  <2>1. files = {} /\ agent' \in Places /\ agent' # "mkdir"
    BY <1>2 DEF AgentMakesDir, Inv, EmptyDir, Places
  <2> QED
    BY <1>1, <1>2, <2>1, AgentKeeps DEF AgentMakesDir, WorkDir
<1>3. CASE AgentWrites
  <2>1. /\ agent \in Metadata \cup {"update_location"}
        /\ agent' \in Places /\ agent' # "mkdir"
    BY <1>3 DEF AgentWrites, AfterFile, Metadata, Places
  <2>2. /\ files \subseteq files' /\ files' \subseteq files \cup {agent}
        /\ filled' \subseteq files'
    BY <1>1, <1>3 DEF AgentWrites
  <2> QED
    BY <1>1, <1>3, <2>1, <2>2, AgentKeeps DEF AgentWrites
<1>4. CASE AgentFinds
  <2>1. agent' \in Places /\ agent' # "mkdir"
    BY <1>4 DEF AgentFinds, Places
  <2> QED
    BY <1>1, <1>4, <2>1, AgentKeeps DEF AgentFinds
<1>5. CASE AgentFetches
  <2>1. agent' \in Places /\ agent' # "mkdir"
    BY <1>5 DEF AgentFetches, Places
  <2>2. got' \in Int /\ NoFile <= got' /\ got' <= Size[offer]
    BY <1>1, <1>5 DEF AgentFetches, NoFile
  <2> QED
    BY <1>1, <1>5, <2>1, <2>2, AgentKeeps DEF AgentFetches
<1>6. CASE AgentInstalled
  <2>1. agent' \in Places /\ agent' # "mkdir"
    BY <1>6 DEF AgentInstalled, Places
  <2>2. filled' \subseteq files'
    BY <1>1, <1>6 DEF AgentInstalled
  <2> QED
    BY <1>1, <1>6, <2>1, <2>2, AgentKeeps DEF AgentInstalled
<1>7. CASE AgentFails \/ AgentRestarts
  <2>1. agent' \in Places /\ agent' # "mkdir"
    BY <1>7 DEF AgentFails, AgentRestarts, Places
  <2> QED
    BY <1>1, <1>7, <2>1, AgentKeeps DEF AgentFails, AgentRestarts
<1> QED
  BY <1>2, <1>3, <1>4, <1>5, <1>6, <1>7 DEF AgentWorks

LEMMA DownloadBeginsKeeps ==
    ASSUME Inv, Overtakes
    PROVE  Inv'
<1>1. pc' = pc /\ seen' = seen /\ overtaken' = Running
  BY DEF Overtakes, AgentDownload, AgentStep
<1>2. OnlyRunning' /\ \A p \in Procs \ overtaken' : pc'[p] = "idle"
  BY <1>1 DEF OnlyRunning, Running
<1> QED
  BY <1>1, <1>2, FreshKeeps DEF Overtakes, AgentDownload, AgentStep, Inv, TypeOK, Places

LEMMA BootKeeps ==
    ASSUME Inv, Boot, Noted
    PROVE  Inv'
<1>1. pc' = [p \in Procs |-> "idle"] /\ overtaken' = {}
  BY DEF Boot, Noted, Running
<1>2. CASE files' = {WorkDir} /\ filled' = {} /\ got' = NoFile
  BY <1>1, <1>2, FreshKeeps DEF Boot, Inv, TypeOK, Places, Labels, OnlyRunning
<1>3. CASE UNCHANGED <<files, filled, got>>
  <2>1. TypeOK' /\ EmptyDir'
    BY <1>1, <1>3 DEF Boot, Inv, TypeOK, EmptyDir, Places, Labels
  <2>2. FoundStays' /\ ReadStays' /\ OnlyRunning'
    BY <1>1 DEF FoundStays, ReadStays, Found, HasRead, Measures, OnlyRunning
  <2>3. PromptSignalsMatch'
    BY <1>3 DEF Inv, PromptSignalsMatch, Noted
  <2> QED
    BY <2>1, <2>2, <2>3 DEF Inv
<1> QED
  BY <1>2, <1>3 DEF Boot

LEMMA StutterKeeps ==
    ASSUME Inv, UNCHANGED overtakenVars
    PROVE  Inv'
BY DEF overtakenVars, history, vars, Inv, TypeOK, EmptyDir, OnlyRunning, Running,
       FoundStays, ReadStays, PromptSignalsMatch

LEMMA InvKept ==
    ASSUME Inv, [OvertakenNext]_overtakenVars
    PROVE  Inv'
<1>1. ASSUME NEW p \in Procs, Handler(p), Recorded(p) PROVE Inv'
  BY <1>1, AvailableKeeps, DownloadKeeps, ProgressKeeps, InstallKeeps, ApplyKeeps
     DEF Handler
<1>2. CASE Invokes
  BY <1>1, <1>2, StartKeeps, KillKeeps DEF Invokes, Recorded
<1>3. CASE Continues
  BY <1>3, AgentWorksKeeps, BootKeeps DEF Continues, Noted
<1> QED
  BY <1>2, <1>3, DownloadBeginsKeeps, StutterKeeps DEF OvertakenNext

LEMMA InvAlways == OvertakenSpec => []Inv
<1>1. OvertakenInit => Inv
  <2> SUFFICES ASSUME OvertakenInit PROVE Inv
    OBVIOUS
  <2> USE DEF OvertakenInit
  <2>1. Size[offer] \in Nat
    BY PipelineAssumption DEF Init
  <2>2. TypeOK /\ EmptyDir
    BY <2>1 DEF Init, TypeOK, EmptyDir, Places, Files, Labels, NoFile
  <2>3. OnlyRunning /\ FoundStays /\ ReadStays /\ PromptSignalsMatch
    BY DEF Init, OnlyRunning, FoundStays, ReadStays, PromptSignalsMatch, Found, HasRead,
           Measures, WorkDir
  <2> QED
    BY <2>2, <2>3 DEF Inv
<1>2. Inv /\ [OvertakenNext]_overtakenVars => Inv'
  BY InvKept
<1> QED
  BY <1>1, <1>2, PTL DEF OvertakenSpec

(***************************************************************************)
(* No answer, no file and no length is outside its type, whatever fails or *)
(* is killed and whenever a Download begins.                               *)
(***************************************************************************)
THEOREM PipelineTypes == OvertakenSpec => []TypeOK
<1>1. Inv => TypeOK
  BY DEF Inv
<1> QED
  BY <1>1, InvAlways, PTL

(***************************************************************************)
(* Whatever other invocations, failures and the agent do between a check   *)
(* and the creation of the signal: unless it is a Download that overtakes  *)
(* the command, its signal has what it checks for.                         *)
(***************************************************************************)
THEOREM SignalsMatch == OvertakenSpec => []PromptSignalsMatch
<1>1. Inv => PromptSignalsMatch
  BY DEF Inv
<1> QED
  BY <1>1, InvAlways, PTL

-----------------------------------------------------------------------------
(* What the answers say: two steps give the answers in question.           *)

\* What a step returns that is neither AvailableSize nor ProgressStat.
Plainly == {NoExit, 34} \cup 37..44 \cup 46..51

LEMMA OthersAnswerPlainly ==
    ASSUME NEW p \in Procs, Handler(p), ~AvailableSize(p), ~ProgressStat(p)
    PROVE  exit' \in Plainly
<1>1. ASSUME AvailableType(p) \/ AvailableVersion(p) PROVE exit' \in Plainly
  BY <1>1 DEF AvailableType, AvailableVersion, Unavailable, Exit, Goto, Remember,
              IS_UPDATE_AVAILABLE_STATE, Plainly
<1>2. ASSUME DownloadQueued(p) \/ DownloadMarker(p) \/ DownloadCreate(p)
      PROVE  exit' \in Plainly
  BY <1>2 DEF DownloadQueued, DownloadMarker, DownloadCreate, CreateMarker, Exit, Goto,
              DOWNLOAD_UPDATE_STATE, Plainly
<1>3. ASSUME \/ ProgressMarker(p) \/ ProgressSize(p) \/ ProgressLocation(p)
             \/ ProgressExists(p)
      PROVE  exit' \in Plainly
  BY <1>3 DEF ProgressMarker, ProgressSize, ProgressLocation, ProgressExists,
              NotStarted, Waiting, Exit, Goto, Remember, DOWNLOAD_PROGRESS_STATE, Plainly
<1>4. ASSUME \/ InstallFinished(p) \/ InstallLocation(p)
             \/ InstallMarker(p) \/ InstallCreate(p)
      PROVE  exit' \in Plainly
  BY <1>4 DEF InstallFinished, InstallLocation, InstallMarker, InstallCreate,
              CreateMarker, Exit, Goto, INSTALL_UPDATE_STATE, Plainly
<1>5. ASSUME ApplyInstalled(p) \/ ApplyMode(p) \/ ApplyCreate(p) \/ Reboot(p)
      PROVE  exit' \in Plainly
  BY <1>5 DEF ApplyInstalled, ApplyMode, ApplyCreate, Reboot, CreateMarker, Exit, Goto,
              APPLY_UPDATE_STATE, Plainly
<1> QED
  BY <1>1, <1>2, <1>3, <1>4, <1>5 DEF Handler

LEMMA HandlerMoves ==
    ASSUME NEW p \in Procs, Handler(p)
    PROVE  \E label : pc' = [pc EXCEPT ![p] = label]
<1>1. CASE AvailableType(p) \/ AvailableVersion(p) \/ AvailableSize(p)
  BY <1>1 DEF AvailableType, AvailableVersion, AvailableSize, Unavailable, Exit, Goto,
              Remember
<1>2. CASE DownloadQueued(p) \/ DownloadMarker(p) \/ DownloadCreate(p)
  BY <1>2 DEF DownloadQueued, DownloadMarker, DownloadCreate, CreateMarker, Exit, Goto
<1>3. CASE \/ ProgressMarker(p) \/ ProgressSize(p) \/ ProgressLocation(p)
           \/ ProgressExists(p) \/ ProgressStat(p)
  BY <1>3 DEF ProgressMarker, ProgressSize, ProgressLocation, ProgressExists,
              ProgressStat, NotStarted, Waiting, Exit, Goto, Remember
<1>4. CASE \/ InstallFinished(p) \/ InstallLocation(p)
           \/ InstallMarker(p) \/ InstallCreate(p)
  BY <1>4 DEF InstallFinished, InstallLocation, InstallMarker, InstallCreate,
              CreateMarker, Exit, Goto
<1>5. CASE ApplyInstalled(p) \/ ApplyMode(p) \/ ApplyCreate(p) \/ Reboot(p)
  BY <1>5 DEF ApplyInstalled, ApplyMode, ApplyCreate, Reboot, CreateMarker, Exit, Goto
<1> QED
  BY <1>1, <1>2, <1>3, <1>4, <1>5 DEF Handler

\* All other steps end no invocation with an answer.
LEMMA SilentSteps ==
    ASSUME [OvertakenNext]_overtakenVars, ~(\E p \in Procs : Handler(p))
    PROVE  exit' = NoExit \/ UNCHANGED pc
BY DEF OvertakenNext, Overtakes, Invokes, Continues, overtakenVars, vars, Kill, Start,
       AgentWorks, AgentMakesDir, AgentWrites, AgentFinds, AgentFetches, AgentInstalled,
       AgentDownload, AgentFails, AgentRestarts, Boot, AgentStep

\* Who has answered is who has made the step.
LEMMA WhoAnswers ==
    ASSUME Inv, [OvertakenNext]_overtakenVars, NEW code \in 34..51, PromptAnswer(code)
    PROVE  \E p \in Procs \ overtaken : Handler(p) /\ exit' = code
<1>1. PICK p \in Procs \ overtaken : pc[p] # "idle" /\ pc'[p] = "idle" /\ exit' = code
  BY DEF PromptAnswer
<1>2. exit' # NoExit /\ ~UNCHANGED pc
  BY <1>1 DEF NoExit
<1>3. PICK q \in Procs : Handler(q)
  BY <1>2, SilentSteps
<1>4. \E label : pc' = [pc EXCEPT ![q] = label]
  BY <1>3, HandlerMoves
<1>5. p = q
  BY <1>1, <1>4 DEF Inv, TypeOK
<1> QED
  BY <1>1, <1>3, <1>5

LEMMA Announced ==
    ASSUME Inv, NEW p \in Procs \ overtaken, Handler(p)
    PROVE  /\ exit' = IS_UPDATE_AVAILABLE_STATE.FIRMWARE_UPDATE_AVAILABLE
                => offer = "firmware"
           /\ exit' = IS_UPDATE_AVAILABLE_STATE.APPLICATION_UPDATE_AVAILABLE
                => offer = "application"
<1> DEFINE Claim(code) ==
       /\ code = IS_UPDATE_AVAILABLE_STATE.FIRMWARE_UPDATE_AVAILABLE
            => offer = "firmware"
       /\ code = IS_UPDATE_AVAILABLE_STATE.APPLICATION_UPDATE_AVAILABLE
            => offer = "application"
<1>1. \A code \in Plainly : Claim(code)
  BY DEF IS_UPDATE_AVAILABLE_STATE, Plainly, NoExit
<1>2. ASSUME AvailableSize(p) PROVE Claim(exit')
  <2>1. seen[p] \in {offer, Nothing}
    BY <1>2 DEF AvailableSize, Inv, ReadStays, HasRead
  <2>2. CASE exit' = AvailableCode(seen[p])
    BY <2>1, <2>2 DEF AvailableCode, IS_UPDATE_AVAILABLE_STATE, Nothing
  <2>3. CASE Unavailable(p)
    BY <1>1, <2>3 DEF Unavailable, Exit, IS_UPDATE_AVAILABLE_STATE, Plainly
  <2> QED
    BY <1>2, <2>2, <2>3 DEF AvailableSize, Exit
<1>3. ASSUME ProgressStat(p) PROVE Claim(exit')
  BY <1>3 DEF ProgressStat, Exit, ProgressCode, DOWNLOAD_PROGRESS_STATE,
              IS_UPDATE_AVAILABLE_STATE
<1> HIDE DEF Claim
<1>4. Claim(exit')
  BY <1>1, <1>2, <1>3, OthersAnswerPlainly
<1> QED
  BY <1>4 DEF Claim

\* No package is so large that its percentage leaves the unsigned type.
Fits == \A q \in Packages : Size[q] * 100 < Wide

LEMMA WholeBelowLimit ==
    ASSUME NEW size \in Nat \ {0}, NEW g \in Int, g <= size, size * 100 < Wide,
           ProgressCode(Plain(size), g) = DOWNLOAD_PROGRESS_STATE.FINISHED
    PROVE  g = size
<1>1. Plain(size) \in AllTexts /\ Stoull(Plain(size)) = size
  BY DEF Plain, Text, AllTexts, Stoull, NoDigits
<1>2. g \in Nat /\ g > 0
  BY DEF ProgressCode, DOWNLOAD_PROGRESS_STATE
<1>3. size * 100 < size * HalfInt
  BY WidthsAssumption
<1>4. InRange(g, size)
  BY <1>2, <1>3, WidthsAssumption DEF InRange
<1> QED
  BY <1>1, <1>2, <1>4, FinishedWhole

LEMMA Complete ==
    ASSUME Fits, Inv, NEW p \in Procs \ overtaken, Handler(p),
           exit' = DOWNLOAD_PROGRESS_STATE.FINISHED
    PROVE  got = Size[offer]
<1>1. CASE ProgressStat(p)
  <2>1. /\ seen[p] = offer
        /\ exit' = ProgressCode(Plain(Size[seen[p]]), got)
    BY <1>1 DEF ProgressStat, Exit, Inv, ReadStays, Measures
  <2>2. /\ Size[offer] \in Nat \ {0} /\ Size[offer] * 100 < Wide
        /\ got \in Int /\ got <= Size[offer]
    BY PipelineAssumption DEF Fits, Inv, TypeOK
  <2> QED
    BY <2>1, <2>2, WholeBelowLimit
<1>2. CASE AvailableSize(p)
  BY <1>2 DEF AvailableSize, Unavailable, Exit, AvailableCode, IS_UPDATE_AVAILABLE_STATE,
              DOWNLOAD_PROGRESS_STATE
<1>3. \A code \in Plainly : code # DOWNLOAD_PROGRESS_STATE.FINISHED
  BY DEF Plainly, NoExit, DOWNLOAD_PROGRESS_STATE
<1> QED
  BY <1>1, <1>2, <1>3, OthersAnswerPlainly

(***************************************************************************)
(* An offer announced as one of firmware or of application alone is one,   *)
(* wherever the agent, failures and other invocations step in, as long as  *)
(* no other offer replaces it before the command ends.                     *)
(***************************************************************************)
THEOREM AnnouncementsAreTrue == OvertakenSpec => PromptAnnouncedIsTrue
<1>1. ASSUME Inv, [OvertakenNext]_overtakenVars
      PROVE  /\ PromptAnswer(IS_UPDATE_AVAILABLE_STATE.FIRMWARE_UPDATE_AVAILABLE)
                  => offer = "firmware"
             /\ PromptAnswer(IS_UPDATE_AVAILABLE_STATE.APPLICATION_UPDATE_AVAILABLE)
                  => offer = "application"
  <2>1. /\ IS_UPDATE_AVAILABLE_STATE.FIRMWARE_UPDATE_AVAILABLE \in 34..51
        /\ IS_UPDATE_AVAILABLE_STATE.APPLICATION_UPDATE_AVAILABLE \in 34..51
    BY DEF IS_UPDATE_AVAILABLE_STATE
  <2> QED
    BY <1>1, <2>1, WhoAnswers, Announced
<1> QED
  BY <1>1, InvAlways, PTL DEF OvertakenSpec, PromptAnnouncedIsTrue

(***************************************************************************)
(* For packages of any size below a hundredth of the unsigned range, 45 is *)
(* answered only for the whole package, as long as no other Download       *)
(* begins before the command ends: the checks, reads and the two looks at  *)
(* the downloaded file cannot be told apart from one.                      *)
(***************************************************************************)
THEOREM CompleteAnswersAreTrue ==
    ASSUME Fits
    PROVE  OvertakenSpec => PromptCompleteIsTrue
<1>1. ASSUME Inv, [OvertakenNext]_overtakenVars
      PROVE  PromptAnswer(DOWNLOAD_PROGRESS_STATE.FINISHED) => got = Size[offer]
  <2>1. DOWNLOAD_PROGRESS_STATE.FINISHED \in 34..51
    BY DEF DOWNLOAD_PROGRESS_STATE
  <2> QED
    BY <1>1, <2>1, WhoAnswers, Complete
<1> QED
  BY <1>1, InvAlways, PTL DEF OvertakenSpec, PromptCompleteIsTrue

-----------------------------------------------------------------------------
(* The handlers and the agent implement Deployment.                        *)

\* How the files follow the deployment, until the device reboots.

Unfinished == {"preparing", "offered", "downloading", "downloaded", "installing"}
Downloads == {"downloading", "downloaded", "installing", "installed"}
Installs == {"installing", "installed"}

Chain ==
    /\ "updateInstalled" \in files => "downloadUpdate" \in files
    /\ \A p \in Procs \ overtaken : pc[p] # "reboot"
    /\ Stage = "preparing" => "update_size" \notin files
    /\ Stage \in {"preparing", "offered"} => "update_location" \notin files
    /\ Stage \in Unfinished => "updateInstalled" \notin files
    /\ Stage \in Downloads => "downloadUpdate" \in files
    /\ Stage \in Installs => "installUpdate" \in files
    /\ Stage = "installed" => "updateInstalled" \in files

Calls == AskedFor(Procs \ overtaken)
Stale == AskedFor(overtaken)

Step == [D!Next]_D!vars

LEMMA StageType == Stage \in D!Stages
BY DEF Stage, D!Stages

\* The consents one by one.
LEMMA AgreedIs ==
    Agreed = {c \in {"download", "install", "apply"} :
                /\ Stage \notin {"none", "applying"}
                /\ c = "download" => "downloadUpdate" \in files
                /\ c = "install" => "installUpdate" \in files
                /\ c = "apply" => "applyUpdate" \in files}
BY DEF Agreed, SignalOf

-----------------------------------------------------------------------------
(* The calls of the operator.                                              *)

\* As long as nobody begins a call there are only fewer of them.
LEMMA CallsEnd ==
    ASSUME Inv, overtaken' = overtaken \cap Running',
           \A p \in Procs : \A c \in DOMAIN AskedBy :
              pc'[p] \in AskedBy[c] => pc[p] \in AskedBy[c]
    PROVE  Calls' \in SUBSET Calls /\ Stale' \in SUBSET Stale
<1>1. overtaken \subseteq Procs /\ overtaken' \subseteq overtaken
  BY DEF Inv, OnlyRunning, Running
<1>2. \A c \in DOMAIN AskedBy : "idle" \notin AskedBy[c]
  BY DEF AskedBy
<1>3. \A p \in Procs \ overtaken' : p \notin overtaken \/ pc'[p] = "idle"
  BY DEF Running
<1> QED
  BY <1>1, <1>2, <1>3 DEF Calls, Stale, AskedFor

\* Nobody but the invocation p moves.
LEMMA OneMoves ==
    ASSUME Inv, NEW p \in Procs, NEW label, pc' = [pc EXCEPT ![p] = label], Recorded(p),
           \A c \in DOMAIN AskedBy : label \in AskedBy[c] => pc[p] \in AskedBy[c]
    PROVE  Calls' \in SUBSET Calls /\ Stale' \in SUBSET Stale
<1>1. \A q \in Procs : \A c \in DOMAIN AskedBy :
         pc'[q] \in AskedBy[c] => pc[q] \in AskedBy[c]
  BY DEF Inv, TypeOK
<1> QED
  BY <1>1, CallsEnd DEF Recorded

LEMMA OneEnds ==
    ASSUME Inv, NEW p \in Procs, pc' = [pc EXCEPT ![p] = "idle"], Recorded(p)
    PROVE  Calls' \in SUBSET Calls /\ Stale' \in SUBSET Stale
<1>1. \A c \in DOMAIN AskedBy : "idle" \notin AskedBy[c]
  BY DEF AskedBy
<1> QED
  BY <1>1, OneMoves

LEMMA AgentCalls ==
    ASSUME Inv, Noted, UNCHANGED pc
    PROVE  overtaken' = overtaken /\ Calls' = Calls /\ Stale' = Stale
<1>1. overtaken' = overtaken
  BY DEF Inv, OnlyRunning, Noted, Running
<1> QED
  BY <1>1 DEF Calls, Stale, AskedFor

\* A call ends or goes on and the deployment stays where it is.
LEMMA Stutters ==
    ASSUME Chain, UNCHANGED <<agent, files>>,
           Calls' \in SUBSET Calls, Stale' \in SUBSET Stale,
           \A p \in Procs \ overtaken' : pc'[p] # "reboot"
    PROVE  Step /\ Chain'
<1>1. Stage' = Stage /\ Agreed' = Agreed
  BY DEF Stage, Agreed
<1>2. D!Quit
  BY <1>1 DEF D!Quit, D!Hang, Calls, Stale
<1> QED
  BY <1>1, <1>2 DEF Step, D!Next, Chain

-----------------------------------------------------------------------------
(* The handlers.                                                           *)

LEMMA NobodyReboots ==
    ASSUME Inv, Chain, NEW p \in Procs, NEW label,
           label # "reboot" \/ p \in overtaken,
           pc' = [pc EXCEPT ![p] = label], Recorded(p)
    PROVE  \A q \in Procs \ overtaken' : pc'[q] # "reboot"
BY DEF Inv, TypeOK, Chain, Recorded, Running

LEMMA CreateAgrees ==
    ASSUME Chain, NEW c \in DOMAIN SignalOf, agent' = agent,
           files' = files \cup {SignalOf[c]},
           Calls' \in SUBSET Calls, Stale' \in SUBSET Stale,
           \/ Stage \in {"none", "applying"}
           \/ c \in Calls /\ Stage \in D!AskedIn[c]
           \/ c \in Stale,
           \A p \in Procs \ overtaken' : pc'[p] # "reboot"
    PROVE  Step /\ Chain'
<1>1. c \in {"download", "install", "apply"} /\ SignalOf[c] # "update_size"
      /\ SignalOf[c] # "update_location" /\ SignalOf[c] # "updateInstalled"
  BY DEF SignalOf
<1>2. Stage' = Stage
  BY <1>1 DEF Stage
<1>3. Chain'
  BY <1>1, <1>2 DEF Chain, Unfinished, Downloads, Installs
<1>4. CASE Stage \in {"none", "applying"}
  <2>1. Agreed = {} /\ Agreed' = {}
    BY <1>2, <1>4 DEF Agreed
  <2>2. D!Quit
    BY <1>2, <2>1 DEF D!Quit, D!Hang, Calls, Stale
  <2> QED
    BY <1>3, <2>2 DEF Step, D!Next
<1>5. CASE Stage \notin {"none", "applying"}
  <2>1. Agreed' = Agreed \cup {c}
    BY <1>1, <1>2, <1>5 DEF Agreed, SignalOf
  <2>2. D!Agree \/ D!AgreeLate
    BY <1>1, <1>2, <1>5, <2>1 DEF D!Agree, D!AgreeLate, D!Hang, Calls, Stale
  <2> QED
    BY <1>3, <2>2 DEF Step, D!Next
<1> QED
  BY <1>4, <1>5

\* Whoever creates a signal is calling.
LEMMA Asking ==
    ASSUME NEW p \in Procs, NEW c \in DOMAIN AskedBy, pc[p] \in AskedBy[c]
    PROVE  /\ p \notin overtaken => c \in Calls
           /\ p \in overtaken => c \in Stale
BY DEF Calls, Stale, AskedFor

LEMMA CreateImplements ==
    ASSUME Inv, Chain, NEW p \in Procs, NEW c \in DOMAIN SignalOf,
           NEW done, NEW failed, pc[p] \in AskedBy[c],
           CreateMarker(p, SignalOf[c], done, failed), UNCHANGED agentVars, Recorded(p),
           p \notin overtaken /\ SignalOf[c] \notin files =>
              Stage \in {"none", "applying"} \cup D!AskedIn[c]
    PROVE  Step /\ Chain'
<1>1. agent' = agent /\ pc' = [pc EXCEPT ![p] = "idle"]
  BY DEF CreateMarker, Exit, agentVars
<1>2. \A q \in Procs \ overtaken' : pc'[q] # "reboot"
  BY <1>1, NobodyReboots
<1>3. Calls' \in SUBSET Calls /\ Stale' \in SUBSET Stale
  BY <1>1, OneEnds
<1>4. CASE files' = files
  BY <1>1, <1>2, <1>3, <1>4, Stutters
<1>5. CASE SignalOf[c] \notin files /\ files' = files \cup {SignalOf[c]}
  <2>1. c \in DOMAIN AskedBy
    BY DEF SignalOf, AskedBy
  <2> QED
    BY <1>1, <1>2, <1>3, <1>5, <2>1, Asking, CreateAgrees
<1> QED
  BY <1>4, <1>5 DEF CreateMarker

LEMMA DownloadCreateAgrees ==
    ASSUME Inv, Chain, NEW p \in Procs, DownloadCreate(p), Recorded(p)
    PROVE  Step /\ Chain'
<1>1. ASSUME p \notin overtaken, "downloadUpdate" \notin files
      PROVE  Stage \in {"none", "applying", "offered"}
  <2>1. "update_size" \in files
    BY <1>1 DEF DownloadCreate, Inv, FoundStays, Found, Metadata
  <2> QED
    BY <1>1, <2>1, StageType DEF Chain, Downloads, D!Stages
<1> QED
  BY <1>1, CreateImplements DEF DownloadCreate, SignalOf, AskedBy, D!AskedIn

LEMMA InstallCreateAgrees ==
    ASSUME Inv, Chain, NEW p \in Procs, InstallCreate(p), Recorded(p)
    PROVE  Step /\ Chain'
<1>1. ASSUME p \notin overtaken, "installUpdate" \notin files
      PROVE  Stage \in {"none", "applying", "downloading", "downloaded"}
  <2>1. "update_location" \in files
    BY <1>1 DEF InstallCreate, Inv, FoundStays, Found
  <2> QED
    BY <1>1, <2>1, StageType DEF Chain, Installs, D!Stages
<1> QED
  BY <1>1, CreateImplements DEF InstallCreate, SignalOf, AskedBy, D!AskedIn

LEMMA ApplyCreateAgrees ==
    ASSUME Inv, Chain, NEW p \in Procs, ApplyCreate(p), Recorded(p)
    PROVE  Step /\ Chain'
<1>1. ASSUME p \notin overtaken, "applyUpdate" \notin files
      PROVE  Stage \in {"none", "applying", "installed"}
  <2>1. "updateInstalled" \in files
    BY <1>1 DEF ApplyCreate, Inv, FoundStays, Found
  <2> QED
    BY <1>1, <2>1, StageType DEF Chain, Unfinished, D!Stages
<1> QED
  BY <1>1, CreateImplements DEF ApplyCreate, SignalOf, AskedBy, D!AskedIn

\* Only a call that a Download has overtaken takes the mode for local.
LEMMA RebootImplements ==
    ASSUME Inv, Chain, NEW p \in Procs, Reboot(p), Recorded(p)
    PROVE  Step /\ Chain'
<1>1. /\ pc[p] = "reboot" /\ agent' = "rebooting" /\ files' = files
      /\ pc' = [pc EXCEPT ![p] = "idle"]
  BY DEF Reboot, Exit
<1>2. "apply" \in Stale
  BY <1>1, Asking DEF Chain, AskedBy
<1>3. Calls' \in SUBSET Calls /\ Stale' \in SUBSET Stale
  BY <1>1, OneEnds
<1>4. Stage' = "applying" /\ Agreed' = {}
  BY <1>1 DEF Stage, Agreed
<1>5. D!ApplyLate
  BY <1>2, <1>3, <1>4 DEF D!ApplyLate, D!Hang, Calls, Stale
<1>6. Chain'
  <2>1. \A q \in Procs \ overtaken' : pc'[q] # "reboot"
    BY <1>1, NobodyReboots
  <2> QED
    BY <1>1, <1>4, <2>1 DEF Chain, Unfinished, Downloads, Installs
<1> QED
  BY <1>5, <1>6 DEF Step, D!Next

\* Once updateInstalled is there so is downloadUpdate: unless the call is
\* overtaken the mode is not local.
LEMMA HandlerImplements ==
    ASSUME Inv, Chain, NEW p \in Procs, Handler(p), Recorded(p)
    PROVE  Step /\ Chain'
<1>1. ASSUME UNCHANGED <<agentVars, files>>, NEW label,
             label # "reboot" \/ p \in overtaken,
             pc' = [pc EXCEPT ![p] = label],
             \A c \in DOMAIN AskedBy : label \in AskedBy[c] => pc[p] \in AskedBy[c]
      PROVE  Step /\ Chain'
  BY <1>1, OneMoves, NobodyReboots, Stutters DEF agentVars
<1>2. CASE AvailableType(p) \/ AvailableVersion(p) \/ AvailableSize(p)
  BY <1>1, <1>2 DEF AvailableType, AvailableVersion, AvailableSize, Unavailable,
                    Exit, Goto, Remember, AskedBy
<1>3. CASE DownloadQueued(p) \/ DownloadMarker(p)
  BY <1>1, <1>3 DEF DownloadQueued, DownloadMarker, DownloadChecks, Exit, Goto, AskedBy
<1>4. CASE \/ ProgressMarker(p) \/ ProgressSize(p) \/ ProgressLocation(p)
           \/ ProgressExists(p) \/ ProgressStat(p)
  BY <1>1, <1>4 DEF ProgressMarker, ProgressSize, ProgressLocation, ProgressExists,
                    ProgressStat, NotStarted, Waiting, Exit, Goto, Remember, AskedBy
<1>5. CASE InstallFinished(p) \/ InstallLocation(p) \/ InstallMarker(p)
  BY <1>1, <1>5 DEF InstallFinished, InstallLocation, InstallMarker, Exit, Goto, AskedBy
<1>6. CASE ApplyInstalled(p)
  BY <1>1, <1>6 DEF ApplyInstalled, Exit, Goto, AskedBy
<1>7. CASE ApplyMode(p)
  <2>1. p \notin overtaken /\ pc[p] = "apply_download" => "downloadUpdate" \in files
    BY DEF Chain, Inv, FoundStays, Found
  <2> QED
    BY <1>1, <1>7, <2>1 DEF ApplyMode, Goto, AskedBy
<1> QED
  BY <1>2, <1>3, <1>4, <1>5, <1>6, <1>7, RebootImplements, DownloadCreateAgrees,
     InstallCreateAgrees, ApplyCreateAgrees DEF Handler

LEMMA StartImplements ==
    ASSUME Inv, Chain, NEW p \in Procs, NEW c \in Commands, Start(p, c), Recorded(p)
    PROVE  Step /\ Chain'
<1>1. /\ pc[p] = "idle" /\ pc' = [pc EXCEPT ![p] = c] /\ UNCHANGED <<agent, files>>
      /\ c # "idle" /\ c # "reboot"
  BY DEF Start, agentVars, Commands
<1>2. overtaken' = overtaken /\ p \notin overtaken
  BY <1>1 DEF Inv, TypeOK, OnlyRunning, Running, Recorded
<1>3. Stale' = Stale
  BY <1>1, <1>2 DEF Stale, AskedFor, Inv, TypeOK, OnlyRunning, Running
<1>4. \A q \in Procs \ overtaken' : pc'[q] # "reboot"
  BY <1>1, NobodyReboots
<1>5. \A k \in DOMAIN AskedBy : "idle" \notin AskedBy[k]
  BY DEF AskedBy
<1>6. Calls' = Calls \cup {k \in DOMAIN AskedBy : c \in AskedBy[k]}
  BY <1>1, <1>2, <1>5 DEF Calls, AskedFor, Inv, TypeOK
<1>7. CASE \A k \in DOMAIN AskedBy : c \notin AskedBy[k]
  <2>1. Calls' = Calls
    BY <1>6, <1>7
  <2> QED
    BY <1>1, <1>3, <1>4, <2>1, Stutters
<1>8. ASSUME NEW k \in DOMAIN AskedBy, c \in AskedBy[k]
      PROVE  Step /\ Chain'
  <2>1. k \in D!Consents /\ \A j \in DOMAIN AskedBy : c \in AskedBy[j] => j = k
    BY <1>8 DEF AskedBy, D!Consents, Commands
  <2>2. Calls' = Calls \cup {k}
    BY <1>6, <1>8, <2>1
  <2>3. Stage' = Stage /\ Agreed' = Agreed
    BY <1>1 DEF Stage, Agreed
  <2>4. D!Call
    BY <1>3, <2>1, <2>2, <2>3 DEF D!Call, Calls, Stale
  <2>5. Chain'
    BY <1>1, <1>4, <2>3 DEF Chain
  <2> QED
    BY <2>4, <2>5 DEF Step, D!Next
<1> QED
  BY <1>7, <1>8

-----------------------------------------------------------------------------
(* The agent.                                                              *)

LEMMA EndImplements ==
    ASSUME Inv, Chain, Noted, agent' \in {"idle", "failed", "install_failed"},
           files' = files \/ files' = {WorkDir},
           UNCHANGED pc \/ pc' = [p \in Procs |-> "idle"]
    PROVE  Step /\ Chain'
<1>1. Stage' = "none" /\ Agreed' = {}
  BY DEF Stage, Agreed
<1>2. Calls' \in SUBSET Calls /\ Stale' \in SUBSET Stale
  <2>1. CASE UNCHANGED pc
    BY <2>1, AgentCalls
  <2>2. CASE pc' = [p \in Procs |-> "idle"]
    BY <2>2, CallsEnd DEF Noted, AskedBy
  <2> QED
    BY <2>1, <2>2
<1>3. Step
  BY <1>1, <1>2 DEF Step, D!Next, D!End, D!Hang, Calls, Stale
<1>4. \A p \in Procs \ overtaken' : pc'[p] # "reboot"
  <2>1. CASE UNCHANGED pc
    BY <2>1, AgentCalls DEF Chain
  <2>2. CASE pc' = [p \in Procs |-> "idle"]
    BY <2>2
  <2> QED
    BY <2>1, <2>2
<1>5. Chain'
  BY <1>1, <1>4 DEF Chain, Unfinished, Downloads, Installs, WorkDir
<1> QED
  BY <1>3, <1>5

LEMMA PrepareImplements ==
    ASSUME Inv, Overtakes
    PROVE  Step /\ Chain'
<1>1. /\ agent' = "mkdir" /\ files' = {} /\ pc' = pc
      /\ overtaken' = Running
  BY DEF Overtakes, AgentDownload, AgentStep
<1>2. Stage' = "preparing" /\ Agreed' = {}
  BY <1>1 DEF Stage, Agreed, SignalOf
<1>3. \A c \in DOMAIN AskedBy : "idle" \notin AskedBy[c]
  BY DEF AskedBy
<1>4. Calls' = {} /\ Stale' = Stale \cup Calls
  BY <1>1, <1>3 DEF Calls, Stale, AskedFor, Running, Inv, OnlyRunning
<1>5. Step
  BY <1>2, <1>4 DEF Step, D!Next, D!Prepare, Calls, Stale
<1>6. Chain'
  BY <1>1, <1>2 DEF Chain, Unfinished, Downloads, Installs, Running
<1> QED
  BY <1>5, <1>6

\* The agent writes a file that is no signal: it advances, or stays.
LEMMA WritesImplement ==
    ASSUME Inv, Chain, Noted, AgentMakesDir \/ AgentWrites
    PROVE  Step /\ Chain'
<1>0. UNCHANGED <<overtaken, Calls, Stale>>
  BY AgentCalls DEF AgentMakesDir, AgentWrites, AgentStep
<1>1. \A p \in Procs \ overtaken' : pc'[p] # "reboot"
  BY <1>0 DEF AgentMakesDir, AgentWrites, AgentStep, Chain
<1>2. ASSUME NEW f, files' = files \cup {f}, f \notin Signals,
             \/ Stage' = Stage /\ Stage \in Unfinished
             \/ Stage = "preparing" /\ Stage' = "offered",
             f = "update_size" => Stage' # "preparing",
             f = "update_location" => Stage' \notin {"preparing", "offered"}
      PROVE  Step /\ Chain'
  <2>1. Agreed' = Agreed
    BY <1>2, AgreedIs DEF Agreed, SignalOf, Signals, Unfinished
  <2>2. Step
    BY <1>0, <1>2, <2>1 DEF Step, D!vars, D!Next, D!Advance, Calls, Stale
  <2>3. Chain'
    BY <1>1, <1>2 DEF Chain, Unfinished, Downloads, Installs, Signals
  <2> QED
    BY <2>2, <2>3
<1>3. CASE AgentMakesDir
  <2>1. Stage = "preparing" /\ Stage' = "preparing" /\ files = {}
    BY <1>3 DEF AgentMakesDir, Stage, Inv, EmptyDir, WorkDir
  <2> QED
    BY <1>2, <1>3, <2>1 DEF AgentMakesDir, Signals, WorkDir, Unfinished
<1>4. CASE /\ AgentWrites /\ agent \notin files
           /\ files' = files \cup {agent} /\ agent' = agent
  <2>1. agent \in {"update_version", "update_type", "update_size", "update_location"}
    BY <1>4 DEF AgentWrites, AfterFile
  <2>2. CASE agent \in {"update_version", "update_type"}
    <3>1. Stage' = "preparing" /\ Stage = "preparing"
      BY <1>4, <2>2 DEF Stage
    <3> QED
      BY <1>2, <1>4, <2>2, <3>1 DEF Signals, Unfinished
  <2>3. CASE agent = "update_size"
    <3>1. Stage = "preparing" /\ Stage' = "offered"
      BY <1>4, <2>3 DEF Stage
    <3> QED
      BY <1>2, <1>4, <2>3, <3>1 DEF Signals
  <2>4. CASE agent = "update_location"
    <3>1. Stage = "downloading" /\ Stage' = "downloading"
      BY <1>4, <2>4 DEF Stage
    <3> QED
      BY <1>2, <1>4, <2>4, <3>1 DEF Signals, Unfinished
  <2> QED
    BY <2>1, <2>2, <2>3, <2>4
<1>5. CASE /\ AgentWrites /\ agent \in files
           /\ files' = files /\ agent' = AfterFile[agent]
  <2>1. agent \in {"update_version", "update_type", "update_size", "update_location"}
    BY <1>5 DEF AgentWrites, AfterFile
  <2>2. Stage' = Stage
    <3>1. CASE agent = "update_type"
      <4>1. Stage = "preparing" /\ "update_size" \notin files
        BY <3>1 DEF Stage, Chain
      <4> QED
        BY <1>5, <3>1, <4>1 DEF Stage, AfterFile
    <3>2. CASE agent # "update_type"
      BY <1>5, <2>1, <3>2 DEF Stage, AfterFile
    <3> QED
      BY <3>1, <3>2
  <2>3. Agreed' = Agreed
    BY <1>5, <2>2 DEF Agreed
  <2>4. Chain'
    BY <1>1, <1>5, <2>2 DEF Chain
  <2> QED
    BY <1>0, <2>2, <2>3, <2>4 DEF Step, D!vars, Calls, Stale
<1> QED
  BY <1>3, <1>4, <1>5 DEF AgentWrites

\* The agent finds a signal, or the download or the installation ends.
LEMMA AdvanceImplements ==
    ASSUME Inv, Chain, Noted, AgentFinds \/ AgentFetches \/ AgentInstalled
    PROVE  Step /\ Chain'
<1>0. UNCHANGED <<overtaken, Calls, Stale>>
  BY AgentCalls DEF AgentFinds, AgentFetches, AgentInstalled, AgentStep
<1>1. \A p \in Procs \ overtaken' : pc'[p] # "reboot"
  BY <1>0 DEF AgentFinds, AgentFetches, AgentInstalled, AgentStep, Chain
<1>2. CASE AgentFinds
  <2>1. CASE agent = "wait_download"
    <3>1. /\ Stage = "offered" /\ Stage' = "downloading"
          /\ "downloadUpdate" \in files /\ files' = files
      BY <1>2, <2>1 DEF AgentFinds, Stage
    <3>2. Agreed' = Agreed /\ {"download"} \subseteq Agreed
      BY <3>1 DEF Agreed, SignalOf
    <3>3. Step
      BY <1>0, <3>1, <3>2 DEF Step, D!Next, D!Advance, Calls, Stale
    <3>4. Chain'
      BY <1>1, <3>1 DEF Chain, Unfinished, Downloads, Installs
    <3> QED
      BY <3>3, <3>4
  <2>2. CASE agent = "wait_install"
    <3>1. /\ Stage = "downloaded" /\ Stage' = "installing"
          /\ "installUpdate" \in files /\ files' = files
      BY <1>2, <2>2 DEF AgentFinds, Stage
    <3>2. "downloadUpdate" \in files
      BY <3>1 DEF Chain, Downloads
    <3>3. Agreed' = Agreed /\ {"download", "install"} \subseteq Agreed
      BY <3>1, <3>2 DEF Agreed, SignalOf
    <3>4. Step
      BY <1>0, <3>1, <3>3 DEF Step, D!Next, D!Advance, Calls, Stale
    <3>5. Chain'
      BY <1>1, <3>1 DEF Chain, Unfinished, Downloads, Installs
    <3> QED
      BY <3>4, <3>5
  <2>3. CASE agent = "wait_apply"
    <3>1. /\ Stage = "installed" /\ Stage' = "applying"
          /\ "applyUpdate" \in files /\ files' = files
      BY <1>2, <2>3 DEF AgentFinds, Stage
    <3>2. "downloadUpdate" \in files /\ "installUpdate" \in files
      BY <3>1 DEF Chain, Downloads, Installs
    <3>3. Agreed' = {} /\ {"download", "install", "apply"} \subseteq Agreed
      BY <3>1, <3>2 DEF Agreed, SignalOf
    <3>4. Step
      BY <1>0, <3>1, <3>3 DEF Step, D!Next, D!Apply, D!Consents, Calls, Stale
    <3>5. Chain'
      BY <1>1, <3>1 DEF Chain, Unfinished, Downloads, Installs
    <3> QED
      BY <3>4, <3>5
  <2> QED
    BY <1>2, <2>1, <2>2, <2>3 DEF AgentFinds
<1>3. CASE AgentFetches
  <2>1. CASE agent' = agent
    BY <1>0, <1>1, <1>3, <2>1, Stutters DEF AgentFetches
  <2>2. CASE agent' = "wait_install"
    <3>1. Stage = "downloading" /\ Stage' = "downloaded" /\ files' = files
      BY <1>3, <2>2 DEF AgentFetches, Stage
    <3>2. "downloadUpdate" \in files
      BY <3>1 DEF Chain, Downloads
    <3>3. Agreed' = Agreed /\ {"download"} \subseteq Agreed
      BY <3>1, <3>2 DEF Agreed, SignalOf
    <3>4. Step
      BY <1>0, <3>1, <3>3 DEF Step, D!Next, D!Advance, Calls, Stale
    <3>5. Chain'
      BY <1>1, <3>1 DEF Chain, Unfinished, Downloads, Installs
    <3> QED
      BY <3>4, <3>5
  <2> QED
    BY <1>3, <2>1, <2>2 DEF AgentFetches
<1>4. CASE AgentInstalled
  <2>1. /\ Stage = "installing" /\ Stage' = "installed"
        /\ files' = files \cup {"updateInstalled"}
    BY <1>4 DEF AgentInstalled, Stage
  <2>2. "downloadUpdate" \in files /\ "installUpdate" \in files
    BY <2>1 DEF Chain, Downloads, Installs
  <2>3. Agreed' = Agreed /\ {"download", "install"} \subseteq Agreed
    BY <2>1, <2>2 DEF Agreed, SignalOf
  <2>4. Step
    BY <1>0, <2>1, <2>3 DEF Step, D!Next, D!Advance, Calls, Stale
  <2>5. Chain'
    BY <1>1, <2>1, <2>2 DEF Chain, Unfinished, Downloads, Installs
  <2> QED
    BY <2>4, <2>5
<1> QED
  BY <1>2, <1>3, <1>4

-----------------------------------------------------------------------------
LEMMA NextImplements ==
    ASSUME Inv, Chain, [OvertakenNext]_overtakenVars
    PROVE  Step /\ Chain'
<1>1. ASSUME NEW p \in Procs, Kill(p), Recorded(p) PROVE Step /\ Chain'
  <2>1. pc' = [pc EXCEPT ![p] = "idle"] /\ UNCHANGED <<agent, files>>
    BY <1>1 DEF Kill, agentVars
  <2>2. Calls' \in SUBSET Calls /\ Stale' \in SUBSET Stale
    BY <1>1, <2>1, OneEnds
  <2> QED
    BY <1>1, <2>1, <2>2, NobodyReboots, Stutters
<1>2. CASE Invokes
  BY <1>1, <1>2, HandlerImplements, StartImplements DEF Invokes, Recorded
<1>3. ASSUME AgentFails \/ AgentRestarts \/ Boot, Noted
      PROVE  Step /\ Chain'
  <2>1. agent' \in {"idle", "failed", "install_failed"}
    BY <1>3 DEF AgentFails, AgentRestarts, Boot
  <2>2. files' = files \/ files' = {WorkDir}
    BY <1>3 DEF AgentFails, AgentRestarts, Boot
  <2>3. UNCHANGED pc \/ pc' = [p \in Procs |-> "idle"]
    BY <1>3 DEF AgentFails, AgentRestarts, Boot, AgentStep
  <2> QED
    BY <1>3, <2>1, <2>2, <2>3, EndImplements
<1>4. CASE Continues
  BY <1>3, <1>4, WritesImplement, AdvanceImplements DEF Continues, AgentWorks, Noted
<1>5. CASE UNCHANGED overtakenVars
  <2>1. UNCHANGED <<agent, files, pc, overtaken>>
    BY <1>5 DEF overtakenVars, history, vars
  <2>2. Calls' = Calls /\ Stale' = Stale
    BY <2>1 DEF Calls, Stale, AskedFor
  <2> QED
    BY <2>1, <2>2, Stutters DEF Chain
<1> QED
  BY <1>2, <1>4, <1>5, PrepareImplements DEF OvertakenNext

(***************************************************************************)
(* Whatever the interleaving of the handlers' looks at the files with the  *)
(* agent's steps: nothing is downloaded, installed or applied without the  *)
(* operator's consent to that step of that deployment, or that of a call   *)
(* which the deployment has overtaken.                                     *)
(***************************************************************************)
THEOREM ImplementsDeployment == OvertakenSpec => DeploymentSpec
<1>1. OvertakenInit => D!Init /\ Chain
  <2> SUFFICES ASSUME OvertakenInit PROVE D!Init /\ Chain
    OBVIOUS
  <2> USE DEF OvertakenInit
  <2>1. Stage = "none" /\ Agreed = {}
    BY DEF Init, Stage, Agreed
  <2>2. AskedFor(Procs \ overtaken) = {} /\ AskedFor(overtaken) = {}
    BY DEF Init, AskedFor, AskedBy
  <2> QED
    BY <2>1, <2>2 DEF Init, D!Init, Chain, Unfinished, Downloads, Installs, WorkDir
<1>2. Inv /\ Chain /\ [OvertakenNext]_overtakenVars => [D!Next]_D!vars /\ Chain'
  BY NextImplements DEF Step
<1> QED
  BY <1>1, <1>2, InvAlways, PTL DEF OvertakenSpec, DeploymentSpec, D!Spec
=============================================================================

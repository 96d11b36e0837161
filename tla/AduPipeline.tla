---------------------------- MODULE AduPipeline ----------------------------
(***************************************************************************)
(* The network pipeline: the commands --is_update_available,               *)
(* --download_update, --download_progress, --install_update and            *)
(* --apply_update, which talk to the ADU agent through nothing but files   *)
(* of the work directory.                                                  *)
(*                                                                         *)
(* A handler is cut before each stat(2), open(2) or read of a file: the    *)
(* agent writes, deletes and recreates the same files meanwhile, and so    *)
(* does another invocation.  The agent is external; its steps are those    *)
(* cli.cpp waits for and the integration guide lists.                      *)
(***************************************************************************)
EXTENDS UpdateSize, FiniteSets

CONSTANTS
    Procs,     \* the processes that may be running fs-updater
    Packages,  \* what may be offered
    Size,      \* the size of each package in bytes
    Faults     \* what may fail (see AllFaults)

AllFaults == {"marker",    \* a signal file cannot be created
              "kill",      \* an invocation is killed between two steps
              "download",  \* the download or the installation fails
              "restart"}   \* the agent restarts, the device boots

AllPackages == {"firmware", "application", "both"}

ASSUME PipelineAssumption ==
    /\ Packages \subseteq AllPackages
    /\ Size \in [Packages -> Nat \ {0}]
    /\ Faults \subseteq AllFaults

Metadata == {"update_version", "update_type", "update_size"}
Signals == {"downloadUpdate", "installUpdate", "updateInstalled", "applyUpdate"}

\* The work directory itself is one of the things that may be missing.
WorkDir == "."
Files == {WorkDir, "update_location"} \cup Metadata \cup Signals

VARIABLES
    agent,  \* where the agent is in the deployment
    offer,  \* the package it deploys
    files,  \* what exists in the work directory
    filled, \* the files that have got their content
    got,    \* the length of the downloaded file, NoFile if there is none
    pc,     \* per process: where it is in its handler
    seen,   \* per process: the package whose type or size it has read
    exit    \* what the last step returned to a caller, if it ended one

agentVars == <<agent, offer, filled, got>>
vars == <<agent, offer, files, filled, got, pc, seen, exit>>

\* A file that the agent is writing gives its label to the agent.
Places == {"idle", "mkdir", "update_version", "update_type", "update_size",
           "wait_download", "update_location", "downloading", "wait_install",
           "installing", "wait_apply", "failed", "install_failed", "rebooting"}

Commands == {"is_update_available", "download_update", "download_progress",
             "install_update", "apply_update"}

Labels == {"idle", "available_version", "available_size",
           "download_version", "download_size", "download_marker",
           "download_create", "progress_size", "progress_stat_location",
           "progress_location", "progress_exists", "progress_stat",
           "install_location", "install_marker", "install_create",
           "apply_marker", "apply_download", "apply_create", "reboot"}
          \cup Commands

NoFile == -1
Nothing == "nothing"  \* an empty file, or none read
NoExit == -1

\* A file gets its content after it was created, and only metadata has one.
TypeOK ==
    /\ agent \in Places
    /\ offer \in Packages
    /\ files \subseteq Files
    /\ filled \subseteq files
    /\ got \in Int /\ NoFile <= got /\ got <= Size[offer]
    /\ pc \in [Procs -> Labels]
    /\ seen \in [Procs -> Packages \cup {Nothing}]
    /\ exit \in {NoExit} \cup 34..51

Init ==
    /\ agent = "idle"
    /\ offer \in Packages
    /\ files = {WorkDir}
    /\ filled = {}
    /\ got = NoFile
    /\ pc = [p \in Procs |-> "idle"]
    /\ seen = [p \in Procs |-> Nothing]
    /\ exit = NoExit

-----------------------------------------------------------------------------
(* Control flow of one invocation.                                         *)

Goto(p, label) ==
    /\ pc' = [pc EXCEPT ![p] = label]
    /\ exit' = NoExit
    /\ UNCHANGED seen

\* read_file: the content of f, of which only whose it is matters.
Remember(p, f, label) ==
    /\ pc' = [pc EXCEPT ![p] = label]
    /\ seen' = [seen EXCEPT ![p] = IF f \in filled THEN offer ELSE Nothing]
    /\ exit' = NoExit

Exit(p, code) ==
    /\ pc' = [pc EXCEPT ![p] = "idle"]
    /\ seen' = [seen EXCEPT ![p] = Nothing]
    /\ exit' = code

Start(p, c) ==
    /\ pc[p] = "idle"
    /\ pc' = [pc EXCEPT ![p] = c]
    /\ exit' = NoExit
    /\ UNCHANGED <<agentVars, files, seen>>

\* create_marker_file: open with O_CREAT, which an existing file survives.
CreateMarker(p, f, done, failed) ==
    \/ /\ WorkDir \in files
       /\ files' = files \cup {f}
       /\ Exit(p, done)
    \/ /\ WorkDir \notin files \/ "marker" \in Faults
       /\ Exit(p, failed)
       /\ UNCHANGED files

-----------------------------------------------------------------------------
(* --is_update_available.                                                  *)

Unavailable(p) == Exit(p, IS_UPDATE_AVAILABLE_STATE.NO_UPDATE_AVAILABLE)

AvailableType(p) ==
    /\ pc[p] = "is_update_available"
    /\ \/ "update_type" \in files /\ Remember(p, "update_type", "available_version")
       \/ "update_type" \notin files /\ Unavailable(p)
    /\ UNCHANGED <<agentVars, files>>

AvailableVersion(p) ==
    /\ pc[p] = "available_version"
    /\ \/ "update_version" \in files /\ Goto(p, "available_size")
       \/ "update_version" \notin files /\ Unavailable(p)
    /\ UNCHANGED <<agentVars, files>>

\* Mutant: whatever is neither "both" nor "application" counts as firmware.
AvailableCodeOfRest(type) ==
    IF type = "both"
      THEN IS_UPDATE_AVAILABLE_STATE.FIRMWARE_AND_APPLICATION_UPDATE_AVAILABLE
    ELSE IF type = "application"
      THEN IS_UPDATE_AVAILABLE_STATE.APPLICATION_UPDATE_AVAILABLE
      ELSE IS_UPDATE_AVAILABLE_STATE.FIRMWARE_UPDATE_AVAILABLE

\* Whatever is neither "firmware" nor "application" counts as both, an
\* update_type that the agent has created and not yet written included.
AvailableCode(type) ==
    IF type = "firmware" THEN IS_UPDATE_AVAILABLE_STATE.FIRMWARE_UPDATE_AVAILABLE
    ELSE IF type = "application"
      THEN IS_UPDATE_AVAILABLE_STATE.APPLICATION_UPDATE_AVAILABLE
      ELSE IS_UPDATE_AVAILABLE_STATE.FIRMWARE_AND_APPLICATION_UPDATE_AVAILABLE

AvailableSize(p) ==
    /\ pc[p] = "available_size"
    /\ \/ "update_size" \in files /\ Exit(p, AvailableCode(seen[p]))
       \/ "update_size" \notin files /\ Unavailable(p)
    /\ UNCHANGED <<agentVars, files>>

-----------------------------------------------------------------------------
(* --download_update.                                                      *)

\* The three metadata files, in the order they are looked for.
DownloadChecks ==
    [download_update  |-> [file |-> "update_type",    next |-> "download_version"],
     download_version |-> [file |-> "update_version", next |-> "download_size"],
     download_size    |-> [file |-> "update_size",    next |-> "download_marker"]]

DownloadQueued(p) ==
    /\ pc[p] \in DOMAIN DownloadChecks
    /\ LET check == DownloadChecks[pc[p]]
       IN  \/ check.file \in files /\ Goto(p, check.next)
           \/ /\ check.file \notin files
              /\ Exit(p, DOWNLOAD_UPDATE_STATE.NO_DOWNLOAD_QUEUED)
    /\ UNCHANGED <<agentVars, files>>

DownloadMarker(p) ==
    /\ pc[p] = "download_marker"
    /\ \/ "downloadUpdate" \notin files /\ Goto(p, "download_create")
       \/ /\ "downloadUpdate" \in files
          /\ Exit(p, DOWNLOAD_UPDATE_STATE.STARTED_BEFORE)
    /\ UNCHANGED <<agentVars, files>>

DownloadCreate(p) ==
    /\ pc[p] = "download_create"
    /\ CreateMarker(p, "downloadUpdate", DOWNLOAD_UPDATE_STATE.STARTED,
                                        DOWNLOAD_UPDATE_STATE.FAILED)
    /\ UNCHANGED agentVars

-----------------------------------------------------------------------------
(* --download_progress.                                                    *)

NotStarted(p) == Exit(p, DOWNLOAD_PROGRESS_STATE.NO_DOWNLOAD_STARTED)
Waiting(p) == Exit(p, DOWNLOAD_PROGRESS_STATE.WAITING_TO_START)

ProgressMarker(p) ==
    /\ pc[p] = "download_progress"
    /\ \/ "downloadUpdate" \in files /\ Goto(p, "progress_size")
       \/ "downloadUpdate" \notin files /\ NotStarted(p)
    /\ UNCHANGED <<agentVars, files>>

\* A missing file cannot be read, an empty one is no number.
ProgressSize(p) ==
    /\ pc[p] = "progress_size"
    /\ \/ /\ "update_size" \in filled
          /\ Remember(p, "update_size", "progress_stat_location")
       \/ "update_size" \notin filled /\ NotStarted(p)
    /\ UNCHANGED <<agentVars, files>>

\* update_location must be longer than nine bytes, and then readable.
ProgressLocation(p) ==
    /\ pc[p] \in {"progress_stat_location", "progress_location"}
    /\ \/ /\ "update_location" \in filled
          /\ Goto(p, IF pc[p] = "progress_location"
                       THEN "progress_exists" ELSE "progress_location")
       \/ "update_location" \notin filled /\ Waiting(p)
    /\ UNCHANGED <<agentVars, files>>

ProgressExists(p) ==
    /\ pc[p] = "progress_exists"
    /\ \/ got # NoFile /\ Goto(p, "progress_stat")
       \/ got = NoFile /\ Waiting(p)
    /\ UNCHANGED <<agentVars, files>>

\* Mutant: the file is there, so it is complete.
ProgressStatExists(p) ==
    /\ pc[p] = "progress_stat"
    /\ Exit(p, IF got > 0 THEN DOWNLOAD_PROGRESS_STATE.FINISHED
                          ELSE DOWNLOAD_PROGRESS_STATE.NO_DOWNLOAD_STARTED)
    /\ UNCHANGED <<agentVars, files>>

\* The file is looked at a second time; it may have gone by now.
ProgressStat(p) ==
    /\ pc[p] = "progress_stat"
    /\ Exit(p, ProgressCode(Plain(Size[seen[p]]), got))
    /\ UNCHANGED <<agentVars, files>>

-----------------------------------------------------------------------------
(* --install_update.                                                       *)

InstallFinished(p) ==
    /\ pc[p] = "install_update"
    /\ \/ "updateInstalled" \notin files /\ Goto(p, "install_location")
       \/ "updateInstalled" \in files /\ Exit(p, INSTALL_UPDATE_STATE.FINISHED)
    /\ UNCHANGED <<agentVars, files>>

\* Mutant: the location of the package is not looked for.
InstallLocationUnchecked(p) ==
    /\ pc[p] = "install_location"
    /\ Goto(p, "install_marker")
    /\ UNCHANGED <<agentVars, files>>

InstallLocation(p) ==
    /\ pc[p] = "install_location"
    /\ \/ "update_location" \in files /\ Goto(p, "install_marker")
       \/ /\ "update_location" \notin files
          /\ Exit(p, INSTALL_UPDATE_STATE.NO_INSTALLATION_QUEUED)
    /\ UNCHANGED <<agentVars, files>>

\* Mutant: an installation is taken to be under way once the download is.
InstallMarkerOfDownload(p) ==
    /\ pc[p] = "install_marker"
    /\ \/ "downloadUpdate" \notin files /\ Goto(p, "install_create")
       \/ "downloadUpdate" \in files /\ Exit(p, INSTALL_UPDATE_STATE.IN_PROGRESS)
    /\ UNCHANGED <<agentVars, files>>

InstallMarker(p) ==
    /\ pc[p] = "install_marker"
    /\ \/ "installUpdate" \notin files /\ Goto(p, "install_create")
       \/ "installUpdate" \in files /\ Exit(p, INSTALL_UPDATE_STATE.IN_PROGRESS)
    /\ UNCHANGED <<agentVars, files>>

InstallCreate(p) ==
    /\ pc[p] = "install_create"
    /\ CreateMarker(p, "installUpdate", INSTALL_UPDATE_STATE.IN_PROGRESS,
                                       INSTALL_UPDATE_STATE.FAILED)
    /\ UNCHANGED agentVars

-----------------------------------------------------------------------------
(* --apply_update, of which Updater has the rollback and the failures.     *)

ApplyInstalled(p) ==
    /\ pc[p] = "apply_update"
    /\ \/ "updateInstalled" \in files /\ Goto(p, "apply_marker")
       \/ "updateInstalled" \notin files /\ Exit(p, APPLY_UPDATE_STATE.APPLY_FAILED)
    /\ UNCHANGED <<agentVars, files>>

\* Mutant: the mode is local unless the agent has been told to apply.
ApplyModeOfMarker(p) ==
    /\ pc[p] \in {"apply_marker", "apply_download"}
    /\ Goto(p, IF "applyUpdate" \in files THEN "apply_create" ELSE "reboot")
    /\ UNCHANGED <<agentVars, files>>

\* The mode is local when neither of two files is there.
ApplyMode(p) ==
    /\ \/ /\ pc[p] = "apply_marker"
          /\ Goto(p, IF "applyUpdate" \in files
                       THEN "apply_create" ELSE "apply_download")
       \/ /\ pc[p] = "apply_download"
          /\ Goto(p, IF "downloadUpdate" \in files
                       THEN "apply_create" ELSE "reboot")
    /\ UNCHANGED <<agentVars, files>>

ApplyCreate(p) ==
    /\ pc[p] = "apply_create"
    /\ CreateMarker(p, "applyUpdate", APPLY_UPDATE_STATE.APPLY_SUCCESSFUL,
                                     APPLY_UPDATE_STATE.APPLY_FAILED)
    /\ UNCHANGED agentVars

Reboot(p) ==
    /\ pc[p] = "reboot"
    /\ agent' = "rebooting"
    /\ Exit(p, APPLY_UPDATE_STATE.APPLY_SUCCESSFUL)
    /\ UNCHANGED <<offer, files, filled, got>>

\* SIGKILL, SIGPIPE or a terminal closed.
Kill(p) ==
    /\ "kill" \in Faults
    /\ pc[p] # "idle"
    /\ pc' = [pc EXCEPT ![p] = "idle"]
    /\ seen' = [seen EXCEPT ![p] = Nothing]
    /\ exit' = NoExit
    /\ UNCHANGED <<agentVars, files>>

-----------------------------------------------------------------------------
(* The ADU agent.                                                          *)

AgentStep == exit' = NoExit /\ UNCHANGED <<pc, seen>>

(***************************************************************************)
(* Download() begins by removing the work directory with all that is in    *)
(* it, whatever the agent was doing and whoever is running a command.  The *)
(* new package has a new place.                                            *)
(***************************************************************************)
AgentDownload ==
    /\ agent # "rebooting"
    /\ agent' = "mkdir"
    /\ offer' \in Packages
    /\ files' = {}
    /\ filled' = {}
    /\ got' = NoFile
    /\ AgentStep

AgentMakesDir ==
    /\ agent = "mkdir"
    /\ files' = {WorkDir}
    /\ agent' = "update_version"
    /\ AgentStep
    /\ UNCHANGED <<offer, filled, got>>

\* What the agent does once it has written a file.
AfterFile ==
    [update_version  |-> "update_type",
     update_type     |-> "update_size",
     update_size     |-> "wait_download",
     update_location |-> "downloading"]

\* A file is created first and gets its content with a second call.
AgentWrites ==
    /\ agent \in DOMAIN AfterFile
    /\ \/ /\ agent \notin files
          /\ files' = files \cup {agent}
          /\ UNCHANGED <<agent, filled>>
       \/ /\ agent \in files
          /\ filled' = filled \cup {agent}
          /\ agent' = AfterFile[agent]
          /\ UNCHANGED files
    /\ AgentStep
    /\ UNCHANGED <<offer, got>>

\* The agent goes on when it finds the signal it waits for.
AgentFinds ==
    /\ \/ /\ agent = "wait_download" /\ "downloadUpdate" \in files
          /\ agent' = "update_location"
       \/ /\ agent = "wait_install" /\ "installUpdate" \in files
          /\ agent' = "installing"
       \/ /\ agent = "wait_apply" /\ "applyUpdate" \in files
          /\ agent' = "rebooting"
    /\ AgentStep
    /\ UNCHANGED <<offer, files, filled, got>>

AgentFetches ==
    /\ agent = "downloading"
    /\ \/ /\ got < Size[offer]
          /\ got' = got + 1
          /\ UNCHANGED agent
       \/ /\ got = Size[offer]
          /\ agent' = "wait_install"
          /\ UNCHANGED got
    /\ AgentStep
    /\ UNCHANGED <<offer, files, filled>>

\* fs-updater --update_file, run by the agent, has succeeded.
AgentInstalled ==
    /\ agent = "installing"
    /\ files' = files \cup {"updateInstalled"}
    /\ agent' = "wait_apply"
    /\ AgentStep
    /\ UNCHANGED <<offer, filled, got>>

AgentFails ==
    /\ "download" \in Faults
    /\ \/ agent = "downloading" /\ agent' = "failed"
       \/ agent = "installing" /\ agent' = "install_failed"
    /\ AgentStep
    /\ UNCHANGED <<offer, files, filled, got>>

\* The agent's process restarts; it leaves its files.
AgentRestarts ==
    /\ "restart" \in Faults
    /\ agent # "rebooting"
    /\ agent' = "idle"
    /\ AgentStep
    /\ UNCHANGED <<offer, files, filled, got>>

\* The device comes up with an empty work directory, or with the one it had.
Boot ==
    /\ agent = "rebooting" \/ "restart" \in Faults
    /\ agent' = "idle"
    /\ \/ files' = {WorkDir} /\ filled' = {} /\ got' = NoFile
       \/ UNCHANGED <<files, filled, got>>
    /\ pc' = [p \in Procs |-> "idle"]
    /\ seen' = [p \in Procs |-> Nothing]
    /\ exit' = NoExit
    /\ UNCHANGED offer

-----------------------------------------------------------------------------
Handler(p) ==
    \/ AvailableType(p) \/ AvailableVersion(p) \/ AvailableSize(p)
    \/ DownloadQueued(p) \/ DownloadMarker(p) \/ DownloadCreate(p)
    \/ ProgressMarker(p) \/ ProgressSize(p) \/ ProgressLocation(p)
    \/ ProgressExists(p) \/ ProgressStat(p)
    \/ InstallFinished(p) \/ InstallLocation(p) \/ InstallMarker(p)
    \/ InstallCreate(p)
    \/ ApplyInstalled(p) \/ ApplyMode(p) \/ ApplyCreate(p) \/ Reboot(p)

\* What the agent does of itself once a deployment has begun.
AgentWorks == \/ AgentMakesDir \/ AgentWrites \/ AgentFinds
              \/ AgentFetches \/ AgentInstalled

Next ==
    \/ \E p \in Procs : Handler(p) \/ Kill(p) \/ \E c \in Commands : Start(p, c)
    \/ AgentWorks \/ AgentDownload \/ AgentFails \/ AgentRestarts \/ Boot

Spec == Init /\ [][Next]_vars

(***************************************************************************)
(* An invocation runs to its end and the agent does what it has begun.     *)
(* The operator is patient: each command is given again and again,         *)
(* whatever the last answer was, and not killed every time.  Nothing has   *)
(* to fail, no further deployment has to come.                             *)
(***************************************************************************)
Fairness ==
    /\ WF_vars(AgentWorks)
    /\ \A p \in Procs : WF_vars(Handler(p))
    /\ \A p \in Procs, c \in Commands : SF_vars(Start(p, c))
    /\ <>[][\A p \in Procs : ~Kill(p)]_vars

FairSpec == Spec /\ Fairness

-----------------------------------------------------------------------------
(* Progress.                                                               *)

(***************************************************************************)
(* No handshake is lost for good: a deployment that waits for its operator *)
(* ends in the reboot that applies it, fails, is replaced by another, or   *)
(* ends with the agent's session, even when a Download recreates the       *)
(* directory under the commands and a restart leaves old signals behind.   *)
(* That the handler thread of a replaced deployment may go on waiting for  *)
(* a file for ever (azure-device-update.md:96-98) is the agent's own       *)
(* affair: the replacement is what counts here.                            *)
(***************************************************************************)
OfferLeadsOn ==
    agent \in {"wait_download", "wait_install", "wait_apply"}
        ~> agent \in {"rebooting", "failed", "install_failed", "mkdir", "idle"}

-----------------------------------------------------------------------------
(* What the documents say and a Download under a command makes untrue: see *)
(* Overtaken for what holds all the same.                                  *)

(***************************************************************************)
(* docs/reference/cli.md:212-213, 236-237: --download_update checks the    *)
(* metadata, and --install_update update_location, before the signal that  *)
(* starts the agent: the signal is never there without them.               *)
(***************************************************************************)
SignalsMatchFiles ==
    /\ "downloadUpdate" \in files => Metadata \subseteq files
    /\ "installUpdate" \in files => "update_location" \in files
=============================================================================

----------------------------- MODULE Overtaken -----------------------------
(***************************************************************************)
(* AduPipeline and the invocations that a Download has overtaken.          *)
(*                                                                         *)
(* A Download removes the work directory under whatever commands are       *)
(* running.  What they have found is gone, and their next look is at       *)
(* another package: between two looks, or between a look and the creation  *)
(* of a signal, nothing in cli.cpp notices.  The run stranded shows what   *)
(* comes of it.  Everybody else must not be affected, and that is what is  *)
(* stated here.  overtaken and late are history variables: no step of      *)
(* AduPipeline depends on them.                                            *)
(***************************************************************************)
EXTENDS AduPipeline

VARIABLES
    overtaken,  \* the invocations that were running when the Download began
    late        \* the signals that such invocations have created since

history == <<overtaken, late>>
overtakenVars == <<vars, history>>

OvertakenInit == Init /\ overtaken = {} /\ late = {}

Running == {p \in Procs : pc[p] # "idle"}

Overtakes ==
    /\ AgentDownload
    /\ overtaken' = Running
    /\ late' = {}

Invokes == \E p \in Procs :
    /\ Handler(p) \/ Kill(p) \/ \E c \in Commands : Start(p, c)
    /\ overtaken' = overtaken \cap Running'
    /\ late' = IF p \in overtaken THEN late \cup (files' \ files) ELSE late

Continues ==
    /\ AgentWorks \/ AgentFails \/ AgentRestarts \/ Boot
    /\ overtaken' = overtaken \cap Running'
    /\ late' = late \cap files'

OvertakenNext == Overtakes \/ Invokes \/ Continues

OvertakenSpec == OvertakenInit /\ [][OvertakenNext]_overtakenVars

-----------------------------------------------------------------------------
(***************************************************************************)
(* A signal says that its command has seen what it checks for: unless the  *)
(* command was overtaken there is downloadUpdate only with the metadata of *)
(* the package, and installUpdate only with the place the package is       *)
(* downloaded to (cli.cpp:755-776, 880-900).                               *)
(***************************************************************************)
PromptSignalsMatch ==
    /\ "downloadUpdate" \in files \ late => Metadata \subseteq files
    /\ "installUpdate" \in files \ late => "update_location" \in files

\* A step in which an invocation that nothing has overtaken ends with code.
PromptAnswer(code) == \E p \in Procs \ overtaken :
    pc[p] # "idle" /\ pc'[p] = "idle" /\ exit' = code

(***************************************************************************)
(* --download_progress answers 45 only when the whole package is there,    *)
(* whatever the agent did between its six looks at the files short of      *)
(* beginning another Download (cli.cpp:783-872).                           *)
(***************************************************************************)
PromptCompleteIsTrue ==
    [][PromptAnswer(DOWNLOAD_PROGRESS_STATE.FINISHED)
          => got = Size[offer]]_overtakenVars

(***************************************************************************)
(* An offer announced as one of firmware or of application alone (35, 36)  *)
(* is one, however far the agent had come in writing it, if no other offer *)
(* has replaced it since the command began (cli.cpp:707-750).              *)
(***************************************************************************)
PromptAnnouncedIsTrue ==
    [][/\ PromptAnswer(IS_UPDATE_AVAILABLE_STATE.FIRMWARE_UPDATE_AVAILABLE)
            => offer = "firmware"
       /\ PromptAnswer(IS_UPDATE_AVAILABLE_STATE.APPLICATION_UPDATE_AVAILABLE)
            => offer = "application"]_overtakenVars

-----------------------------------------------------------------------------
(* The abstract deployment.                                                *)

\* How far the deployment has come.
Stage ==
    IF agent \in {"idle", "failed", "install_failed"} THEN "none"
    ELSE IF agent = "wait_download" \/ (agent = "update_size" /\ agent \in files)
      THEN "offered"
    ELSE IF agent \in {"update_location", "downloading"} THEN "downloading"
    ELSE IF agent = "wait_install" THEN "downloaded"
    ELSE IF agent = "installing" THEN "installing"
    ELSE IF agent = "wait_apply" THEN "installed"
    ELSE IF agent = "rebooting" THEN "applying"
    ELSE "preparing"

SignalOf == [download |-> "downloadUpdate", install |-> "installUpdate",
             apply |-> "applyUpdate"]

\* What the signals agree to, as long as there is something to agree to.
Agreed == {c \in DOMAIN SignalOf : /\ Stage \notin {"none", "applying"}
                                   /\ SignalOf[c] \in files}

\* Where an invocation may still come to agree to something.
AskedBy ==
    [download |-> {"download_update", "download_version", "download_size",
                   "download_marker", "download_create"},
     install  |-> {"install_update", "install_location", "install_marker",
                   "install_create"},
     apply    |-> {"apply_update", "apply_marker", "apply_download", "apply_create",
                   "reboot"}]

AskedFor(ps) == {c \in DOMAIN AskedBy : \E p \in ps : pc[p] \in AskedBy[c]}

D == INSTANCE Deployment WITH stage <- Stage, agreed <- Agreed,
                              calls <- AskedFor(Procs \ overtaken),
                              stale <- AskedFor(overtaken)

(***************************************************************************)
(* Handlers and agent together take no step of a deployment without the    *)
(* operator's consent to that step of that deployment, except where an     *)
(* overtaken call gives it, and such a call does no other harm.            *)
(***************************************************************************)
DeploymentSpec == D!Spec
=============================================================================

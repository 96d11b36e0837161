----------------------------- MODULE Deployment -----------------------------
(***************************************************************************)
(* What the network pipeline promises: a deployment offered by the ADU     *)
(* agent is downloaded, installed and applied, each only after the         *)
(* operator has agreed to that for this very deployment.                   *)
(*                                                                         *)
(* The operator agrees with a call that takes its time.  When a deployment *)
(* replaces another the calls under way are stale: such a call, and no     *)
(* other, can still agree to a step of a deployment it was not made for.   *)
(***************************************************************************)
VARIABLES
    stage,   \* how far the deployment has come
    agreed,  \* what the operator has agreed to
    calls,   \* what calls under way are made for, of this deployment
    stale    \* what calls under way were made for, of an earlier one

vars == <<stage, agreed, calls, stale>>

Stages == {"none", "preparing", "offered", "downloading", "downloaded", "installing",
           "installed", "applying"}

Consents == {"download", "install", "apply"}

\* When a consent can be given: the installation as soon as there is a
\* place the package is downloaded to.
AskedIn ==
    [download |-> {"offered"},
     install  |-> {"downloading", "downloaded"},
     apply    |-> {"installed"}]

Init == stage = "none" /\ agreed = {} /\ calls = {} /\ stale = {}

Call ==
    /\ \E c \in Consents : calls' = calls \cup {c}
    /\ UNCHANGED <<stage, agreed, stale>>

\* Calls end, whether they have agreed to something or not.
Hang == calls' \in SUBSET calls /\ stale' \in SUBSET stale

Quit == Hang /\ UNCHANGED <<stage, agreed>>

\* A new deployment replaces whatever there is, consents included.
Prepare ==
    /\ stage' = "preparing"
    /\ agreed' = {}
    /\ calls' = {}
    /\ stale' = stale \cup calls

Agree == \E c \in calls :
    /\ stage \in AskedIn[c]
    /\ agreed' = agreed \cup {c}
    /\ UNCHANGED stage
    /\ Hang

AgreeLate == \E c \in stale :
    /\ stage \notin {"none", "applying"}
    /\ agreed' = agreed \cup {c}
    /\ UNCHANGED stage
    /\ Hang

Advance(from, needs, to) ==
    /\ stage = from
    /\ needs \subseteq agreed
    /\ stage' = to
    /\ UNCHANGED <<agreed, calls, stale>>

\* The device reboots: what was agreed to is over.
Apply ==
    /\ stage = "installed"
    /\ Consents \subseteq agreed
    /\ stage' = "applying"
    /\ agreed' = {}
    /\ UNCHANGED <<calls, stale>>

\* A stale call finds the files of its deployment gone and takes itself
\* for one of a device that has no agent.
ApplyLate ==
    /\ "apply" \in stale
    /\ stage' = "applying"
    /\ agreed' = {}
    /\ Hang

\* The download or installation fails, the agent restarts, the device boots.
End == stage' = "none" /\ agreed' = {} /\ Hang

Next ==
    \/ Call \/ Quit \/ Prepare \/ Agree \/ AgreeLate \/ Apply \/ ApplyLate \/ End
    \/ Advance("preparing", {}, "offered")
    \/ Advance("offered", {"download"}, "downloading")
    \/ Advance("downloading", {"download"}, "downloaded")
    \/ Advance("downloaded", {"download", "install"}, "installing")
    \/ Advance("installing", {"download", "install"}, "installed")

Spec == Init /\ [][Next]_vars
=============================================================================

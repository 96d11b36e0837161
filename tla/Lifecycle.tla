----------------------------- MODULE Lifecycle -----------------------------
(***************************************************************************)
(* What fs-updater promises about an update: the device goes from idle     *)
(* through an installation, a reboot and a trial to a commit, or back      *)
(* through a rollback, a reboot and a commit, and takes no shortcut.       *)
(***************************************************************************)
CONSTANT Components

VARIABLES
    phase,  \* where the update, rollback or slot switch is
    parts,  \* the components it concerns so far
    rest    \* those that the call under way has still to add

vars == <<phase, parts, rest>>

Phases == {"idle",         \* nothing pending
           "installed",    \* an update waits for its reboot
           "trial",        \* it runs and waits for its commit
           "rollingBack",  \* a rollback or a switch waits for its reboot
           "rolledBack",   \* it has happened and waits for its commit
           "failed"}       \* an installation or its first boot failed

TypeOK ==
    /\ phase \in Phases
    /\ parts \subseteq Components
    /\ rest \subseteq Components

Init == phase = "idle" /\ parts = {} /\ rest = {}

\* One component of a package may come before the other.
Install ==
    /\ phase = "idle"
    /\ phase' = "installed"
    /\ parts' \in (SUBSET Components) \ {{}}
    /\ rest' \in SUBSET (Components \ parts')

\* Only an installation that is not through with its components fails.
Fail ==
    /\ phase = "idle" \/ (phase = "installed" /\ rest # {})
    /\ phase' = "failed"
    /\ parts' = {}
    /\ rest' = {}

\* A slot switch: one component, and only when nothing is pending.
Switch ==
    /\ phase = "idle"
    /\ phase' = "rollingBack"
    /\ \E c \in Components : parts' = {c}
    /\ rest' = {}

\* A rollback concerns components of the update and no others.
Rollback ==
    /\ phase \in {"installed", "trial"}
    /\ phase' = "rollingBack"
    /\ parts' \in (SUBSET parts) \ {{}}
    /\ rest' \in SUBSET (parts \ parts')

\* An installation or rollback goes on with components it has still to add.
Continue ==
    /\ \E C \in SUBSET rest : parts' = parts \cup C /\ rest' = rest \ C
    /\ UNCHANGED phase

\* It ends before it has added them all.
GiveUp == rest' = {} /\ UNCHANGED <<phase, parts>>

Boot ==
    /\ \/ /\ phase = "installed"
          /\ \/ phase' = "trial" /\ UNCHANGED parts
             \/ phase' = "failed" /\ parts' = {}
       \/ /\ phase = "rollingBack"
          /\ phase' = "rolledBack"
          /\ UNCHANGED parts
    /\ rest' = {}

\* Never before the reboot.
Commit ==
    /\ phase \in {"trial", "rolledBack", "failed"}
    /\ phase' = "idle"
    /\ parts' = {}
    /\ rest' = {}

Next ==
    \/ Install \/ Fail \/ Switch \/ Rollback \/ Continue \/ GiveUp
    \/ Boot \/ Commit

Spec == Init /\ [][Next]_vars
=============================================================================

# Verification of fs-updater

`fs-updater` is a command line tool: each invocation does one thing to an
embedded device (install an update, commit it, roll it back, switch a slot,
reboot into the result, answer a question) and exits with a code. It keeps no
state of its own. What there is to get right lies in the state it shares: the
U-Boot variable `update_reboot_state`, the boot slots, and the signal files of
the work directory, which other invocations, the ADU agent, the boot loader and
power cuts work on as well.

All line numbers are those of `src/cli/cli.cpp` unless a file is named.

## 1. Inventory

| Part | State | Operations | Interacts with |
|---|---|---|---|
| Install (`--update_file`, `--automatic`; 206-266, 659-700) | none; the temporary application image | check the path and the type, `update_image`, remove the image after one kind of exception | library, agent (which runs `--update_file` itself) |
| Commit (`--commit_update`; 272-297) | none | `commit_update` of the library, three outcomes | library |
| Rollback and switch (303-468, 190-200) | a local copy of `update_reboot_state` | read the state, recreate the work directory, `rollback_application`, `rollback_firmware`, create `rollbackUpdate` | library, work directory |
| State query (`--update_reboot_state`; 474-591) | none | read the state, ask whether the reboot has happened | library |
| Apply (`--apply_update`; 910-988, 1096-1105) | a local copy of `update_reboot_state` | look for two signal files, advance the state, signal init, restore the state | U-Boot, work directory, init, agent |
| Network pipeline (`--is_update_available`, `--download_update`, `--download_progress`, `--install_update`; 708-908) | none; nine files of the work directory | read metadata, check and create signal files, compare sizes | agent |
| State-bad flags (615-653, 990-1008) | none | set or query the bad mark of a slot | library |
| Dispatch (1014-1085, 165-184, `main.cpp`) | the exit code | parse, set up logging and the library, find the one action flag, run its handler, map an exception to 124 | everything above |
| Serial logging (`SynchronizedSerial.cpp`, `LoggerSinkSerial.cpp`) | two mutexes, a file descriptor | write a line, possibly in pieces | library threads |
| Version queries, console output (593-609, 702-706, `cli_io.h`) | none | print | - |
| External: update library, U-Boot, boot loader, systemd, ADU agent | slots, environment, the agent's handler | install, commit, roll back, boot, download, install, apply | - |

What is hard: nothing in the code keeps two invocations apart, and the agent
starts invocations of its own; every handler reads something, calls out, and
acts on what it read; the reboot is asynchronous; `--apply_update` changes the
state *before* the reboot that makes the change true; a rollback of two
components is two library calls; a process can be killed between any two calls;
and the directory the signals live in is deleted and recreated under everyone's
feet. The list with its lines is `hazards` in `PROJECT.json`.

What makes each part correct:

- apply: a reboot is requested only when there is something to apply; the state
  says "rolled back" only when that is so; a failed apply changes nothing; what
  was committed is not brought back by a late write;
- rollback and switch: a rollback is announced only with all components of the
  update in it; a switch that is rejected for its target has no effect;
- install, commit: never on top of something pending, never before the reboot;
  no state is a dead end for whoever goes by the exit codes;
- pipeline: a signal is a consent to the deployment it was looked at for, and
  no step is taken without one; what is announced and what is called complete is
  so; what is offered is eventually applied under a patient operator; a Download
  that comes in between does no harm to calls it has not overtaken;
- dispatch and codes: one handler per invocation, codes that mean what the
  reference says; logging: lines do not mix, no two threads wait for each other.

## 2. Modules

| Module | Contents | Proofs | Values for TLC |
|---|---|---|---|
| `ReturnCodes` | the enums of `fs_updater_error.h` as records | | |
| `BootState` | the thirteen states, which components they are about, how they are reported (`ReportedCode`) and advanced (`Advanced`), what the library leaves behind | | |
| `Updater` | the handlers of install, commit, rollback, switch, query and apply as steps of any number of processes; kills, reboots, power cuts, the agent | `UpdaterProofs`, `ExclusiveProofs` | `MCUpdater` |
| `Session` | `Updater` from one boot to the next: is anything left from before the boot? | `UpdaterProofs` | `MCSession` |
| `Lifecycle` | abstract: idle, installed, trial, rolling back, rolled back, failed; which components, and which of them are still to come | | |
| `Operator` | `Updater` with an operator who goes by the exit codes | `ContextProofs` | `MCOperator` |
| `SlotHealth` | `Updater` with the flags of bad slots | `ContextProofs` | `MCSlotHealth` |
| `AduPipeline` | the five commands of the network pipeline at the grain of file accesses, and the agent | | `MCAduPipeline` |
| `Overtaken` | `AduPipeline` and the invocations under which a Download has begun | `AduPipelineProofs` | `MCOvertaken` |
| `Deployment` | abstract: offered, downloading, downloaded, installing, installed, applying, each step with the operator's consent, and the calls that a replacement leaves behind | | |
| `UpdateSize` | how the text of `update_size` and the length of a file become an exit code | `UpdateSizeProofs` | an `ASSUME` of `MCAduPipeline` |
| `SerialLog` | log entries and messages on the serial port, two mutexes | `SerialLogProofs` | `MCSerialLog` |
| `CommandLine` | `main`, `parse_input`, `setup_logging`, the dispatch table | `CommandLineProofs` | `MCCommandLine` |

`Updater` and `AduPipeline` meet in the work directory. Each has the other's
side as an environment: `Updater` has an agent that wipes the directory, marks an
installation at any time and reboots when it finds `applyUpdate`; `AduPipeline` has
an installation that succeeds or fails and the update side of `--apply_update`. They
are not composed (section 8).

### How `Updater` corresponds to the code

A process is one invocation. `pc` is the place in its handler, `cmd` the handler
it runs, `seen` the handler's local variable `update_reboot_state`, and `exit`
what the last step returned to the caller (for the properties about exit codes
only). A handler is cut before each call of the library, of the kernel or of the
file system; whatever lies between two such calls is one action. Inside
`update_image`, which is one call of the library and takes minutes, there are
cuts where the device or the directory changes: after the check of the state,
after each component that is selected, before `updateInstalled` is created:

| Handler | Labels in order |
|---|---|
| `handle_update_file`, `handle_automatic`, `update_image_state` | the command's name, `update_image`, `installing`, `install_rest` (of a package of two components), `install_signal` |
| `commit_update` | `commit_update` |
| `rollback_update` | `rollback_update` (read), `rb_workdir`, then `rb_app_fw` and `rb_fw`, or `rb_fw`, or `rb_app`, then `rb_marker`; or `print` |
| `switch_*_slot` | the command's name (read), `sw_workdir`, `rb_fw` or `rb_app`, `rb_marker`; or `print` |
| `print_update_reboot_state` | `update_reboot_state` or `print` (read), then, for the states of 493-570, `print_rebooted` |
| `handle_apply_update` | `apply_update`, then `apply_mode` and `reboot` or `apply_marker`; or `apply_check_rollback`, `apply_read`, `apply_advance`, `reboot_rollback`, `apply_restore` |

In `print_update_reboot_state` and in the rollback, `seen` is what was read
first; during an installation it is the state the installation is to arrive at.

`rebootState` is the U-Boot variable. `flip` holds the components whose selected
slot is not the running one. `rebooted` is what the library computes for
`is_reboot_complete` and `pendingUpdateRollback`: has the device booted since
its slots were last selected? `files` are the signal files (and the temporary
application image). `power` is `"rebooting"` from the moment `kill(1, SIGINT)`
succeeds until the boot, during which everything goes on running: the call
returns at once (1104).

### How the other modules correspond to the code

**`Session`** (which of the signals are of this session). `--apply_update` cannot
tell the `updateInstalled` of an update that is pending from one that is left
from before the last boot; neither the handler nor the file says when it was
created. `swept` is a history variable: true at first, false after a boot that
leaves anything that may lead to a reboot (`Cause`: one of three signals), and
true again as soon as there is none, be it that `create_work_dir` has wiped the
directory or that the boot has emptied it. The conditions of the properties of
`Session` are all `swept`; the run `leftover` shows that it cannot be dropped.

**`Operator`** (every state a device can be in, and the way out). First all of
`Updater` happens, failures included (`Storm`). Then it is calm: nothing fails
any more and one operator runs `--update_reboot_state` and does what its answer,
and the answer to what he did then, calls for (`After`):

| Answer | Next | Where that is said |
|---|---|---|
| 26, 28 to 30: a reboot is due | `--apply_update` | `cli.md`, "--update_reboot_state" |
| 23 to 25, 31 to 33: runs after its reboot | `--commit_update` | `cli.md:72-74,117` |
| 20 to 22: failed | `--rollback_update` | `cli.md:114-116` |
| 20 to 22 again, from `--rollback_update` | `--commit_update` | help text at 54: "Confirm success of installation, rollback, switch or fail" |
| 51 from `--apply_update`, 18 from `--commit_update` | a reboot by hand | nowhere; nothing else is left |
| anything else | `--update_reboot_state` | |

The handlers are those of `Updater` instantiated with no faults (`Q`). The fourth
row is needed because the third is a dead end (finding `refused`), the fifth
because a rollback without its marker can only be completed by a power cycle (finding
`twice`).

**`SlotHealth`**. `bad` is what the library has stored, `running` the slot of
each component, `answer` the last answer of the four `*_state_bad` handlers
(615-653, 990-1008), which are a single library call each. `SetStateBad` has the
handler's three outcomes: 52 and the flag is stored; `EINVAL` and 53; and the
fault `"flag"`, in which nothing is stored and the answer is 52 all the same, for
any errno but `EINVAL`, or 124, for an exception. A rollback or switch
whose target is flagged takes the `EPERM`/`ECANCELED` branch (`TargetIsBad`),
which is code 54 for a switch. Letters are `A` and `B`, as
the library takes them in either case, and `C` for any other.

**`AduPipeline`**. A handler is cut before each `stat`, `open` and `read`, so
`pc` names the access that comes next; `seen` is the package whose `update_type`
or `update_size` the handler has read. A file exists (`files`) before it has its
content (`filled`). `got` is the length of the downloaded file, whose path only
`update_location` tells. The label of the agent is the file it is writing, or
what it waits for. `Exit` is the return through `main`. A Download may begin at
any moment, under any command (`AgentDownload`): it removes the directory first
and recreates it with a second step. The local mode of `--apply_update` is in the
module (`Reboot`); `updateInstalled` comes with a `downloadUpdate`, so it is
reached only by a call whose directory a Download has removed between the looks at
the two. After a boot the directory is empty or what it was.

**`Overtaken`**. `overtaken` are the invocations that were running when the last
Download began, `late` the signals they have created since. Both are history
variables. What the properties of this module say of commands they say of those
that are not overtaken, and of signals that are not late; of the overtaken ones
`DeploymentSpec` says what harm they can do at most (section 4).

**`UpdateSize`**. `Stoull`, `Percent` and `ToInt` are the
conversions of 795-862: `std::stoull` (blanks, one sign, digits, any rest), the
product and the quotient in `uint64_t` modulo `Wide`, the cast to `int` in two's
complement. `InRange` is where nothing is lost. `AduPipeline` takes its
`ProgressCode` for the last step of `--download_progress`.

**`SerialLog`**. One process, threads of it. `serial_mutex` is taken by
`setLogEntry` around `SynchronizedSerial::write`, which takes `lock_query`;
`handle_automatic` calls `write` without the outer mutex. `WriteSome` is a
`write(2)` that takes part of the rest of the line.

**`CommandLine`**. `given` is the set of flags. The steps are those of
`parse_input` in their order; what a handler does is left to the other modules,
here it sets any of the codes handlers set, or throws.

### External parts and what is assumed of them

The library, the boot loader, systemd and the agent are not in the repository.
They are modelled by what `cli.cpp` and the documents expect of them:

- `update_image` refuses (`UpdateInProgress`) unless the state is idle, looks
  once, at the beginning, and then takes its time. It selects the slots of the
  package's components one after the other or at once, and records each
  selection in the same step; `updateInstalled` is created after that by it or,
  later, by the agent. It may fail or be killed before, between and after; when it
  fails it may leave a `FAILED_*` state. In which order the library writes its
  variables is not in this repository: that one selection and its record are a
  single step is an assumption;
- `commit_update` succeeds only on a pending state and only after the reboot
  (`cli.md:74`);
- `rollback_*` selects the other slot of the component and records a pending
  rollback. After the first of the two calls of a combined rollback the state
  may name one component or both: both are explored. A call that throws may have
  had its effect;
- `create_work_dir` deletes and recreates the directory
  (`azure-device-update.md:94`);
- a boot leaves the work directory as it was or empty, every boot anew
  (`azure-device-update.md:100-104`: it "may contain signal files and metadata
  from the previous run"; the path is under `/tmp`);
- a boot starts the selected slots; the boot loader may fall back from a
  firmware, which gives `FW_UPDATE_REBOOT_FAILED`;
- the agent starts downloads (and wipes the directory) at any time, marks an
  installation it has run, and reboots when it sees `applyUpdate` after an
  installation. That a restarted agent resumes a deployment by what it finds in the
  directory (`azure-device-update.md:100-111`) is in `Updater`, whose agent
  has no memory; in `AduPipeline` a restarted agent begins with a Download.

`Faults` says what fails: reading or writing the environment, a library call,
the creation of a marker, `kill(2)`, the process itself (SIGKILL; SIGPIPE, as
every handler writes to stdout), the power, the boot of a new firmware, the flag of a
bad slot.
`Exclusive` is the rule "one invocation at a time", which the code does not
enforce; the properties that need it say so.

## 3. Runs

| Run | Instance | Shows |
|---|---|---|
| `concurrent` | `Session`: two processes side by side; install, commit, rollback and apply of combined packages, the agent, failing reboots, power cuts, fallbacks, a work directory that is kept or emptied by each boot | `SweptRebootsHaveCause`, `SweptSignalsArePending`: once nothing is left from before the boot no interleaving reboots an idle device or leaves a signal without cause; `SweptCommitIsFinal`: nor does a late write bring a committed state back |
| `recovery` | `Operator`: one invocation at a time, every command, package and fault, old signals included | `LifecycleSpec` (refinement of `Lifecycle`), `PreparedInFull`, `CommitIsFinal`, `TypeOK`; `Recovers`: from every state reached, the exit codes lead back to idle for good |
| `slots` | `SlotHealth`: install, commit, rollback, a switch and apply next to the flags; failing markers, reboots, power, boots and flags | `RollbackClaimIsTrue`: a rollback is reported as done only when it has happened; `RejectedIsNoSwitch`: a switch refused with 54 has changed nothing |
| `pipeline` | `Overtaken`: two processes, two packages of two sizes, every fault, Downloads at any moment | `DeploymentSpec` (refinement of `Deployment`), `PromptSignalsMatch`, `PromptCompleteIsTrue`, `PromptAnnouncedIsTrue`, `TypeOK` |
| `offered` | `AduPipeline`: one process, Downloads, kills, failed downloads and restarts at any moment, fairness | `OfferLeadsOn`: no handshake is lost for good |
| `serial` | `SerialLog`: two threads, a port that is missing, breaks or fails now and then | `LinesWhole`, `NoCircularWait`, `ErrorsGetOut`, `TypeOK` |
| `dispatch` | `CommandLine`: every command line of up to two actions with both modifiers, every failure | `OneHandler`, `PortIsReady`, `TypeOK` |
| `twice` | `Updater`: nothing fails | a second `--rollback_update` makes a prepared rollback inapplicable (finding) |
| `refused` | `Updater`: the boot loader falls back | the documented way out of a FAILED state is refused (finding) |
| `killed` | `Updater`: `--apply_update` may be killed | a rollback is reported that has not happened (finding) |
| `leftover` | `Updater`: nothing fails, one command at a time | a signal that has outlived the reboot makes `--apply_update` reboot an idle device (finding) |
| `stranded` | `AduPipeline`: one command, nothing fails | a Download between its look and its signal: the signal stands for a package nobody has looked at (finding) |

### Bounds

- `Updater` has no counters: its state space is finite once `Procs` is. Two
  processes are enough for every race the handlers have, since a handler races
  with one other writer of the state or of the directory at a time (a third
  process adds no action that the agent, the boot or the second process, which
  may be started any number of times, does not have). For the three
  properties of `concurrent` the proofs remove the bound and the selection.
  `concurrent` leaves out `--automatic` (the code of `--update_file` after its two
  checks), the query (changes nothing), the switches (a rollback that begins in the
  idle state) and the faults that only end a handler early: a killed process, a
  throwing call and a marker that is not created behave towards the others like a
  process that takes no more steps, which the run has, since no step is forced.
  What such an end leaves behind is in `recovery`, which has every command and
  fault. Where `Exclusive` is set one process is enough: two that take turns do
  what one does. The processes are symmetric in the runs with two.
- `SlotHealth` has two slots per component, as the devices have. Its run leaves
  out `"lib"`, `"env"` and `"kill"`: with the last two `RollbackClaimIsTrue` is
  false (the run `killed`; a failed restoring write after a failed reboot, 979-981,
  breaks it in the same way), with the first a library call may fail after it has
  selected a slot, and nothing is said of a switch it rejects. The other switch is
  the same code for the other component.
- `AduPipeline`: packages of one and two bytes, so that the size of one can be
  mistaken for that of the other and a download has a beginning, a middle and an
  end. `"firmware"` and `"application"` are the two types with an answer of their
  own; `"both"`, which is answered like an empty `update_type`, is in `offered`
  and `stranded`. In `offered` one process gives all commands; a second one could
  only give them more often.
- The widths are scaled: `Wide` 2^16 for 2^64 and `HalfInt` 2^7 for 2^31, with
  files of one or two bytes far from either. That the arithmetic is right up to
  both limits is evaluated before `offered` and `stranded`
  (`PercentagesAreExact` of `MCAduPipeline`: texts of every kind, files of up to 700
  bytes, past both limits), and proved for every width.
- `SerialLog`: lines of three bytes have a first, a middle and a last byte. One
  process: the mutexes are per process, and two processes share nothing but
  the device (section 6).
- `CommandLine`: two actions are one more than is allowed; a third takes the same
  branch. Nothing recurs, so the run ends: deadlock is not checked. In all
  other runs it is.

### Fairness

- `OpFairness`: a started command runs to its end, the operator goes on, a
  requested reboot takes place (weak fairness: each of these stays possible
  until it is done). Strong fairness for the commit, which the library may
  refuse now and then, and for the agent's look at `applyUpdate`, which its own
  Download may wipe before it is seen. No failure is fair; failures have ended when
  `calm` is set.
- `Fairness` of `AduPipeline`: weak for the agent and for the steps of a handler.
  Strong for the start of each command: the operator is
  patient and repeats the documented commands (`cli.md` tells to poll), whatever the
  answers were; a start is disabled while the process runs another command. From
  some moment on no invocation is killed: an operator who kills each of his commands
  gets nowhere. Nothing is assumed of failed downloads, restarts and further
  Downloads; a signal file that can never be created (the fault `"marker"`) is left
  out of `offered`, as no fairness of the code helps there. `OfferLeadsOn` counts the
  replacement of a deployment by another (`"mkdir"`) as an end of it: the thread
  of the replaced one may block for ever (`azure-device-update.md:96-98`), which is
  a matter of the agent. A restart ends a deployment as well (`"idle"`), with or
  without its files.
- `Fairness` of `SerialLog`: weak for a thread that runs, strong for taking a
  mutex, which is released again and again but not kept free. The code does not
  guarantee either: the tty is opened without `O_NONBLOCK`
  (`SynchronizedSerial.cpp:11`), so a `write(2)` may block under flow control for as
  long as the other side likes, and `std::mutex` promises no order. `ErrorsGetOut`
  is therefore stated of a port whose writes return; `LinesWhole` and
  `NoCircularWait` use no fairness.

## 4. The refinements

`Lifecycle` is what a user is promised of an update. `Phase`,
`Parts(rebootState)` and `Rest` map a state of `Updater` to it; a device whose
variable already says `INCOMPLETE_*_ROLLBACK` but which has not booted is still
rolling back, so the write before the reboot and the write back after a failed one
are stuttering steps. `Rest` holds the components that the installation or rollback
under way has still to select: a second component joins a pending rollback
(`Continue`) only when it was in the update that is rolled back and the same call
goes on with it. A switch on top of anything pending, and the rollback of a
component that was not updated, are no steps of `Lifecycle`. With one
invocation at a time, whatever fails, whatever the work directory holds and
wherever a process is killed, each step is a step of `Lifecycle` or stutters.

`Deployment` is what an operator is promised of the network pipeline. `Stage` maps
the place of the agent to how far the deployment is, `Agreed` the signal files to
the consents given, `calls` and `stale` the invocations under way to what they are
made for, of this deployment and of an earlier one. `Prepare` empties the consents
and makes all calls stale. The creation of a signal is a step `Agree`, which
is possible only for a call of this deployment and at a stage that asks for the
consent, or it stutters because the file is there or the deployment is over; the
exception, `AgreeLate`, is for stale calls alone. The check and the creation are
separate steps (the marker is opened with `O_CREAT` without `O_EXCL`), so this is
about what happens between them. A stale `--apply_update` may also take itself for
one without an agent and reboot (`ApplyLate`). Everything else (an agent that goes
on without consent, a signal that outlives its deployment, a prompt call that
consents to the wrong thing) is a violation.

## 5. Proofs

Every safety property of a passing run, both refinements and all action properties
are stated by a theorem, for every value of the constants. Some theorems have
hypotheses, which are conditions on the constants:

| Hypothesis | Says | Justified by |
|---|---|---|
| `Exclusive` | one invocation at a time | the caller; the code has no lock. Two rollbacks or two switches side by side both act on the state they have read (307, 368), and what the library makes of that is not in this repository |
| `Undisturbed` | no process is killed, the environment can be written | a restriction: `killed` shows what happens otherwise |
| `Reliable` | library and environment do not fail | a restriction: 54 answers every `EPERM` and `ECANCELED` of a switch (389-404), also one that comes after the slot was selected |
| `Fits` | 100 times the size of a package is less than `Wide` | 2^64 |
| `"power" \in Faults` | the power can be cut | the reboot by hand of `Operator` is a power cycle |

No theorem assumes anything of the work directory after a boot, and none that
Downloads keep away from commands.

`UpdaterProofs` holds, for any set of processes, packages, commands and faults:

- `TypeCorrect`: `Spec => []TypeOK`. The types are not inductive alone:
  `--apply_update` writes `Advanced[seen]`, which is a state only because it got
  there with a pending rollback in `seen` (`AdvanceOK`).
- `RebootsHaveCause`, `SignalsHaveCause`: `SweptRebootsHaveCause` and
  `SweptSignalsArePending`. Neither is inductive: a handler that has passed its
  check of a file reboots later, when the file may be gone. The invariant
  `CauseInv` takes everything that leads to a reboot together (`Cause`: the files,
  the agent's duty to write one, a handler past its check, a reboot under way) and
  says that as long as there is such a cause, something is pending and the device
  has not booted since; and that what `--apply_update` may write back is not the
  idle state. Only a commit makes the state idle, it needs the boot, and the boot
  removes all causes but the files. `SessionInv` says `swept => CauseInv`; `swept`
  becomes true only where there is no cause, and there `CauseInv` holds.
- `CommitsAreFinal`: `SweptCommitIsFinal`. `--apply_update`
  writes a state it computed from one it read before, and writes the old one back
  when its reboot fails; neither write looks again. `CauseInv` has what makes
  them harmless: a handler that is about to write is a cause, so nobody can
  have committed since it read.

`ExclusiveProofs` adds the rule `Exclusive` and nothing about old signals, and
proves for any packages, commands and faults:

- `ImplementsLifecycle`: `Spec => LifecycleSpec`, with one lemma per step of
  `Lifecycle` that a handler implements;
- `RollbacksAreComplete`: `PreparedInFull`;
- `CommitsAreFinalExclusive`: `CommitIsFinal`, without `swept`: what an old
  `rollbackUpdate` leads `--apply_update` to write is computed from a state that
  nobody has changed meanwhile;
- `RollbackClaims`: `RollbackClaimIsTrue`, which also needs `Undisturbed`.

They rest on `ExclusiveInv`, which says of each place in a handler what the
handler may still rely on of the state it read when it began (`Knows`): between
the two calls of a combined rollback, for instance, that the application is
already in a pending rollback and the device has not booted. That is true
because nobody else moves the state meanwhile, and it is exactly what two
invocations side by side destroy. For `RollbackClaims`, `ClaimInv` also says
that an `--apply_update` that began on an advanced state, and will restore it if
its reboot fails, began on a settled one.

`ContextProofs` carries these results to the two modules that put `Updater` into a
surrounding, and proves what is said there:

- `OperatorIsAUser`: `OpSpec => Spec`. The handlers of the operator are those of
  `Updater` instantiated without faults, so this takes one lemma per handler
  that a step without failures is a step with them. `OperatorKeepsLifecycle`
  follows: `LifecycleSpec`, `CommitIsFinal`, `TypeOK` and `PreparedInFull` hold for
  his device.
- `FlagsKeepLifecycle` and `FlagsKeepClaims`: `HealthSpec => LifecycleSpec` and
  `HealthSpec => []RollbackClaimIsTrue`. Here `Updater` is not only
  restricted: a rejected target ends a handler where `Updater` lets the library go
  on. `HealthSteps` splits a step into one of `Updater`, one beside
  it and a rejection, and `ExclusiveInv` and `ClaimInv` are shown to survive
  the latter two.
- `RejectedChangesNothing`: `RejectedIsNoSwitch`, under `Exclusive` and `Reliable`.
  It needs `SlotInv` (a slot that is selected and does not run is a pending
  matter), `WipedInv` (who is about to select a slot has wiped the directory, so no
  `rollbackUpdate` is left of an earlier session either) and from
  `ExclusiveInv` that the handler still stands on the idle state it read.

`UpdateSizeProofs` holds the arithmetic, for every width, text and file: within the
range, less than 100 percent means less than the whole, and so 45 is answered
exactly when no byte is missing (`FinishedIsExact`), and is answered again as the
file grows (`FinishedStays`).

`AduPipelineProofs` is about `OvertakenSpec`, with Downloads at any moment, and
assumes nothing of the processes, packages, sizes and faults:

- `PipelineTypes` (`TypeOK`) and `SignalsMatch` (`PromptSignalsMatch`): the latter
  is not inductive, because a handler creates a signal for files it looked for
  several steps ago. `FoundStays` lists for each label the files the handler has
  found by then and says of those that are not overtaken that they are still there:
  the agent only adds to a directory once it exists, and who was running when it
  was removed is overtaken;
- `AnnouncementsAreTrue` (`PromptAnnouncedIsTrue`) and, with `Fits`,
  `CompleteAnswersAreTrue` (`PromptCompleteIsTrue`): they need `ReadStays`, what a
  handler that is not overtaken has read of the offer is of the offer that is
  still there;
- `ImplementsDeployment`, `OvertakenSpec => DeploymentSpec`, from the same
  invariant and `Chain`: `updateInstalled` comes with `downloadUpdate`, which files
  cannot or must be there at which stage, and only an overtaken call gets to the
  local mode of `--apply_update`. With it each of the three creations is an `Agree`,
  an `AgreeLate` or stutters, and each step of the agent is the step it should be.

`SerialLogProofs` proves, for any number of threads and any length of a line,
`SerialTypes` (`TypeOK`), `LinesAreWhole` (`LinesWhole`) and `NobodyWaitsInCircles`
(`NoCircularWait`). `LineInv` ties `lock_query` to the labels inside it and says
whose line was written to last; `SinkHeld` ties `serial_mutex` to the labels
inside `setLogEntry`, and so no thread waits for one that waits for it.

`CommandLineProofs` proves, for any set of command lines and any failure,
`CommandLineTypes` (`TypeOK`), `RunsOneHandler` (`OneHandler`) and `PortReady`
(`PortIsReady`). Their invariant follows the search through the table:
`SearchInv` says that a count of 0 or 1 means that none or exactly the
remembered one of the flags looked at so far was given, so that a count of 1 at
the end of the table is the one action of the command line; `CallInv` that nothing
runs before the search and the setup are over; `CodeInv` that 64 and 65 are the
parser's own codes.

Model-checked only: liveness (`Recovers`, `OfferLeadsOn`, `ErrorsGetOut`), which is out of the prover's reach, and that the conversions of
`UpdateSize` are those of the code, which is a matter of reading it. Conversely,
every property of a theorem is checked by a run as well, on an instance that
satisfies the hypotheses of the theorem, and the two theorems on the arithmetic
are evaluated by `PercentagesAreExact`.

## 6. Findings

See `findings` in `PROJECT.json`; each has a run that produces the trace: `twice`,
`refused`, `killed`, `leftover`, `stranded`. Seen while modelling, without a run of their own:

Rollback, apply and query

- An installation of one component that fails exits with 9 to 11
  (243-262), which `return-codes.md:28-30` has for combined packages.
- With two invocations side by side and a `rollbackUpdate` that has outlived a power
  cut, a commit that comes between the read at 949 and the write at 954 is undone:
  the write brings the committed rollback back. `SweptCommitIsFinal` and
  `CommitIsFinal` say that it takes both, the old file and the second invocation.
- `--set_fw_state_bad` and `--set_app_state_bad` answer 52 (`cli.md:293`: "Operation
  successful") for every errno of the library but `EINVAL` (617-619, 637-639), a
  flag that was not stored included. Which others the library returns is not in
  this repository.
- Two rollbacks or two switches side by side each act on the state they read (307,
  368); only `Exclusive` keeps them apart.
- A rollback of two components is two calls (312, 315). When the second fails, or
  the process dies between them, or the target of the second is flagged, one
  component is prepared and the other is not, without a `rollbackUpdate`. It is
  never announced (`PreparedInFull`), and the exit codes lead out of it
  (`Recovers`), but a boot starts a mixed pair.
- `cli.md:93-95` describes 23 to 25 as "pending reboot". Before the
  reboot the answer is 26 (495-499); 23 to 25 come after it and ask for a commit.
- A refused switch exits with the report of the state, 20 to 33, not with a code of
  `cli.md:168,175`.
- `cli.md:183` and `return-codes.md:135` speak of `reboot(2)`, the code sends
  SIGINT to init (1104); `signal-files.md:7` says that `--apply_update` has no
  direct library interaction, but it reads and writes the U-Boot state (949-966).

Network pipeline

- What `stranded` shows of `--install_update` holds for `--download_update`
  (765-772) and `--apply_update` (918-924) as well: a call that a Download has
  overtaken consents to a deployment it was not made for, and such an
  `--apply_update` may even take the local mode and reboot. `DeploymentSpec` says
  that no other call does.
- A `--download_progress` that is held up while another deployment begins compares
  the file of one package with the size of the other (847) and may answer 45 for a
  file that is not complete; a poller that asks again gets the right answer. In the
  same way `--is_update_available` may announce the type of the offer that was
  replaced. `PromptCompleteIsTrue` and `PromptAnnouncedIsTrue` have the calls to which
  that cannot happen.
- Outside `InRange` the cast at 859-862 wraps: an `update_size` of less than one
  21-millionth of the file may be answered with "in progress".
- Two `--download_update` at once may both answer 39 (765); the download is started
  once.
- An `update_type` that is created and not yet written counts as 37, as do the
  `common-*` types of `azure-device-update.md:43-45` (741-753).
- An installation may be requested, and is answered with 47, while the package is
  still being downloaded (`cli.md:241`): only `update_location` is looked for.
- A file of no bytes is "no download started" (42), and so is a size that is no
  number (`cli.md:229`).
- After a failed installation `installUpdate` stays and `--install_update` answers
  47 for ever; 49 is for a marker that cannot be created (`cli.md:244`).
- `std::stoull` takes `-1` and `12 MB` for numbers (806).

The rest

- `--is_fw_state_bad` and `--is_app_state_bad` exit with 0 when they have an answer,
  not with 52 (`cli.md:289-293`).
- `--version` may exit with 124, because the library is set up first (1018;
  `cli.md:263` says always 0). `--help` is not declared (22).
- `SynchronizedSerial.h:27` speaks of a synchronized port; the mutexes are those of
  one process, and lines of two processes mix.
- `cli.md:303` says that debug output goes to stderr, the code sends it to stdout
  or the serial port (172-180).

## 7. Not modelled

- The temporary application image of two installations side by side (256): its path
  is chosen in the library.
- An empty `UPDATE_STICK` (693): `back()` of an empty string is undefined and
  nothing of the device depends on the outcome.
- What the library and the boot loader do with a bad flag of a slot that is already
  selected.
- The texts of versions and of the console output: nothing reads them back.
- TCLAP, beyond that it accepts a command line or ends the process.
- The build.

## 8. Plan

What is left, in the order of its worth: a composition of `AduPipeline` and
`Updater` in which the agent's installation is an invocation of `--update_file`,
and the agent resumes after a restart by what it finds in the directory;
`SerialLog` with a port that two processes share.

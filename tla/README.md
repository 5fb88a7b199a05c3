# A verification of the HiBy R1 custom firmware in TLA+

This directory holds TLA+ models of the parts of this repository that run on the
HiBy R1 and share its display, its files and its processes, the configurations
with which TLC checks them on small instances, and proofs, checked by TLAPS, of
the properties that matter most for instances of any size.

    tlc -workers 2 -config MCCfwHook.cfg MCCfwHook     # a run
    tlapm SidecarProofs.tla                            # a proof

PROJECT.json lists the runs, what each definition stands for in the source
("map"), a changed definition for every property that makes its run fail
("mutants"), the hazards of the code and where it disagrees with what its
documentation says ("findings").

## 1. The system

The firmware is the stock one of a small music player with additions. `hiby_player`
is the proprietary user interface, a multithreaded process that owns the
framebuffer and the touchscreen. What the repository adds to it:

| Component | Source | Its state | Its operations |
|---|---|---|---|
| Launcher hook | `mods/cfw-ui/src/r1_cfw_hook.c`, preloaded into `hiby_player` | the virtual display, the captured frame, the touch grab, the child process | the callback of the CFW tile, and every framebuffer `ioctl` of the player |
| CFW sidecar UI | `r1_cfw_ui.c`, `r1_cfw_platform.c` | the screen, the page on display, what it last loaded | taps, refreshes, route codes to the hook |
| Configuration | `r1_cfw_data.c`, `r1_cfw_data.h` | `launcher.conf` and `theme.conf` in `/usr/data/r1-cfw` | load with self-healing, atomic save; also as commands over SSH |
| Boot-time selector | `mods/cfw-ui/rootfs-overlay/etc/init.d/S90r1-cfw` | bind mounts over the stock resources | start, reload, stop |
| SSH controller | `mods/ssh-dropbear/.../r1-ssh-control`, `S91dropbear` | two marker files and a host key; pid and address files in `/run`; Dropbear | enable, disable, toggle, start, stop, restart, and a monitor that runs for ever |
| r1-filectl | `mods/r1-filectl/src/r1_filectl.c` | the music library, `.r1-manager/trash` and `incoming` on the card, one lock | mkdir, rename, move, delete, trash, restore, purge, empty-trash, the four upload commands |
| R1 Manager | `android/r1-manager` | profiles, trusted keys, a queue of transfers | connects over SSH, calls r1-filectl, sends files by SCP |
| Diagnostic logging | `mods/diagnostic-logging` | logs on the card | wraps the player and reboots when it ends |
| Firmware tools | `tools/r1fw.py` | the vendor's image, a root file system, a `.upt` container | unpack, extract, build, pack, with chunks, digests and time stamps |
| Patchers | `tools/patch_*.py`, `tools/retro_theme_*.py` | the files of the extracted root file system | apply, verify or `--check`, one tool after the other |
| Release gate | `tools/build-cfw-0.1.sh`, `tools/cfw_validate.py`, `tools/verify_cfw_validation.py` | a candidate, its evidence, `dist` | prepare, validate, publish |
| QEMU harness | `tools/cfw_validate.py` (`run_validation`), `tools/r1-qemu-ui`, `tools/r1-qemu-ssh`, `tools/run-r1-ui-qemu.sh` | the emulated player, its frames, the sidecar's record, a manifest | boots the player, touches, waits, compares frames, tries to log in |

### How they interact

* The hook and the player share an address space: the player's threads call
  `r1_cfw_ioctl` at any moment, one of them calls `cfw_callback`. The hook forks
  the sidecar, hands it an open framebuffer and touchscreen, waits for it, and
  reads its exit code. The sidecar draws on the same framebuffer the player has
  mapped.
* The sidecar calls `r1-ssh-control` and the configuration code. The same binary
  is run with `--launcher-set` and the like over SSH, at the same time.
* At boot `S90r1-cfw` reads what the configuration code wrote, with another
  parser, and binds what the build generated; then `S91dropbear` starts the SSH
  monitor; then the player starts.
* `build-cfw-0.1.sh` runs the firmware tools and the patchers over one tree, packs
  it, unpacks it again and verifies what comes out; `cfw_validate.py` boots that
  tree in QEMU and writes the manifest the gate reads.
* The harness touches the emulated player through FIFOs and sees its frame, the
  record the sidecar publishes, and the configuration files. It never learns what
  a touch met: it waits until something changes.
* R1 Manager sends commands to r1-filectl and files by SCP over the Dropbear the
  monitor keeps running.

### What is hard

| Where | Behaviour | Correct means |
|---|---|---|
| Hook | Rendering threads run through the begin and the end of a session; ten calls between capture and fork may fail; player or sidecar may die at any step | the player and the sidecar never both own the display; everything taken is given back, once, on every path |
| SSH | The monitor and any number of commands edit the same files in `/run` and the same two markers, without a lock; sleeps in between; process ids and a late pid file; crashes and power loss | Dropbear listens exactly where the switch and the gates say; the switch is never lost |
| r1-filectl | A command is killed between system calls; SCP is cut off or late | a file is in one place; nothing partial is published; what is in the trash can be restored |
| Configuration | No lock; two readers; kills and power loss | a whole, valid text, always; the screen shows it |
| Selector | A failing mount in the middle; running over an earlier run | all or nothing; the boot goes on |
| R1 Manager | Screen state that several threads copy and store whole; lost replies; one pending answer about a host key | the result shown is what happened on the device; nothing is replaced unasked; no command runs on a player nobody accepted |
| Firmware build | Tools run twice, by hand, over edited trees, killed in a file; every size of image; a container damaged where it is stored | what is accepted is complete and is what was packed; nothing an earlier run left spoils the next; no date of the build is in the container |
| QEMU harness | The guest goes on between any two looks at it; frames of a page on its way; records of the last session; a player that dies; waits that never come true; programs of the candidate that never return | it passes only what works, its pictures show what they say; it ends, unless a program it runs without a timeout does not |
| Release gate | Two pipelines and two validation runs, killed anywhere; an image that changes under a run | only a candidate that was tested is published |

PROJECT.json's "hazards" lists each of these at its line of code, with the
property that would notice it going wrong, or the reason none does.

## 2. The modules

    ConfFile ---- ConfStore (promise) <== CfwConfig (UI and commands)
        \              \
         \              `-- environment of -- ThemeMounts (boot selector) -- ThemeMountsProofs
    CfwHook (hook, sidecar process, player threads)
    CfwConfig, CfwHook -- SidecarProofs
    SshControl (monitor, commands, Dropbear) -- SshControlProofs
    FileStore (promise) <== FileCtl (r1-filectl, SCP) -- FileCtlProofs
    TransferManager (R1 Manager, the player as it sees it) -- TransferManagerProofs
    OtaContainer, RootfsPatch --- FirmwareBuild (the build) -- FirmwareBuildProofs
    LauncherLayout (masks and tiles) --- QemuGuest (device) --- QemuValidation (harness)
    QemuValidation -- QemuValidationProofs
    ReleaseGate (build, validator, gate)
    ReleaseGate, QemuValidationProofs -- ReleaseGateProofs

`<==` is a refinement that a run checks as a property: `CfwConfig` implements
`ConfStore` and `FileCtl` implements `FileStore`; both are also proved.
`FirmwareBuild` is composed of the container and the patchers, `QemuValidation` of
the guest and of the geometry of the launcher the guest draws. `ReleaseGate` takes a
build and a session as one step each; `FirmwareBuild` and `QemuValidation` are
what happens inside.
`ThemeMounts` is composed with `ConfStore`, the promise of the writers, instead
of with the writers themselves: what the selector may rely on is exactly what
`CfwConfig` is shown to give. Each `MC*` module only instantiates a module for
TLC. A definition with the comment "a variant" is a plausible mistake in the
definition that follows it; no specification uses it, the mutants of
PROJECT.json do.

### CfwHook

A thread's control point is `pc`; the callback's points follow `cfw_callback` and
`launch_ui` statement by statement (capture, begin, grab, transfer, dup, fork,
wait, restore, finish, release, regrab, clear), with a failing disjunct wherever
the code has an error path, and the path's own target (`LaunchFails` joins where
the `goto` does). The spin lock of `virtual_display` is not a variable: each
critical section is one action. The one ioctl that is forwarded after the lock
was dropped (line 225) is a step of its own, and so is the capture's read of the
offset; both turn out to matter. The child is at "forked" until
`prctl(PR_SET_PDEATHSIG)`, at "armed" until its check of `getppid`, then executes.
The kernel's grab, its pan and the death signal are external actions.

Pixels are abstracted to who drew a page, offsets to page numbers. The
installation of the callback word, which runs in a constructor before there is a
second thread, is not modelled.

The documents are not precise on what is restored: docs/launcher-research.md says
the original pan and mods/cfw-ui/README.md the active page, while the code
restores the last flip it knows the player made. The properties follow the code.
A flip between the capture's read and the begin, or one forwarded late, is not
known to it and is undone at the end of the session.

### SshControl

A shell process is a control point in `pc`, and `stop_server`, which sleeps, is
three steps with a return point. Each `touch`, `rm` and redirection is a step,
so that power may be lost between any two, and a command of another process
come between them: the script takes no lock, and the sidecar's row, Developer Options,
a shell and init may each run it. `Clis` are those processes; `Boot` is the one in which
init runs `start`. `migrate_legacy_state` is two steps, since a command may
touch a marker between its look and its touch. `overlapped` is a history variable: whether an enable and a disable have both touched their marker before
either removed the other's. The three tests of `configured_enabled` are one step.
Dropbear is external, with what the
script relies on: it binds its address, goes into the background and writes its
pid file later, in a step of its own, and it may die. `rotate_log` and `status`
are left out, as no property looks at what they write.

### FileCtl and FileStore

The lock makes commands exclude one another, not atomic: `job` is the command in
progress, and each system call that changes the card is a step, with a failing
variant and with `GiveUp`, which is a failure without rollback, a kill, or a
power loss after which the lock is gone and the files are as they were. The
directory operations are assumed to reach the card in order. A library file is
opaque: a song or a whole folder that one rename moves. SCP writes a staged file
without the lock, at any time before the commit, and may deliver too few bytes or too many.
Reading commands, path decoding and JSON are not modelled, since they change
nothing; nor is the check of free space, which reserves nothing. `FileStore` is
the same service as R1 Manager sees it: a library, a bin with the way back, and
commands that happened or did not.

### ConfFile, ConfStore and CfwConfig

`ConfFile` has the two files as their readers see them. The C code accepts one
exact line, the selector's sed script any text with one matching line; a mask is
the set of its tiles, so the properties do not depend on bit numbers.
`ConfStore` is what the directory promises, power loss included. `CfwConfig` has
the processes that write it: loading a broken file saves the default
(`LoadBroken`, then the steps of `atomic_write_config`), a change loads first, a
save is write-and-flush, rename, flush of the directory. The temporary file is
private to its process, so opening, writing, flushing and closing it is one step.
A text that was renamed without having been flushed may come back as garbage
after a power loss; that never happens to this code, and does to its mutant.
The four pages that only show information behave as the main page. The refusals
EPERM, ENOSPC and ERANGE are one, as all leave the file and the page alone.

### ThemeMounts

Each place of the firmware that is mounted over has a stack of layers, a layer
being a tree and the views mounted on the launcher file in it, so that nested
mounts, mounts over mounts, and binds of what another bind shows all come out as
the kernel has them. The transaction is one bind per step, with failure at each,
`unmount_all` is one step (nobody else mounts), and each `unmount_one` is
refused where something is mounted inside or the player has a file open.

### TransferManager

Four threads share the view model: the taps on main, the upload queue, a download,
a directory refresh. `_state.value = _state.value.copy(...)` reads the state and
later writes the whole of it, from any of them, so `Publish` is one step or is
torn, and then its `Store` overwrites what the others wrote in between. There is
one `trustDecision`, one `trustRequest` and one `activeTransferId` for all of
them, as in the code; a thread's `th` record holds its position, its local
variables and the deferred it waits on.

Every remote call is a connection of its own that compares the player's key with
the pin the block read when it began. It may be refused, break before the command
runs, or, where the command changes the player, lose the reply. A ticket's SCP,
`upload-status` and `upload-commit` are one step up to the commit, as they only
touch the staged file; so are the reads of a block. The player itself is what
`FileStore` promises of one place: a commit happens whole or not.

`cancelTransfer` has no caller and is left out, which keeps `isTransferActive`
true of what is still to do. Also left out: file commands and the trash page
(each is one call in `launchRemote`, like the refresh), planning a batch (it runs
before the queue), the profile editor and a second profile.

### OtaContainer, RootfsPatch and FirmwareBuild

`OtaContainer` packs and unpacks. An image is a sequence of bytes, a digest is the
bytes it is taken of, and a file of the container is a record of what its name
and its content say. The chain of digests in the chunk names, the manifests, the
metadata and every check of `unpack` are operators; so is the walk of
`normalize_iso_rock_ridge_timestamps` over the directories and continuation areas of the ISO,
where the time stamps are. It is a recursive function on the number of steps, not
an operator, so that theorems can be stated over it.

`RootfsPatch` has the patchers. Every file of the tree has one of six contents,
as far as a tool tells them apart, and a tool is what it takes, what it plans to
write and what its verification asks. `FirmwareBuild` runs them: `RunTool` plans
from the tree as it is, `WriteFile` writes one planned file (through a temporary
one, where the tool does that), `Recheck` and `FinishTool` are the tool's own
verification, and `InstallTheme` is the theme directory that is replaced as a whole. Any tool
may be run by hand, any step be killed, any file be edited and any single part
of the stored container be damaged, up to `MaxEvents`. `script.quiet` says that
nobody interfered with the current run.

`done` holds the tools that reported success over a tree nobody has written to
since. It is history, for `ApplyAgreesWithCheck`. The contents of the drawn files
(icons, theme, the SSH patch's machine code) are not modelled: a generated file
is there, is not, or is broken.

A `pack` that is killed leaves a candidate whose time stamps are not normalised
yet, and `publish` accepts it, as its verification looks at contents only
(README.md:36 and docs/cfw-guide.md:344 say of builds that they are
reproducible). `PackedIsReproducible` is therefore about `prepare`.

### LauncherLayout, QemuGuest and QemuValidation

`LauncherLayout` is the geometry `patch_r1_launcher.py` generates, with the real
numbers: tiles, masks, rectangles. `QemuGuest` is the device as a harness sees it:
the shown frame, `cfw-state.bin`, the files of a runtime directory, the touches
in the FIFOs. The stock player is not in the repository; its pages and the points
that lead to them are those of the harness's own plan. `CfwHook` has the
hand-over call by call; here the sidecar has ended, the frame is restored, the
grab is released, the page of the route opens, in the code's order and with the
harness looking in between. `fbshim.c` drains the touch queue when the grab is
released: `TouchIsLost` is a touch that came too early.

A candidate is a set of *flaws*, each one thing a build can do wrong: a dead tile, a mask that
is forgotten, an SSH switch that does not persist, a frame that is not restored
(`Flaws` lists the 28). What the flaws do is in the guest's actions. `GuestInit` chooses the candidate, and the
harness cannot see the choice.

`QemuValidation` is the program. `run_validation` is straight-line code, so `Script` is
the list of its steps, put together by one operator per Python function
(`ValidateStock`, `ValidateCandidateDefault`, ...), and an action is what a step of one kind does:
`WaitFrame`, `WaitForRecord`, `InjectTouch`, `KeepEvidence`, ... A step waits until its
condition is true, `Expire` is its deadline, `FailStep` a comparison that does not
hold or a player that is gone. `Escape` is an error of the navigator: a RuntimeError that
`run_validation` does not catch, after which the manifest says RUNNING for ever.
`RunController` is a program of the candidate under user emulation (r1-ssh-control, `dropbear -V`,
`dropbearkey`), which the harness runs without a timeout: it may never return, and has no `Expire`.
The actions of the guest interleave with all of them.

What is simplified: a page is drawn in one flip, the player shows no dialog it is
not asked for, and `inject_touch`, which succeeds when one of several endpoints
took the touch, has one endpoint. The runner rewrites `launcher.conf`
before it boots, so the session on the default mask tests the runner's
normalisation and not the boot-time selector's; the same is so in the code.

### ReleaseGate

A firmware, and every file made from it, is a version of the sources, since the
build is deterministic and digests are compared; a file that somebody has not
finished is `Partial`. A pipeline is one invocation of `build-cfw-0.1.sh`, at the
command it is in: build, pack, the stages of `verify_candidate`, the gate, copy,
compare, move. Its lock is an `flock` on a descriptor that every command
inherits. So a script that was killed alone (`Kill`) still holds the lock through
the command it was in, which finishes; `Goto` then ends the pipeline instead of
going on. `Exit` is a check that fails, `Stop` a tool that fails or a signal to
the whole group.

A run of `cfw_validate.py` takes no lock. It hashes the unpacked image, extracts
it, executes its sessions on that tree (one step, with what it records), hashes
the image again, and replaces the featured screenshots one by one before it
writes PASS. What its manifest says is what `run` recorded; `manifest` says whose
it is. The pictures of two runs are taken to differ. The gate compares the
manifest with the image, the SSH components of the run's tree with those of the
image (`Ssh` maps a version to its components), and the pictures with the
manifest. The fields inside each check and log, and the adapters of QEMU, are
one condition each.

`swaps` counts how often the image changed under a run that reads it. It is
history, for `PublishedTested` alone: an image that becomes another version and
then the first one again lets a run that executed the other one pass for the
first, as both hashes agree. docs/cfw-guide.md:373 says that the second hash
keeps a candidate "changed during the run" from inheriting its evidence; the
property says how far that is so. Publishing an untested version takes two
complete verifications during one run, and equal SSH components.

## 3. The runs

| Run | Instance | Shows |
|---|---|---|
| `hook` | 2 threads, 2 pages | three invariants for the session, the sidecar and the touchscreen; three action properties about what the player's threads may lose; two liveness properties |
| `ssh_switch` | 2 command processes with `disable`, `toggle` and `restart`, 1 monitor, 1 address, 1 process id | types, and the switch keeps a marker unless an enable and a disable overlap |
| `ssh_follow` | 2 command processes with `enable` only, 2 addresses, 4 process ids | Dropbear follows the gates and the address, for ever, and the address file is right |
| `ssh_orphan` | `disable` only | counterexample to a sentence of the README of ssh-dropbear |
| `filectl` | 3 places in 2 folders, 2 songs, 2 identifiers | whole files only, a trash that can be restored, nothing lost without being asked for, and `FileStore` |
| `config` | 3 tiles, 2 themes, 2 processes | `ConfStore`, the page against the file, and taps that flip what was seen |
| `theme_mounts` | 2 tiles, 4 themes | all or nothing, the two parsers agree, and the boot goes on |
| `transfers` | 2 uploads to one destination, a download or a refresh | true results, one publication, nothing replaced unasked, accepted players only, leaked tickets |
| `trust_lost` | the same | counterexample to the queue that resumes after an approval |
| `release` | 2 pipelines, 2 validation runs, 3 versions, 2 events | one workspace at a time, evidence of one run, only what was tested is published |
| `firmware` | images of 3 to 5 bytes in chunks of 2, an ISO of 5 areas, 13 patched and generated files, 2 events | a complete tree and the vendor's kernel in whatever is accepted, no refusal of its own work, truthful unpacking, apply against verify, no build time |
| `qemu` | 5 runtime directories, the 8 parts of a validation, candidates with 0, 1 or 2 of 28 flaws | only a flawless candidate passes, pictures show what they say, every run ends or is in a program without a timeout |

Why the bounds are enough to meet the interesting cases:

* Hook: the second thread is needed for the late pan and for a second tap during
  a session; a third adds only more of the same, and the safety properties are
  proved for any number. Two pages are the least the code accepts.
* SSH: two command processes are what an overlap takes. With `toggle` and `restart`
  the steps of `enable`, `start` and `stop` occur too, each alone and against every
  other; all six commands in two processes, or a second monitor, are out of TLC's
  reach (more than ten million states). `ssh_switch` is about the markers and
  about `stop_server`'s bookkeeping, for which one process id is enough;
  both its properties are proved for any number of monitors, commands and process ids.
  `NoCard` leaves out its states with the recovery card, which changes no marker.
  `ssh_follow` is about one monitor and `enable`. The wrong file is removed with two Dropbears, one
  of them dying; its four process ids allow a third and a fourth. Its invariant is
  proved for any number of monitors and for every command the user
  interface's switch has.
* r1-filectl: two identifiers give two trash items, two uploads or one of each;
  the second folder and the second name are what conflict policies need. `FewFiles`
  keeps at most two files or private directories in play at a time: every command
  works on one of each, and a conflict needs one more.
* Configuration: with masks of two or three tiles out of three, the lower limit
  refuses. The upper one is not met, as there are no more tiles; it is one more
  conjunct of the same test, and the proofs cover it. `Bounded` keeps one file in play at a time (the
  two share only the sequence of loads), one change of it not flushed, and stops
  after a leftover temporary file, which only makes later saves fail.
* Selector: two tiles give two masks that have views and two that do not.
  `OneUnflushed` allows one change that is not on disk yet, and none while the
  script runs by hand; the player keeps files open at one place at a time; the
  script is not run by hand again after an umount was refused, because layers
  then pile up without end and nothing is promised.

* R1 Manager: the second upload finds the first at its destination, which is what
  the conflict policies are about. `Asking` explores the batches with ASK: its
  dialog leads to each of the other policies. `OneCompanion` lets either a
  download or a refresh run beside the batch: two threads suffice for a state
  update to be lost or an answer to reach the wrong one. `FewEvents` allows two
  things out of a torn update, a failed call, a new host key, an answer about one,
  and somebody else's file at the destination, and one of them beside a refresh,
  which does less than a download; the runs' mutants need no more, nor does the
  counterexample.

* Release gate: three versions, two of which have the same SSH components, so
  that the gate's comparison with the run's tree may and may not notice the
  wrong one. `MaxEvents` allows two edits, foreign candidates, signals or failures.
  `FewEvents` goes on with a second validation run only where none of them
  happened: what two runs do to one another needs no fault, and what a change does
  to a run needs one run. The proofs have no such bounds.

* Firmware: with chunks of two bytes, images of three to five bytes have two or
  three chunks, with and without a short last one, and the largest exceeds the
  limit. The ISO has a root directory that continues in an area of its own and
  leads to a directory that continues twice, which is the least for a
  continuation of a continuation. Every kind of file a tool treats differently
  occurs, twice where the tool writes several files one after the other and
  verifies them together. Two events are, for example, a kill and an edit, or two
  damages of one container.

* QEMU: the script is the whole validation, without a bound. 28 flaws, of
  which two may occur together: the harness never counts, and a third could only hide
  another where two do not. The guest has at most the touches the script injects.

Deadlock is checked in every run but those of `TransferManager`, where a
coroutine may really wait for ever (`trust_lost`) and where everything ends, and
`qemu`, where the program ends. It
says little where the power may be lost in every state; what must go on is stated
as liveness.

### Fairness

* Hook: code that runs goes on running (weak fairness of the callback's, the
  child's and the sidecar's steps, of the reaper of an orphan), and the device
  reboots after its player died. No fairness for taps, for the sidecar's user or
  for any fault. A user who never leaves the sidecar keeps the session, so
  `LaunchConcludes` asks for an end or for a sidecar at work.
* SSH: the monitor's and each command process's steps are weakly fair, their sleeps are
  bounded; a Dropbear that was started writes its pid file and one that was
  signalled ends. Starting Dropbear is strongly fair: its key generation may fail
  and be tried again, five seconds later, but not for ever. The five seconds also
  outlast the start of Dropbear, which `MonitorWakes` requires. Nothing is
  assumed of the user, the Wi-Fi or the power; the liveness properties speak of
  what stays wanted for ever.
* QEMU: weak fairness of the program's next step and of the clock (`Expire`).
  Nothing is expected of the guest: it may be stuck, slow or gone. Neither is anything
  of a program of the candidate that `subprocess.run` waits for without a timeout
  (`AtStep({"control"})`): its return has no fairness. `Concludes` is then
  exactly that a run ends or stays in such a program: every other wait has a
  deadline and every other step goes on or raises.
* `FirmwareBuild` and `ReleaseGate` state no liveness: the script is started by a
  person, and what it must do when nobody interferes is the invariant
  `QuietPrepareSucceeds`.
* `TransferManager` states no liveness: an answer the queue waits for may never
  come, and may never reach it.
* Selector: a shell script runs on and init starts the next one. Power may be
  lost again and again, and `BootCompletes` says so.

## 4. The proofs

`SidecarProofs` proves every safety property of `CfwHook` for any finite set of
threads and any number of pages. The properties are not inductive by
themselves: that the sidecar is contained depends on what each control point of
the callback has taken so far. `SessionInv` says so. Where the (only) session is,
which `Phase` names, determines whether the touchscreen is taken, which pixels
are on the pages, whether the snapshot is valid and whether there is a child
(`ControlInv`, `TouchInv`, `PixelInv`, `SidecarInv`). One lemma per step of the
callback, one for all the others, and `SessionInvariant` combines them. From it
follow `DisplayOwnership`, `SidecarContainment`, `HandBack`, `CleanHandBack`,
`CoherenceLoss` and `TruthfulReadBack`. `FewLeaks` needs a second invariant,
`LeakInv`: the flips that have leaked and the threads still about to leak one
are together fewer than the threads; its steps are lemmas about cardinality.

The same module proves everything the run `config` checks, for any finite set of
processes and any tiles, limits and themes. `SaveInv` gives the refinement
(`ImplementsStore`): whatever way a value takes to a save (a tap, a command, the
default of a broken file) it is one the firmware can show, and what is renamed has
been flushed; then `Rename` is the store's `Save`, `Flush` its `Flush` or nothing,
`PowerLoss` the same. `ScreenInv` says for each point of the UI's task why a row of
its screen is true: the file is still to be loaded (`Pending`), a save is due to be
taken over (`Due`), or it shows already; and why healing a broken file changes nothing for
its reader (`HealOK`). `CommandKeeps` and `UiKeeps` are the two frames all
actions are reduced to. `ScreenMirrorsFile` and `TapsFlipRows` follow.

`FileCtlProofs` proves, for any card, any number of commands and any size,
that `FileCtl` implements `FileStore` (`ImplementsFileStore`), and the
invariants and the action property of its run. `CardInv` is
the inductive invariant: what each step of a command may rely on is what the
steps before it left, whoever was killed in between. The refinement has one
lemma per kind of step: which step of `FileStore` it is, or that it is none.

`TransferManagerProofs` proves `ApprovedPlayerOnly` for any batch and any number
of host keys, faults and torn updates. `PinInv` follows a pin along the ways it
reaches a call: from the screen, from the block that read it, and from the copy
of a torn update, which may bring back a pin that was reset but none that was
never accepted. The rest of it types what these steps read. `GoKeeps` and
`PublishKeeps` are the two ways a thread moves on; a step's proof says which of
the two it is, and `AcceptTrust` is the only one where a pin enters.

`QueueInv` proves the other four invariants of the queue. None of them is inductive:
what the list shows of an upload, the pending answer, the ticket and the file on
the player change in different steps of different threads, and a torn update
may store a screen that is older than all of them. Three ideas make it so. An
upload is pending until the one step in which the player publishes or skips it, and a
thread's position says which upload of the batch is (`UploadOK`, `ThreadAt`). A screen
that calls an upload finished was made after that step, and nothing undoes it, so the copy
that a thread still holds (`StoresOK`, `ScreensOK`) is as true as the screen
itself. And tickets left on the card are counted against the broken
connections and the keys the player has had, with the pin of the thread's
own ticket in between (`StagedOK`). `ResultsAreTrue`, `PublishedAtMostOnce`,
`ReplacedOnlyAsked` and `LeaksExplained` are its parts.

`ReleaseGateProofs` proves the four invariants of `ReleaseGate`, for any number of
pipelines, runs, versions and faults. `LockInv` comes first: at most one pipeline
is not idle (`Exclusive`), and at each of its control points the workspace
still has what the earlier ones put there (`Holds`), which gives `OneLifecycle`.
`GateInv` follows the evidence: whether the tree a run executes is the image it hashed (`RunInv`),
that a PASS belongs to a run that passed (`ManifestInv`), and what a pipeline that
passed the gate knows of the run it named (`Knows`). `OutputStep` then reduces
`PublishedTested` to the one step that publishes.

`QemuValidationProofs` and the second half of `ReleaseGateProofs` are about the QEMU
harness: a run that passed has every check and picture of a release on record
(`PassAlwaysHasEvidence`, with `FinishAlwaysPasses`), and the candidate works
(`PassAlwaysWorking`), whatever combination of the 28 flaws it might have had and
however guest and harness interleave. The argument has three parts.

*The script.* It is typed and taken apart: `Yields` says what a block records, promotes
and saves, one lemma per Python function, so that `KeptAll` knows what the whole
leaves; `PartOf` says where a block stands in it. `EvidenceInv` then says that what is on
record is what the steps so far put there.

*One step's flaws.* For fifteen flaws (those of the SSH trials and the controller,
of the crash, a dead page, a drag that taps, masks and markers that are not written) an
invariant follows the guest from the step that provokes the flaw to the step that
shows it, and `Past` says that a run beyond that step has none of it. Together they are
`WatchInv`, from which `PassAlwaysDetected` follows.

*What the harness may take for granted.* The rest depends on all the steps before: a
seventh tile is refused only if six are chosen, and the harness knows neither the
guest's position nor which flaw is at work. An *expectation* is what the session, the
disk, the sidecar's screen and the frames held look like at a step (`Meets`), and
allows all that the guest may do meanwhile: `MeetsGuest` shows that the guest's own steps
keep it. `Leads` says which expectation a step leads to, `LeadsMeets` that it does;
a step that would show a flaw the candidate has leads to `Never`, as the harness
cannot go on. `Goes` and `Tests` lift this to blocks, again one lemma per
function, and `GoesScript` is the whole script. Of the sessions whose
flaws are found already nothing is expected (`Loose`). `Plan` is an
expectation for every step, `MeetsInv` that the current one is met, and a run that ends
its script has met the last, which is not `Never`.

`SshControlProofs` proves the types of the controller, `stop_server`'s bookkeeping
included, and that the switch loses its markers only to an overlap (`MarkersKept`), for any number of
monitors, command processes, addresses and process ids. `MarkerInv` is what makes the second inductive:
where no overlap is noted, there is none, and a command between its `touch` and its `rm`
still finds the marker it touched.
`BoundIpAlwaysTruthful` is about the switch of the user interface, which knows
`enable`, `disable` and `toggle` (`SwitchOnly`). `TruthInv` then has at most one monitor
(`OneMonitor`) and says what that monitor knows of the Dropbear it started until
the pid file is there (`Follows`). The hypothesis is needed: after a
`restart`, a Dropbear of the old monitor that is slow to write its pid file may do so when
the new monitor has written another address, and a `start` before the first monitor
noted its pid gives a second one. TLC finds either. Under `SwitchOnly` nobody but `Boot` runs
`start`. The run `ssh_follow` satisfies it.

`FirmwareBuildProofs` proves for images of any size, any chunk size and any ISO that
unpacking is truthful (`AlwaysUnpackTruthful`) and that what the script accepts is
complete (`AlwaysAcceptedIsComplete`), with any number of kills, edits and damages.
No damage changes the digest in a manifest's name (`ManifestsNamed`), and `unpack`
compares the joined chunks with that digest. After the verdict only the stored candidate
can change (`Settled`).

Three more theorems are about the script and its tools. `ApplyAlwaysAgrees` rests on
`ToolInv`: while a tool that nobody disturbs runs, each file is as the tool found it or as it
planned it from what it found, so that when nothing is left to write the tree is the plan
applied to what was found (`QuietTool`), and that the tool's own check accepts the result is a
lemma about plans and checks alone, one for each patcher. It holds for every tree a
tool may find, half-patched ones included. `PackedAlwaysReproducible` rests on
`Dated`: from packing on, the time stamps of all directories and the dates of all manifests are
the epoch; that the walk over the ISO reaches every area is `ReachedAssumption`.
`QuietPreparesSucceed` rests on `QuietInv`: without a disturbance the tree between two
stages is one known tree per stage (`TreeBefore`), whatever was there before the script
emptied it, and each tool takes the tree the one before it leaves. Its hypothesis
`RoundTrips` says that a finished image survives the container. The container's chunking
is a computation over data (sorting manifests, joining chunks), about which an
induction would be needed; TLC evaluates `RoundTrips` for the run's constants.

`ThemeMountsProofs` proves the safety properties of the boot-time selector for any tiles and
limits of a mask. `Inv` says that while a plan is applied, what is mounted is a
function of the plan and of how many binds are left (`Reached`), and
otherwise what the last transaction left (`Rested`); and that what is
mounted is at every place little enough for one `unmount_all` to take away
(`Removable`), which is why a failed bind, a reload or a stop ends with the stock
resources showing (`StockIsExposed`). `AppliedIsWhole` is `Reached` with nothing
left. `SavedTaken` needs `PlanInv`: at boot nobody writes between the two reads and
the validation. The kernel's refusal of an `umount` ends the promise, in the
invariant as in the properties.

The same module proves two theorems of `LauncherLayout`, about every safe mask and every point
of the screen: no touch falls on two tiles (`TilesNeverOverlap`), and every tile of a
layout that is not scrolled lies in the view (`TilesInView`).

The theorems assume what the modules' ASSUMEs say of the constants, each
evaluated by TLC in the runs: the names of things differ (in particular nothing else is
`None`, and no monitor is a command process), one of the command processes is `Boot`, the sets of threads, processes, pages and ISO areas are finite, the first and the
last two not empty, a song has a size, the default mask is one the firmware can
show, the harness's runtime directories are there and its candidates have flaws out
of `Flaws`, no file is both a brand's and the player's or both patched and generated, the
markers of an unfinished retro theme are no themes, and every area of the ISO is
reached from its root. Two theorems have a hypothesis of their own, named in
their statement: `SwitchOnly` and `RoundTrips`.

Type invariants of modules with a proof are proved (`TypeCorrect`) rather than run,
except where the proof does not state one.

Only model-checked:

* every liveness property (`LaunchConcludes`, `OrphanGone`, `Rebinds`,
  `ListensOnlyWhenAllowed`, `BootCompletes`, `ResumesAfterApproval`, `Concludes`):
  fairness and ENABLED are beyond the prover;
* `ShotsTruthful` of `QemuValidation`, what the pictures show. TLC explores the whole
  script with no flaw, with each one and with each pair;
* `RoundTrips`, for the images, the chunks and the ISO of the run `firmware`.

## 5. Where the code disagrees with its documentation

Shown by runs:

1. `disable` can leave a Dropbear that nobody can stop: it removes the pid file
   of the one the monitor has just started (`ssh_orphan`).
2. A refresh or a download that meets an unknown host key while the upload queue
   waits for an approval takes over the only `trustDecision`: the queue waits for
   ever and every later batch is refused as busy (`trust_lost`).

Found the same way, without a run of their own:

3. An `enable` and a `disable` that overlap can leave the switch without a marker, and
   a host key then reads as "on": touch `disabled` (71), touch `enabled` (63), rm
   `disabled` (65), rm `enabled` (73). The comment of `configured_enabled` takes
   that state for one only an older image leaves. `SshControl` with two `Clis` and
   `Commands = {"enable", "disable"}` under `Spec` refutes `MarkerNeverLost`; the run
   `ssh_switch` and the theorem `MarkersKept` show that nothing else loses them.
4. `S91dropbear restart` can leave no monitor: `stop` does not wait for the old
   one to end, and `start` takes it for alive. `SshControl` with one of `Clis` and
   `Commands = {"restart"}` under `FairSpec` refutes `RebindsAtRest`, although
   mods/ssh-dropbear/README.md:11 has the monitor stop or rebind Dropbear when a condition changes.
5. A launcher mask like the legacy `7f` makes the selector reject the whole
   transaction (`validate_plan`) instead of falling back to the default, as
   docs/cfw-guide.md:296 has it. The QEMU harness does not meet it, as the runner
   rewrites the file before the script runs.

Seen in the models and not claimed by any document:

* A finished upload may stay shown as running, when another thread stores an older
  copy of the screen (this is why `ShownResultIsTrue` speaks only of final states),
  and a conflict dialog that such a store brings back may give its answer to the
  next file of the queue.
* The validator's picture of the stock wireless page may be the launcher: its
  `wait_change` after a tap on the Wi-Fi row (`cfw_validate.py:1676`) is satisfied
  by the launcher that the hand-over restores, so a route that leads nowhere
  passes. `ShotsTruthful` leaves out the two labels (`Unsaid`) and `PassMeansWorking`
  the one flaw, `route_ignored`; with either put in, TLC finds a validation that passes.
* A good candidate can fail: a touch between the restored frame and the release of the grab is
  drained with the sidecar's, and the harness waits for its effect in vain.
* A validation can hang for ever: `r1-ssh-control` (`cfw_validate.py:1138` and 1309), `dropbear -V`
  (1186) and `dropbearkey` (1214) of the candidate are run without a timeout.
  `Concludes` says that this is the only way.
* Two stock tiles that are exchanged are not detected by frames alone; the
  validator never opens the appearance page.

## 6. Not modelled

Hazards that no property covers, besides the wireless pictures of section 5: with neither marker, the legacy rule of
`r1-ssh-control` (line 48) reads a host key as "on", so booting with the recovery
card, which makes a key, turns the switch on for later; each `upload-prepare`
checks the free space alone (`r1_filectl.c:1106`); of two `launcher_set` that
load before either saves, the later one wins (`r1_cfw_data.c:217`), which `ConfStore`
allows, as it allows a load that finds a broken file to write the default over a value saved
meanwhile (`r1_cfw_data.c:157`); a program other than r1-filectl may create a name between
the check and the rename of the fallback of `rename_noreplace` (`r1_filectl.c:437`), since the model has no
other writer of the library; an SCP that is still writing when `upload-commit` runs is
assumed away, as R1 Manager commits after it; an answer to a
conflict dialog that reaches another file of the batch, and a pin the user forgot that
an older screen brings back (`R1ManagerViewModel.kt:560`, 859), are permitted; a manifest that
says RUNNING after its run died (`navigate.py:549`) and a touch that is drained
(`fbshim.c:992`) fail a validation and pass none; and layers pile up where an `umount` is refused while the player has a
file open (`S90r1-cfw:60`), after which `ThemeMounts` promises nothing.

Left out of modelled components, with the reason:

* the harness's own smoke plan (`navigate.py`'s command line), the HTTP viewer of
  `bridge.py`, the profile editor `userdata.py`, the `sys_server` stub and the relay of
  the SSH trials: tools for people, and pipes that move bytes;
* `r1ui.py` (a resource editor), the drawing of icons and of the retro theme, the
  machine code of the SSH patch: data, of which the models know that it is there;
* `inspect-kernel`, `install-splash`, `export-assets` of `r1fw.py`: conversions of single files;
* the sidecar's gesture recogniser and drawing, the information pages;
* file commands, trash page and profile editor of R1 Manager: each is one call of
  `launchRemote`, like the refresh that is modelled; its SCP, encryption and JSON;
* the installation of the hook's callback word, which runs before there is a second
  thread; the log sink of diagnostic logging;
* the protocols of Dropbear, SCP and the kernel, of which only what the code relies
  on is modelled.

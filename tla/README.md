# A verification project for PRP

PRP (the Peacock Recovery Project) is the recovery environment of PeacockOS: an
initramfs and a small root file system with a framebuffer GUI (`gui/`, C on
LVGL), an on-device installer (`prp-install`, shell), the first-boot OOBE wizard
that shares the GUI code, and the shell tools that find partitions, bring up
Wi-Fi and start services. This directory holds TLA+ models of that code, the TLC
runs that check them, and TLAPS proofs about them.

## 1. Inventory

Everything the GUI does runs on one thread, LVGL's: callbacks and timers run to
completion, one after the other. What is concurrent are the *processes* the GUI
forks (prp-install, prp-net, ftr, reboot commands), which talk back through a
pipe or a status file and outlive the page that started them.

| Component | Source | State | Operations | Interacts through |
|---|---|---|---|---|
| Installer | `prp-install`, `prp-install-bootloader` | step reached, mounts, loop device, contents of the target | six steps, `fail`, EXIT trap | stdout pipe to the wizard; children inherit the pipe |
| Install wizard | `gui/prp_wizard.c` | page, timer, pipe fd, pid | Next/Back, start, poll, finish, close | fork/exec, pipe, `waitpid`/`kill` |
| Wi-Fi page | `gui/prp_net_ui.c`, `prp-net` | overlay, poll timers and counts, `connected`, status text | scan, connect, close, reopen | two fixed files in `/tmp` |
| Blueprints | `gui/blueprint.c`, `gui/bp_verify.c` | stages, answers store, downloaded files | load, order, answers, expand, `when`, validate, run action, fetch and verify | TOML files, `wget`, shell hooks |
| OOBE wizard | `gui/oobe_wizard.c`, `oobe_sdl.c` | page, blueprint, answers, pipe | pages, apply, poll, finish | blueprints, `peacock-oobe --apply` |
| Main GUI | `gui/prp_gui.c`, `gui/prp_ui.c` | running job, log text, settings, power-key timer | start job, poll, reboot, log append | pipe, evdev |
| Input devices | `gui/prp_gui.c` | touch device, power key | score, pick, attach late | `/dev/input/event*` |
| Framebuffer | `gui/prp_fbdev.c` | mapping, geometry | flush, scale, clip | `/dev/fb0` |
| Boot sequence | `initramfs/rootfs/init`, `init_stub.c` | mounts, module state, chosen root | mount, find root, USB gadget, switch_root | kernel |
| Partition tools | `subparts-mount.sh`, `prp-targets`, `prp-boot-target` | loop devices, candidate lists | scan, attach, choose slot | `/dev`, `/proc/cmdline` |
| Firmware runtime | `firmware-runtime.sh` | copied blobs | stage, reload | sysfs |
| Overlay services | `overlay/rootfs/usr/bin/*` | dropbear pid, phoenix flag | start/stop/status, clear | pid files, partitions |
| Host tooling | `scripts/*.sh` | build trees | build, flash | host only |

Hard behaviours: a child's output taken for its parent's; a verdict racing the
end of file; a process killed by SIGPIPE, which skips the shell's EXIT trap; a
retry racing the cleanup of the failed run; unsynced data at a power loss;
results of an older Wi-Fi request read as the newer one's; timeouts shorter than
the work they bound; caps that silently drop (log buffer, stage lists, order);
one write of several failing unnoticed; bytes of a pipe cut into lines; two
downloads that must belong together; text taken apart by character; devices that
come and go while they are looked for. PROJECT.json lists each at its line
under `hazards`.

What makes each component correct:

- *Installer and wizard*: success is announced only for a system that is on the
  flash, failure only for one that is not; every install ends on a page with a
  way out; the installer is never cut off; what it mounted it unmounts; the
  container is bootable only when complete.
- *Wi-Fi page*: the status shown answers the request made last, not one before it,
  and an "ok" rests on an address of the new network; the page does not stay "busy".
- *Blueprints and OOBE wizard*: a stage comes after the stages it `requires`, no
  stage twice, only those that cannot be placed are missing; the pages behind the
  user are answered as they would be asked now; passwords stay out of the answers
  file; what is applied is what was confirmed; the verdict shown is the child's.
- *Main GUI*: one job at a time, its end is noticed and not before its output was
  shown, a reboot cuts nothing off, the UI gets its turns, the power menu comes for
  a long press and only for that, the log keeps the newest text within its bounds.
- *Blueprint files*: only a file with its own signature is used, and one fetched in
  this call; the answers are replaced as a whole; `when`, templates and the answers
  file mean what they say.
- *Line readers*: a line arrives once, whole and in order, wherever a read ends.
- *Screen and input*: each pixel is written where it is shown, a touch goes to the
  pixel under it, a touch device that comes late is found, the power key is a power
  key, the partition installed to is the one picked.
- *Partition tools*: each mount point shows its own file system, success means a
  readable root, a failure takes away only what was made for it.

## 2. Modules

| Module | Role |
|---|---|
| `InstallPipe` | the pipe between wizard and installer: unread verdict lines per run, the one read end |
| `PrpInstall` | prp-install and its bootloader hook, step by step, over `InstallPipe` |
| `PrpWizard` | prp_wizard.c: pages, child, poll timer, over `InstallPipe` |
| `InstallSession` | the two composed, with power loss; the properties |
| `InstallInvariant` | the inductive invariants behind the session's properties |
| `InstallPromise` | abstract specification of a session |
| `MCInstallSession` | the refinement mapping to `InstallPromise`, root of the session's runs |
| `PrpNet` | prp-net's processes, their two files, the radio |
| `NetUi` | the Wi-Fi page over `PrpNet` |
| `PhaseOrder` | bp_phase_order as a loop, with what a page order should be |
| `OobeWizard` | oobe_wizard.c and its child, over `PhaseOrder` |
| `MCOobe` | the blueprints of the OOBE runs |
| `UiLog` | the log buffer of prp_ui.c |
| `PowerKey` | power_key_poll of prp_gui.c, the key and its device |
| `GuiJob` | start_cmd, job_poll and the shells they run |
| `RecoveryGui` | the main loop: the three composed |
| `SubMount` | mount_subparts of subparts-mount.sh over the kernel's block devices |
| `LineChannel` | abstract specification: a channel of whole lines with verdicts |
| `LineReader` | install_poll and apply_poll, byte by byte |
| `MCLineReader` | the refinement mapping to `LineChannel` |
| `BlueprintFiles` | the signed files and the answers file of blueprint.c, their callers, the mirror |
| `Expressions` | `when` and `${key}`, as operators |
| `AnswersSyntax` | an answer through bp_answers_save and the TOML parser, as operators |
| `Panel` | the flush of prp_fbdev.c and the touch transformation, as operators |
| `Choices` | the list of partitions, the pick, the installer's first word, as operators |
| `MCAlgorithms` | each of these operators called once, with what its result should be |
| `InputDevices`, `MCInputDevices` | the choice of touch device and power key over nodes that come and go |
| `*_proofs` | TLAPS proofs: `InstallSession`, `NetUi`, `OobeWizard` (with `PhaseOrder`), `RecoveryGui` (with `InputDevices`), `SubMount`, `LineReader` (with its refinement), `BlueprintFiles`, `Algorithms` (`MCAlgorithms` and its operators) |

Each module holds, before the definition it alters, the mutants that show that a
property can be broken (commented "mutant of"); nothing else uses them.

### The install session

State and code. `pc[r]` is the line of prp-install that run `r` has reached; a
run is one fork, so a retry is a new run with a pipe of its own. `out[r]` holds
the DONE/ERROR lines not yet read (STEP, PROGRESS and LOG only redraw), `fd` is
`W.install_fd`, `ui` is `W.step` (or "closed"), `timer` is `W.prog_timer` with
its callback, `pid` is `W.install_pid`, `failed` says that the "Back to
recovery" button is up. `mounts` is the stack of mounts below
`/mnt/peacock-target`: a mount point can be mounted over, and `umount` takes the
top layer. The container's contents are five items (`base`, `flavor`,
`assembled`, `extlinux`, `creds`) which are `written` once in a mounted file
system and `durable` once a sync covered them. `refused` is a ghost: the runs of
which the kernel kept a mount or a loop device busy.

Actions. Each step of the script is one action, guarded by its place in the
script and, if it prints, by a reader on the pipe; without a reader `SigPipe`
kills the shell. Every step the script checks with `|| fail` may also fail
(`StepFails`), with what it may already have done (`FailEffect`) and with the
ERROR line a child prints of its own (`ChildError`); `Fail` prints and runs the
trap, which is three actions (`UmountBoot`, `UmountRoot`, `Detach`) because a
second run, or a power loss, can come between them. The script ignores what fails
there (prp-install:238-240), and each of the three may (`CleanupMayFail`): a mount the
kernel keeps stays, the next `umount` finds it on top of the one it is for, and a
loop device with a mounted partition stays attached whatever `losetup -d` says. A
later run then works above the mounts of an earlier one. `SkipBootloader` is the
branch of a ramdisk without prp-install-bootloader: a WARN, and on to DONE.
`StaleWriteBack` is the kernel writing a mount left behind over newer file systems.
Unchecked writes (`PutUnchecked`; those of apply_flavor_glue too) may be lost where
`WritesMayFail`. Each GUI callback is one
action. `InstallPipe!Write` keeps lines whole; that the byte reader of `install_poll`
does so is the subject of `LineReader`.

Switches (CONSTANTS). `ApplyPrintsDone` (does the external `peacock-oobe
--apply` print DONE?), `WritesMayFail`, `HookMayBeMissing`, `CleanupMayFail`,
`StaleMayWrite`, `StartMayFail` (pipe/fork fail), `RetryWaits` (does the user retry
only after the failed installer is gone?) and `PowerMayFail`. `peacock-oobe` is not in this repository; `gui/oobe_wizard.c`
documents that it speaks the same protocol, DONE included, so the runs with
`ApplyPrintsDone = FALSE` say what holds once its output is kept off the
installer's pipe, and `Session_early_done` says what happens today.

Bounds. `MaxRuns` is the only one. Two runs are enough for every interaction of
this code: the wizard holds one pipe, and an older run can disturb a newer one
only through mounts, the container and the loop device, all of which two runs
share; the proofs remove the bound for every safety property. `BootableIsComplete` exempts the leavings of an install that a
power loss cut off: the first sync comes after extlinux.conf is written, so
after a power loss any part of what was not yet synced may be on the flash.

Fairness. LVGL calls a timer that is set again and again, and a process that can
take a step eventually does (weak fairness of `Poll`, `MockDone` and
`InstallerStep`); this assumes that the commands the script waits for end, which
for `ftr` means that its network timeouts work. Nothing is assumed of the user or
of the power: `EveryInstallEnds` is checked with power losses, which end a session
too. Deadlock checking is off in `Session_faults` only: after `StartFails` the
program really has no step left.

What the switches show. `EveryInstallEnds` fails with `StartMayFail = TRUE`: the
progress page comes up before pipe() and fork(), and when they fail it has
neither timer nor button. `DoneIsDurable` fails with `WritesMayFail = TRUE`: the
assemble, staging and hand-over writes have no `|| fail`, so a full partition
still ends in DONE. It fails with `HookMayBeMissing = TRUE` as well: the done page
comes up without extlinux.conf, which the script has announced in its log and the
wizard does not show. With `StaleMayWrite = TRUE` a mount that an earlier run left may
write over the files a DONE was said of. `CleanupMayFail` is TRUE in every passing run,
for the trap's failures need no more than a busy mount. When the hook's ERROR has closed the page, the script's own
ERROR is a write into a pipe nobody reads: it dies of SIGPIPE, no EXIT trap runs
(prp-install:442 relies on it), and both mounts and the loop device stay. The next
install then formats a container whose file systems are still mounted, even for a
user who waits; with `RetryWaits = FALSE` it does so without any SIGPIPE, because
install_finish does not wait for the child (prp_wizard.c:322). TLC shows both
when asked whether `mounts` is empty whenever `owner` changes. The mirror's index is checked after the container was
formatted (prp-install:319), although :179-180 wants it checked BEFORE.

### The Wi-Fi page

State and code. `NetUi` has the fields of `N` that decide something: overlay,
region selector, whether the dropdown lists networks, status text, `connected`,
and for scan and connect each a timer, its pid and its count. `PrpNet` has the
processes (the page forks a new one for each request, at most `MaxJobs`), each with
its place in the script, whether it found a country at its start and what it has
answered; the status file (absent, or its first word) and the scan file, with the
processes whose open output it is; and the radio: whose network block it holds,
whether it is associated, whether the interface has an address. Two ghosts: `before`
(the processes that had ended when the page last removed the answer file) and
`granted` (the connects since whose own udhcpc a lease was had).

Actions. One per callback: `Show`, `ScanBtn`, the three branches of
connect_btn_cb, the two poll callbacks with and without an answer, `NetClose`.
One per step of prp-net between two effects others can see. `Die` is a process
that ends without an answer (`_exit(127)` after a failed exec, or killed).
Without a status file connect_poll compares an uninitialised buffer; the model
takes either branch. `SetCountry` runs in the foreground and is one step.

Nothing stops two processes of a kind from running at once: after 60 looks
connect_poll forgets the process and the button is free again, and closing the page
drops the timers only. In the model too the user may start the next request at any
time the code's own checks allow. `Join` and `Drop` are the access point: a link is
made, and lost, at any moment.

What holds, and what does not. With any number of such processes the page never takes
an answer from before the request for its answer (`VerdictIsFresh`: unlink() comes
before the fork), and an "ok" rests on an address handed out since the process's own
udhcpc (`OkRestsOnLease`: its script flushes the address of the network before). But
whose answer it is the page cannot know: the processes share one file. A connect that
the page gave up on may answer "ok" after the retry's own process has said "fail", and
the page says Connected, although prp-net:13 calls itself "Safe to call repeatedly".
Asked whether the page says Connected only when the process it follows said "ok"
(`[][status' = "connected" /\ connectTimer => said[connectPid] = "ok"]_vars`), TLC
answers with such a run of three processes, none of which dies. `VerdictIsFresh` is
what is left: when no older connect was alive at the request, the word is its own. `connected` is a latch
(prp_net_ui.c:197) that outlives its link, and the install wizard shows it; no
document promises otherwise, and nothing is claimed of it here.

Bounds. `ScanTicks = ConnectTicks = 1`: the counts of 24 and 60
matter only in that the page may give up before the process has finished, and it may
do so at every step. Three processes make a scan that fills the list, a connect the
page gives up on, and its retry; or an old scan, one of a reopened page, and a connect.

Fairness. Weak fairness of the page's timers; none for the processes, which may
hang: that is what the timeouts are for. Deadlock checking stays on, for the user
can always close and reopen the page.

### Blueprint order and the OOBE wizard

State and code. `PhaseOrder` is bp_phase_order with its variables (`pass`, `i`,
`progress`, `emitted`, `order`); a stage that repeats an id, has none, or belongs
to another phase is data. `OobeWizard` has the page, the fields shown on it
(`W.bp_f`, decided once when the page is rendered), the answers store, the
passwords kept beside it, the answers file, the timer, the log's fill level, and
the child: what it has still to print, what it read (`used`), how it ended. The
module EXTENDS `PhaseOrder`: the order is computed before the first page, step by
step, and its variables are part of the wizard's state.

Actions. `Next` captures the fields one by one and stops at the first that is
rejected, with the ones before it stored; `Back`; `StartApply`, which saves, forks
and hands over the secrets; `PollLine`, one line per step; `PollEof`, enabled only
when the pipe is empty and the child gone; `ChildStep`.

A stage's own `when` ("stage show-if", blueprint.h:37) is read by bp_load and
evaluated by nobody, so it is not in the model: its page is shown regardless.

Bounds. `MCOobe` gives every blueprint of three stages with every set of
requirements, a repeated id, a missing id or a foreign phase, and, with fields,
three stages in both orders of the file under every naming: 3085 in all. `Cap = 3`
lets `emitted[]` be full exactly; `Room = 3` is the caller's `out[]`, of 64 entries, whose
length bp_phase_order is not told: `RoomAssumption` says what it relies on, that no
blueprint has more stages of the phase than that. `MaxWidgets` and `MaxSecrets` are the limits of
24 and 8 at 2. `LogLines = 5` fits all lines a run can print; with 4, the line that
tells of a failure may be dropped (`wlog` does so when 2048 bytes are full) and the
progress page has nothing else to say. The `when` of a field looks at earlier
pages: with one on the same page `AnsweredSoFar` does not hold, since a page is
rendered for the answers of the visit before. `AsksWell` states what a blueprint must
keep to, for nothing in bp_load checks it, and TLC evaluates the assumption that every
blueprint of the run does (`BlueprintsAskWell`). `SaveMayFail = FALSE`: the result of
bp_answers_save is ignored by the wizard, and with TRUE `AppliesWhatWasConfirmed`
fails.

Fairness. Weak fairness of the order's loop, the timers and the child. Deadlock
checking is off: after the last page, and after a start that failed, nothing more
happens.

### The main GUI

State and code. `GuiJob` has the place in the main loop (`pc`: `keys`,
`read` for job_poll, `timers` for LVGL's callbacks, `fork` within start_cmd, and
`down`), whether a job
runs, the command about to be forked, the shells forked (running, ended, waited
for; with or without a process left in the background that holds the pipe) and the
number of unread characters. `UiLog` is prp_ui_log_append: the text, its
capacity, the cut to `keep`, the doubling, the second cut, and allocations that
fail. Its characters are numbered, so that "the newest part, without a gap" can be
said; `said` and `short` are ghosts. `PowerKey` has the key, the events queued in
the device, and the poll's three variables; `held` and `asked` are ghosts of the
press.

Actions. `Loop` is the main loop's thread, one action per call that others can
interleave with; `User` the commands of the menus; `Process` the shells; `Output`
a write into the pipe, at most `PipeSize`; `Key` and `Clock` the rest. `down` is a
machine that has rebooted or powered off, and nothing happens then.

Bounds. `InitCap = 2, MaxKeep = 2, MaxCap = 8, MaxChunk = 2` keep the order of
8192, 32768, 131072 and 1023 in that growth, the cut and the failing second cut
all occur; `MemFailures = 1`; two jobs, so that one can follow or meet another;
`MaxSaid = 4` characters, twice the pipe and read sizes, enough to fill both
and to cut the text; `HoldTime = 1` tick; two queued key events,
enough for a press and its release to wait unread. The model's key does not move
while the queue is full; events lost by the kernel's much longer queue are not
modelled.

Fairness. Weak fairness of `Loop` and `Clock`; none of the user, the key or the
commands, which may run for ever. Deadlock checking is off because of `down`.

### The sub-partition mount

State and code. Each call has its place in the function, `boot_src`, `root_src`,
`main_loop` and the loop find_free_loop has just named (`picked`, later
`root_loop`). Below are the kernel's partition nodes, the two device-mapper
devices, what each loop device exposes (the disk, or one file system at an
offset), the mounts stacked at the two mount points, and the `s0`/`s1` links.
A mounted file system is recorded with the device it came from and with what that
device held.

Actions. One per use of a mechanism: `Umount`, `Nodes`, `DmMap`/`DmSkip`,
`PickMain` and `MainLoop` (choosing a loop and binding it are two steps of the
code, and of the model), the same for the fixed-offset loops, `Alias`, `MountBoot`,
`MountRoot` or `NoRoot`, and `Cleanup`. loop_attach_labeled's tries of two offsets
are one step, which only calls in turn allow. Every mechanism may fail or be missing;
what a mount finds depends on the device. Not in the model: how the container is
found, the layout read with fdisk, sizes, the log, and `mount`'s choice of options.

Bounds. Two calls: the second meets whatever the first has left (bound loops,
mounts that would not be unmounted, dm devices); three loops are what one call can
bind, so the second may find none. Deadlock checking is off: the calls end.

`InTurn = TRUE` says that a call begins after the one before. init calls the
function while the GUI is already up, so the button can overlap with it: with
`InTurn = FALSE` TLC refutes `RightFs`. The two calls choose the same loop;
`losetup -d` of the second takes it from the first; a `mount -o loop` picks it for
boot; and the first mounts "its" loop, now boot's, as the root. Nothing in the
repository promises that case, so it is listed as a hazard and not as a finding.

### The line readers

State and code. `LineReader` is install_poll (and apply_poll, the same code): the
child's unfinished line, the pipe, the part of `rd[]` not yet looked at, `ibuf[]`,
the descriptor, and the lines handed to the parser. `LineChannel` is the promise:
a line said arrives once, unchanged and in order, a verdict closes the channel, and the
end of file comes only when all whole lines have arrived (`KeepsLines`); what was said
does arrive (`LinesArrive`, the channel's fairness). The mapping reads "the lines on their way" off `ibuf \o rd \o pipe`.

Actions. The child writes a character at a time, so that a read may end anywhere,
and ends anywhere, within a line too. `Read` takes what there is up to `RdSize`;
`KeepByte` and `EndLine` are the loop's body; `Eof` the end.

Bounds. `IbufSize = 4, RdSize = 2, PipeSize = 3` for 512, 256 and the kernel's
64 KiB keep the order that matters for a line to span reads; lines of up to three
characters fill `ibuf[]` exactly. `MaxLine = 3` is the assumption of the
refinement: with 4, TLC refutes it, for the byte that finds `ibuf[]` full is dropped
and the rest of the line becomes a line of its own; a log line of 512 or more bytes
whose tail reads DONE would end the install page. NUL bytes are left out.

Fairness. Weak fairness of the timer's `Poll`; none of the child.

### The blueprint's files

State and code. `BlueprintFiles` has the version of the file and of its signature
on the mirror (published one after the other), the two files each caller downloads
to, where bp_fetch_verify is, what the callers keep (`W.flavors_buf`, the
dropdown's list, `W.bp`), and bp_answers_save's temporary and final file. `since` is
a ghost: what was published when the call began.

Actions. One per request (`FetchData`, `FetchSig`: complete, failed, or cut short),
`Verify`, the two uses, the three file operations of bp_answers_save, `Restart` at
any point, `Publish`. A signature verifies if it is whole, by the key, and made for
the file that is there: Ed25519 is assumed, its base64 and blob checks are one
condition.

Bounds. Two versions: the old and the new of an update that a call may meet
half-way; one of them lists no flavor; two answer stores. `DiskMayFill = FALSE`
assumes that the unchecked fprintfs and fclose succeed; with TRUE TLC refutes
`SavedIsWhole`, as a cut file is renamed over the good one ("write atomically via
<path>.tmp", blueprint.c:261). When the signature cannot be fetched the unverified
file stays ("never leave an unverified blueprint on disk", blueprint.c:453); no later
call uses it (`OnlyVerifiedIsUsed`).

### The operators

`MCAlgorithms` calls one operator with one input and keeps the result; a behaviour
is one call. Each property compares it with a definition written from the purpose,
not from the code: a formula in disjunctive normal form and its value
(`WhenIsItsFormula`, formulas of one or two terms of one or two atoms over six
layouts of spaces and quotes), the concatenation of a template's parts (`TemplateIsFilledIn`), the identity on the values
that can be carried (`PlainAnswersComeBack`, every value of up to four of seven
characters), the line picked (`InstallsWhatWasPicked`, lists of up to three), the set of pixels
shown (`AreaIsDrawn`, panels up to 4 by 3 with every stride, offset, factor 1 and 2
and every area), the pixel under the finger (`TouchGoesWhereItShows`).

What is outside: an atom whose quoted value holds an operator or a separator is
taken apart within the quotes (`a != "x==y"` is read at the `==`); `\u` escapes and line ends in an answer (a text field has
none); colours. `TargetCap = 64` holds every list; with less, the 2048-byte buffer
of enumerate_install_targets cuts within a line and TLC finds `/dev/mmcblk0p60`
offered as `/dev/mmcblk0p6`, a partition prp-install accepts. Lines of 256 characters or
more, which fgets would split, and the text shown when there is no partition at all,
which is no line of prp-targets, are left out.

A `when` is cut to 511 characters and each comparison in it to 255, and what is left is
evaluated (`Held`). `WhenIsItsFormula` speaks of the formulas that fit (`Fits`), which
nothing in the code checks. `MaxExpr = 20, MaxAtom = 10` let about half of the run's
calls fit, 464 of them with nothing to spare; without `Fits` TLC refutes the
property.

On the unscaled path the flush looks up only the first pixel of a row, on the scaled
one each pixel (`Reached`); every panel of the run has all its lines mapped, as the
kernel reports them.

### The input devices

State and code. `InputDevices` has the nodes that are there and what is behind
them, the configured paths, the place in main, `ev_path`, the tries left and the two
devices in use. Scores and candidates are those of pick_touch_event and
pick_power_event. A scan of the nodes is one step; a node can go between being
picked and being opened, and one that comes back is the same device.

Bounds. Three nodes, each of which may be any of five kinds, chosen so that each
score is decisive once: a touchscreen that can wake the phone, one without a
name, a power key, volume keys, a remote named in the hints. `MaxTries = 2` for 30,
one removal. Fairness: main never blocks. A power key that appears after the one
look for it is not found; that is the code, and `PowerKeyIsRead` speaks of the look.

### Runs

| Run | Bounds | Shows |
|---|---|---|
| `session_retry` | 2 installs in turn, a trap whose commands fail, power loss anywhere | `DoneIsDurable`, `ExitCleansUp`, `BootableIsComplete`, refinement of `InstallPromise` (`KeepsPromise`), `EveryInstallEnds` |
| `session_faults` | 2 installs, possibly at once, all faults but power loss | what holds regardless: `NoFalseFailure`, `NeverCutOff` |
| `session_early_done` | 1 install | finding: the nested DONE of `peacock-oobe --apply` ends the install early |
| `line_reader` | 2 children, 6 bytes each | refinement of `LineChannel` (`KeepsLines`), with its fairness (`LinesArrive`) |
| `net_page` | 3 processes at once, deaths, hangs and lost links anywhere | `VerdictIsFresh`, `OkRestsOnLease`, `BusyEnds` |
| `oobe_setup` | 3085 blueprints | the order: `RequirementsFirst`, `DropsOnlyStuck`; the wizard: `AnsweredSoFar`, `SecretsStayOut`, `AppliesWhatWasConfirmed`, `VerdictIsTrue`, `EveryApplyEnds` |
| `blueprint_files` | 2 versions, 2 stores, restarts | `OnlyVerifiedIsUsed`, `SavedIsWhole` |
| `algorithms` | one call each of 43,000 | `WhenIsItsFormula`, `TemplateIsFilledIn`, `PlainAnswersComeBack`, `InstallsWhatWasPicked`, `AreaIsDrawn`, `TouchGoesWhereItShows` |
| `gui_jobs` | 2 jobs | `LogFits`, `LogIsRecent`, `RebootIsAlone`, `EndIsTheEnd`, `MenuIsMeant`, `JobEndIsNoticed`, `UiGetsTurns`, `HeldKeyIsSeen` |
| `inputs` | 3 nodes of 5 kinds | `TouchComes`, `PowerKeyIsRead` |
| `subparts_turns` | 2 calls in turn, 3 loops | `RightFs`, `SuccessIsMounted` |
| `subparts_torn` | 1 call | finding: the clean-up removes the device below the mounted boot |

The type invariants of the modules without one in a run (`InstallSession`, `NetUi`, `RecoveryGui`,
`OobeWizard`, `SubMount`, `InputDevices`, `BlueprintFiles`) state the domains of their
variables for the reader and for proofs; `LineReader`'s bounds are proved.

## 3. Proofs

All theorems hold for every value of the constants that satisfies the modules'
named assumptions; a hypothesis before `Spec =>` names the switches they need.
Liveness apart, every property of a passing run is a theorem.

### The install session

`InstallSession_proofs`, over the invariants of `InstallInvariant`. Each was checked
by TLC first; no property is inductive as it stands.

| Theorem | Hypotheses | Inductive invariant |
|---|---|---|
| `TypeCorrect`: `TypeOK` | none | itself |
| `InstallerRunsOn`: `NeverCutOff` | no power loss | `NothingToSignal` |
| `FailureIsReal`: `NoFalseFailure` | none | `FailureInv` |
| `ExitIsClean`: `ExitCleansUp` | `RetryWaits` | `CleanInv` |
| `BootableMeansComplete`: `BootableIsComplete` | `RetryWaits`, no lost writes, no stale mount that writes | `CleanInv`, `BootInv` |
| `DoneMeansDurable`: `DoneIsDurable` | `HonestSession` | `DurableInv` |
| `SessionKeepsPromise`: the promise of `InstallPromise` | `HonestSession`, no failing start | `DurableInv`, `FailureInv`, `BootInv`, `SessionInv` |

`HonestSession` excludes the nested DONE, lost writes, a missing hook, stale mounts that
write and the eager retry, each of which TLC shows to break `DoneIsDurable`. Failures at
every checked step and in the trap, SIGPIPE and power losses are always included.
`ExitIsClean` excepts the runs of which the kernel refused something (`refused`): of
every other it says that its mounts and its loop device are gone, also when it ran on
top of what a refused or a killed one had left.

*What each invariant adds.* `FailureInv` follows the container and the pipe of a
run that failed: the first mke2fs takes extlinux.conf away and the second what the
hand-over writes last, so that a failed run leaves an item out until another run
has the container (`Incomplete`); the first line a run leaves in its pipe is DONE, or
it has failed (`Truthful`). `CleanInv` says whose layers are on top of the mount
stack at each line of the script, so that the trap's two `umount`s take the run's
own, or are refused them. `BootInv` says that extlinux.conf comes after everything it boots and that
the first sync makes all of that durable at once. `DurableInv`: only the run
launched last is alive and has lines in its pipe (`Alone`); while it writes, its own
file systems are the topmost mounts (`OnTarget`); at each step the items of the
earlier steps are present (`Installed`); a DONE in the pipe means they are durable
and the run only cleans up (`Reported`); the wizard reads only on the progress page
(`Following`), and nothing but cleanup runs on the done page (`Settled`). The proofs
have one lemma per kind of step: a step of a run (one case per action, and one lemma
for the runs it is not about), a callback that touches no process, a launch, a poll,
an end (close or power loss).

*The refinement.* `SessionKeepsPromise` maps the state of wizard, pipes, installers
and container to the abstract session of `InstallPromise` as `MCInstallSession` does.
Each step is a step of the promise or a stutter; that a failure is announced only
for an incomplete container uses `FailureInv`, that success is announced only for a
durable one `DurableInv`, and `SessionInv` that a run touches the container before
it changes anything and says DONE of nothing else.

### The Wi-Fi page

`NetUi_proofs`, without any hypothesis: for every number of processes that run side by
side, die, hang or answer late, for links that come and go, and for every patience of
the page. `TypeCorrect`; `VerdictIsOfThisRequest` (`VerdictIsFresh`) and `OkIsEarned`
(`OkRestsOnLease`), both from `NetInv`: a process speaks with its last step
(`SpeaksLast`); what had ended when a file was removed has ended for good
(`BeforeEnded`), so that an "ok" or a list in the file is the word of another
(`StatusInv`, `ScanInv`); and an address that is there when a connect is about to report
was handed out since its own udhcpc flushed the one before (`LeaseInv`).

### The OOBE wizard

`OobeWizard_proofs`, first part, the order of the pages, for blueprints of any
length. `OrderInv` says that `order` lists exactly the emitted
stages without repetition (`OrderIsEmitted`), that a stage comes after those it
requires (`RequirementsFirst`), that no member of a set of stages which require
each other is ever taken (`StuckIsLeft`), that every pass but the last takes a
stage (`PassesTake`, so that the limit on passes never ends the loop too early),
that in a pass without progress every stage passed over is held back by another
that is left (`HeldBack`), and that in the end what is left is stuck. `FileOrderInv` adds what
is needed for `KeepsFileOrder`. Every step of the
wizard is a step or a stutter of the order (`WizardOrders`: `Spec => OrderSpec`), which
gives the same of the wizard's pages (`WizardPages`). `EachOnce` and `KeepsFileOrder`
are proved and not run. `NothingPastOut`: under `RoomAssumption` the caller's `out[]` is
never written past its end, by counting: `order` is an injection into the stages scanned.

Second part, the pages. The two loops over fields (`Rendered`, `Capture`) are recursive
functions over the number of rounds. `LoopRuns` shows that a function with such an
equation exists, and `LoopStays` that what each round keeps holds at the end: the
least round that breaks it would follow one that does not (`LeastNumber`). With
this `WizardTypes` proves types and `WizardInv`: the store and the file hold keys
asked for in the open, `secrets` keys asked for as passwords and no more than
`MaxSecrets`; what is shown are fields of the blueprint; after a start there is no way
back. `PasswordsStayOut` (`SecretsStayOut`) follows for blueprints that never ask for
one key both ways (`KeysApart`, true of every blueprint of the run; without it the
code itself stores the second answer in the open).

Third part, the child. `ConfirmedIsApplied` (`AppliesWhatWasConfirmed`, when the save
succeeds): until the child has read the file it holds the store, which no callback can
change any more (`ApplyInv`). `VerdictIsReal` (`VerdictIsTrue`): a DONE or ERROR among
the lines is the child's outcome, and an applied setup whose DONE was not read yet
still has it among them (`VerdictInv`), so that the end of file cannot overtake it.

Fourth part, the answers. `PagesBehindAreAnswered` (`AnsweredSoFar`) is proved for every
blueprint that `AsksWell`: no two fields ask for one key; what a `when` looks at belongs
to a stage that the field's own stage requires, directly or through others; there is
room for all passwords; and a field past the page's `MaxWidgets` may stay empty.
`AnswerInv` has three parts: what is stored was accepted by a field that asked for it
(`AllAccepted`), so that it need not be remembered when; each field behind the page that
is asked for now has an answer, or needs none (`BehindAnswered`); and the page on the
screen has a widget for every field of it that is asked for now (`PageComplete`). The
argument is that an answer given on a page cannot change what was asked up to it
(`SameWhen`), because the stages the `when`s look at come first (`WhenLooksBack`, from
`RequirementsFirst`). `CaptureKeeps` follows the fields of a page through `LoopStays`, a
rejected one included: what was captured before it is kept, and it is accepted.

### The main GUI

`RecoveryGui_proofs`. `LogInv` relates text,
capacity and what was said; `NewCapSuffices` and `CutIsBounded` are the arithmetic:
after the two cuts the text, the chunk and the NUL fit in the largest allocation,
from the assumption `MaxKeep + MaxChunk < MaxCap`. `NothingIsDropped`: if memory
never runs out, no chunk is lost. `GuiUsesLog` lifts these to the whole GUI
(`Spec => LogSpec`), giving `LogFitsAlways` and `LogKeepsTail`. `JobInv` (a process that holds the pipe
belongs to the last shell forked and `running` is set, and start_cmd forks only
when it is not) is inductive, and implies `RebootIsAlone` (`OneJobAtATime`,
`RebootCutsNothingOff`). `EndIsNoticedLast` (`EndIsTheEnd`) needs no invariant: it is
the one branch of job_poll that clears `running`.

`MenuNeedsLongPress` (`MenuIsMeant`) rests on `KeyInv`: when every press and release was
read, the GUI's flags say what the key does, its clock does not run ahead of the
press, and a press it was asked about has been shown; otherwise the last one queued
says what the key does, and nobody asked about it yet.

### The sub-partition mount

`SubMount_proofs`: `TypeCorrect`; and for calls in turn (`InTurn`) `MountsAreRight`
(`RightFs`) and `SuccessMeansMounted` (`SuccessIsMounted`), for every number of calls
and loop devices and with every mechanism failing. `TurnInv`: the call under way is
the only one (`InOrder`), the loop it has just chosen is still free (`Held`), and each
source it has found leads to the partition it was found for (`Named`), which
binding a free loop does not change (`BearsStays`). A call that begins has forgotten
the sources and the links of the one before (`Fresh`, `Unlinked`).

### The line readers

`LineReader_proofs`: `ReaderFits`. `ibuf[]` keeps room for its closing NUL and
`rd[]` is never overrun, for every size of buffer and whatever is printed. The
invariant adds that pipe and `rd[]` hold bytes, which a split of a sequence (`ReadSplits`)
preserves.

`LinesAreKept` (`KeepsLines`), for `MaxLine < IbufSize`: each step of the reader is a step
of `LineChannel` or none. `LinesInv` relates what is on its way, `ibuf \o rd \o pipe`, to
what was said: no byte is lost or moved between the child and the buffer, the lines
read off it are those still to arrive, and none is longer than `MaxLine`, so that
`ibuf[]` is never full at a byte to be kept. What the folds of the mapping return for
texts of any length comes from an induction over texts (`TextInduction`): of the texts
for which a statement fails there would be a shortest. The parts a line is cut into by
the reads do not matter, because a fold over two texts joined goes on where the first
has ended.

### The blueprint's files

`BlueprintFiles_proofs`, for every number of versions. `FilesCorrect`: types and
`FetchInv` (during a call the mirror, and a data file that was downloaded, are no older
than when it began, and what reaches the use verifies). `VerifiedIsUsed`
(`OnlyVerifiedIsUsed`) follows. `AnswersAreWhole` (`SavedIsWhole`, on a disk that takes
what is written) from `SaveInv`: what is about to be renamed is the store to be saved.

### The input devices

`RecoveryGui_proofs`, second part, for every set of nodes and devices. `BestIsBest`: of bounded
scores the choice is a candidate and none has a better score (the bounds are those of
score_touch_name, and of the 256 characters of the hints: 128 of them). `PowerScores`: without
hints ten points need the key itself. `PathInv` says what `ev_path` holds until the
power key is looked for: nothing, the touch device in use, or a touch device, which is
why excluding it excludes no power key. `PowerKeyIsFound` (`PowerKeyIsRead`) follows.

### The operators

`Algorithms_proofs` proves of the operators, for inputs of every size, what `MCAlgorithms`
checks of a bounded set, and from it the run's properties in every state: a call that
has returned is answered by its operator (`Answered`, the inductive invariant), and the
run's calls are among those the theorems speak of.

`TemplatesAreFilledIn`, for templates of any number of segments: text without an
opening brace, keys without braces, at the end perhaps a key that is not closed. The loop
of bp_expand is a recursive function from its end to its start; `LoopEnds` shows that
a loop that only goes forward has such a function, so that `Expand` is what its
equations say (`ExpandIsFilled`). At the place where a segment is written the loop
writes its value and goes on behind it (`SegmentIsFilled`), because the key ends at its own
brace and a `$` that is text has none behind it; the tail is copied character by character
(`TailIsCopied`). `CountingUp` puts the segments together. `TemplatesComeOut`
(`TemplateIsFilledIn`) follows.

`FormulaIsItsMeaning`, for formulas of any number of terms and atoms, with any number of
blanks around their signs, values bare or in quotes, no sign of an operator in a key
or a value, and a text and comparisons that fit into the buffers (`Fits`), for buffers
of any size; what does not fit is evaluated after it was cut, and has no such meaning. The argument goes down the levels of the text. A text joined from parts free
of the separator has these as its `Parts`, blanks around them aside (`JoinedParts`, by
`CountingUp` over the parts: what is joined so far has the first of them, and the empty
text between the two characters of `||` is no part). This is used at `|` and, of each
term, at `&`. An atom's only operator stands behind its key (`OperatorIsFound`); what
`Trim` leaves of the two sides is the key and the value in its quotes (`TrimIs`), which
`Unquote` takes off (`QuotesAreTaken`, `ValueIsRead`). `AtomIsItsMeaning`,
`TermIsItsMeaning` and the theorem join these together; `FormulasDecide`
(`WhenIsItsFormula`) follows.

`OnlyPlainComesBack`, for every text without a line end, of any length: what is read back
is the value exactly when it is `Plain`. The recursive reading of a string is what its
equations say (`NormalisedReads`, `LoopEnds` again), and it returns no more characters than it
read: fewer if there was an escape before the last, the same text if there was none
(`StringComesOut`). So a value that comes back was read to the quote written behind it,
without an escape; an escape at its end would have hidden that quote (`EscapedByOne`), and a quote
or three apostrophes inside would have ended or refused it (`BasicIsPlain`). A value that
begins with two quotes is read as a multi-line string and comes back shorter, if at all
(`TripleIsShorter`). `PlainCloses` and `PlainComesBack` are the other direction.
`PlainAnswersReturn` (`PlainAnswersComeBack`) follows from `AnswersAssumption`: the marks
for an unreadable file and a missing answer are no answers.

`PickedIsSelected`, for any number of partitions with any names, when the list is
shorter than its buffer and the first word shorter than the wizard's:
`ListIsJoined` (nothing is cut, so that the list is its lines with a newline between),
`EndsAreNewlines` (names have no newline, so that the ends LVGL counts are the ends of the
lines, in their order), `RisingCounts` (the n-th end has n before it, so that the
option picked is the line picked), `FirstWordOfPart` (a cut behind the first word does
not change it). `AllAreListed`: there are as many options as partitions.
`ThePickedIsInstalled` (`InstallsWhatWasPicked`) follows from `TargetsAssumption`: the
buffer holds the run's lists and no name has a newline.

`AreaReachesThePanel`: for every panel whose mapping holds its lines with their offsets
(`PanelOK`, what the kernel reports of a framebuffer), every scale and every area of
the logical display (`AreaOK`), the flush does what `AreaIsDrawn` checks of panels up to
4 by 3 (`Draws`). `BlockIs` shows that a logical pixel's block is exactly what is divided
down to it, `PixelIsMapped` that `row_ptr` refuses no pixel of the panel.
`TouchIsWhereItShows` is the same for the touch (`Hits`), the clamped rows and columns
that no whole logical pixel covers included. `AreasAreDrawn` and `TouchesGoWhereTheyShow`
state them of the run (`AreaIsDrawn`, `TouchGoesWhereItShows`).

### What is only model-checked

- Everything temporal under fairness: `EveryInstallEnds`, `BusyEnds`, `EveryApplyEnds`,
  `JobEndIsNoticed`, `UiGetsTurns`, `HeldKeyIsSeen`, `TouchComes`, `LinesArrive`.

## 4. Not modelled, and the plan

| Part | Why not, or when |
|---|---|
| `init`, `init_stub.c` | the boot's mounts and background work beside the GUI; what it shares with the models is the second call of mount_subparts, discussed above. The rest writes into sysfs and configfs |
| `firmware-runtime.sh` | a search over directories and driver rebinding; its outcome depends on drivers |
| `prp-targets`, `prp-boot-target` | a filter and a list of names: a reference definition would repeat the table |
| `bp_run_stage_action`, stage status | called by `peacock-oobe`, which is not in this repository |
| configuration files of prp_gui | read once, before anything runs |
| `prp-svc-ssh` and the other overlay scripts | the pid file is the only state, checked with `kill -0` at every use |
| simulator, logo, theme, vendored code, fonts, build tools, configurations, docs | no behaviour of the device, or somebody else's code |

Most lines of C under `src/` are generated glyph tables, the vendored parsers and
cryptography, a picture library and a back-up of dropbear's sources: some 17,000 of
22,000. Of the programme's own code the models cover the parts that keep state or
decide something; what is left is LVGL layout, logging, parsing of arguments and the
build. A share of the whole tree well above the present one would mean modelling
other projects.

Seen while modelling, and not checked by a property: the network page of the
install wizard is drawn once, and its status label is stale after the Wi-Fi
overlay is closed; the environment is read before the configuration files, so they
override it, and the command line overrides both; `curl` has no time limit, so the
options page may freeze the GUI while it downloads; a read error on the job's pipe
other than EAGAIN is reported every turn of the main loop.

# Formal models of Rodavarion TDriver

Rodavarion TDriver remaps the buttons of a mouse on a Linux desktop. A daemon
(`rodavarion-tdriverd`) reads the mouse through evdev, decides what each press means, and sends
shortcuts through a virtual keyboard or runs scripts; a Qt GUI edits the mappings and shares the
mouse with the daemon. This directory holds TLA+ models of the parts in which order, failure and
sharing decide whether that works, the TLC configurations that check them, and proofs that TLAPS
checks. All paths below are relative to the repository; the C++ sources are in `src/`, headers in
`include/rodavarion/`.

## 1. Inventory

| Component | State | Operations | Talks to |
|---|---|---|---|
| `input/EvdevMouseMonitor` | descriptor, libevdev device, uinput copy, grab, notifier | `start`, `stop`, `readAvailableEvents` | kernel node, `/dev/uinput`, owner (signals) |
| `runtime/MouseRuntimeController` | peripheral, `needsSideButtonSuppression_`, `monitors_` | `start`, `stop`, `isRunning`, `handleButton` | monitors, `ActionEngine`, mapping file |
| `daemon/main` (`HeadlessService`) | controller, ten second timer, D-Bus object | `start`, `scanAndStart` | HID scan, controller, systemd |
| systemd user unit | inactive / activating / active, queued job | start, stop, restart on failure | daemon, GUI (`systemctl`) |
| `app/main` | lock file, start hidden or shown | start, second start, event loop | main window |
| `gui/MainWindow` | fallback controller, tray icon, remembered display scales, profiles page, maintenance page with its busy flag, autostart entry | `restartMouseRuntime`, `openSelectedPeripheral`, `recoverTrayIcon`, `closeEvent`, `checkDisplayScaling`, `updateAutostartEntry`, `saveSelectedProfile`, `refreshDevices`, `refreshDependencyMaintenance`, `installMissingDependencies`, ... | systemd, controller, dialogs, Plasma, kscreen-doctor, `QSettings` |
| `gui/MouseActionDialog` | device list, live monitors, confirmed buttons, profile | refresh, toggle, save, reject, destructor | monitors, mapping store |
| `action/MouseMappingStore` | `mouse-mappings.json` | `load`, `save` | file system |
| `runtime/ActionEngine` | one cached profile with key, time and size | `dispatch`, `refreshCacheIfNeeded` | mapping store, output engine |
| `runtime/DesktopActionExecutor` | virtual keyboard | `execute`, `sendShortcut`, fallbacks, scripts | `/dev/uinput`, ydotool, wtype, xdotool |
| `context/ApplicationContext`, `ContextBridge`, KWin script | `activeIdentity`, `application-contexts.json` | `SetActiveWindow`, `load`, `save`, `shortcutFor` | D-Bus, executor, GUI |
| `setup/DependencyMaintenanceManager`, `tools/bootstrap_arch.sh`, `install_feature_arch.sh`, `cleanup_install_dependencies.sh` | package ledger, enabled profiles | record, audit, install, remove, bootstrap, clean up | pacman through pkexec or sudo, main window, `install.sh` |
| `tools/install_user.sh`, `uninstall_all_user.sh`, ... | installed files, manifest, unit enablement | check, stop, copy, prune, commit, enable, verify | file system, systemd |
| device scanning, capability and transport classifiers, event normalizer, safety policy | none (functions of what they are given) | classification | daemon, dialog |
| `setup/DependencySetupManager`, `gui/DependencySetupDialog` | what ydotool needs: package, module, configuration, unit; a dismissal in the settings | `inspect`, `installAndConfigure`, `ensureActionBackend` | pacman, modprobe, systemctl through pkexec, main window |
| `core/Application`, `profile/ProfileStore`, `profile/ProfileManager` | `profiles.json` and its copy in memory | `initialize`, `load`, `save`, `update` | daemon, profiles page |
| configuration, event bus, logger, plugin registry, localization, diagnostics, CLI | small containers and files | load, save, publish, print | application start |

What makes this hard:

* The **kernel acts between any two system calls** of a monitor, devices vanish under open
  descriptors, and event buffers overflow.
* A **grabbed mouse is invisible to the desktop**. Whoever grabs has to relay, and the relay is itself
  an input device that another reader may find and grab.
* **Three readers** (daemon, GUI fallback, live monitor) share one mouse and coordinate only through
  `systemctl` calls with timeouts and through polling.
* **Decisions are cached**: what to grab is decided once per start, mappings by time and size of a
  file, the active window by the last report that was handled.
* **Two programs rewrite the same small files** without a lock: the maintenance page of the GUI and the
  scripts in a terminal, with pacman and the user's own pacman between any two accesses.
* **Everything in the daemon is one thread**: an action that waits for a tool blocks presses, D-Bus and
  the relay of the pointer. In the GUI, `processEvents()` in the middle of a handler lets others in.
* **Scripts and privileged commands fail in the middle**: the installer, the uninstaller and the setup of
  ydotool are long sequences without a transaction, and a GUI may be used while they run.
* **The desktop changes under the GUI**: the tray goes and comes back, outputs come and go and are
  numbered anew, and kscreen-doctor obeys later, if at all.

Correctness, by component:

* monitor - a failing call leaves nothing half-open; a grabbed pointer is always relayed; the relayed
  state follows the finger; dead nodes are let go;
* controller and daemon - a remapped side button never does its native action as well; nothing is
  grabbed without need; a daemon that waits for a mouse gets it;
* ownership - the desktop always has exactly one pointer; the dialog has the mouse alone and gives it
  back; the daemon comes back;
* store and engine - a press acts on mappings that were in the file during the press; saves keep
  the other mice;
* executor and context - no key stays down, no shortcut arrives in part, none is guessed, and every
  action ends;
* ledger - what was there before TDriver and what its runtime needs is not removed, and what it
  installed is remembered;
* installer - wherever it breaks off, no file is forgotten; a success that is reported is one; an update
  leaves the new daemon running; the user's own files stay;
* mapping dialog - nothing is remapped that the mouse was not seen to have; what is saved is what was
  shown;
* shell - the window can be reached; scales come to rest, and an ordinary screen is not left at 200 %;
* pages - they show what is the case; profiles are not lost;
* setup - a backend once set up stays set up.

## 2. Modules

| Module | Models | Composition |
|---|---|---|
| `MonitorContract` | what a monitor promises its owner | abstract specification |
| `EvdevMonitor` | one monitor and its kernel node, system call by system call | implements `MonitorContract` |
| `MouseRuntime` | daemon, controller, nodes, mapping file | uses each monitor through `MonitorContract` |
| `GrabOwnership` | daemon, GUI, dialog and systemd around one mouse | composes controller (as reader), dialog and unit |
| `MappingCache` | mapping store and action engine in two processes | refines the `EditFile` / `HandleButton` of `MouseRuntime` to single file accesses (informally) |
| `ActionExecution` | KWin context, profiles, virtual keyboard, tools, scripts | what `HandleButton` of `MouseRuntime` sets off (informally) |
| `DependencyLedger` | maintenance page, bootstrap, feature and clean-up scripts with pacman, ledger and profiles | on its own: shares no state with the others |
| `Installer` | both editions of the installer, the uninstaller, `remove_gui_keep_service.sh`, the GUI's autostart entry | on its own; the unit is that of `GrabOwnership`, reduced to the version that runs |
| `MappingDialog` | the mapping dialog over several sessions and mice, and the mapping store behind it | its monitors are those of `GrabOwnership`, its saves those of `MappingCache` (informally) |
| `GuiProcess` | the process of the GUI with its lock file | extended by the modules below |
| `TrayWindow`, `DisplayScale` | main window with tray icon; `checkDisplayScaling` | composed by `GuiShell` |
| `ProfileEditor`, `MaintenancePage` | profiles page with `profiles.json`; nested handlers of device list and maintenance page | composed by `GuiPages` |
| `SetupAssistant` | setup of ydotool | extends `GuiProcess` |
| `MCDependencyLedger`, `MCInstaller`, `MCMappingDialog`, `MCGuiShell`, `MCGuiPages` | the instances that are checked | extend the module of that name |
| `EvdevMonitor_proofs`, `MouseRuntime_proofs`, `GrabOwnership_proofs`, `MappingCache_proofs`, `ActionExecution_proofs`, `Installer_proofs`, `MappingDialog_proofs` | theorems | extend the module of that name |
| `Dependencies_proofs` | theorems about the ledger, the pages and the setup | extends `DependencyLedger`, `GuiPages` and `SetupAssistant`, which share nothing but the process of the GUI, and therefore name their specifications `Spec`, `PagesSpec` and `AssistantSpec` |

`PROJECT.json` maps every definition to its source lines. Definitions that stand for code of others
(kernel, systemd, desktop, user) are marked external there.

**EvdevMonitor.** `fileDescriptor`, `device`, `virtualDevice`, `relayGrabbedEvents`, `grabbed` and
`notifier` are the members of the class; `pc` is the system call that comes next. `Start*`, `Stop*` and
`Read*` follow `start()`, `stop()` and `readAvailableEvents()` in the order of the code; each `Start*`
that can fail has the failing disjunct, which goes through `stop()`. `Finger`, `Unplug`, `Plug` and
`OtherGrabs` are the hardware and other processes and may come between any two of them. The desktop's
view is kept for both nodes (`nodeView`, `virtView`). `SYN_DROPPED` empties the client buffer and
marks it, as the kernel does, and the code's reaction - go on in normal mode without replaying the
difference - loses whatever libevdev had already fetched. Wheel and motion are left out: they have no
state that could differ.

**MouseRuntime.** `hasPeripheral`, `needsSideButtonSuppression` and `mode` (the entries of `monitors_`
with the arguments they were started with) are the controller's members. `ControllerStart`,
`StartOpens`, `StartAttaches`, `StartFails` and `StartReturns` are `start()` with its loop over the nodes, in
which the world may change. Each monitor opens its node first, from when on the kernel keeps events for
it, and takes it (`uinput`, `EVIOCGRAB`) or gives it up in a later step: a press in between goes to the
desktop and, if the monitor comes up, is handled as well; `early` marks it. `TimerFires` and
`DaemonStarts` call `ScanAndStart`; a crash of the process loses everything. `Shown` maps an entry to the
mode of its contract, to which a monitor that has only opened its node is still off.

**GrabOwnership.** A node is the sequence of readers it went through, so that the virtual copy of a
copy is a node like any other: `LeftFor` is what `enumerateInputDevices` finds by name. The GUI's
blocking functions are split at their `systemctl` calls (`check`, `act`, `stopping`, `closing`,
`restarting`, `closed`); the tray works while the dialog's event loop runs. The GUI is one, as
`app/main.cpp` holds a lock file.

**MappingCache.** `SaveReads`, `SaveCommits` and `SaveFails` are the two ends of
`MouseMappingStore::save`; `StatsFile`, `LoadsFile` and `StoresCache` are the three file-visible steps
of `refreshCacheIfNeeded`. `during` remembers the contents of the file since the press, and `Size`
leaves room for different profiles of the same size. Two things are assumed of the surroundings, and
both are narrower than what may happen on a disk: each write has a new modification time (saves are
clicks; two in one clock tick that keep the size would go unseen), and the file is damaged by hand only
while nobody saves.

**ActionExecution.** A press is one of three requests: context-sensitive, literal, script. `LookUp`,
`Loaded` and `Migrated` are `load()` with its schema migration, `Matching` is the profile search of
`shortcutFor` (the built-in profiles with the shortcuts of `default` are represented by it). `Frame`
is one `emitFrame`: it gets through, or it is cut at any event (`CutShort`), and what was written
before the cut waits in the kernel for the next `SYN_REPORT`. The tools of `executeShortcut` are
alike, so that only their number is kept. `Returns` is the return to the event loop.

**DependencyLedger.** A job of the GUI or of a script goes through its stages: the confirmation, pacman,
reading the ledger, writing it (the GUI renames a `QSaveFile` into place; a script truncates the file and
then fills it), and the same for the profiles. `Audited` is `audit()`: it runs once for the dialog and
once more after the Yes. A file that does not parse is read as an empty object by both sides, so that a
truncated file is the empty set. `GivesUp` is a No, a failing command, a failing write or a killed
process. `kept` and `mine` are history: what was there before and never went away, and what TDriver
installed and is expected to remember. `mine` drops the packages of a job that is cut short before it
wrote them, and all of them when one job rewrites the ledger while the other is between its packages and
its write: `NothingForgotten` thus says that there are no other ways to forget a package. The dependency
manifest with the lists of packages is read anew by each audit: `manifest.readable` says whether it was
found and parsed, and without it no package is required (`Required`). `blind` is history: the list that a
job of the GUI works off was made without it. The scripts have it beside them in the source tree. One
script runs at a time.

**Installer.** `stage` is the section of the script and `left` what its loop has yet to handle; files are
copied and removed in any order, although the code has a fixed one, so that an interruption is possible
after any subset. `disk` gives each file the version it was copied from, `manifest`, `listed` and
`registry` are `managed-files.txt` and `state.env`. `Installs` to `Verifies` follow `install_user.sh` from
its checks to the final look at the files, `Uninstalls` to `Purges` the uninstaller with and without
`--keep-data`, `StripsGui` the script that leaves the daemon. `Removes` is `safe_remove_obsolete` and
`safe_remove_file` with their patterns of known paths. `Breaks` is `set -e`, a signal or a power cut.
Meanwhile the user builds another version, opens the GUI, switches its autostart entry and restarts the
unit (`OpensGui`, `AutostartOn`, `AutostartOff`, `GuiStartsUnit`). `loose` is history: files put in place
by a run that never wrote its manifest, or by the GUI while a script was past them; `ranOn` excepts a
daemon that `systemctl stop || true` left running or that the GUI has started again. Assumed: no build
runs while the installer does, so that what was compared with its checksums is what is copied; one
script runs at a time.

**MappingDialog.** `rows` is the table (`action`, `parameter` by whether there is one, `enabled`),
`confirmed` is `confirmedButtons_`, `key` is `profile_.deviceKey`; the save, the load and the fallback to
the only profile are those of `MouseMappingStore`. `Opens` is the constructor with `loadMappings`,
`Confirms` is `handleLiveButton` with `markButtonConfirmed`, `Chooses` and `Types` go through
`updateParameterEditor`, `SaveRefused` and `Saves` are `saveMappings`. `proven` is history. A monitor
belongs to a device that may be unplugged; it stays in `monitors` when it is dead. Rows are named
after their buttons: the code goes by row numbers, which agree as long as profiles are in the order of
`defaultMouseButtons()`, the order in which they are written. Profiles with fewer buttons, from other
releases or by hand, are left out. Shortcut and script are the one action `Command`: a text that was typed
for one and is kept for the other (`MouseActionDialog.cpp:564-598`) is not told apart. Left out as well is
that a refused save has copied some rows into `profile_`: a save copies all of them again before it writes
any, and a test takes its row from the table.

**GuiProcess, TrayWindow, DisplayScale, GuiShell.** `app` is off, starting (constructor done, loop not
entered) or on. `WindowLaunches` is `createTrayIcon` in the constructor, `WindowEnters` the decision of
`main`, `RecoversIcon` the five second timer, `ClosesWindow` is `closeEvent`. That Qt registers an icon
again in a tray that returns is modelled as `icon /\ tray` being usable, and external. `Checks` is
`checkDisplayScaling`: first sight of an output remembers its scale, or 100 % if it is doubled and passes
for ordinary by the densities of the screens that Qt knows (`TakenFor` takes the first screen in any
order whose name is the output's, contains it or is contained in it); what differs by more than 0.24 goes
into one order for kscreen-doctor, which numbers outputs as of now and is carried out later (`Obeys`), to
whatever has the numbers then, or not at all (`Ignores`). A run of the doctor to list the outputs and the
check that uses the list are one step; a list that cannot be had is a check that does not happen.

**ProfileEditor, MaintenancePage, GuiPages.** `Application::initialize` is split at its two accesses to the
file: `ProfileLaunches` loads, `EnsuresDefaults` saves the defaults if nothing was loaded. The daemon runs
the same function whenever it starts (`DaemonLoads`, `DaemonSaves`), before, after or between the two and
while the GUI is in use; `DaemonDies` may come between its two. `clashed` is history: the daemon has saved
defaults over profiles that were not there when it looked. `SavesProfile` makes the profile anew from what the page shows and may fail to
write it; `memory` is the `ProfileManager`. `calls` is the stack of handlers, each of which is in the
`processEvents()` that ends `setMaintenanceBusy(true)` or `(false)`; while it is, any other handler that
is not disabled may begin. `Returns` is the rest of a handler, which for a change of packages goes on
with `refreshDependencyMaintenance`. `OpensPreparation` is `ensureActionBackend`, whose modal dialog may
open over any of them, as the device list stays enabled; while it is open nothing else moves.
`PreparesBackend` is an installation in it (its steps are those of `SetupAssistant`). `stale` names who has
changed profiles of devices or packages since the audit that the page shows: a handler of the page, or
that dialog.

**SetupAssistant.** The machine has or lacks what `inspect()` looks for; `dialog` is where
`installAndConfigure` is. Each command succeeds, or fails with or without effect (a time-out); the steps of
`EnablesService` do not end the installation when they fail, as in the code. `Boots` keeps the module only
if it is configured; `Interferes` is everybody else. `configured` is history: an installation without a
failing command has come to its end and nobody has interfered since. Dependencies that pacman adds by itself are installed but belong to nobody.

## 3. Runs

| Run | Bounds | Shows |
|---|---|---|
| `evdev` | one primary and one side button on a shared node, buffer of two, failing writes and foreign grabs | a monitor is off or wholly on, never swallows the pointer, relays what it reads, lets dead nodes go, implements its contract |
| `runtime` | a node with pointer and side button, one with the side button only, one with the pointer only; one edit, unplug, crash | what `start()` decided governs grabs, and presses from the grab on; the contract is kept, a waiting daemon starts |
| `owner` | one daemon crash, two dialogs, one tray restart, GUI crashes, slow systemd | one pointer, the dialog alone with the mouse and releasing it, the daemon back (and the type invariant) |
| `owner_login` | no crash, no dialog | `SingleOwner` is violated |
| `cache` | two mice, two profiles, three writes | no stale action, other mice kept |
| `action` | a terminal and a browser, one literal shortcut the keyboard cannot send, one fallback, two failing writes, one edit, one crash, one waiting press and one message | no key left down, no partial shortcut, no context but one that was reported, every action ends |
| `ledger` | a package of the runtime and two for printing, one of which needs the other; any of them there at first | what was there before is not removed, nor what the runtime needs unless the manifest was missing; the ledger of a job that is left alone is complete |
| `installer` | seven files of the kinds the scripts tell apart, one of them the user's; manifests of three earlier releases or none; two versions, one script that breaks off | no file of TDriver is forgotten, the new daemon runs, success is complete, the user's files stay |
| `dialog` | two mice, one of which has an inferred button, two buttons, two devices, three saves or damages | only proven buttons are remapped, commands have parameters, the table is whole, saves are as shown |
| `shell` | a dense panel and two ordinary screens, one with a name that the panel's contains; scales 100 and 200, on the second one also 180; two orders under way, two changes from outside | the window can be reached, scales settle, an ordinary screen is not left doubled unless it was first met just below that |
| `pages` | two default profiles, two texts; three handlers inside one another; a daemon and a setup dialog without bound | the page shows what its handlers left when all have returned; no profile is lost but to a daemon that looked too early |
| `setup` | no bound | a backend once set up is ready after every boot |

Why these bounds are enough to be interesting. A buffer of two overflows with a press in it and one
behind. Three nodes are the smallest mouse with both grab modes and a node that is left alone, and one edit, one unplug and one crash
meet in every order. Two dialogs allow one to begin while the job of the previous one still runs, and
three readers are all there are, so that paths of copies are complete. Three writes are one before, one
during and one after a dispatch, and two mice make both the foreign cache entry and the single-profile
fallback of `load()` happen. Two failing writes are one for a frame and one for the `releaseAll` that
answers it. Two versions and one interruption are an installation over another, the interrupted one being
either; files of one kind are handled alike, so that one of each kind is enough, and each of the lists of
the scripts (the two editions, obsolete, fixed, icons) has a file that the others lack. Three saves are one
for each mouse, which makes the single-profile fallback happen before and after, and a third over both;
two buttons are an inferred one and one that has to be confirmed. Two changes of outputs are a plug and a
rescaling, or an unplug and a plug that shift the numbers of an order under way, and two orders overlap.
180 % lies where the tolerance of 24 reaches the 195 % from which a screen counts as doubled: all scales from
171 to 194 are alike in that.
Three handlers are one inside one inside one: the middle one both interrupts and is interrupted. The
ledger run has no bound at all on how often anything happens; its packages are one that
every profile list requires, one that only some require, and one that another package keeps from being
removed.

The type invariants of the modules with proofs are proved (section 5); that of `GrabOwnership` is also part
of its run; that of `GuiShell` is stated for the reader and can be added to its configuration.

Deadlock is checked except in the two `owner` runs: with its bounds used up the ownership model
really rests (idle GUI, running daemon, nobody at the mouse).

Every property of a passing run has a mutant in `PROJECT.json`: a plausible bug (a dropped `stop()`
on a failure path, a cache without its device key, a modification time taken after the load, a
`releaseAll` that forgets the key, ...) under which TLC finds the property violated.

## 4. Fairness

* `EvdevMonitor`: calls that have begun go on, and the Qt event loop serves the notifier. Nothing is
  assumed of the hardware, and nobody has to call `start` or `stop`.
* `MouseRuntime`: systemd starts the unit (`Restart=on-failure`, enabled by the installer), the loop of
  `start()` goes on, notifiers are served, the ten second timer fires.
* `GrabOwnership`: systemd carries out its jobs, the daemon scans, the GUI thread runs on to where it
  waits for the user. The user and crashes are not fair.
* `DependencyLedger`: none. Nobody has to finish a job.
* `ActionExecution`: the event loop serves presses and D-Bus, and a call that has begun goes on; a
  script or tool is not assumed to end by itself, only the timeouts of `waitForFinished` are.

* `GuiShell`: a start comes to its end, the five second timer and the events for outputs fire, Qt notices
  outputs, and an order to kscreen-doctor ends, one way or the other; that it ends well in the long run
  follows from the bound on interference only. Neither the tray nor the outputs are fair, and the
  properties speak of a tray that stays and of a GUI that stays.
* `Installer`, `MappingDialog`, `GuiPages`, `SetupAssistant`: none. Nobody has to finish anything.

All of it is weak fairness of steps that stay enabled until they are taken.

## 5. Proofs

| Theorem | For every | Rests on |
|---|---|---|
| `EvdevMonitor_proofs`: `TypeCorrect`, `PointerKept`, `NothingHalfOpen`, `ContractImplemented` | set of buttons, buffer size, choice of faults | `Inv = Types /\ Stages /\ Always` |
| `EvdevMonitor_proofs`: `RelayIsFaithful` | the same | `TypeOK /\ Inv /\ FaithInv` |
| `MouseRuntime_proofs`: `TypeCorrect`, `MonitorsFollowDecision`, `RemappedSuppressed`, `GrabsAreNeeded`, `ContractKept` | set of nodes and buttons, number of edits, unplugs, crashes | `IInv` |
| `GrabOwnership_proofs`: `TypeCorrect`, `OnePointer`, `DialogAlone` | number of dialogs, restarts and crashes; installed or not, slow systemd or not, crashing GUI or not | `Inv = ReadersInv /\ ThreadTypes /\ DialogInv /\ StopInv` |
| `ActionExecution_proofs`: `TypeCorrect`, `ShortcutsAreForTheWindow`, `NoKeyIsLeftDown`, `ShortcutsAreWhole` | set of windows and terminals, shortcuts that cannot be sent, number of presses and messages waiting, failing writes, edits, fallbacks and crashes | `TypeInv`; `ContextInv`; `ReleaseInv /\ KeyboardInv` |
| `MappingCache_proofs`: `TypeCorrect`, `DispatchIsCurrent`, `CacheIsFresh`, `SaveKeepsOthers` | finite set of mice, set of profiles, number of writes | `Inv` |
| `Dependencies_proofs`: `TypeCorrect`, `PreexistingSafe`, `RuntimeSafe`, `LedgerComplete` | set of packages and profiles, dependency relation, edition and protected packages | `IInv` |
| `Dependencies_proofs`: `PagesTypeCorrect`, `PageStaysCurrent`, `ProfilesAreKept` | set of profiles and texts, defaults, depth of nesting | `PagesTypeOK`; `Nested`; `InMemory` |
| `Dependencies_proofs`: `SetupTypeCorrect`, `BackendStaysReady` | (no constants) | `AssistantTypeOK`; `SetupInv` |
| `Installer_proofs`: `TypeCorrect`, `NothingForgotten`, `NewDaemonRuns`, `SuccessIsTrue`, `UsersFilesSafe` | set of files, editions, fixed lists, old manifests, number of versions and interruptions | `IInv` |
| `MappingDialog_proofs`: `TypeCorrect`, `OnlyProvenRemapped`, `ParametersBelong`, `TableOffersAll`, `SaveIsShown` | set of mice, buttons and devices, inferred buttons, compatible devices, number of saves | `IInv` |

The assumptions are the named `ASSUME`s of the modules; TLC evaluates them in the runs.

*EvdevMonitor.* `PointerNeverSwallowed` and `AllOrNothing` say nothing about the middle of a call, so
the invariant adds, for each value of `pc`, which members are already set and which are already undone
(`Stages`), and what holds throughout: a grab of ours implies a grab that was asked for with a relay if
the node is shared (`Always`). The refinement follows step by step: only `StartAttach` maps to `Attach`
and only the step that deletes the notifier to `Detach`; everything else stutters.
`RelayFaithful` speaks of the time of the relay, but what makes it true begins when the descriptor is
opened: `FaithInv` claims the same from then on, before there is a virtual device and whoever holds the
grab, with an empty buffer on a closed descriptor. `ForeseenShown` makes of what will be shown a function
of the waiting events; what a new last event (`AppendShown`, `BufferedShown`) and what the loss of the first
ones (`SuffixShown`, `NoneShown`) do to it are lemmas about sequences, so that overflow, `SYN_DROPPED`
and failing writes are each a few lines.

*MouseRuntime.* `RemappedNeverNative` is not inductive: that a press was not native depends on the grab,
the grab on the mode of its monitor, the mode on the decision, and the decision on the file that
`start()` loaded. `ModesFollowStart` and `WaitingIsMonitored` carry that chain from `start()` to the
handled press, and `StartingHasPeripheral` keeps it alive inside the loop of `start()`; `TriedOnce` says that
the node which is being opened is not tried again. The contract is
an action property proved from the same invariant.

*GrabOwnership.* `PointerVisible` counts nodes: the one end of all copies that the desktop still sees. The
readers, wherever they came from, always form one chain, the first on the mouse and each other one on
the copy that the one before it makes (`ReadersInv`), and a chain has one end (`ChainEnds`). That a reader
can be added at the end only needs that a scan's list never holds a node that goes through the scanner itself; that one can be cut
out together with what hangs on it is `CutChain`. `DialogWithoutDaemon` needs that a unit whose stop has
been seen is not started by anybody before the dialog is done (`StopInv`, `DialogInv`).

*ActionExecution.* `NothingHeld` and `OnlyWholeShortcuts` are about the time when no frame is under way,
and are decided inside one: `KeyboardInv` says for each phase of a shortcut which keys the virtual keyboard
has down and which events the frame it writes consists of (`FrameKeys`), `ReleaseInv` which keys are still down
on the way out after a failure. What the desktop makes of a frame is first-order (`DownAfter`, `Strokes`):
the last event of a key decides, and a main key that comes down is a stroke with the modifiers down by
then. `ContextIsCurrent` rests on `ContextInv`: the last message on its way names the active window, and without
one it is what the daemon knows, if it knows of any since its last start.

*MappingCache.* `CacheIsTheFile` needs to know that what was seen of the file before a load identifies
the contents loaded after it. `Fresh` says so: a result that is about to be stored is what the file
gives now, unless the file looks different from what was seen - and a write always makes it look
different from anything seen before (`WriteIsNew`). `KeepsOthers` does the same for a save between
its read and its rename.

*DependencyLedger.* `PreexistingKept` and `CoreKept` speak of a removal, but go wrong much earlier: when
an audit makes a list, when a job reads the ledger, when profiles are written without the runtime's.
`KeptApart` keeps ledger, lists and entries to be written apart from what was there before; `CoreApart`
keeps the runtime's profile in every list that will be written, so that an empty file (truncated or
lost) is the only one without it, and that one counts as the runtime's profile alone. From there to the
list of what can be removed it takes the manifest (`CoreIsRequired`): a `blind` list is outside. `NothingLost` says
of a job that is about to write that its copy of the ledger lacks only what the other is about to add.
Each part has a lemma that lists what a single step must not do (`KeptMove`, `CoreMove`, `NotedMove`),
and a step lemma that goes through the actions.

*Installer.* `Accounted` is not inductive at the commit: that replacing the manifest forgets no file needs
that the obsolete ones are gone by then, which `ToRemove` carries through the loop, and `Lists` that
the loops of copying and pruning do not meet. `SuccessIsComplete` speaks of one step and rests on what the
sections before it have achieved (`Copied`, `Recorded`), which nothing in between undoes except the GUI, and
that only for its own entry. `Daemons` follows the daemon from the stop to the report.

*MappingDialog.* `RemapsOnlyProven` is about the file, but is decided in the table: `Rows` says that exactly
the allowed rows are unlocked and that what is confirmed was seen for this mouse; a save then cannot
write anything else, whichever profile the table was filled from. `WholeFile` does the same for
`TableIsWhole` between one session's save and the next one's load.

*Pages and setup.* `PageIsCurrent` is about an idle page; `Nested` says of a busy one that only the innermost
handler is at work, and that a page which does not show what a handler left has one that is yet to audit:
one before its work, or one that has changed packages. `InMemory` ties what the GUI has in memory to the
profiles that are in the file, or would be put there (`OnFile`), so that a save that writes all of memory
loses nothing; between the two halves of a start it allows an empty memory where the defaults are
due or have been saved by the daemon. `SetupInv` says what a flawless installation has done at each
of its commands, and that what it leaves is all that a boot needs.

Only model-checked: all liveness (`RelayKeepsUp`, `DeadNodeReleased`, `WaitingDaemonStarts`,
`StaleMonitorsClose`, `DialogReleases`, `DaemonReturns`, `MouseServed`, `ActionsEnd`, `WindowReachable`,
`ScaleSettles`, `OrdinaryNotDoubled`), which is beyond the proof system, and with it all of `GuiShell`. Every
other property of a passing run is proved.

## 6. Where code and documents differ

* **Two owners** (run `owner_login`). `restartMouseRuntime` decides on an answer that a starting daemon makes
  stale (`MainWindow.cpp:2074`); `docs/RELEASE_CHECKS_STABLE.md:17` allows one owner only. The run's
  counterexample shows it.

Seen while modelling, part of the models, without a run of their own:

*Monitor, controller, daemon*

* After `SYN_DROPPED` the release of a relayed button may be lost and is never replayed
  (`EvdevMouseMonitor.cpp:265`), so that the desktop goes on seeing it held; `RELEASE_NOTES_1.1.6.md:3`
  promises that events are safely relayed.
* As soon as one side button is remapped, all side buttons of a grabbed node are suppressed
  (`EvdevMouseMonitor.cpp:282`), also those mapped to Default; `RELEASE_NOTES_1.0.1.md:9` says they keep
  their native behaviour.
* `isRunning()` counts monitors that a read error has stopped (`MouseRuntimeController.cpp:140`), so that the
  daemon never scans again after an unplug; `docs/PERSISTENCE.md:4` says that mappings persist.
* A button that is held while the node is grabbed stays down on the physical node for the desktop
  until the grab ends (`RelayFaithful` excepts it).
* A side button that is pressed between `open` and `EVIOCGRAB` (`EvdevMouseMonitor.cpp:130-192`) does its native
  action, and then its remapped one when the monitor reads it (`RemappedNeverNative` excepts it as `early`).
* `docs/ARCHITECTURE_1_0_ALPHA.md:33` says motion nodes are not grabbed; a shared node is, with a relay.
* An edit that first remaps a side button takes effect only at the next start of the runtime.
* An interface that becomes readable after the start is never picked up.
* The dialog object outlives its `exec()`; its monitors hold the mouse while the daemon is restarted.
* When the unit does not stop in time the dialog opens all the same, beside a daemon that has the mouse
  (`MainWindow.cpp:1714-1728`; `DialogWithoutDaemon` excepts it, `PointerVisible` does not).
* `QProcess::start` for the restart does nothing while an earlier stop still runs
  (`DaemonReturns` excepts it), and a GUI that dies with the dialog open leaves the daemon stopped.
* A failure of the last frame of a shortcut leaves its modifiers down, as no `releaseAll` follows
  (`NothingHeld` excepts it).
* A backend that fails late may have acted; the next one acts again.
* A wheel notch is reported as press and release, and both are dispatched
  (`EvdevMouseMonitor.cpp:333`); the wheel is not part of the models.
* Two equal mice without serial numbers share a key (`PhysicalDeviceGrouper.cpp:14`), and so their mappings.

*Actions, context, mappings*

* Where no window is known a context-sensitive shortcut is not sent at all. So say
  `docs/KWIN_CONTEXT_BRIDGE.md:9-10` and `CHANGELOG.md:43`, and `ContextIsCurrent` demands it; but `README.md:224`
  and the older `CHANGELOG.md:169` still promise the ordinary shortcuts in that case.
* A press may be read before the report of the window switch that preceded it
  (`ApplicationContext.cpp:211`), so that a terminal gets Ctrl+V; `CHANGELOG_RC1.md:5`,
  `docs/RELEASE_CHECKS_STABLE.md:13`.
* A restarted daemon knows no window until the user switches to another one.
* Saving over a mapping file that does not parse drops the profiles of the other mice
  (`OthersKept` is about files that parse).
* Two saves of one size within one tick of the file system's clock would look alike to the cache.

*Packages*

* `cleanup_install_dependencies.sh:11` removes whatever of the ledger is an orphan and not in its own list,
  and `bootstrap_arch.sh:71` makes orphans of all packages of the edition; the comment at `install.sh:58`
  says that only packages for the build are removed. The ledger keeps their names.
* A ledger entry outlives its package: when the user removes the package and installs it again, the
  maintenance page offers the user's package for removal (`docs/DEPENDENCY_LIFECYCLE.md:21`).
* What the maintenance page does comes from a second audit, not from the one the user confirmed.
* Without `dependencies.arch.json` an audit requires nothing, and offers what TDriver has recorded, `ydotool`
  included, for removal (`DependencyMaintenanceManager.cpp:68-84,243-267,330,342`); its summary (`:390-398`) says
  that packages which an active profile needs are never offered. `install_user.sh` does not install that file,
  so that only a GUI that is started in the source tree, or beside it, finds one (`CoreKept` excepts a `blind`
  list).
* `bootstrap_arch.sh` installs the packages of all profiles of the edition and enables only
  `runtime-core`: the maintenance page offers the others for removal at once. A profile, once enabled, is
  never disabled, although `docs/DEPENDENCY_LIFECYCLE.md:28` speaks of removed profiles.
* A pacman that takes more than three minutes is reported as failed and its packages are not recorded.
* The clean-up's `-Rns` may take along a dependency that was there before TDriver and that nothing else
  needs (`PreexistingKept` is about packages removed by name).

*Installer*

* A failed `systemctl stop || true`, or a GUI that is used to restart the unit, leaves the old daemon running
  after an update (`install_user.sh:277`; `UpdateRuns` excepts both; `docs/RELEASE_CHECKS_STABLE.md:22`).
* A first full installation that breaks off before its manifest leaves the KWin script behind an
  uninstallation, whose list for that case (`uninstall_all_user.sh`) does not name it.
* A full update installs the autostart entry again although the user had switched it off
  (`install_user.sh:174`, `docs/RELEASE_CHECKS_STABLE.md:24`).
* The purge also removes the package ledger: after it nothing tells TDriver's packages from the user's.

*Mapping dialog*

* `LocalizationService.cpp:134` tells that the live test does not grab the device; the monitors are
  started with a grab and a relay (`MouseActionDialog.cpp:816`).
* After a load that failed the table is empty and can be saved: the file then has one profile without a
  name and without buttons, which the fallback takes for every mouse's (`TableIsWhole` excepts it).
* Buttons that an earlier session had confirmed are Default after the next save unless they are confirmed
  again (`MouseActionDialog.cpp:1099`; `docs/PERSISTENCE.md:4`).
* Any of the devices of a selection confirms, also one of another mouse with a matching name.
* With dead monitors only, the toggle stops them and has to be used again.

*Shell*

* Densities are looked up by names that contain one another: beside a panel `eDP-1`, a screen `DP-1` may pass
  for dense and is then left at 200 % (`OrdinaryNotDoubled` excepts it; the comment at `MainWindow.cpp:1306`
  does not). A dense panel that Qt does not know yet is remembered at 100 %.
* An ordinary screen that is first met at 176 to 194 % is remembered so (`MainWindow.cpp:1307`); when it goes to
  200 % later, the difference is within the tolerance (`:1294`) and it is left there. From 171 % on the same
  holds for 195 % (`OrdinaryNotDoubled` excepts a screen `MetJustBelow`).
* Without kscreen-doctor, or with the setting off, nothing is checked; the models have both in place.
* The user's own change of a scale is reverted by the next check.
* A window that is closed while Plasma's tray is away is hidden until the tray returns. On a desktop without
  any tray a closed window cannot be shown again, and a second start (`app/main.cpp:33`) points to an icon
  that is not there.

*Pages*

* The feedback of an outer handler replaces the newer one of a handler that ran inside it.
* The dialog that sets up ydotool may install a package that the maintenance page lists as missing, and no
  audit follows (`MainWindow.cpp:2034-2059`): the page goes on listing it until the next one (`PageIsCurrent`
  speaks of what the page's own handlers left).
* GUI and daemon run the same `initialize` on one file, without a lock (`daemon/main.cpp:89-90`). A daemon that
  found no profiles saves the defaults over whatever the GUI or the user has put there meanwhile, and the
  running GUI does not learn of it (`ProfilesKept` excepts what follows as `clashed`).
* A `profiles.json` that cannot be opened or parsed is replaced by the defaults
  (`Application.cpp:26-35,71`; `ProfilesKept` is about files that can be read).
* A profile whose save failed stays changed in memory and is written with the next save of another one. A
  save drops the settings that the page does not show. Edits by hand while a GUI runs are overwritten
  (assumed not to happen). `startup/restoreProfile` is saved and never read.

*Setup*

* An installation that fails half-way leaves what it has done, and a module that was loaded but not
  configured is gone after the next boot; the backend then looks as if it had never been set up.
* ydotool is not recorded in the ledger when this dialog installs it, although `CHANGELOG.md:115` speaks of
  automatic updates of the ledger after an installation; `bootstrap_arch.sh` then takes it for the user's.
* `setup/actionBackendDismissedForVersion` is compared with no version (`MainWindow.cpp:2027-2036`).
* A slow `systemctl` makes a ready backend look as if it had to be set up. A GUI that dies with the prompt
  open asks again at its next start.

## 7. State of the plan and what is not modelled

Done, in this order: `MonitorContract`, `EvdevMonitor`, `MouseRuntime`, `GrabOwnership`, `MappingCache`,
`ActionExecution`, `DependencyLedger`, `Installer`, `MappingDialog`, `GuiShell`, `GuiPages`,
`SetupAssistant`; proofs of every safety and action property of the passing runs, and of the refinements.

Next: the informal links of section 2 as refinements (what `MappingCache` and `ActionExecution` do, as steps of
`MouseRuntime`), and the type invariant of `GuiShell`.

Not modelled, and not planned:

* The event normalizer, the safety policy's warnings, the classifiers of capabilities and transports, the
  vendor table and the grouping of devices: functions of what they are given, without state or order, which
  unit tests reach. What they decide for the rest (mouse or not, side buttons or not, which buttons are
  inferred) is a constant or a choice of the models above.
* `ConfigService`, event bus, logger, plugin registry: containers that nothing in the program uses from two
  threads or reads a decision from.
* Texts, layout, themes, icons, localization, diagnostics and the command line: what they show is not kept.
* Build and packaging beyond what the installer sees of a build; the root scripts for udev rules and
  system-wide files, which are single commands.
* libevdev, Qt, systemd, KWin, kscreen-doctor and pacman except as the code uses them.

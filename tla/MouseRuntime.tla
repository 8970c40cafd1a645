--------------------------- MODULE MouseRuntime ---------------------------
(***************************************************************************)
(* The background daemon: HeadlessService (scan, ten second timer) driving *)
(* one MouseRuntimeController over the evdev nodes of one mouse, with the  *)
(* mapping file, the kernel nodes and systemd around it.  A monitor is     *)
(* used only through MonitorContract.                                      *)
(***************************************************************************)
EXTENDS Naturals, FiniteSets

CONSTANTS
  Node,         \* evdev nodes of the mouse that matches() accepts by name
  SideNode,     \* nodes with side buttons
  MotionNode,   \* nodes with relative motion or primary buttons
  Button,       \* buttons a mapping can name
  SideButton,   \* Back, Forward, Gesture, Extra1, Extra2
  Broken,       \* a mapping file that load() fails on
  MaxEdits,     \* bound: changes of the mapping file
  MaxUnplugs,   \* bound: times the mouse disconnects
  MaxCrashes    \* bound: times the daemon process dies

ASSUME NodeAssumption == SideNode \subseteq Node /\ MotionNode \subseteq Node
ASSUME ButtonAssumption == SideButton \subseteq Button
ASSUME BoundAssumption == MaxEdits \in Nat /\ MaxUnplugs \in Nat /\ MaxCrashes \in Nat

Actions  == {"default", "disabled", "custom"}   \* custom: every type that is executed
Profiles == [Button -> Actions]
Files    == Profiles \cup {Broken}

ASSUME BrokenAssumption == Broken \notin Profiles

Modes    == {"none", "opening", "plain", "exclusive", "relay", "dead"}

VARIABLES
  connected,      \* the HID backend reports the mouse
  ready,          \* nodes that exist and that the user may open
  foreign,        \* nodes another process has grabbed
  uinput,         \* TRUE iff /dev/uinput may be opened
  file,           \* mouse-mappings.json
  up,             \* the daemon process runs
  pc,             \* "idle" (event loop) or "starting" (inside controller start())
  todo,           \* nodes the start() in progress has enumerated and not yet tried
  hasPeripheral, needsSideButtonSuppression,
  mode,           \* entries of monitors_: "none" is no entry, "dead" a stopped one;
                  \* "opening" is the monitor inside its own start()
  stale,          \* nodes whose monitor holds a descriptor of a node that is gone
  press,          \* the last button press since the monitors started, and what
                  \* became of it
  startFile,      \* history: the file that start() loaded
  edits, unplugs, crashes

world   == <<connected, ready, foreign, uinput>>
process == <<up, pc, todo, hasPeripheral, needsSideButtonSuppression, mode, stale, startFile>>
counts  == <<edits, unplugs, crashes>>
vars    == <<world, file, process, press, counts>>

NoPress == [stage |-> "none"]
\* early, a history: pressed while the monitor had the node open but not yet grabbed
Waiting == [stage : {"waiting"}, node : Node, button : Button,
            native : BOOLEAN, early : BOOLEAN]
\* meaning: the mapping dispatch() found; asStarted: the file is the one start() loaded
Handled == [stage : {"handled"}, button : Button, native : BOOLEAN, early : BOOLEAN,
            meaning : Actions \cup {"unreadable"}, asStarted : BOOLEAN]

TypeOK ==
  /\ connected \in BOOLEAN /\ uinput \in BOOLEAN
  /\ ready \subseteq Node /\ foreign \subseteq Node
  /\ file \in Files /\ startFile \in Files
  /\ up \in BOOLEAN
  /\ pc \in {"idle", "starting"}
  /\ todo \subseteq Node
  /\ hasPeripheral \in BOOLEAN /\ needsSideButtonSuppression \in BOOLEAN
  /\ mode \in [Node -> Modes]
  /\ stale \subseteq {n \in Node : mode[n] \notin {"none", "dead"}}
  /\ press \in {NoPress} \cup Waiting \cup Handled
  /\ edits \in 0..MaxEdits /\ unplugs \in 0..MaxUnplugs /\ crashes \in 0..MaxCrashes

NoMonitors == [n \in Node |-> "none"]

\* A press is lost when its monitor goes away before it reads it.
UnreadOf(n) == IF press.stage = "waiting" /\ press.node = n THEN NoPress ELSE press

Open(n)  == mode[n] \notin {"none", "dead"}
Live(n)  == Open(n) /\ mode[n] # "opening"
Grabs(n) == mode[n] \in {"exclusive", "relay"} /\ n \notin stale

\* MouseRuntimeController::isRunning counts entries, whatever became of them.
isRunning == \E n \in Node : mode[n] \notin {"none", "opening"}

Init ==
  /\ connected = FALSE /\ ready = {} /\ foreign = {} /\ uinput \in BOOLEAN
  /\ file \in Files /\ startFile = file
  /\ up = FALSE /\ pc = "idle" /\ todo = {}
  /\ hasPeripheral = FALSE /\ needsSideButtonSuppression = FALSE
  /\ mode = NoMonitors /\ stale = {}
  /\ press = NoPress
  /\ edits = 0 /\ unplugs = 0 /\ crashes = 0

-----------------------------------------------------------------------------
(* The world: the mouse, permissions, other programs, the mapping file.    *)

Connect ==
  /\ ~connected /\ connected' = TRUE
  /\ UNCHANGED <<ready, foreign, uinput, file, process, press, counts>>

\* udev creates a node and grants access to it, one node after another.
NodeReady(n) ==
  /\ connected /\ n \notin ready
  /\ ready' = ready \cup {n}
  /\ UNCHANGED <<connected, foreign, uinput, file, process, press, counts>>

\* The nodes die under the monitors that have them open.
Disconnect ==
  /\ connected /\ unplugs < MaxUnplugs
  /\ connected' = FALSE /\ ready' = {} /\ foreign' = {}
  /\ stale' = {n \in Node : Open(n)}
  /\ press' = NoPress
  /\ unplugs' = unplugs + 1
  /\ UNCHANGED <<uinput, file, up, pc, todo, hasPeripheral,
                 needsSideButtonSuppression, mode, startFile, edits, crashes>>

ForeignGrab(n) ==
  /\ \/ n \in foreign /\ foreign' = foreign \ {n}
     \/ n \in ready /\ n \notin foreign /\ ~Grabs(n) /\ foreign' = foreign \cup {n}
  /\ UNCHANGED <<connected, ready, uinput, file, process, press, counts>>

UinputChanges ==
  /\ uinput' = ~uinput
  /\ UNCHANGED <<connected, ready, foreign, file, process, press, counts>>

\* The GUI saves other mappings, or the file becomes unreadable.
EditFile ==
  /\ edits < MaxEdits
  /\ file' \in Files \ {file}
  /\ edits' = edits + 1
  /\ UNCHANGED <<world, process, press, unplugs, crashes>>

-----------------------------------------------------------------------------
(* MouseRuntimeController                                                  *)

\* A side button that is not left to the system has to be taken away from it;
\* a file that does not load asks for nothing.
NeedsIfCustom(f) == f # Broken /\ \E b \in SideButton : f[b] = "custom"
Needs(f) == f # Broken /\ \E b \in SideButton : f[b] # "default"

\* Arguments of monitor->start: exclusive when the node has side buttons to
\* suppress, with a relay when the pointer is on the same node.
ModeWithoutRelay(n) ==
  IF needsSideButtonSuppression /\ n \in SideNode THEN "exclusive" ELSE "plain"
ModeOfEveryNode(n) ==
  IF ~needsSideButtonSuppression THEN "plain"
  ELSE IF n \in MotionNode THEN "relay" ELSE "exclusive"
ModeFor(n) ==
  IF ~(needsSideButtonSuppression /\ n \in SideNode) THEN "plain"
  ELSE IF n \in MotionNode THEN "relay" ELSE "exclusive"

Decision == Needs(file)

\* start(): stop(), then enumerate the readable nodes and load the mappings.
ControllerStart ==
  /\ mode' = NoMonitors /\ stale' = {}
  /\ press' = NoPress
  /\ hasPeripheral' = TRUE
  /\ todo' = ready
  /\ startFile' = file
  /\ needsSideButtonSuppression' = Decision
  /\ pc' = "starting"

\* One monitor->start after the other: it opens the node, from when on the kernel
\* keeps events for it...
StartOpens(n) ==
  /\ pc = "starting" /\ n \in todo /\ \A m \in Node : mode[m] # "opening"
  /\ todo' = todo \ {n}
  /\ mode' = IF n \in ready THEN [mode EXCEPT ![n] = "opening"] ELSE mode
  /\ UNCHANGED <<world, file, up, pc, hasPeripheral, needsSideButtonSuppression,
                 stale, press, startFile, counts>>

\* ... and then needs, to relay, /dev/uinput, and the grab, which a node that is
\* gone or that another process has grabbed refuses.
Refused(n) == \/ ModeFor(n) # "plain" /\ n \in foreign \cup stale
              \/ ModeFor(n) = "relay" /\ ~uinput

StartAttaches(n) ==
  /\ mode[n] = "opening" /\ ~Refused(n)
  /\ mode' = [mode EXCEPT ![n] = ModeFor(n)]
  /\ UNCHANGED <<world, file, up, pc, todo, hasPeripheral, needsSideButtonSuppression,
                 stale, press, startFile, counts>>

\* A monitor that fails is dropped with what the kernel kept for it; the others
\* start all the same.
StartFails(n) ==
  /\ mode[n] = "opening" /\ (Refused(n) \/ n \in stale)
  /\ mode' = [mode EXCEPT ![n] = "none"] /\ stale' = stale \ {n}
  /\ press' = UnreadOf(n)
  /\ UNCHANGED <<world, file, up, pc, todo, hasPeripheral, needsSideButtonSuppression,
                 startFile, counts>>

StartReturns ==
  /\ pc = "starting" /\ todo = {} /\ \A n \in Node : mode[n] # "opening"
  /\ pc' = "idle"
  /\ UNCHANGED <<world, file, up, todo, hasPeripheral, needsSideButtonSuppression,
                 mode, stale, press, startFile, counts>>

\* The read error of a monitor whose node is gone: it stops itself and stays
\* in monitors_.
DescriptorKept(n) == mode' = [mode EXCEPT ![n] = "dead"] /\ stale' = stale
KeptAsDead(n) == mode' = [mode EXCEPT ![n] = "dead"] /\ stale' = stale \ {n}

MonitorDies(n) ==
  /\ pc = "idle" /\ n \in stale
  /\ KeptAsDead(n)
  /\ UNCHANGED <<world, file, up, pc, todo, hasPeripheral,
                 needsSideButtonSuppression, press, startFile, counts>>

\* A finger presses b on a node that a monitor has open (presses elsewhere are
\* none of TDriver's business).  The desktop gets the event too, unless the
\* monitor grabs the node; then it gets what the relay passes on.
Press(n, b) ==
  /\ press.stage # "waiting"
  /\ n \in ready \ foreign /\ Open(n) /\ n \notin stale
  /\ n \in IF b \in SideButton THEN SideNode ELSE MotionNode
  /\ press' = [stage |-> "waiting", node |-> n, button |-> b,
               native |-> Grabs(n) => mode[n] = "relay" /\ b \notin SideButton,
               early |-> ~Live(n)]
  /\ UNCHANGED <<world, file, process, counts>>

\* handleButton and ActionEngine::dispatch, with the mappings as they are now.
HandleButton ==
  /\ pc = "idle" /\ press.stage = "waiting" /\ hasPeripheral
  /\ press' = [stage |-> "handled", button |-> press.button,
               native |-> press.native, early |-> press.early,
               meaning |-> IF file = Broken THEN "unreadable" ELSE file[press.button],
               asStarted |-> file = startFile]
  /\ UNCHANGED <<world, file, process, counts>>

-----------------------------------------------------------------------------
(* HeadlessService and systemd                                             *)

\* scanAndStart(): the first mouse found is started; otherwise it waits.
ScanAndStart ==
  IF connected THEN ControllerStart
  ELSE UNCHANGED <<mode, stale, press, hasPeripheral, todo, startFile,
                   needsSideButtonSuppression, pc>>

DaemonStarts ==
  /\ ~up /\ up' = TRUE
  /\ ScanAndStart
  /\ UNCHANGED <<world, file, counts>>

\* The ten second timer scans again only while the controller is not running.
RescanNever == FALSE
Rescans == ~isRunning

TimerFires ==
  /\ up /\ pc = "idle" /\ Rescans
  /\ ScanAndStart
  /\ UNCHANGED <<world, file, up, counts>>

\* The process dies; the kernel closes its descriptors and drops its grabs.
Crash ==
  /\ up /\ crashes < MaxCrashes
  /\ up' = FALSE /\ pc' = "idle" /\ todo' = {}
  /\ hasPeripheral' = FALSE /\ needsSideButtonSuppression' = FALSE
  /\ mode' = NoMonitors /\ stale' = {}
  /\ press' = NoPress
  /\ crashes' = crashes + 1
  /\ UNCHANGED <<world, file, startFile, edits, unplugs>>

-----------------------------------------------------------------------------
\* The body of start(), which is one call after the other on one thread.
Starting == StartReturns \/ \E n \in Node : StartOpens(n) \/ StartAttaches(n) \/ StartFails(n)

World == Connect \/ Disconnect \/ UinputChanges \/ EditFile
         \/ \E n \in Node : NodeReady(n) \/ ForeignGrab(n)

Daemon == DaemonStarts \/ TimerFires \/ Starting \/ HandleButton
          \/ \E n \in Node : MonitorDies(n)

Next == World \/ Daemon \/ Crash
        \/ \E n \in Node, b \in Button : Press(n, b)

\* systemd starts the daemon (Restart=on-failure), the Qt event loop goes
\* through the loop of start(), serves the notifiers and fires the timer.
\* Nothing is assumed of the mouse, of other programs or of the user.
Fairness ==
  /\ WF_vars(DaemonStarts)
  /\ WF_vars(TimerFires)
  /\ WF_vars(Starting)
  /\ WF_vars(HandleButton)
  /\ \A n \in Node : WF_vars(MonitorDies(n))

Spec == Init /\ [][Next]_vars /\ Fairness

-----------------------------------------------------------------------------
(* Properties                                                              *)

\* As long as the mappings are those start() decided on, a side button with an
\* action or "disabled" is never also seen by the desktop when it is handled:
\* Back does not navigate and paste at once (start() 36-71, dispatch()).  The one
\* way out: it was pressed when its monitor had opened the node and was about to
\* grab it, and is handled once the monitor runs.
RemappedNeverNative ==
  /\ press.stage = "handled" /\ press.button \in SideButton
  /\ press.asStarted /\ ~press.early
  /\ press.meaning \in {"custom", "disabled"}
  => ~press.native

\* Nothing is grabbed for mappings that do not touch a side button, and
\* nothing but a node with side buttons is ever grabbed.
GrabOnlyForSideButtons ==
  \A n \in Node : Grabs(n) => n \in SideNode /\ Needs(startFile)

\* The strengthening that makes RemappedNeverNative and GrabOnlyForSideButtons
\* inductive: what start() decided is what every monitor was started with.
ModesFollowStart ==
  /\ needsSideButtonSuppression => Needs(startFile)
  /\ hasPeripheral => needsSideButtonSuppression = Needs(startFile)
  /\ isRunning => hasPeripheral
  /\ \A n \in Node : Live(n) => mode[n] = ModeFor(n)

\* Whatever is handled was kept for a monitor that still has the node open, and,
\* but for an early press, that has had it as it has it now.
WaitingIsMonitored ==
  press.stage = "waiting" =>
    /\ Open(press.node) /\ press.node \notin stale /\ hasPeripheral
    /\ press.button \in SideButton /\ ~press.early =>
         /\ press.node \in SideNode /\ Live(press.node)
         /\ press.native = ~Grabs(press.node)

\* Every entry of monitors_ behaves as MonitorContract says: the controller
\* stops a monitor before it starts it in another way, and never asks for the
\* grab of a shared node without the relay.
Shown(n) == IF Live(n) THEN mode[n] ELSE "off"
Monitor(n) == INSTANCE MonitorContract WITH Shared <- n \in MotionNode, mode <- Shown(n)

KeepsMonitorContract ==
  (\A n \in Node : Monitor(n)!Init)
  /\ [][\A n \in Node : Monitor(n)!Next \/ UNCHANGED Shown(n)]_vars

\* The surroundings are as good as they get, from now on.
Good ==
  /\ connected /\ ready = Node /\ foreign = {} /\ uinput

\* A daemon that waits for a mouse gets it: once mouse, permissions and
\* /dev/uinput are there for good, the controller comes to have monitors.
WaitingDaemonStarts == <>[]Good => <>[]isRunning

\* Monitors of an unplugged mouse do not keep their descriptors and grabs.
StaleMonitorsClose == \A n \in Node : n \in stale ~> n \notin stale
=============================================================================

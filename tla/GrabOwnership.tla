--------------------------- MODULE GrabOwnership ---------------------------
(***************************************************************************)
(* Who reads the mouse: the daemon's controller, the GUI's fallback        *)
(* controller and the live monitor of the mapping dialog, with the systemd *)
(* unit that the GUI stops and restarts around the dialog.  One shared     *)
(* interface with a remapped side button: every reader grabs what it reads *)
(* and shows the desktop a virtual copy, which the other readers find by   *)
(* name among the input devices like any other mouse.  A node is named by  *)
(* the readers it went through: <<>> is the mouse itself, <<"gui">> the    *)
(* GUI's copy of it, <<"daemon", "gui">> the daemon's copy of that.        *)
(***************************************************************************)
EXTENDS Naturals, Sequences, FiniteSets

CONSTANTS
  Installed,     \* the user service exists and is enabled
  SlowSystemd,   \* a systemctl call may outlast the time the GUI waits for it
  GuiMayCrash,   \* the GUI process may die
  MaxCrashes,    \* bound: daemon crashes
  MaxDialogs,    \* bound: mapping dialogs opened
  MaxRestarts    \* bound: "restart" chosen in the tray

ASSUME FlagAssumption == {Installed, SlowSystemd, GuiMayCrash} \subseteq BOOLEAN
ASSUME BoundAssumption == {MaxCrashes, MaxDialogs, MaxRestarts} \subseteq Nat

Reader == {"daemon", "gui", "dialog"}
Mouse  == <<>>

\* Chains of readers without repetition.
Path == {Mouse} \cup {<<p>> : p \in Reader}
        \cup {<<p, q>> : p \in Reader, q \in Reader}
        \cup {<<p, q, r>> : p \in Reader, q \in Reader, r \in Reader}
Through(n) == {n[i] : i \in 1..Len(n)}
InputNode  == {n \in Path : Cardinality(Through(n)) = Len(n)}

VARIABLES
  own,       \* own[p]: nodes that a live monitor of p reads
  dead,      \* dead[p]: monitors_ of p holds a monitor that a read error stopped
  todo,      \* todo[p]: nodes p's start() has enumerated and not yet tried
  listed,    \* the nodes in the dialog's list of input devices
  unit,      \* the systemd user unit
  job,       \* the systemctl call systemd is working on
  gui,       \* where the GUI thread is
  return,    \* where it goes back to from restartMouseRuntime
  verdict,   \* what restartMouseRuntime takes for "the daemon is active"
  waited,    \* FALSE iff the GUI gave up waiting for the stop
  crashes, dialogs, restarts

readers == <<own, dead, todo, listed>>
systemd == <<unit, job>>
thread  == <<gui, return, verdict, waited>>
counts  == <<crashes, dialogs, restarts>>
vars    == <<readers, systemd, thread, counts>>

GuiStates == {"off", "check", "act", "starting", "idle",
              "stopping", "dialog", "closing", "restarting", "closed"}

TypeOK ==
  /\ own \in [Reader -> SUBSET InputNode]
  /\ dead \in [Reader -> BOOLEAN]
  /\ todo \in [Reader -> SUBSET InputNode]
  /\ listed \subseteq InputNode
  /\ unit \in {"inactive", "activating", "active"}
  /\ job \in {"none", "stop", "restart"}
  /\ gui \in GuiStates
  /\ return \in {"idle", "dialog", "closed"}
  /\ verdict \in BOOLEAN /\ waited \in BOOLEAN
  /\ crashes \in 0..MaxCrashes /\ dialogs \in 0..MaxDialogs
  /\ restarts \in 0..MaxRestarts

\* Login: the session starts the unit, and the GUI from its autostart entry.
Init ==
  /\ own = [p \in Reader |-> {}]
  /\ dead = [p \in Reader |-> FALSE]
  /\ todo = [p \in Reader |-> {}] /\ listed = {}
  /\ unit = IF Installed THEN "activating" ELSE "inactive"
  /\ job = "none"
  /\ gui = "off" /\ return = "idle" /\ verdict = FALSE /\ waited = TRUE
  /\ crashes = 0 /\ dialogs = 0 /\ restarts = 0

-----------------------------------------------------------------------------
(* Input nodes and the monitors on them                                    *)

\* The virtual copy of n that p shows, while p relays n.
Copy(p, n) == <<p>> \o n

NoCopy(p, n) == n
Shows(p, n) == Copy(p, n)

Nodes == {Mouse} \cup UNION {{Shows(p, n) : n \in own[p]} : p \in Reader}

Free(n) == \A p \in Reader : n \notin own[p]

isRunning(p) == own[p] # {} \/ dead[p]

\* p stops its monitors: its copies vanish, and a reader of such a copy gets a
\* read error, which stops the monitor but leaves it in that reader's list.
StoppedOwn(p)  == [q \in Reader |-> IF q = p THEN {} ELSE {n \in own[q] : p \notin Through(n)}]
StoppedDead(p) == [q \in Reader |-> q # p /\ (dead[q] \/ StoppedOwn(p)[q] # own[q])]

StopReader(p) ==
  /\ own' = StoppedOwn(p)
  /\ dead' = StoppedDead(p)
  /\ todo' = [todo EXCEPT ![p] = {}]

\* Nodes left for p to read once it has stopped.  Those of other readers look
\* like the mouse: same name, same buttons.
EnumeratedBeforeStop(p) == Nodes
PhysicalOnly(p) == {Mouse}
LeftFor(p) == {n \in Nodes : p \notin Through(n)}

\* start(): stop(), then go through the nodes in `found'.
StartReader(p, found) ==
  /\ own' = StoppedOwn(p)
  /\ dead' = StoppedDead(p)
  /\ todo' = [todo EXCEPT ![p] = found]

\* One monitor->start: the grab of a node that is gone or taken fails.
TryNode(p, n) ==
  /\ n \in todo[p]
  /\ todo' = [todo EXCEPT ![p] = @ \ {n}]
  /\ own' = IF n \in Nodes /\ Free(n) THEN [own EXCEPT ![p] = @ \cup {n}] ELSE own
  /\ UNCHANGED <<dead, listed, systemd, thread, counts>>

-----------------------------------------------------------------------------
(* systemd and the daemon                                                  *)

UnitStarts ==
  /\ unit = "activating" /\ unit' = "active"
  /\ UNCHANGED <<readers, job, thread, counts>>

\* SIGTERM, or the unit was not running: in any case its monitors are gone.
JobRuns ==
  /\ job # "none" /\ job' = "none"
  /\ unit' = IF job = "restart" /\ Installed THEN "activating" ELSE "inactive"
  /\ StopReader("daemon")
  /\ UNCHANGED <<listed, thread, counts>>

\* Restart=on-failure starts the unit again.
DaemonCrashes ==
  /\ unit = "active" /\ crashes < MaxCrashes
  /\ unit' = "activating"
  /\ StopReader("daemon")
  /\ crashes' = crashes + 1
  /\ UNCHANGED <<listed, job, thread, dialogs, restarts>>

\* scanAndStart(), at the start of the daemon and whenever the timer finds the
\* controller not running.
DaemonScans ==
  /\ unit = "active" /\ todo["daemon"] = {} /\ ~isRunning("daemon")
  /\ StartReader("daemon", LeftFor("daemon"))
  /\ UNCHANGED <<listed, systemd, thread, counts>>

-----------------------------------------------------------------------------
(* The GUI thread                                                          *)

\* MainWindow's constructor ends in restartMouseRuntime().
GuiLaunches ==
  /\ gui = "off" /\ gui' = "check" /\ return' = "idle"
  /\ UNCHANGED <<readers, systemd, verdict, waited, counts>>

\* The tray menu works while the dialog's own event loop runs.
TrayRestart ==
  /\ gui \in {"idle", "dialog"} /\ todo["dialog"] = {}
  /\ restarts < MaxRestarts
  /\ gui' = "check" /\ return' = gui
  /\ restarts' = restarts + 1
  /\ UNCHANGED <<readers, systemd, verdict, waited, crashes, dialogs>>

\* systemctl is-active; when it does not answer in time, the exit code it has
\* not delivered yet reads as success.
CheckDaemon ==
  /\ gui = "check" /\ gui' = "act"
  /\ verdict' \in {unit = "active"} \cup (IF SlowSystemd THEN {TRUE} ELSE {})
  /\ UNCHANGED <<readers, systemd, return, waited, counts>>

ActOnVerdict ==
  /\ gui = "act"
  /\ IF ~verdict
     THEN StartReader("gui", LeftFor("gui")) /\ gui' = "starting"
     ELSE StopReader("gui") /\ gui' = return
  /\ UNCHANGED <<listed, systemd, return, verdict, waited, counts>>

RuntimeStarted ==
  /\ gui = "starting" /\ todo["gui"] = {}
  /\ gui' = return
  /\ UNCHANGED <<readers, systemd, return, verdict, waited, counts>>

\* openSelectedPeripheral: systemctl stop, first.
OpenDialog ==
  /\ gui = "idle" /\ dialogs < MaxDialogs
  /\ job' = "stop"
  /\ gui' = "stopping"
  /\ dialogs' = dialogs + 1
  /\ UNCHANGED <<readers, unit, return, verdict, waited, crashes, restarts>>

\* The GUI waits for the stop, polls is-active, and goes on in the end.
StopAssumed == TRUE
StopFinished == job = "none" /\ unit # "active"

\* The dialog's constructor lists the input devices.
DialogOpens ==
  /\ gui = "stopping"
  /\ StopFinished \/ SlowSystemd
  /\ waited' = StopFinished
  /\ StopReader("gui")
  /\ listed' = LeftFor("gui")
  /\ gui' = "dialog"
  /\ UNCHANGED <<systemd, return, verdict, counts>>

DialogWaits == gui = "dialog" /\ todo["dialog"] = {}

RefreshDevices ==
  /\ DialogWaits
  /\ StopReader("dialog")
  /\ listed' = LeftFor("dialog")
  /\ UNCHANGED <<systemd, thread, counts>>

\* The live monitor is switched on (exclusive, with a relay) and off.
LiveMonitorStarts ==
  /\ DialogWaits /\ ~isRunning("dialog")
  /\ StartReader("dialog", listed)
  /\ UNCHANGED <<listed, systemd, thread, counts>>

LiveMonitorStops ==
  /\ DialogWaits /\ isRunning("dialog")
  /\ StopReader("dialog")
  /\ UNCHANGED <<listed, systemd, thread, counts>>

\* Saving stops the live monitor; when the mappings are refused or cannot be
\* written, it starts again.
SaveRefused ==
  /\ DialogWaits /\ isRunning("dialog")
  /\ StartReader("dialog", listed)
  /\ UNCHANGED <<listed, systemd, thread, counts>>

DialogSaved ==
  /\ DialogWaits
  /\ StopReader("dialog")
  /\ gui' = "closing"
  /\ UNCHANGED <<listed, systemd, return, verdict, waited, counts>>

\* Closing the dialog without saving leaves the monitor to the destructor,
\* which runs when openSelectedPeripheral() returns.
DialogRejected ==
  /\ DialogWaits
  /\ gui' = "closing"
  /\ UNCHANGED <<readers, systemd, return, verdict, waited, counts>>

\* systemctl restart; QProcess does not start a second program while the
\* first, a stop that outlasted its wait, is still running.
NoRestart == job
RestartJob == IF job = "none" THEN "restart" ELSE job

RestartDaemon ==
  /\ gui = "closing" /\ gui' = "restarting"
  /\ job' = RestartJob
  /\ UNCHANGED <<readers, unit, return, verdict, waited, counts>>

RestartWaited ==
  /\ gui = "restarting"
  /\ (job = "none" /\ unit # "activating") \/ SlowSystemd
  /\ gui' = "check" /\ return' = "closed"
  /\ UNCHANGED <<readers, systemd, verdict, waited, counts>>

\* The function returns and the dialog object dies with its monitors.
DestructorKeepsMonitors == UNCHANGED readers
DestructorStops == StopReader("dialog") /\ listed' = {}

DialogDestroyed ==
  /\ gui = "closed" /\ gui' = "idle"
  /\ DestructorStops
  /\ UNCHANGED <<systemd, return, verdict, waited, counts>>

\* The GUI process dies; the kernel closes what its readers had open.
GuiCrashes ==
  /\ GuiMayCrash /\ gui # "off"
  /\ gui' = "off" /\ return' = "idle"
  /\ own' = [StoppedOwn("gui") EXCEPT
               !["dialog"] = {},
               !["daemon"] = {n \in @ : "dialog" \notin Through(n)}]
  /\ dead' = [q \in Reader |-> q = "daemon" /\ (dead[q] \/ own'[q] # own[q])]
  /\ todo' = [todo EXCEPT !["gui"] = {}, !["dialog"] = {}]
  /\ listed' = {}
  /\ UNCHANGED <<systemd, verdict, waited, counts>>

-----------------------------------------------------------------------------
Systemd == UnitStarts \/ JobRuns

DaemonSteps == DaemonScans \/ \E n \in InputNode : TryNode("daemon", n)

\* Steps the GUI thread takes by itself.
GuiSteps ==
  \/ CheckDaemon \/ ActOnVerdict \/ RuntimeStarted \/ DialogOpens
  \/ RestartDaemon \/ RestartWaited \/ DialogDestroyed
  \/ \E p \in {"gui", "dialog"}, n \in InputNode : TryNode(p, n)

User ==
  \/ GuiLaunches \/ TrayRestart \/ OpenDialog
  \/ RefreshDevices \/ LiveMonitorStarts \/ LiveMonitorStops
  \/ SaveRefused \/ DialogSaved \/ DialogRejected

Next == Systemd \/ DaemonSteps \/ GuiSteps \/ User \/ DaemonCrashes \/ GuiCrashes

\* systemd finishes its jobs and starts the unit; the daemon's timer fires and
\* its loop over the nodes goes on; the GUI thread goes on until it waits for
\* the user, of whom nothing is assumed.
Fairness == WF_vars(UnitStarts) /\ WF_vars(JobRuns) /\ WF_vars(DaemonSteps) /\ WF_vars(GuiSteps)

Spec == Init /\ [][Next]_vars /\ Fairness

-----------------------------------------------------------------------------
(* Properties                                                              *)

\* However readers come and go, and even when one reads the copy another one
\* shows, the desktop follows exactly one pointer: a node that nobody has
\* grabbed always exists, and never two (openSelectedPeripheral, start, stop).
PointerVisible == Cardinality({n \in Nodes : Free(n)}) = 1

\* A dialog that saw the stop through has the daemon out of its way for as
\* long as it is open.
DialogWithoutDaemon == gui = "dialog" /\ waited => unit = "inactive" /\ own["daemon"] = {}

\* The live monitor's grabs do not outlive the dialog by more than the restart
\* of the daemon takes.
DialogReleases == gui = "closing" ~> own["dialog"] = {}

\* The daemon that was stopped for the dialog runs again after it
\* (MainWindow.cpp: "The service is restarted afterwards"), unless the GUI dies
\* first or did not see the stop through: then start() on the QProcess that
\* still runs "stop" does nothing.
DaemonReturns == gui = "closing" /\ waited ~> unit = "active" \/ gui \in {"off", "stopping"}

\* A unit that stays up gets hold of the mouse, or of the copy that another
\* reader shows of it, whoever held what when it scanned; unless it is stuck
\* with the monitor of a copy that is gone, which isRunning() takes for a
\* running one, so that the timer scans no more.
MouseServed ==
  <>[](unit = "active") => <>[](own["daemon"] # {} \/ dead["daemon"])

\* docs: only one normal runtime owner may grab.
SingleOwner == own["daemon"] = {} \/ own["gui"] = {}
=============================================================================

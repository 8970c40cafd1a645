------------------------ MODULE MouseRuntime_proofs ------------------------
(***************************************************************************)
(* Proofs about the daemon and its controller, for any set of nodes and    *)
(* buttons, any number of edits, unplugs and crashes.                      *)
(***************************************************************************)
EXTENDS MouseRuntime, TLAPS

\* The actions of Next as one flat disjunction.
Step ==
  \/ Connect \/ Disconnect \/ UinputChanges \/ EditFile
  \/ (\E n \in Node : NodeReady(n))
  \/ (\E n \in Node : ForeignGrab(n))
  \/ DaemonStarts \/ TimerFires \/ StartReturns \/ HandleButton
  \/ (\E n \in Node : StartOpens(n))
  \/ (\E n \in Node : StartAttaches(n))
  \/ (\E n \in Node : StartFails(n))
  \/ (\E n \in Node : MonitorDies(n))
  \/ Crash
  \/ (\E n \in Node, b \in Button : Press(n, b))

\* The disjuncts of Next, one by one.
LEMMA NextIsStep == Next => Step
  BY DEF Next, Step, World, Daemon, Starting

\* start() asks a monitor for a mode that it can have.
LEMMA ModeForType == \A n \in Node : ModeFor(n) \in {"plain", "exclusive", "relay"}
  BY DEF ModeFor

-----------------------------------------------------------------------------
\* The variables keep their types.
LEMMA InitType == Init => TypeOK
<1> SUFFICES ASSUME Init
             PROVE  TypeOK
  OBVIOUS
<1>1. mode \in [Node -> Modes]
  BY DEF Init, NoMonitors, Modes
<1>2. edits \in 0..MaxEdits /\ unplugs \in 0..MaxUnplugs /\ crashes \in 0..MaxCrashes
  BY BoundAssumption DEF Init
<1> QED
  BY <1>1, <1>2 DEF Init, TypeOK

\* What start() leaves behind is well typed.
LEMMA StartType ==
  ASSUME TypeOK, ControllerStart
  PROVE  /\ mode' = NoMonitors /\ mode' \in [Node -> Modes]
         /\ stale' = {} /\ hasPeripheral' = TRUE
         /\ todo' \subseteq Node /\ pc' = "starting" /\ startFile' \in Files
         /\ needsSideButtonSuppression' \in BOOLEAN
         /\ press' = NoPress
  BY DEF ControllerStart, TypeOK, NoMonitors, Modes, Decision, Needs

\* So is what a scan leaves behind, whether it starts the runtime or not.
LEMMA ScanType ==
  ASSUME TypeOK, ScanAndStart
  PROVE  /\ mode' \in [Node -> Modes] /\ stale' \subseteq {n \in Node : mode'[n] \notin {"none", "dead"}}
         /\ hasPeripheral' \in BOOLEAN /\ needsSideButtonSuppression' \in BOOLEAN
         /\ todo' \subseteq Node /\ pc' \in {"idle", "starting"} /\ startFile' \in Files
         /\ press' \in {NoPress} \cup Waiting \cup Handled
<1>1. CASE connected
  <2>1. ControllerStart
    BY <1>1 DEF ScanAndStart
  <2> QED
    BY <2>1, StartType
<1>2. CASE ~connected
  BY <1>2 DEF ScanAndStart, TypeOK
<1> QED
  BY <1>1, <1>2

\* Every step keeps the types.
LEMMA StepType == TypeOK /\ [Next]_vars => TypeOK'
<1> SUFFICES ASSUME TypeOK, [Next]_vars
             PROVE  TypeOK'
  OBVIOUS
<1> USE DEF counts, world, process
<1>0. CASE UNCHANGED vars
  BY <1>0 DEF TypeOK, vars
<1>1. CASE Connect
  BY <1>1 DEF TypeOK, Connect
<1>2. CASE Disconnect
  <2>1. press' \in {NoPress} \cup Waiting \cup Handled
    BY <1>2 DEF Disconnect
  <2>2. unplugs' \in 0..MaxUnplugs
    BY <1>2, BoundAssumption DEF TypeOK, Disconnect
  <2> QED
    BY <1>2, <2>1, <2>2 DEF TypeOK, Disconnect, Open
<1>3. CASE UinputChanges
  BY <1>3 DEF TypeOK, UinputChanges
<1>4. CASE EditFile
  BY <1>4, BoundAssumption DEF TypeOK, EditFile
<1>5. CASE \E n \in Node : NodeReady(n)
  BY <1>5 DEF TypeOK, NodeReady
<1>6. CASE \E n \in Node : ForeignGrab(n)
  BY <1>6 DEF TypeOK, ForeignGrab
<1>7. CASE DaemonStarts
  BY <1>7, ScanType DEF TypeOK, DaemonStarts
<1>8. CASE TimerFires
  BY <1>8, ScanType DEF TypeOK, TimerFires
<1>9. CASE StartReturns
  BY <1>9 DEF TypeOK, StartReturns
<1>10. CASE HandleButton
  <2>1. press' \in Handled
    <3>1. press \in Waiting
      BY <1>10 DEF HandleButton, TypeOK, NoPress, Waiting, Handled
    <3>2. file # Broken => file[press.button] \in Actions
      BY <3>1 DEF TypeOK, Files, Profiles, Waiting
    <3> QED
      BY <1>10, <3>1, <3>2 DEF HandleButton, Waiting, Handled
  <2> QED
    BY <1>10, <2>1 DEF TypeOK, HandleButton
<1>11. CASE \E n \in Node : StartOpens(n)
  BY <1>11 DEF TypeOK, StartOpens, Modes
<1>12. CASE \E n \in Node : MonitorDies(n)
  BY <1>12 DEF TypeOK, MonitorDies, KeptAsDead, Modes
<1>13. CASE Crash
  <2>1. press' \in {NoPress} \cup Waiting \cup Handled
    BY <1>13 DEF Crash
  <2>2. crashes' \in 0..MaxCrashes
    BY <1>13, BoundAssumption DEF TypeOK, Crash
  <2> QED
    BY <1>13, <2>1, <2>2 DEF TypeOK, Crash, NoMonitors, Modes
<1>14. CASE \E n \in Node, b \in Button : Press(n, b)
  <2>1. press' \in Waiting
    BY <1>14 DEF Press, Waiting, Grabs, Live, Open, TypeOK
  <2> QED
    BY <1>14, <2>1 DEF TypeOK, Press
<1>15. CASE \E n \in Node : StartAttaches(n)
  BY <1>15, ModeForType DEF TypeOK, StartAttaches, Modes
<1>16. CASE \E n \in Node : StartFails(n)
  BY <1>16 DEF TypeOK, StartFails, Modes, UnreadOf
<1> QED
  BY NextIsStep, <1>0, <1>1, <1>2, <1>3, <1>4, <1>5, <1>6, <1>7, <1>8, <1>9,
     <1>10, <1>11, <1>12, <1>13, <1>14, <1>15, <1>16 DEF Step

\* TypeOK is an invariant of the daemon.
THEOREM TypeCorrect == Spec => []TypeOK
  BY InitType, StepType, PTL DEF Spec

-----------------------------------------------------------------------------
\* While start() goes through the nodes the controller has its peripheral.
StartingHasPeripheral == pc = "starting" => hasPeripheral

\* A node that start() has yet to try has no monitor, and a monitor that is being
\* started is one of the start() in progress.
TriedOnce ==
  /\ \A n \in todo : mode[n] = "none"
  /\ \A n \in Node : mode[n] = "opening" => pc = "starting"

\* The inductive invariant: a press is handled as the decision of start()
\* wants it because the monitor that reads it was started by that decision.
IInv ==
  /\ TypeOK
  /\ ModesFollowStart
  /\ StartingHasPeripheral
  /\ TriedOnce
  /\ WaitingIsMonitored
  /\ RemappedNeverNative

\* A press that is gone asks for nothing.
LEMMA NoPressKeeps ==
  ASSUME press' = NoPress
  PROVE  RemappedNeverNative' /\ WaitingIsMonitored'
  BY DEF RemappedNeverNative, WaitingIsMonitored, NoPress

\* It holds before the daemon runs.
LEMMA InitIInv == Init => IInv
<1> SUFFICES ASSUME Init
             PROVE  IInv
  OBVIOUS
<1>1. TypeOK
  BY InitType
<1>2. press.stage = "none"
  BY DEF Init, NoPress
<1>3. ModesFollowStart /\ StartingHasPeripheral /\ TriedOnce
  BY DEF Init, ModesFollowStart, StartingHasPeripheral, TriedOnce,
         isRunning, NoMonitors, Live, Open
<1> QED
  BY <1>1, <1>2, <1>3 DEF IInv, WaitingIsMonitored, RemappedNeverNative

\* A controller that starts has no monitors, no waiting press and decides anew.
LEMMA StartIInv ==
  ASSUME IInv, ControllerStart
  PROVE  (ModesFollowStart /\ StartingHasPeripheral /\ TriedOnce
          /\ WaitingIsMonitored /\ RemappedNeverNative)'
<1>1. ModesFollowStart' /\ StartingHasPeripheral' /\ TriedOnce'
  BY DEF ControllerStart, ModesFollowStart, StartingHasPeripheral, TriedOnce, isRunning,
         NoMonitors, Live, Open, Decision, Needs, IInv, TypeOK
<1>2. RemappedNeverNative' /\ WaitingIsMonitored'
  BY NoPressKeeps DEF ControllerStart
<1> QED
  BY <1>1, <1>2

\* A scan keeps it: it has no monitor, or those of the start it makes.
LEMMA ScanIInv ==
  ASSUME IInv, ScanAndStart
  PROVE  (ModesFollowStart /\ StartingHasPeripheral /\ TriedOnce
          /\ WaitingIsMonitored /\ RemappedNeverNative)'
<1>1. CASE connected
  BY <1>1, StartIInv DEF ScanAndStart
<1>2. CASE ~connected
  BY <1>2 DEF ScanAndStart, IInv, ModesFollowStart, StartingHasPeripheral, TriedOnce,
     WaitingIsMonitored, RemappedNeverNative, isRunning, Live, Open, ModeFor, Grabs
<1> QED
  BY <1>1, <1>2

\* Every step of the daemon, its monitors and the world keeps it.
LEMMA StepIInv == IInv /\ [Next]_vars => IInv'
<1> SUFFICES ASSUME IInv, [Next]_vars
             PROVE  IInv'
  OBVIOUS
<1> DEFINE Same == UNCHANGED <<pc, todo, hasPeripheral, needsSideButtonSuppression,
                               mode, startFile>>
<1> USE DEF counts, world, process
<1>a. TypeOK'
  BY StepType DEF IInv
<1>b. Same => ModesFollowStart' /\ StartingHasPeripheral' /\ TriedOnce'
  BY DEF IInv, ModesFollowStart, StartingHasPeripheral, TriedOnce,
         isRunning, Live, Open, ModeFor
<1>c. Same /\ UNCHANGED <<stale, press>> => WaitingIsMonitored' /\ RemappedNeverNative'
  BY DEF IInv, WaitingIsMonitored, RemappedNeverNative, Live, Open, Grabs
<1>0. CASE UNCHANGED vars
  BY <1>0, <1>a, <1>b, <1>c DEF IInv, vars
<1>1. CASE Connect
  BY <1>1, <1>a, <1>b, <1>c DEF IInv, Connect
<1>2. CASE Disconnect
  <2>1. RemappedNeverNative' /\ WaitingIsMonitored'
    BY <1>2, NoPressKeeps DEF Disconnect
  <2> QED
    BY <1>2, <1>a, <1>b, <2>1 DEF IInv, Disconnect
<1>3. CASE UinputChanges
  BY <1>3, <1>a, <1>b, <1>c DEF IInv, UinputChanges
<1>4. CASE EditFile
  BY <1>4, <1>a, <1>b, <1>c DEF IInv, EditFile
<1>5. CASE \E n \in Node : NodeReady(n)
  BY <1>5, <1>a, <1>b, <1>c DEF IInv, NodeReady
<1>6. CASE \E n \in Node : ForeignGrab(n)
  BY <1>6, <1>a, <1>b, <1>c DEF IInv, ForeignGrab
<1>7. CASE DaemonStarts
  BY <1>7, <1>a, ScanIInv DEF IInv, DaemonStarts
<1>8. CASE TimerFires
  BY <1>8, <1>a, ScanIInv DEF IInv, TimerFires
<1>9. CASE StartReturns
  <2>1. ModesFollowStart' /\ StartingHasPeripheral' /\ TriedOnce'
    BY <1>9 DEF StartReturns, IInv, ModesFollowStart, StartingHasPeripheral, TriedOnce,
                isRunning, Live, Open, ModeFor
  <2>2. WaitingIsMonitored' /\ RemappedNeverNative'
    BY <1>9 DEF StartReturns, IInv, WaitingIsMonitored, RemappedNeverNative, Live, Open, Grabs
  <2> QED
    BY <1>a, <2>1, <2>2 DEF IInv
<1>10. CASE HandleButton
  <2>1. press'.stage # "waiting"
    BY <1>10 DEF HandleButton
  <2>2. RemappedNeverNative'
    <3> SUFFICES ASSUME press.button \in SideButton, ~press.early,
                        file = startFile, file # Broken,
                        file[press.button] \in {"custom", "disabled"}
                 PROVE  ~press.native
      BY <1>10 DEF HandleButton, RemappedNeverNative
    <3>1. Needs(startFile)
      BY DEF Needs
    <3>2. needsSideButtonSuppression
      BY <1>10, <3>1 DEF HandleButton, IInv, ModesFollowStart
    <3>3. /\ press.node \in SideNode /\ press.node \notin stale
          /\ Live(press.node) /\ press.native = ~Grabs(press.node)
      BY <1>10 DEF HandleButton, IInv, WaitingIsMonitored
    <3>4. mode[press.node] \in {"exclusive", "relay"}
      BY <3>2, <3>3, NodeAssumption DEF IInv, ModesFollowStart, ModeFor
    <3> QED
      BY <3>3, <3>4 DEF Grabs
  <2> QED
    BY <1>10, <1>a, <1>b, <2>1, <2>2 DEF IInv, HandleButton, WaitingIsMonitored
<1>11. CASE \E n \in Node : StartOpens(n)
  <2> PICK n \in Node : StartOpens(n)
    BY <1>11
  <2>1. mode[n] = "none"
    BY DEF StartOpens, IInv, TriedOnce
  <2>2. \A m \in Node : mode'[m] = mode[m] \/ (m = n /\ mode'[m] = "opening")
    BY DEF StartOpens, IInv, TypeOK
  <2>3. hasPeripheral /\ hasPeripheral' = hasPeripheral
    BY DEF StartOpens, IInv, StartingHasPeripheral
  <2>4. ModesFollowStart' /\ StartingHasPeripheral'
    BY <2>2, <2>3 DEF StartOpens, IInv, ModesFollowStart, StartingHasPeripheral,
       Live, Open, ModeFor, Needs
  <2>5. TriedOnce'
    BY <2>2 DEF StartOpens, IInv, TriedOnce, TypeOK
  <2>6. WaitingIsMonitored'
    <3> SUFFICES ASSUME press.stage = "waiting"
                 PROVE  WaitingIsMonitored'
      BY DEF StartOpens, WaitingIsMonitored
    <3>1. press.node \in Node /\ press.node # n
      BY <2>1 DEF IInv, TypeOK, NoPress, Waiting, Handled, WaitingIsMonitored, Open
    <3>2. mode'[press.node] = mode[press.node]
      BY <2>2, <3>1
    <3> QED
      BY <3>2 DEF StartOpens, IInv, WaitingIsMonitored, Live, Open, Grabs
  <2> QED
    BY <1>a, <2>4, <2>5, <2>6 DEF StartOpens, IInv, RemappedNeverNative
<1>15. CASE \E n \in Node : StartAttaches(n)
  <2> PICK n \in Node : StartAttaches(n)
    BY <1>15
  <2>1. \A m \in Node : mode'[m] = mode[m] \/ (m = n /\ mode'[m] = ModeFor(m))
    BY DEF StartAttaches, IInv, TypeOK
  <2>2. \A m \in Node : Live(m) => mode'[m] = mode[m]
    BY <2>1 DEF StartAttaches, Live
  <2>3. \A m \in Node : ModeFor(m)' = ModeFor(m)
    BY DEF StartAttaches, ModeFor
  <2>4. hasPeripheral /\ hasPeripheral' = hasPeripheral
    BY DEF StartAttaches, IInv, StartingHasPeripheral, TriedOnce
  <2>5. ModesFollowStart'
    BY <2>1, <2>3, <2>4 DEF StartAttaches, IInv, ModesFollowStart, Live, Open, Needs
  <2>6. StartingHasPeripheral' /\ TriedOnce'
    BY <2>1, <2>4, ModeForType
    DEF StartAttaches, IInv, StartingHasPeripheral, TriedOnce, TypeOK
  <2>7. WaitingIsMonitored'
    <3> SUFFICES ASSUME press.stage = "waiting"
                 PROVE  WaitingIsMonitored'
      BY DEF StartAttaches, WaitingIsMonitored
    <3>1. press.node \in Node
      BY DEF IInv, TypeOK, NoPress, Waiting, Handled
    <3>2. Open(press.node)'
      BY <2>1, <3>1, ModeForType DEF StartAttaches, IInv, WaitingIsMonitored, Open
    <3>3. Live(press.node) => Live(press.node)' /\ Grabs(press.node)' = Grabs(press.node)
      BY <2>2, <3>1 DEF StartAttaches, Live, Open, Grabs
    <3> QED
      BY <3>2, <3>3 DEF StartAttaches, IInv, WaitingIsMonitored
  <2> QED
    BY <1>a, <2>5, <2>6, <2>7 DEF StartAttaches, IInv, RemappedNeverNative
<1>16. CASE \E n \in Node : StartFails(n)
  <2> PICK n \in Node : StartFails(n)
    BY <1>16
  <2>1. \A m \in Node : mode'[m] = IF m = n THEN "none" ELSE mode[m]
    BY DEF StartFails, IInv, TypeOK
  <2>2. hasPeripheral /\ hasPeripheral' = hasPeripheral
    BY DEF StartFails, IInv, StartingHasPeripheral, TriedOnce
  <2>3. ModesFollowStart' /\ StartingHasPeripheral' /\ TriedOnce'
    BY <2>1, <2>2 DEF StartFails, IInv, ModesFollowStart, StartingHasPeripheral, TriedOnce,
       Live, Open, ModeFor, Needs, TypeOK
  <2>4. WaitingIsMonitored' /\ RemappedNeverNative'
    <3>1. CASE press.stage = "waiting" /\ press.node = n
      BY <3>1, NoPressKeeps DEF StartFails, UnreadOf
    <3>2. CASE press.stage = "waiting" /\ press.node # n
      <4>1. press.node \in Node /\ mode'[press.node] = mode[press.node]
        BY <2>1, <3>2 DEF IInv, TypeOK, NoPress, Waiting, Handled
      <4> QED
        BY <3>2, <4>1 DEF StartFails, UnreadOf, IInv, WaitingIsMonitored,
           RemappedNeverNative, Live, Open, Grabs
    <3>3. CASE press.stage # "waiting"
      BY <3>3 DEF StartFails, UnreadOf, IInv, WaitingIsMonitored, RemappedNeverNative
    <3> QED
      BY <3>1, <3>2, <3>3
  <2> QED
    BY <1>a, <2>3, <2>4 DEF IInv
<1>12. CASE \E n \in Node : MonitorDies(n)
  <2> PICK n \in Node : MonitorDies(n)
    BY <1>12
  <2>1. \A m \in Node : mode'[m] = IF m = n THEN "dead" ELSE mode[m]
    BY DEF MonitorDies, KeptAsDead, IInv, TypeOK
  <2>2. hasPeripheral
    BY DEF MonitorDies, IInv, ModesFollowStart, TriedOnce, isRunning, TypeOK
  <2>3. ModesFollowStart' /\ StartingHasPeripheral' /\ TriedOnce'
    BY <2>1, <2>2 DEF MonitorDies, IInv, ModesFollowStart, StartingHasPeripheral, TriedOnce,
       isRunning, Live, Open, ModeFor, Needs, TypeOK
  <2>4. WaitingIsMonitored'
    <3> SUFFICES ASSUME press.stage = "waiting"
                 PROVE  WaitingIsMonitored'
      BY DEF MonitorDies, WaitingIsMonitored
    <3>1. press.node \in Node /\ press.node # n
      BY DEF MonitorDies, IInv, TypeOK, NoPress, Waiting, Handled, WaitingIsMonitored
    <3> QED
      BY <2>1, <3>1 DEF MonitorDies, KeptAsDead, IInv, WaitingIsMonitored, Live, Open, Grabs
  <2> QED
    BY <1>a, <2>3, <2>4 DEF MonitorDies, IInv, RemappedNeverNative
<1>13. CASE Crash
  <2>1. ModesFollowStart' /\ StartingHasPeripheral' /\ TriedOnce'
    BY <1>13 DEF Crash, ModesFollowStart, StartingHasPeripheral, TriedOnce,
                 isRunning, NoMonitors, Live, Open
  <2>2. RemappedNeverNative' /\ WaitingIsMonitored'
    BY <1>13, NoPressKeeps DEF Crash
  <2> QED
    BY <1>a, <2>1, <2>2 DEF IInv
<1>14. CASE \E n \in Node, b \in Button : Press(n, b)
  <2> PICK n \in Node, b \in Button : Press(n, b)
    BY <1>14
  <2>1. hasPeripheral
    BY DEF Press, IInv, ModesFollowStart, StartingHasPeripheral, TriedOnce, isRunning, Open
  <2>2. WaitingIsMonitored' /\ RemappedNeverNative'
    BY <2>1 DEF Press, WaitingIsMonitored, RemappedNeverNative, Live, Open, Grabs
  <2> QED
    BY <1>a, <1>b, <2>2 DEF IInv, Press
<1> QED
  BY NextIsStep, <1>0, <1>1, <1>2, <1>3, <1>4, <1>5, <1>6, <1>7, <1>8, <1>9,
     <1>10, <1>11, <1>12, <1>13, <1>14, <1>15, <1>16 DEF Step

\* The inductive invariant holds in every reachable state.
LEMMA IInvHolds == Spec => []IInv
  BY InitIInv, StepIInv, PTL DEF Spec

\* Every monitor was started as start() decided, and a waiting press belongs
\* to a live monitor.
THEOREM MonitorsFollowDecision == Spec => [](ModesFollowStart /\ WaitingIsMonitored)
<1>1. IInv => ModesFollowStart /\ WaitingIsMonitored
  BY DEF IInv
<1> QED
  BY <1>1, IInvHolds, PTL

\* A remapped or disabled side button that was pressed under a running monitor
\* never reaches the desktop as well, for the mappings that start() loaded.
THEOREM RemappedSuppressed == Spec => []RemappedNeverNative
<1>1. IInv => RemappedNeverNative
  BY DEF IInv
<1> QED
  BY <1>1, IInvHolds, PTL

\* Nothing is grabbed but side-button nodes, and only for their mappings.
THEOREM GrabsAreNeeded == Spec => []GrabOnlyForSideButtons
<1>1. IInv => GrabOnlyForSideButtons
  BY DEF IInv, GrabOnlyForSideButtons, ModesFollowStart, Grabs, Live, Open, ModeFor
<1> QED
  BY <1>1, IInvHolds, PTL

-----------------------------------------------------------------------------
\* One step of the daemon takes each monitor through one step of its contract
\* at most.
LEMMA StepContract ==
  ASSUME IInv, [Next]_vars
  PROVE  \A n \in Node : Monitor(n)!Next \/ UNCHANGED Shown(n)
<1> SUFFICES ASSUME NEW n \in Node
             PROVE  Monitor(n)!Next \/ UNCHANGED Shown(n)
  OBVIOUS
<1> USE DEF counts, world, process, Shown, Live, Open
<1>1. mode'[n] = mode[n] => UNCHANGED Shown(n)
  OBVIOUS
<1>2. mode'[n] \in {"none", "opening", "dead"} => Monitor(n)!Next \/ UNCHANGED Shown(n)
  BY DEF Monitor!Next, Monitor!Detach, Monitor!Attached, IInv, TypeOK, Modes
<1>3. mode[n] \in {"none", "opening", "dead"} /\ mode'[n] = ModeFor(n) => Monitor(n)!Next
  BY DEF ModeFor, Monitor!Next, Monitor!Attach, Monitor!Allowed, Monitor!Attached
<1>4. CASE UNCHANGED mode
  BY <1>1, <1>4
<1>5. CASE \E m \in Node : StartAttaches(m)
  BY <1>1, <1>3, <1>5 DEF StartAttaches, IInv, TypeOK
<1>11. CASE \E m \in Node : StartOpens(m) \/ StartFails(m)
  BY <1>1, <1>2, <1>11 DEF StartOpens, StartFails, IInv, TypeOK
<1>6. CASE \E m \in Node : MonitorDies(m)
  BY <1>1, <1>2, <1>6 DEF MonitorDies, KeptAsDead, IInv, TypeOK
<1>7. CASE mode' = NoMonitors
  BY <1>2, <1>7 DEF NoMonitors
<1>8. (DaemonStarts \/ TimerFires \/ Crash) => mode' = NoMonitors \/ UNCHANGED mode
  BY DEF DaemonStarts, TimerFires, Crash, ScanAndStart, ControllerStart
<1>9. (Connect \/ Disconnect \/ UinputChanges \/ EditFile \/ StartReturns \/ HandleButton)
      => UNCHANGED mode
  BY DEF Connect, Disconnect, UinputChanges, EditFile, StartReturns, HandleButton
<1>10. (\E m \in Node : NodeReady(m) \/ ForeignGrab(m) \/ \E b \in Button : Press(m, b))
       => UNCHANGED mode
  BY DEF NodeReady, ForeignGrab, Press
<1> QED
  BY NextIsStep, <1>4, <1>5, <1>6, <1>7, <1>8, <1>9, <1>10, <1>11 DEF Step, vars

\* The controller keeps the contract of each of its monitors.
THEOREM ContractKept == Spec => KeepsMonitorContract
<1>1. Init => \A n \in Node : Monitor(n)!Init
  BY DEF Init, NoMonitors, Monitor!Init, Shown, Live, Open
<1>2. IInv /\ [Next]_vars => [\A n \in Node : Monitor(n)!Next \/ UNCHANGED Shown(n)]_vars
  BY StepContract
<1> QED
  BY <1>1, <1>2, IInvHolds, PTL DEF Spec, KeepsMonitorContract
=============================================================================

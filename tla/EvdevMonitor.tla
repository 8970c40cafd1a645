--------------------------- MODULE EvdevMonitor ---------------------------
(***************************************************************************)
(* One EvdevMouseMonitor, the kernel node it reads, the virtual device it  *)
(* may relay through and what the desktop sees of both.  The monitor is    *)
(* single threaded, but a finger moves while start(), stop() and           *)
(* readAvailableEvents() run: every system call they make is a step, and   *)
(* the hardware may act between two of them.                               *)
(***************************************************************************)
EXTENDS Naturals, Sequences

CONSTANTS
  Button,      \* the buttons of the interface that have a key code
  SideButton,  \* those the monitor suppresses: Back, Forward, Gesture, Extra1, Extra2
  Shared,      \* TRUE iff the node also carries motion or primary buttons
  BufferSize,  \* events the kernel keeps for a reader before it drops them
  Faults       \* what may go wrong around it: "write", "foreign grab"

ASSUME ButtonAssumption == SideButton \subseteq Button
ASSUME SharedAssumption == Shared \in BOOLEAN
ASSUME BufferAssumption == BufferSize \in Nat \ {0}
ASSUME FaultsAssumption == Faults \subseteq {"write", "foreign grab"}

VARIABLES
  plugged,     \* the device node exists
  held,        \* held[b]: the finger is on b
  nodeView,    \* what the desktop last saw of b on the physical node
  virtView,    \* the key state of the virtual device, which the desktop follows
  grabOwner,   \* who holds EVIOCGRAB on the node
  buffer,      \* events waiting on the monitor's descriptor
  pc,          \* the call in progress; "idle" is the event loop
  call,        \* arguments of the start() in progress
  goal,        \* where stop() returns to
  fileDescriptor, device, virtualDevice, relayGrabbedEvents, grabbed, notifier,
  lost         \* history: buttons whose latest event was missed or not relayed

hardware == <<plugged, held, nodeView>>
members  == <<fileDescriptor, device, virtualDevice, relayGrabbedEvents, grabbed, notifier>>
control  == <<pc, call, goal>>
vars     == <<hardware, virtView, grabOwner, buffer, control, members, lost>>

Event == [button : Button, down : BOOLEAN]
Dropped == [marker |-> "SYN_DROPPED"]

\* start() looks at its relay argument only together with the exclusive one.
Calls == {c \in [exclusive : BOOLEAN, relay : BOOLEAN] : c.relay => c.exclusive}

TypeOK ==
  /\ plugged \in BOOLEAN
  /\ held \in [Button -> BOOLEAN]
  /\ nodeView \in [Button -> BOOLEAN]
  /\ virtView \in [Button -> BOOLEAN]
  /\ grabOwner \in {"nobody", "monitor", "other"}
  /\ buffer \in Seq(Event \cup {Dropped})
  /\ pc \in {"idle", "open", "init", "uinput", "grab", "attach", "read",
             "stop", "destroy", "close"}
  /\ call \in Calls
  /\ goal \in {"idle", "open"}
  /\ fileDescriptor \in {"closed", "open", "stale"}
  /\ device \in BOOLEAN
  /\ virtualDevice \in BOOLEAN
  /\ relayGrabbedEvents \in BOOLEAN
  /\ grabbed \in BOOLEAN
  /\ notifier \in BOOLEAN
  /\ lost \subseteq Button

Nothing == [b \in Button |-> FALSE]

Init ==
  /\ plugged = TRUE
  /\ held = Nothing /\ nodeView = Nothing /\ virtView = Nothing
  /\ grabOwner = "nobody"
  /\ buffer = <<>>
  /\ pc = "idle" /\ goal = "idle"
  /\ call = [exclusive |-> FALSE, relay |-> FALSE]
  /\ fileDescriptor = "closed"
  /\ device = FALSE /\ virtualDevice = FALSE /\ relayGrabbedEvents = FALSE
  /\ grabbed = FALSE /\ notifier = FALSE
  /\ lost = {}

-----------------------------------------------------------------------------
(* The kernel and the hand on the mouse.                                   *)

\* A full client buffer is emptied and marked; the newest event survives.
Buffered(e) ==
  IF Len(buffer) < BufferSize THEN Append(buffer, e) ELSE <<Dropped, e>>

\* The buttons that have an event in a sequence of events.
Buttons(s) == {s[i].button : i \in {j \in 1..Len(s) : s[j] # Dropped}}

\* The finger moves on b.  The holder of the grab alone gets the event, or
\* else the desktop and every open descriptor do.
Finger(b) ==
  LET native  == grabOwner = "nobody"
      reaches == fileDescriptor = "open" /\ grabOwner # "other"
      e       == [button |-> b, down |-> ~held[b]]
  IN  /\ plugged
      /\ held' = [held EXCEPT ![b] = ~@]
      /\ nodeView' = IF native THEN [nodeView EXCEPT ![b] = ~held[b]] ELSE nodeView
      /\ buffer' = IF reaches THEN Buffered(e) ELSE buffer
      /\ lost' = IF ~reaches THEN lost \cup {b}
                 ELSE (IF Len(buffer) < BufferSize THEN lost
                       ELSE lost \cup Buttons(buffer)) \ {b}
      /\ UNCHANGED <<plugged, virtView, grabOwner, control, members>>

\* The device goes away: its node dies under an open descriptor, and the
\* desktop forgets what was held on it.
Unplug ==
  /\ plugged
  /\ plugged' = FALSE
  /\ held' = Nothing /\ nodeView' = Nothing
  /\ grabOwner' = "nobody"
  /\ buffer' = <<>>
  /\ fileDescriptor' = IF fileDescriptor = "open" THEN "stale" ELSE fileDescriptor
  /\ UNCHANGED <<virtView, control, device, virtualDevice, relayGrabbedEvents,
                 grabbed, notifier, lost>>

\* It comes back as a new node that no earlier descriptor refers to.
Plug ==
  /\ ~plugged
  /\ plugged' = TRUE
  /\ UNCHANGED <<held, nodeView, virtView, grabOwner, buffer, control, members, lost>>

\* Another process grabs the node, or lets it go.
OtherGrabs ==
  /\ "foreign grab" \in Faults
  /\ plugged
  /\ \/ grabOwner = "nobody" /\ grabOwner' = "other"
     \/ grabOwner = "other" /\ grabOwner' = "nobody"
  /\ UNCHANGED <<hardware, virtView, buffer, control, members, lost>>

Environment == Unplug \/ Plug \/ OtherGrabs \/ \E b \in Button : Finger(b)

-----------------------------------------------------------------------------
(* stop(): notifier, grab, libevdev, virtual device, descriptor, in this    *)
(* order; every part is skipped when it was never set up.                   *)

StopThen(g) == pc' = "stop" /\ goal' = g

\* A step of start() that fails undoes the earlier ones before it returns.
ReturnWithoutStop == pc' = "idle" /\ goal' = goal
Fail == StopThen("idle")

\* The owner asks the monitor to stop, from the event loop.
StopCalled ==
  /\ pc = "idle"
  /\ StopThen("idle")
  /\ UNCHANGED <<hardware, virtView, grabOwner, buffer, call, members, lost>>

NotifierKept == notifier' = notifier
NotifierDeleted == notifier' = FALSE

StopNotifierAndUngrab ==
  /\ pc = "stop" /\ pc' = "destroy"
  /\ NotifierDeleted
  /\ grabOwner' = IF device /\ grabbed /\ grabOwner = "monitor"
                  THEN "nobody" ELSE grabOwner
  /\ grabbed' = IF device THEN FALSE ELSE grabbed
  /\ device' = FALSE
  /\ UNCHANGED <<hardware, virtView, buffer, call, goal,
                 fileDescriptor, virtualDevice, relayGrabbedEvents, lost>>

\* The kernel releases every key of a virtual device that is destroyed.
StopDestroyVirtual ==
  /\ pc = "destroy" /\ pc' = "close"
  /\ virtualDevice' = FALSE
  /\ virtView' = Nothing
  /\ relayGrabbedEvents' = FALSE
  /\ UNCHANGED <<hardware, grabOwner, buffer, call, goal,
                 fileDescriptor, device, grabbed, notifier, lost>>

\* Closing the descriptor also drops a grab it still holds.
StopClose ==
  /\ pc = "close" /\ pc' = goal
  /\ fileDescriptor' = "closed"
  /\ grabOwner' = IF grabOwner = "monitor" THEN "nobody" ELSE grabOwner
  /\ buffer' = <<>>
  /\ UNCHANGED <<hardware, virtView, call, goal,
                 device, virtualDevice, relayGrabbedEvents, grabbed, notifier, lost>>

Stop == StopCalled \/ StopNotifierAndUngrab \/ StopDestroyVirtual \/ StopClose

-----------------------------------------------------------------------------
(* start(path, exclusive, relay)                                            *)

\* The controller relays exactly the grabbed shared interfaces; the mapping
\* dialog asks for a relay on every one.
ArgumentsWithoutRelay == Calls

Arguments ==
  IF Shared THEN Calls \ {[exclusive |-> TRUE, relay |-> FALSE]} ELSE Calls

StartCalled ==
  /\ pc = "idle"
  /\ call' \in Arguments
  /\ StopThen("open")
  /\ UNCHANGED <<hardware, virtView, grabOwner, buffer, members, lost>>

\* A press that another process's grab kept to itself is missed from the start.
\* open() on a missing or unreadable node returns at once: nothing to undo.
StartOpen ==
  /\ pc = "open"
  /\ \/ /\ plugged
        /\ fileDescriptor' = "open"
        /\ lost' = {b \in Button : held[b] /\ ~nodeView[b]}
        /\ pc' = "init"
     \/ UNCHANGED <<fileDescriptor, lost>> /\ pc' = "idle"
  /\ UNCHANGED <<hardware, virtView, grabOwner, buffer, call, goal, device,
                 virtualDevice, relayGrabbedEvents, grabbed, notifier>>

StartInit ==
  /\ pc = "init"
  /\ \/ /\ fileDescriptor = "open"
        /\ device' = TRUE
        /\ pc' = IF call.exclusive /\ call.relay THEN "uinput"
                 ELSE IF call.exclusive THEN "grab" ELSE "attach"
        /\ goal' = goal
     \/ UNCHANGED device /\ Fail
  /\ UNCHANGED <<hardware, virtView, grabOwner, buffer, call, fileDescriptor,
                 virtualDevice, relayGrabbedEvents, grabbed, notifier, lost>>

\* The virtual device comes before the grab: /dev/uinput may refuse it.
StartUinput ==
  /\ pc = "uinput"
  /\ \/ /\ virtualDevice' = TRUE
        /\ relayGrabbedEvents' = TRUE
        /\ pc' = "grab" /\ goal' = goal
     \/ UNCHANGED <<virtualDevice, relayGrabbedEvents>> /\ Fail
  /\ UNCHANGED <<hardware, virtView, grabOwner, buffer, call, fileDescriptor,
                 device, grabbed, notifier, lost>>

\* EVIOCGRAB fails when the node is gone or somebody else holds it.
StartGrab ==
  /\ pc = "grab"
  /\ IF fileDescriptor = "open" /\ grabOwner = "nobody"
     THEN /\ grabOwner' = "monitor"
          /\ grabbed' = TRUE
          /\ pc' = "attach" /\ goal' = goal
     ELSE UNCHANGED <<grabOwner, grabbed>> /\ Fail
  /\ UNCHANGED <<hardware, virtView, buffer, call, fileDescriptor, device,
                 virtualDevice, relayGrabbedEvents, notifier, lost>>

StartAttach ==
  /\ pc = "attach" /\ pc' = "idle"
  /\ notifier' = TRUE
  /\ UNCHANGED <<hardware, virtView, grabOwner, buffer, call, goal, fileDescriptor,
                 device, virtualDevice, relayGrabbedEvents, grabbed, lost>>

Start == StartCalled \/ StartOpen \/ StartInit \/ StartUinput \/ StartGrab \/ StartAttach

-----------------------------------------------------------------------------
(* readAvailableEvents()                                                    *)

\* The notifier fires: events wait, or the node died (hang-up).
ReadableIfEvents == buffer # <<>>
Readable == buffer # <<>> \/ fileDescriptor = "stale"

NotifierFires ==
  /\ pc = "idle" /\ notifier /\ Readable
  /\ pc' = "read"
  /\ UNCHANGED <<hardware, virtView, grabOwner, buffer, call, goal, members, lost>>

\* Side buttons never reach the desktop through the relay.
SuppressedMapped(b) == TRUE
Suppressed(b) == b \in SideButton

\* The virtual device follows every event of a relaying monitor that is not
\* suppressed, presses and releases alike.
RelaysPresses(e) == relayGrabbedEvents /\ virtualDevice /\ ~Suppressed(e.button) /\ e.down
Relays(e) == relayGrabbedEvents /\ virtualDevice /\ ~Suppressed(e.button)

\* One event: relayed, then signalled to the application.  A write that
\* fails is only reported.
ReadEvent ==
  /\ pc = "read" /\ fileDescriptor = "open"
  /\ buffer # <<>> /\ Head(buffer) # Dropped
  /\ LET e == Head(buffer)
     IN  /\ \/ /\ virtView' = IF Relays(e) THEN [virtView EXCEPT ![e.button] = e.down]
                              ELSE virtView
               /\ lost' = lost
            \/ /\ "write" \in Faults /\ Relays(e)
               /\ virtView' = virtView
               /\ lost' = lost \cup ({e.button} \ Buttons(Tail(buffer)))
  /\ buffer' = Tail(buffer)
  /\ UNCHANGED <<hardware, grabOwner, control, members>>

\* SYN_DROPPED: the loop goes on in normal mode, so libevdev throws away what
\* it had fetched with the marker and never replays the difference.
ReadDropped ==
  /\ pc = "read" /\ fileDescriptor = "open"
  /\ buffer # <<>> /\ Head(buffer) = Dropped
  /\ \E k \in 1..Len(buffer) :
       LET rest == SubSeq(buffer, k + 1, Len(buffer))
       IN  /\ buffer' = rest
           /\ lost' = lost \cup (Buttons(SubSeq(buffer, 1, k)) \ Buttons(rest))
  /\ UNCHANGED <<hardware, virtView, grabOwner, control, members>>

ReadAgain ==
  /\ pc = "read" /\ fileDescriptor = "open" /\ buffer = <<>>
  /\ pc' = "idle"
  /\ UNCHANGED <<hardware, virtView, grabOwner, buffer, call, goal, members, lost>>

\* A read error reports and stops the monitor from inside its own handler.
ReadError ==
  /\ pc = "read" /\ fileDescriptor = "stale"
  /\ StopThen("idle")
  /\ UNCHANGED <<hardware, virtView, grabOwner, buffer, call, members, lost>>

Read == NotifierFires \/ ReadEvent \/ ReadDropped \/ ReadAgain \/ ReadError

Next == Environment \/ Stop \/ Start \/ Read

\* The monitor's own steps: a call that has begun goes on, and the event
\* loop serves the notifier.  Nobody has to call start() or stop().
Progress ==
  \/ StopNotifierAndUngrab \/ StopDestroyVirtual \/ StopClose
  \/ StartOpen \/ StartInit \/ StartUinput \/ StartGrab \/ StartAttach
  \/ Read

Fairness == WF_vars(Progress)

Spec == Init /\ [][Next]_vars /\ Fairness
-----------------------------------------------------------------------------
(* Properties                                                              *)

\* A grabbed interface that moves the pointer always has its relay: whatever
\* start() fails at and whenever stop() comes, the user keeps the pointer
\* (order of EvdevMouseMonitor::start and ::stop).
PointerNeverSwallowed ==
  Shared /\ grabOwner = "monitor" => virtualDevice /\ relayGrabbedEvents

\* In the event loop a monitor is either off with nothing left open, grabbed
\* or created, or attached with everything its start() asked for: no failure
\* path of start() and no read error leaves a half-open monitor behind.
AllOrNothing ==
  pc = "idle" =>
    IF notifier
    THEN /\ fileDescriptor # "closed" /\ device
         /\ grabbed = call.exclusive
         /\ virtualDevice = call.relay /\ relayGrabbedEvents = call.relay
         /\ grabbed /\ fileDescriptor = "open" => grabOwner = "monitor"
    ELSE /\ fileDescriptor = "closed" /\ grabOwner # "monitor"
         /\ ~device /\ ~virtualDevice /\ ~relayGrabbedEvents /\ ~grabbed
         /\ virtView = Nothing

Relaying == grabOwner = "monitor" /\ relayGrabbedEvents

\* What the desktop will see of b once the waiting events are relayed.
Foreseen(b) ==
  LET mine == {i \in 1..Len(buffer) : buffer[i] # Dropped /\ buffer[i].button = b}
  IN  \/ mine = {} /\ virtView[b]
      \/ \E last \in mine : (\A i \in mine : i <= last) /\ buffer[last].down

\* While the monitor relays, what the virtual device shows of a button that
\* is not suppressed, once the waiting events are through, is where the
\* finger is; except that a button held since before the grab is still shown
\* by the physical node, and except for buttons whose latest event was lost.
RelayFaithful ==
  Relaying => \A b \in Button \ (SideButton \cup lost) :
                (Foreseen(b) <=> held[b]) \/ (held[b] /\ nodeView[b])

\* The relay keeps up: a button whose state on the virtual device differs
\* from the finger is corrected, unless its event was lost, the physical
\* node still shows it, or the monitor lets go.
RelayKeepsUp ==
  \A b \in Button \ SideButton :
    Relaying ~> (virtView[b] = held[b] \/ nodeView[b] \/ b \in lost \/ ~Relaying)

\* A descriptor on a node that is gone is not kept: the hang-up wakes the
\* notifier and the read error stops the monitor, virtual device included.
DeadNodeReleased ==
  fileDescriptor = "stale" ~> fileDescriptor # "stale" /\ ~virtualDevice

\* The monitor implements its contract.
Contract == INSTANCE MonitorContract WITH
  mode <- IF ~notifier THEN "off"
          ELSE IF ~grabbed THEN "plain"
          ELSE IF relayGrabbedEvents THEN "relay" ELSE "exclusive"

ImplementsContract == Contract!Spec
=============================================================================

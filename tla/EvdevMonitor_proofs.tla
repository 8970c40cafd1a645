------------------------ MODULE EvdevMonitor_proofs ------------------------
(***************************************************************************)
(* Proofs about one monitor, for any set of buttons, any size of the       *)
(* kernel's buffer and any of the faults: what start() and stop() leave    *)
(* behind, and that a monitor implements MonitorContract.                  *)
(***************************************************************************)
EXTENDS EvdevMonitor, SequenceTheorems, TLAPS

\* Nothing is open, grabbed or created.
Off ==
  /\ fileDescriptor = "closed" /\ grabOwner # "monitor"
  /\ ~device /\ ~virtualDevice /\ ~relayGrabbedEvents /\ ~grabbed
  /\ virtView = Nothing

\* Everything that start() was asked for is there.
On ==
  /\ fileDescriptor # "closed" /\ device
  /\ grabbed = call.exclusive
  /\ virtualDevice = call.relay /\ relayGrabbedEvents = call.relay
  /\ grabbed /\ fileDescriptor = "open" => grabOwner = "monitor"

\* The types that the argument needs.
Types ==
  /\ call \in Calls
  /\ goal \in {"idle", "open"}
  /\ {device, virtualDevice, relayGrabbedEvents, grabbed, notifier} \subseteq BOOLEAN

\* What is there at each point of start(), stop() and readAvailableEvents().
Stages ==
  /\ pc = "idle" => IF notifier THEN On ELSE Off
  /\ pc = "read" => notifier /\ On
  /\ pc = "open" => ~notifier /\ Off
  /\ pc \in {"init", "uinput", "grab", "attach"} => ~notifier /\ fileDescriptor # "closed"
  /\ pc = "init" => ~device /\ ~virtualDevice /\ ~grabbed
  /\ pc = "uinput" => device /\ ~virtualDevice /\ ~grabbed /\ call.relay
  /\ pc = "grab" => device /\ ~grabbed /\ call.exclusive /\ virtualDevice = call.relay
  /\ pc = "attach" => On
  /\ pc \in {"destroy", "close"} => ~notifier /\ ~device /\ ~grabbed
  /\ pc = "close" => ~virtualDevice

\* The grab is a live descriptor's and, on a shared interface, never without
\* the relay; the desktop sees keys of the virtual device only while it exists.
Always ==
  /\ grabOwner = "monitor" => grabbed /\ fileDescriptor = "open"
  /\ grabbed => device
  /\ virtualDevice = relayGrabbedEvents
  /\ ~virtualDevice => virtView = Nothing
  /\ Shared /\ grabbed => virtualDevice
  /\ Shared /\ call.exclusive => call.relay

Inv == Types /\ Stages /\ Always

\* A monitor that has just been constructed is off.
LEMMA InvInit == Init => Inv
<1> SUFFICES ASSUME Init
             PROVE  Inv
  OBVIOUS
<1>1. call \in Calls /\ ~call.exclusive
  BY DEF Init, Calls
<1>2. Off
  BY DEF Init, Off
<1> QED
  BY <1>1, <1>2 DEF Init, Inv, Types, Stages, Always, Off

\* Every step of start, stop, the reader and the world around them keeps it.
LEMMA InvStep == Inv /\ [Next]_vars => Inv'
<1> SUFFICES ASSUME Inv, [Next]_vars
             PROVE  Inv'
  OBVIOUS
<1> USE DEF Inv, Types, Stages, Always, On, Off, hardware, members, control
<1>0. CASE UNCHANGED vars
  BY <1>0 DEF vars
<1>1. CASE Unplug
  BY <1>1 DEF Unplug
<1>2. CASE Plug
  BY <1>2 DEF Plug
<1>3. CASE OtherGrabs
  BY <1>3 DEF OtherGrabs
<1>4. CASE \E b \in Button : Finger(b)
  BY <1>4 DEF Finger
<1>5. CASE StopCalled
  BY <1>5 DEF StopCalled, StopThen
<1>6. CASE StopNotifierAndUngrab
  BY <1>6 DEF StopNotifierAndUngrab, NotifierDeleted
<1>7. CASE StopDestroyVirtual
  BY <1>7 DEF StopDestroyVirtual
<1>8. CASE StopClose
  BY <1>8 DEF StopClose
<1>9. CASE StartCalled
  BY <1>9 DEF StartCalled, StopThen, Arguments, Calls
<1>10. CASE StartOpen
  BY <1>10 DEF StartOpen
<1>11. CASE StartInit
  <2>1. CASE pc' = "stop"
    BY <1>11, <2>1 DEF StartInit, Fail, StopThen
  <2>2. CASE pc' # "stop"
    <3>1. device' = TRUE /\ goal' = goal /\ fileDescriptor = "open"
      BY <1>11, <2>2 DEF StartInit, Fail, StopThen
    <3>2. call \in [exclusive : BOOLEAN, relay : BOOLEAN]
      BY DEF Calls
    <3> QED
      BY <1>11, <2>2, <3>1, <3>2 DEF StartInit, Fail, StopThen, Calls
  <2> QED
    BY <2>1, <2>2
<1>12. CASE StartUinput
  <2>1. CASE pc' = "stop"
    BY <1>12, <2>1 DEF StartUinput, Fail, StopThen
  <2>2. CASE pc' # "stop"
    <3>1. virtualDevice' = TRUE /\ relayGrabbedEvents' = TRUE /\ goal' = goal /\ pc' = "grab"
      BY <1>12, <2>2 DEF StartUinput, Fail, StopThen
    <3>2. call.relay = TRUE /\ call.exclusive = TRUE
      BY <1>12 DEF StartUinput, Calls
    <3> QED
      BY <1>12, <3>1, <3>2 DEF StartUinput
  <2> QED
    BY <2>1, <2>2
<1>13. CASE StartGrab
  BY <1>13 DEF StartGrab, Fail, StopThen
<1>14. CASE StartAttach
  BY <1>14 DEF StartAttach
<1>15. CASE NotifierFires
  BY <1>15 DEF NotifierFires
<1>16. CASE ReadEvent
  BY <1>16 DEF ReadEvent, Relays
<1>17. CASE ReadDropped
  BY <1>17 DEF ReadDropped
<1>18. CASE ReadAgain
  BY <1>18 DEF ReadAgain
<1>19. CASE ReadError
  BY <1>19 DEF ReadError, StopThen
<1> QED
  BY <1>0, <1>1, <1>2, <1>3, <1>4, <1>5, <1>6, <1>7, <1>8, <1>9, <1>10, <1>11, <1>12, <1>13, <1>14, <1>15, <1>16, <1>17, <1>18, <1>19
  DEF Next, Environment, Start, Stop, Read

\* The inductive invariant holds in every reachable state.
LEMMA InvHolds == Spec => []Inv
  BY InvInit, InvStep, PTL DEF Spec

\* A grabbed interface that moves the pointer has its relay, always.
THEOREM PointerKept == Spec => []PointerNeverSwallowed
<1>1. Inv => PointerNeverSwallowed
  BY DEF Inv, Always, PointerNeverSwallowed
<1> QED
  BY <1>1, InvHolds, PTL

\* Between calls a monitor is completely on or completely off.
THEOREM NothingHalfOpen == Spec => []AllOrNothing
<1>1. Inv => AllOrNothing
  BY DEF Inv, Stages, On, Off, AllOrNothing
<1> QED
  BY <1>1, InvHolds, PTL

-----------------------------------------------------------------------------
\* Every step of a monitor is a step of its contract or changes nothing there.
LEMMA StepContract ==
  ASSUME Inv, Inv', [Next]_vars
  PROVE  [Contract!Next]_(IF ~notifier THEN "off"
                          ELSE IF ~grabbed THEN "plain"
                          ELSE IF relayGrabbedEvents THEN "relay" ELSE "exclusive")
<1> USE DEF Inv, Types, Stages, Always, On, Off, members, hardware, control,
        Contract!Next, Contract!Attach, Contract!Detach, Contract!Allowed, Contract!Attached
<1>0. CASE UNCHANGED <<notifier, grabbed, relayGrabbedEvents>>
  BY <1>0
<1>1. CASE ~notifier /\ ~notifier'
  BY <1>1
<1>2. CASE StopNotifierAndUngrab
  BY <1>2 DEF StopNotifierAndUngrab, NotifierDeleted
<1>3. CASE StartAttach
  BY <1>3 DEF StartAttach
<1>4. CASE StopDestroyVirtual \/ StopClose
  BY <1>1, <1>4 DEF StopDestroyVirtual, StopClose
<1>5. CASE StartOpen \/ StartInit \/ StartUinput \/ StartGrab
  BY <1>1, <1>5 DEF StartOpen, StartInit, StartUinput, StartGrab
<1>6. CASE StopCalled \/ StartCalled \/ Read
  BY <1>0, <1>6 DEF StopCalled, StartCalled, Read, NotifierFires, ReadEvent,
     ReadDropped, ReadAgain, ReadError
<1>7. CASE Environment
  BY <1>0, <1>7 DEF Environment, Unplug, Plug, OtherGrabs, Finger
<1>8. CASE UNCHANGED vars
  BY <1>0, <1>8 DEF vars
<1> QED
  BY <1>2, <1>3, <1>4, <1>5, <1>6, <1>7, <1>8 DEF Next, Start, Stop

\* A monitor implements MonitorContract.
THEOREM ContractImplemented == Spec => ImplementsContract
<1>1. Init => Contract!Init
  BY DEF Init, Contract!Init
<1> QED
  BY <1>1, StepContract, InvHolds, PTL DEF Spec, ImplementsContract, Contract!Spec

-----------------------------------------------------------------------------
\* A sequence of events stays one when events are added, taken and dropped.
LEMMA BufferedType ==
  ASSUME TypeOK, NEW e \in Event
  PROVE  Buffered(e) \in Seq(Event \cup {Dropped})
<1>1. <<Dropped, e>> \in Seq(Event \cup {Dropped})
  OBVIOUS
<1>2. Append(buffer, e) \in Seq(Event \cup {Dropped})
  BY DEF TypeOK
<1> QED
  BY <1>1, <1>2 DEF Buffered

\* A monitor that has just been constructed is well typed.
LEMMA TypeInit == Init => TypeOK
<1> SUFFICES ASSUME Init
             PROVE  TypeOK
  OBVIOUS
<1>1. call \in Calls /\ Nothing \in [Button -> BOOLEAN]
  BY DEF Init, Calls, Nothing
<1>2. <<>> \in Seq(Event \cup {Dropped})
  OBVIOUS
<1> QED
  BY <1>1, <1>2 DEF Init, TypeOK

\* Every step keeps the types.
LEMMA TypeStep == TypeOK /\ [Next]_vars => TypeOK'
<1> SUFFICES ASSUME TypeOK, [Next]_vars
             PROVE  TypeOK'
  OBVIOUS
<1> USE DEF TypeOK, hardware, members, control
<1>0. CASE UNCHANGED vars
  BY <1>0 DEF vars
<1>1. CASE Unplug
  <2>1. <<>> \in Seq(Event \cup {Dropped}) /\ Nothing \in [Button -> BOOLEAN]
    BY DEF Nothing
  <2>2. grabOwner' \in {"nobody", "monitor", "other"} /\ fileDescriptor' \in {"closed", "open", "stale"}
    BY <1>1 DEF Unplug
  <2> QED
    BY <1>1, <2>1, <2>2 DEF Unplug
<1>2. CASE Plug
  BY <1>2 DEF Plug
<1>3. CASE OtherGrabs
  <2>1. grabOwner' \in {"nobody", "monitor", "other"}
    BY <1>3 DEF OtherGrabs
  <2> QED
    BY <1>3, <2>1 DEF OtherGrabs
<1>4. CASE \E b \in Button : Finger(b)
  <2> PICK b \in Button : Finger(b)
    BY <1>4
  <2>1. [button |-> b, down |-> ~held[b]] \in Event
    BY DEF Event
  <2>2. buffer' \in Seq(Event \cup {Dropped})
    BY <2>1, BufferedType DEF Finger
  <2>3. lost' \subseteq Button
    BY DEF Finger, Buttons, Event
  <2> QED
    BY <2>2, <2>3 DEF Finger
<1>5. CASE StopCalled
  BY <1>5 DEF StopCalled, StopThen
<1>6. CASE StopNotifierAndUngrab
  BY <1>6 DEF StopNotifierAndUngrab, NotifierDeleted
<1>7. CASE StopDestroyVirtual
  BY <1>7 DEF StopDestroyVirtual, Nothing
<1>8. CASE StopClose
  BY <1>8 DEF StopClose
<1>9. CASE StartCalled
  BY <1>9 DEF StartCalled, StopThen, Arguments, Calls
<1>10. CASE StartOpen
  BY <1>10 DEF StartOpen
<1>11. CASE StartInit
  BY <1>11 DEF StartInit, Fail, StopThen
<1>12. CASE StartUinput
  BY <1>12 DEF StartUinput, Fail, StopThen
<1>13. CASE StartGrab
  BY <1>13 DEF StartGrab, Fail, StopThen
<1>14. CASE StartAttach
  BY <1>14 DEF StartAttach
<1>15. CASE NotifierFires
  BY <1>15 DEF NotifierFires
<1>16. CASE ReadEvent
  <2>1. Head(buffer) \in Event /\ buffer' \in Seq(Event \cup {Dropped})
    BY <1>16 DEF ReadEvent
  <2>2. virtView' \in [Button -> BOOLEAN] /\ lost' \subseteq Button
    BY <1>16, <2>1 DEF ReadEvent, Event
  <2> QED
    BY <1>16, <2>1, <2>2 DEF ReadEvent
<1>17. CASE ReadDropped
  <2>1. buffer' \in Seq(Event \cup {Dropped})
    BY <1>17 DEF ReadDropped
  <2>2. lost' \subseteq Button
    BY <1>17 DEF ReadDropped, Buttons, Event
  <2> QED
    BY <1>17, <2>1, <2>2 DEF ReadDropped
<1>18. CASE ReadAgain
  BY <1>18 DEF ReadAgain
<1>19. CASE ReadError
  BY <1>19 DEF ReadError, StopThen
<1> QED
  BY <1>0, <1>1, <1>2, <1>3, <1>4, <1>5, <1>6, <1>7, <1>8, <1>9, <1>10, <1>11, <1>12, <1>13, <1>14, <1>15, <1>16, <1>17, <1>18, <1>19
  DEF Next, Environment, Start, Stop, Read

\* TypeOK is an invariant of the monitor.
THEOREM TypeCorrect == Spec => []TypeOK
  BY TypeInit, TypeStep, PTL DEF Spec

-----------------------------------------------------------------------------
(* What the virtual device shows                                           *)

\* Event i of s is one of b.
Of(s, i, b) == s[i] # Dropped /\ s[i].button = b

\* Foreseen, for any sequence of events and any state of the virtual device.
Shown(s, v, b) ==
  \/ (\A i \in 1..Len(s) : ~Of(s, i, b)) /\ v[b]
  \/ \E last \in 1..Len(s) :
       Of(s, last, b) /\ (\A i \in 1..Len(s) : Of(s, i, b) => i <= last) /\ s[last].down

LEMMA ForeseenShown == \A b : Foreseen(b) <=> Shown(buffer, virtView, b)
<1> SUFFICES ASSUME NEW b
             PROVE  Foreseen(b) <=> Shown(buffer, virtView, b)
  OBVIOUS
<1> DEFINE mine == {i \in 1..Len(buffer) : buffer[i] # Dropped /\ buffer[i].button = b}
<1>1. \A i : i \in mine <=> i \in 1..Len(buffer) /\ Of(buffer, i, b)
  BY DEF Of
<1>2. Foreseen(b) <=> \/ mine = {} /\ virtView[b]
                      \/ \E last \in mine : (\A i \in mine : i <= last) /\ buffer[last].down
  BY DEF Foreseen
<1> HIDE DEF mine
<1>3. mine = {} <=> \A i \in 1..Len(buffer) : ~Of(buffer, i, b)
  BY <1>1
<1>4. (\E last \in mine : (\A i \in mine : i <= last) /\ buffer[last].down)
      <=> \E last \in 1..Len(buffer) :
            /\ Of(buffer, last, b) /\ (\A i \in 1..Len(buffer) : Of(buffer, i, b) => i <= last)
            /\ buffer[last].down
  BY <1>1
<1> QED
  BY <1>2, <1>3, <1>4 DEF Shown

LEMMA ButtonsOf ==
  ASSUME NEW s, NEW b
  PROVE  b \in Buttons(s) <=> \E i \in 1..Len(s) : Of(s, i, b)
  BY DEF Buttons, Of

\* Without an event of b, the virtual device decides.
LEMMA NoneShown ==
  ASSUME NEW s, NEW v, NEW b, b \notin Buttons(s)
  PROVE  Shown(s, v, b) <=> v[b]
  BY ButtonsOf DEF Shown

\* An event of b that comes last decides, one of another button changes nothing.
LEMMA AppendShown ==
  ASSUME NEW s, NEW t, NEW v, NEW b, Len(s) \in Nat, Len(t) = Len(s) + 1,
         \A i \in 1..Len(s) : t[i] = s[i]
  PROVE  /\ Of(t, Len(t), b) => (Shown(t, v, b) <=> t[Len(t)].down)
         /\ ~Of(t, Len(t), b) => (Shown(t, v, b) <=> Shown(s, v, b))
<1>1. \A i \in 1..Len(s) : i \in 1..Len(t) /\ (Of(t, i, b) <=> Of(s, i, b))
  BY DEF Of
<1>2. \A i \in 1..Len(t) : i \in 1..Len(s) \/ i = Len(t)
  OBVIOUS
<1>3. Len(t) \in 1..Len(t) /\ \A i \in 1..Len(t) : i <= Len(t) /\ (Len(t) <= i => i = Len(t))
  OBVIOUS
<1>4. ASSUME Of(t, Len(t), b)
      PROVE  Shown(t, v, b) <=> t[Len(t)].down
  BY <1>3, <1>4 DEF Shown
<1>5. ASSUME ~Of(t, Len(t), b)
      PROVE  Shown(t, v, b) <=> Shown(s, v, b)
  <2>1. (\A i \in 1..Len(t) : ~Of(t, i, b)) <=> (\A i \in 1..Len(s) : ~Of(s, i, b))
    BY <1>1, <1>2, <1>5
  <2>2. ASSUME NEW last \in 1..Len(s)
        PROVE  (\A i \in 1..Len(t) : Of(t, i, b) => i <= last)
               <=> (\A i \in 1..Len(s) : Of(s, i, b) => i <= last)
    BY <1>1, <1>2, <1>5
  <2>3. \A last \in 1..Len(s) : t[last].down <=> s[last].down
    OBVIOUS
  <2> QED
    BY <1>1, <1>2, <1>5, <2>1, <2>2, <2>3 DEF Shown
<1> QED
  BY <1>4, <1>5

\* Taking the first k events away changes nothing for the buttons that still have
\* one.
LEMMA SuffixShown ==
  ASSUME NEW s, NEW t, NEW v, NEW w, NEW b, Len(s) \in Nat, NEW k \in 0..Len(s),
         Len(t) = Len(s) - k, \A i \in 1..Len(t) : t[i] = s[k + i],
         b \in Buttons(t)
  PROVE  Shown(t, w, b) <=> Shown(s, v, b)
<1>1. PICK j \in 1..Len(t) : Of(t, j, b)
  BY ButtonsOf
<1>2. \A i \in 1..Len(t) : k + i \in 1..Len(s) /\ (Of(t, i, b) <=> Of(s, k + i, b))
                           /\ (t[i].down <=> s[k + i].down)
  BY DEF Of
<1>3. \A i \in 1..Len(s) : i > k => i - k \in 1..Len(t) /\ k + (i - k) = i
  OBVIOUS
<1>4. k + j \in 1..Len(s) /\ Of(s, k + j, b)
  BY <1>1, <1>2
<1>5. ASSUME Shown(t, w, b)
      PROVE  Shown(s, v, b)
  <2>1. PICK last \in 1..Len(t) :
          Of(t, last, b) /\ (\A i \in 1..Len(t) : Of(t, i, b) => i <= last) /\ t[last].down
    BY <1>1, <1>5 DEF Shown
  <2>2. k + last \in 1..Len(s) /\ Of(s, k + last, b) /\ s[k + last].down
    BY <1>2, <2>1
  <2>3. ASSUME NEW i \in 1..Len(s), Of(s, i, b)
        PROVE  i <= k + last
    <3>1. CASE i > k
      <4>1. i - k \in 1..Len(t) /\ Of(t, i - k, b)
        BY <1>2, <1>3, <2>3, <3>1
      <4> QED
        BY <2>1, <4>1
    <3> QED
      BY <3>1
  <2> QED
    BY <2>2, <2>3 DEF Shown
<1>6. ASSUME Shown(s, v, b)
      PROVE  Shown(t, w, b)
  <2>1. PICK last \in 1..Len(s) :
          Of(s, last, b) /\ (\A i \in 1..Len(s) : Of(s, i, b) => i <= last) /\ s[last].down
    BY <1>4, <1>6 DEF Shown
  <2>2. k + j <= last
    BY <1>4, <2>1
  <2>3. last > k
    BY <2>2
  <2>4. last - k \in 1..Len(t) /\ Of(t, last - k, b) /\ t[last - k].down
    BY <1>2, <1>3, <2>1, <2>3
  <2>5. \A i \in 1..Len(t) : Of(t, i, b) => i <= last - k
    BY <1>2, <2>1
  <2> QED
    BY <2>4, <2>5 DEF Shown
<1> QED
  BY <1>5, <1>6

\* What RelayFaithful says of b.
Faithful(b) == (Shown(buffer, virtView, b) <=> held[b]) \/ (held[b] /\ nodeView[b])

\* From the moment the descriptor is open the events on it make up for what the
\* virtual device does not show, also before there is a virtual device and
\* while nobody, or somebody else, grabs the node.
FaithInv ==
  /\ fileDescriptor # "open" => buffer = <<>>
  /\ fileDescriptor = "open" /\ (relayGrabbedEvents \/ pc \in {"init", "uinput"}) =>
       \A b \in Button \ (SideButton \cup lost) : Faithful(b)

LEMMA EventNotDropped ==
  ASSUME NEW b, NEW d
  PROVE  [button |-> b, down |-> d] # Dropped
<1>1. "marker" \in DOMAIN Dropped /\ "marker" \notin DOMAIN [button |-> b, down |-> d]
  BY DEF Dropped
<1> QED
  BY <1>1

\* A new event reaches the descriptor of the monitor.
LEMMA BufferedShown ==
  ASSUME TypeOK, NEW e \in Event, e # Dropped, NEW c \in Button, NEW v,
         NEW t, t = Buffered(e)
  PROVE  /\ c = e.button => (Shown(t, v, c) <=> e.down)
         /\ c # e.button /\ (Len(buffer) < BufferSize \/ c \notin Buttons(buffer))
              => (Shown(t, v, c) <=> Shown(buffer, v, c))
<1>3. CASE Len(buffer) < BufferSize
  <2>1. t = Append(buffer, e)
    BY <1>3 DEF Buffered
  <2>2. /\ Len(buffer) \in Nat /\ Len(t) = Len(buffer) + 1 /\ t[Len(t)] = e
        /\ \A i \in 1..Len(buffer) : t[i] = buffer[i]
    BY <2>1, AppendProperties, LenProperties DEF TypeOK
  <2>3. Of(t, Len(t), c) <=> c = e.button
    BY <2>2 DEF Of
  <2> QED
    BY <2>2, <2>3, AppendShown
<1>4. CASE ~(Len(buffer) < BufferSize)
  <2>1. t = <<Dropped, e>>
    BY <1>4 DEF Buffered
  <2>2. Len(t) = 2 /\ t[1] = Dropped /\ t[2] = e
    BY <2>1
  <2>3. ~Of(t, 1, c) /\ (Of(t, 2, c) <=> c = e.button)
    BY <2>2 DEF Of
  <2>4. c = e.button => (Shown(t, v, c) <=> e.down)
    BY <2>2, <2>3 DEF Shown
  <2>5. ASSUME c # e.button
        PROVE  c \notin Buttons(t)
    <3>0. Len(t) = 2
      BY <2>2
    <3>1. \A i \in 1..Len(t) : i = 1 \/ i = 2
      BY ONLY <3>0
    <3>2. \A i \in 1..Len(t) : ~Of(t, i, c)
      BY <2>3, <2>5, <3>1
    <3> QED
      BY <3>2, ButtonsOf
  <2> QED
    BY <1>4, <2>4, <2>5, NoneShown
<1> QED
  BY <1>3, <1>4

LEMMA FingerFaithful ==
  ASSUME TypeOK, FaithInv, NEW b \in Button, Finger(b)
  PROVE  FaithInv'
<1>1. /\ held' = [held EXCEPT ![b] = ~@]
      /\ nodeView' = IF grabOwner = "nobody" THEN [nodeView EXCEPT ![b] = ~held[b]] ELSE nodeView
      /\ UNCHANGED <<virtView, grabOwner, pc, fileDescriptor, relayGrabbedEvents>>
  BY DEF Finger, control, members
<1>2. CASE ~(fileDescriptor = "open" /\ grabOwner # "other")
  <2>1. buffer' = buffer /\ lost' = lost \cup {b}
    BY <1>2 DEF Finger
  <2>2. ASSUME NEW c \in Button \ (SideButton \cup lost'), Faithful(c)
        PROVE  Faithful(c)'
    <3>1. c # b /\ held'[c] = held[c] /\ nodeView'[c] = nodeView[c]
      BY <1>1, <2>1, <2>2 DEF TypeOK
    <3> QED
      BY <1>1, <2>1, <2>2, <3>1 DEF Faithful, Shown, Of
  <2> QED
    BY <1>1, <2>1, <2>2 DEF FaithInv
<1>3. CASE fileDescriptor = "open" /\ grabOwner # "other"
  <2> DEFINE e == [button |-> b, down |-> ~held[b]]
  <2>1. /\ buffer' = Buffered(e)
        /\ lost' = (IF Len(buffer) < BufferSize THEN lost ELSE lost \cup Buttons(buffer)) \ {b}
    BY <1>3 DEF Finger
  <2>2. e \in Event /\ e # Dropped /\ e.button = b /\ (e.down <=> ~held[b])
    BY EventNotDropped DEF Event
  <2> HIDE DEF e
  <2>3. ASSUME NEW c \in Button \ (SideButton \cup lost'), c # b, Faithful(c)
        PROVE  Faithful(c)'
    <3>1. held'[c] = held[c] /\ nodeView'[c] = nodeView[c]
      BY <1>1, <2>3 DEF TypeOK
    <3>2. Len(buffer) < BufferSize \/ c \notin Buttons(buffer)
      BY <2>1, <2>3
    <3>3. Shown(buffer', virtView, c) <=> Shown(buffer, virtView, c)
      BY <2>1, <2>2, <2>3, <3>2, BufferedShown
    <3> QED
      BY <1>1, <2>3, <3>1, <3>3 DEF Faithful, Shown, Of
  <2>4. Faithful(b)'
    <3>1. Shown(buffer', virtView, b) <=> ~held[b]
      BY <2>1, <2>2, BufferedShown
    <3>2. held'[b] = ~held[b]
      BY <1>1 DEF TypeOK
    <3> QED
      BY <1>1, <3>1, <3>2 DEF Faithful, Shown, Of
  <2>5. \A c \in Button \ (SideButton \cup lost') : c # b => c \in Button \ (SideButton \cup lost)
    BY <2>1
  <2> QED
    BY <1>1, <1>3, <2>3, <2>4, <2>5 DEF FaithInv
<1> QED
  BY <1>2, <1>3

\* A step that touches neither the events nor what is seen of the buttons.
LEMMA QuietFaithful ==
  ASSUME FaithInv, UNCHANGED <<buffer, virtView, held, nodeView, lost, fileDescriptor>>,
         relayGrabbedEvents' \/ pc' \in {"init", "uinput"} =>
           relayGrabbedEvents \/ pc \in {"init", "uinput"}
  PROVE  FaithInv'
  BY DEF FaithInv, Faithful, Shown, Of

\* The first event of the buffer that is not a marker is Head(buffer).
LEMMA HeadTail ==
  ASSUME TypeOK, buffer # <<>>
  PROVE  /\ Len(buffer) \in Nat /\ Len(buffer) >= 1 /\ buffer[1] = Head(buffer)
         /\ Len(Tail(buffer)) = Len(buffer) - 1
         /\ \A i \in 1..Len(Tail(buffer)) : Tail(buffer)[i] = buffer[1 + i]
  BY HeadTailProperties DEF TypeOK

\* A button whose event is read is shown by the virtual device, or has a later
\* event, or counts as lost.
LEMMA ReadFaithful ==
  ASSUME TypeOK, Inv, FaithInv, ReadEvent
  PROVE  FaithInv'
<1> DEFINE e == Head(buffer)
<1>1. /\ Len(buffer) \in Nat /\ Len(buffer) >= 1 /\ buffer[1] = e
      /\ Len(buffer') = Len(buffer) - 1
      /\ \A i \in 1..Len(buffer') : buffer'[i] = buffer[1 + i]
  BY HeadTail DEF ReadEvent
<1>2. /\ UNCHANGED <<held, nodeView, pc, fileDescriptor, relayGrabbedEvents>>
      /\ pc = "read" /\ fileDescriptor = "open"
      /\ e \in Event /\ e # Dropped
  BY DEF ReadEvent, hardware, control, members, TypeOK
<1>3. \/ lost' = lost /\ virtView' = IF Relays(e) THEN [virtView EXCEPT ![e.button] = e.down]
                                     ELSE virtView
      \/ Relays(e) /\ virtView' = virtView /\ lost' = lost \cup ({e.button} \ Buttons(buffer'))
  BY DEF ReadEvent
<1> HIDE DEF e
<1>4. ASSUME NEW c \in Button \ (SideButton \cup lost'), relayGrabbedEvents
      PROVE  Shown(buffer', virtView', c) <=> Shown(buffer, virtView, c)
  <2>1. CASE c \in Buttons(buffer')
    <3>1. 1 \in 0..Len(buffer)
      BY <1>1
    <3> QED
      BY <1>1, <2>1, <3>1, SuffixShown
  <2>2. CASE c \notin Buttons(buffer')
    <3>1. \A i \in 1..Len(buffer) : i = 1 \/ (i - 1 \in 1..Len(buffer') /\ 1 + (i - 1) = i)
      BY <1>1
    <3>2. \A i \in 1..Len(buffer') : ~Of(buffer', i, c)
      BY <2>2, ButtonsOf
    <3>3. \A i \in 1..Len(buffer) : Of(buffer, i, c) => i = 1
      BY <1>1, <3>1, <3>2 DEF Of
    <3>4. Shown(buffer', virtView', c) <=> virtView'[c]
      BY <2>2, NoneShown
    <3>5. CASE c # e.button
      <4>1. ~Of(buffer, 1, c)
        BY <1>1, <3>5 DEF Of
      <4>2. \A i \in 1..Len(buffer) : ~Of(buffer, i, c)
        BY <3>3, <4>1
      <4>3. Shown(buffer, virtView, c) <=> virtView[c]
        BY <4>2, ButtonsOf, NoneShown
      <4>4. virtView'[c] = virtView[c]
        BY <1>3, <3>5 DEF TypeOK
      <4> QED
        BY <3>4, <4>3, <4>4
    <3>6. CASE c = e.button
      <4>1. Of(buffer, 1, c) /\ 1 \in 1..Len(buffer)
        BY <1>1, <1>2, <3>6 DEF Of
      <4>2. Shown(buffer, virtView, c) <=> e.down
        BY <1>1, <3>3, <4>1 DEF Shown
      <4>3. Relays(e)
        BY <1>4, <3>6 DEF Relays, Suppressed, Inv, Always
      <4>4. virtView' = [virtView EXCEPT ![e.button] = e.down]
        BY <1>3, <2>2, <3>6, <4>3
      <4>5. virtView'[c] = e.down
        BY <3>6, <4>4 DEF TypeOK
      <4> QED
        BY <3>4, <4>2, <4>5
    <3> QED
      BY <3>5, <3>6
  <2> QED
    BY <2>1, <2>2
<1>5. lost \subseteq lost'
  BY <1>3
<1>6. ASSUME NEW c \in Button \ (SideButton \cup lost'), relayGrabbedEvents
      PROVE  Faithful(c)'
  <2>1. Faithful(c)
    BY <1>2, <1>5, <1>6 DEF FaithInv
  <2>2. Shown(buffer', virtView', c) <=> Shown(buffer, virtView, c)
    BY <1>4, <1>6
  <2>3. Faithful(c)' <=> \/ Shown(buffer', virtView', c) <=> held'[c]
                         \/ held'[c] /\ nodeView'[c]
    BY DEF Faithful, Shown, Of
  <2> QED
    BY <1>2, <2>1, <2>2, <2>3 DEF Faithful
<1> QED
  BY <1>2, <1>6 DEF FaithInv

\* After SYN_DROPPED, the buttons whose events are thrown away have a later one
\* or count as lost.
LEMMA DroppedFaithful ==
  ASSUME TypeOK, FaithInv, ReadDropped
  PROVE  FaithInv'
<1>1. /\ UNCHANGED <<held, nodeView, virtView, pc, fileDescriptor, relayGrabbedEvents>>
      /\ fileDescriptor = "open"
  BY DEF ReadDropped, hardware, control, members
<1>2. PICK k \in 1..Len(buffer) :
        /\ buffer' = SubSeq(buffer, k + 1, Len(buffer))
        /\ lost' = lost \cup (Buttons(SubSeq(buffer, 1, k)) \ Buttons(buffer'))
  BY DEF ReadDropped
<1> DEFINE gone == SubSeq(buffer, 1, k)
<1>3. Len(buffer) \in Nat
  BY LenProperties DEF TypeOK
<1>4. Len(gone) = k /\ \A i \in 1..k : gone[i] = buffer[i]
  BY <1>3, SubSeqProperties DEF TypeOK
<1>5. Len(buffer') = Len(buffer) - k /\ \A i \in 1..Len(buffer') : buffer'[i] = buffer[k + i]
  BY <1>2, <1>3, SubSeqProperties DEF TypeOK
<1>6. lost' = lost \cup (Buttons(gone) \ Buttons(buffer'))
  BY <1>2
<1> HIDE DEF gone
<1>7. ASSUME NEW c \in Button \ (SideButton \cup lost')
      PROVE  Shown(buffer', virtView, c) <=> Shown(buffer, virtView, c)
  <2>1. CASE c \in Buttons(buffer')
    BY <1>3, <1>5, <2>1, SuffixShown
  <2>2. CASE c \notin Buttons(buffer')
    <3>1. \A i \in 1..Len(gone) : ~Of(gone, i, c)
      BY <1>6, <1>7, <2>2, ButtonsOf
    <3>2. \A i \in 1..Len(buffer') : ~Of(buffer', i, c)
      BY <2>2, ButtonsOf
    <3>3. \A i \in 1..Len(buffer) :
            i \in 1..k \/ (i - k \in 1..Len(buffer') /\ k + (i - k) = i)
      BY <1>3, <1>5
    <3>4. ASSUME NEW i \in 1..Len(buffer)
          PROVE  ~Of(buffer, i, c)
      <4>1. CASE i \in 1..k
        BY <1>4, <3>1, <4>1 DEF Of
      <4>2. CASE i - k \in 1..Len(buffer') /\ k + (i - k) = i
        <5>1. buffer'[i - k] = buffer[i]
          BY <1>5, <4>2
        <5> QED
          BY <3>2, <4>2, <5>1 DEF Of
      <4> QED
        BY <3>3, <4>1, <4>2
    <3>5. c \notin Buttons(buffer)
      BY <3>4, ButtonsOf
    <3> QED
      BY <2>2, <3>5, NoneShown
  <2> QED
    BY <2>1, <2>2
<1>8. ASSUME NEW c \in Button \ (SideButton \cup lost'), Faithful(c)
      PROVE  Faithful(c)'
  <2>1. Faithful(c)' <=> \/ Shown(buffer', virtView', c) <=> held'[c]
                         \/ held'[c] /\ nodeView'[c]
    BY DEF Faithful, Shown, Of
  <2> QED
    BY <1>1, <1>7, <1>8, <2>1 DEF Faithful
<1> QED
  BY <1>1, <1>6, <1>8 DEF FaithInv

\* Opening a descriptor: nothing waits on it, and a finger that the physical node
\* does not show counts as lost.
LEMMA OpenFaithful ==
  ASSUME TypeOK, Inv, FaithInv, StartOpen
  PROVE  FaithInv'
<1>1. fileDescriptor = "closed" /\ buffer' = <<>> /\ virtView' = Nothing /\ ~relayGrabbedEvents
  BY DEF StartOpen, Inv, Stages, Off, FaithInv
<1>2. UNCHANGED <<held, nodeView, relayGrabbedEvents>>
  BY DEF StartOpen, hardware
<1>3. CASE pc' = "idle"
  BY <1>1, <1>2, <1>3 DEF FaithInv
<1>4. CASE pc' # "idle"
  <2>1. lost' = {b \in Button : held[b] /\ ~nodeView[b]}
    BY <1>4 DEF StartOpen
  <2>2. ASSUME NEW c \in Button \ lost'
        PROVE  Faithful(c)'
    <3>1. Len(buffer') = 0
      BY <1>1
    <3>2. c \notin Buttons(buffer')
      BY <3>1 DEF Buttons
    <3>3. Shown(buffer', virtView', c) <=> virtView'[c]
      BY <3>2, NoneShown
    <3>4. virtView'[c] = FALSE
      BY <1>1 DEF Nothing
    <3>5. Faithful(c)' <=> \/ Shown(buffer', virtView', c) <=> held'[c]
                           \/ held'[c] /\ nodeView'[c]
      BY DEF Faithful, Shown, Of
    <3> QED
      BY <1>2, <2>1, <2>2, <3>3, <3>4, <3>5
  <2> QED
    BY <1>1, <2>2 DEF FaithInv
<1> QED
  BY <1>3, <1>4

\* Every step of the monitor and of the world around it keeps FaithInv.
LEMMA FaithStep == TypeOK /\ Inv /\ FaithInv /\ [Next]_vars => FaithInv'
<1> SUFFICES ASSUME TypeOK, Inv, FaithInv, [Next]_vars
             PROVE  FaithInv'
  OBVIOUS
<1> USE DEF hardware, members, control
<1>0. CASE UNCHANGED vars
  BY <1>0, QuietFaithful DEF vars
<1>1. CASE Unplug
  BY <1>1 DEF Unplug, FaithInv
<1>2. CASE Plug \/ OtherGrabs
  <2>1. UNCHANGED <<buffer, virtView, held, nodeView, lost, fileDescriptor, relayGrabbedEvents, pc>>
    BY <1>2 DEF Plug, OtherGrabs
  <2> QED
    BY <2>1, QuietFaithful
<1>3. CASE \E b \in Button : Finger(b)
  BY <1>3, FingerFaithful
<1>4. CASE StopCalled \/ StopNotifierAndUngrab
  <2>1. /\ UNCHANGED <<buffer, virtView, held, nodeView, lost, fileDescriptor, relayGrabbedEvents>>
        /\ pc' \in {"stop", "destroy"}
    BY <1>4 DEF StopCalled, StopNotifierAndUngrab, StopThen
  <2> QED
    BY <2>1, QuietFaithful
<1>5. CASE StopDestroyVirtual
  BY <1>5 DEF StopDestroyVirtual, FaithInv
<1>6. CASE StopClose
  BY <1>6 DEF StopClose, FaithInv
<1>7. CASE StartCalled \/ StartInit \/ StartGrab \/ StartAttach
  BY <1>7, QuietFaithful DEF StartCalled, StartInit, StartGrab, StartAttach, StopThen, Fail
<1>8. CASE StartUinput
  BY <1>8, QuietFaithful DEF StartUinput, StopThen, Fail
<1>9. CASE StartOpen
  BY <1>9, OpenFaithful
<1>10. CASE NotifierFires \/ ReadAgain \/ ReadError
  BY <1>10, QuietFaithful DEF NotifierFires, ReadAgain, ReadError, StopThen
<1>11. CASE ReadEvent
  BY <1>11, ReadFaithful
<1>12. CASE ReadDropped
  BY <1>12, DroppedFaithful
<1> QED
  BY <1>0, <1>1, <1>2, <1>3, <1>4, <1>5, <1>6, <1>7, <1>8, <1>9, <1>10, <1>11, <1>12
  DEF Next, Environment, Start, Stop, Read

\* While a monitor relays, every button that it does not suppress is, once the
\* waiting events are through, shown as the finger holds it, or still shown by
\* the physical node, or had its latest event lost.
THEOREM RelayIsFaithful == Spec => []RelayFaithful
<1>1. Init => FaithInv
  BY DEF Init, FaithInv
<1>2. Inv /\ FaithInv => RelayFaithful
  <2> SUFFICES ASSUME Inv, FaithInv, Relaying, NEW b \in Button \ (SideButton \cup lost)
               PROVE  (Foreseen(b) <=> held[b]) \/ (held[b] /\ nodeView[b])
    BY DEF RelayFaithful
  <2>1. Faithful(b)
    BY DEF Inv, Always, FaithInv, Relaying
  <2> QED
    BY <2>1, ForeseenShown DEF Faithful
<1> QED
  BY <1>1, <1>2, FaithStep, TypeCorrect, InvHolds, PTL DEF Spec
=============================================================================

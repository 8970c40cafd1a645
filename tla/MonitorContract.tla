-------------------------- MODULE MonitorContract --------------------------
(***************************************************************************)
(* What the rest of TDriver may rely on about one EvdevMouseMonitor: it is *)
(* off, reads its interface beside the desktop ("plain"), owns it alone    *)
(* ("exclusive"), or owns it and passes the events on through a virtual    *)
(* device ("relay").  An attached monitor keeps the way it was attached    *)
(* until it is off again, whether by stop() or by a read error, and an     *)
(* interface that also moves the pointer is never owned without a relay.   *)
(***************************************************************************)
CONSTANT Shared   \* TRUE iff the interface also carries motion or primary buttons

VARIABLE mode

Attached == {"plain", "exclusive", "relay"}

Allowed == IF Shared THEN {"plain", "relay"} ELSE Attached

Init == mode = "off"

Attach == mode = "off" /\ mode' \in Allowed

Detach == mode \in Attached /\ mode' = "off"

Next == Attach \/ Detach

Spec == Init /\ [][Next]_mode
=============================================================================

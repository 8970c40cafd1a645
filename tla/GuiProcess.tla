----------------------------- MODULE GuiProcess -----------------------------
(***************************************************************************)
(* The process of the GUI: a lock file admits one at a time, it builds its *)
(* window, enters the event loop, and ends by the tray's menu, a crash or  *)
(* a logout.  Parts of the GUI extend this module and say what a start and *)
(* an end mean to them.                                                    *)
(***************************************************************************)
VARIABLE app

Phases == {"off", "starting", "on"}

ProcessInit == app = "off"

\* A second start finds the lock taken and only shows a message.
Launches == app = "off" /\ app' = "starting"

\* exec()
EntersLoop == app = "starting" /\ app' = "on"

\* The lock of a process that died is stale.
Dies == app # "off" /\ app' = "off"
=============================================================================

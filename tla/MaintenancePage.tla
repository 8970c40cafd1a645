--------------------------- MODULE MaintenancePage --------------------------
(***************************************************************************)
(* The device list and the maintenance page, whose handlers run on one     *)
(* thread but let the event loop in while they work: setMaintenanceBusy    *)
(* ends in processEvents(), so that a click starts a handler inside        *)
(* another one.  A click on a device may also open the setup dialog, which *)
(* is modal.  What packages there are is DependencyLedger's and            *)
(* SetupAssistant's matter; here only whether the page is up to date.      *)
(***************************************************************************)
EXTENDS GuiProcess, Naturals, Sequences

CONSTANT MaxNesting  \* bound: handlers inside one another

ASSUME NestingAssumption == MaxNesting \in Nat \ {0}

\* "before" and "after": in the processEvents() of setMaintenanceBusy(true) and
\* setMaintenanceBusy(false).
Call == [of : {"refresh", "change"}, at : {"before", "after"}]

VARIABLES
  busy,      \* maintenanceBusy_
  calls,     \* the handlers at work, the innermost last
  preparing, \* whether the setup dialog is open, over whatever is at work
  stale      \* which parts of the GUI have changed profiles of devices or packages
             \* since the audit that the page shows: its own handlers, the dialog

pageVars == <<busy, calls, preparing, stale>>

PageTypeOK ==
  /\ busy \in BOOLEAN /\ preparing \in BOOLEAN /\ stale \subseteq {"page", "setup"}
  /\ calls \in Seq(Call) /\ Len(calls) <= MaxNesting

\* The constructor scans, and audits, before any window is there.
Afresh       == busy' = FALSE /\ calls' = <<>> /\ preparing' = FALSE
PageInit     == busy = FALSE /\ calls = <<>> /\ preparing = FALSE /\ stale = {}
PageLaunches == Afresh /\ stale' = {}
PageDies     == Afresh /\ stale' = {}

Inner     == calls[Len(calls)]
Others    == SubSeq(calls, 1, Len(calls) - 1)
Starts(f) == calls' = Append(calls, [of |-> f, at |-> "before"]) /\ busy' = TRUE

\* The event loop, or the processEvents() of a handler.
Listening == app = "on" /\ ~preparing /\ Len(calls) < MaxNesting

\* refreshDevices records the requirements of what it found, and ends in
\* refreshDependencyMaintenance, which returns if the page is busy.
RefreshesDevices ==
  /\ Listening /\ stale' = stale \cup {"page"} /\ UNCHANGED preparing
  /\ IF busy THEN UNCHANGED <<busy, calls>> ELSE Starts("refresh")

\* The page's own buttons are disabled while it is busy.  Without a Yes to its
\* question installMissingDependencies and removeUnusedDependencies do nothing.
ChecksDependencies == Listening /\ ~busy /\ Starts("refresh") /\ UNCHANGED <<preparing, stale>>
ChangesPackages    == Listening /\ ~busy /\ Starts("change") /\ UNCHANGED <<preparing, stale>>

\* The audit, or pacman, and setMaintenanceBusy(false).
Works ==
  /\ ~preparing /\ calls # <<>> /\ Inner.at = "before"
  /\ stale' = IF Inner.of = "refresh" THEN {} ELSE stale \cup {"page"}
  /\ busy' = FALSE /\ calls' = [calls EXCEPT ![Len(calls)].at = "after"]
  /\ UNCHANGED preparing

\* Feedback; a change of packages goes on with refreshDependencyMaintenance.
\* (One that shows the feedback only.)
ReturnsOnly ==
  /\ ~preparing /\ calls # <<>> /\ Inner.at = "after"
  /\ calls' = Others /\ UNCHANGED <<busy, preparing, stale>>
Returns ==
  /\ ~preparing /\ calls # <<>> /\ Inner.at = "after" /\ UNCHANGED <<preparing, stale>>
  /\ IF Inner.of = "change" /\ ~busy
     THEN calls' = Append(Others, [of |-> "refresh", at |-> "before"]) /\ busy' = TRUE
     ELSE calls' = Others /\ UNCHANGED busy

\* ensureActionBackend, at the start or for a device that is to be mapped; the device
\* list stays enabled while the page is busy.  The dialog may install ydotool, and
\* nothing audits after it.
OpensPreparation  == /\ app = "on" /\ ~preparing /\ preparing' = TRUE
                     /\ UNCHANGED <<busy, calls, stale>>
PreparesBackend   == /\ preparing /\ stale' = stale \cup {"setup"}
                     /\ UNCHANGED <<busy, calls, preparing>>
ClosesPreparation == /\ preparing /\ preparing' = FALSE
                     /\ UNCHANGED <<busy, calls, stale>>

PageNext ==
  \/ RefreshesDevices \/ ChecksDependencies \/ ChangesPackages \/ Works \/ Returns
  \/ OpensPreparation \/ PreparesBackend \/ ClosesPreparation

\* Whatever was clicked while handlers were at work, and however they nest: when all
\* have returned the page shows what they have left, and its buttons work again
\* (setMaintenanceBusy, refreshDependencyMaintenance).  What the setup dialog has
\* installed it may not show.
PageIsCurrent == app = "on" /\ calls = <<>> => "page" \notin stale /\ ~busy
=============================================================================

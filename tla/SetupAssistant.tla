--------------------------- MODULE SetupAssistant ---------------------------
(***************************************************************************)
(* DependencySetupDialog and DependencySetupManager: the dialog that makes *)
(* ydotool work as a backend, by itself at a start or before a mapping     *)
(* dialog, one privileged command after the other.  Any command may fail,  *)
(* and one that timed out may have had its effect; GUI and machine may go  *)
(* down between any two; the user changes things as well.                  *)
(***************************************************************************)
EXTENDS GuiProcess

VARIABLES
  machine,   \* session, tools: what does not change
  ydotool,   \* ydotool and ydotoold are installed
  uinput,    \* /dev/uinput is there
  persisted, \* /etc/modules-load.d/rodavarion-uinput.conf is there
  unit,      \* ydotool.service, whether enabled and active
  dismissed, \* setup/actionBackendDismissedForVersion
  due,       \* the check at the start is yet to come
  dialog,    \* the dialog, and where its installation is
  auto,      \* whether it came by itself
  ready,     \* its ready_
  flawless,  \* history: no command of this installation failed, nobody interfered
  configured \* history: such an installation came to its end, nobody interfered since

backend   == <<ydotool, uinput, persisted, unit>>
setupVars == <<machine, backend, dismissed, due, dialog, auto, ready, flawless, configured>>

Machine == [supported : BOOLEAN, wayland : BOOLEAN, xdotool : BOOLEAN]
Unit    == [enabled : BOOLEAN, active : BOOLEAN]
Steps   == {"package", "module", "persist", "enable", "inspect"}

SetupTypeOK ==
  /\ machine \in Machine /\ unit \in Unit
  /\ ydotool \in BOOLEAN /\ uinput \in BOOLEAN /\ persisted \in BOOLEAN
  /\ dismissed \in BOOLEAN /\ due \in BOOLEAN /\ auto \in BOOLEAN /\ ready \in BOOLEAN
  /\ dialog \in {"none", "open"} \cup Steps
  /\ flawless \in BOOLEAN /\ configured \in BOOLEAN

SetupInit ==
  /\ machine \in Machine /\ unit = [enabled |-> FALSE, active |-> FALSE]
  /\ ydotool \in BOOLEAN /\ uinput \in BOOLEAN /\ persisted = FALSE
  /\ dismissed = FALSE /\ due = FALSE /\ dialog = "none"
  /\ auto = FALSE /\ ready = FALSE /\ flawless = FALSE /\ configured = FALSE

Ready ==
  \/ ydotool /\ uinput /\ unit.active
  \/ ~machine.wayland /\ machine.xdotool

\* inspect(): a systemctl that does not answer in time counts as an inactive unit.
Inspected == IF ~machine.wayland /\ machine.xdotool THEN {Ready} ELSE {Ready, FALSE}

-----------------------------------------------------------------------------
(* The world                                                               *)

SetupLaunches ==
  due' = TRUE /\ UNCHANGED <<machine, backend, dismissed, dialog, auto, ready, flawless, configured>>
SetupDies ==
  /\ due' = FALSE /\ dialog' = "none" /\ auto' = FALSE /\ ready' = FALSE /\ flawless' = FALSE
  /\ UNCHANGED <<machine, backend, dismissed, configured>>

\* After a boot the module is there if it is configured, or if something else
\* wants it; the unit runs if it is enabled and can.
Boots ==
  /\ app = "off"
  /\ uinput' \in {TRUE, persisted}
  /\ unit' = [unit EXCEPT !.active = unit.enabled /\ ydotool /\ uinput']
  /\ UNCHANGED <<machine, ydotool, persisted, dismissed, due, dialog, auto, ready, flawless, configured>>

\* Packages, files and units changed by others; a command of the GUI that goes on
\* after it died.
Interferes ==
  /\ ydotool' \in BOOLEAN /\ uinput' \in BOOLEAN /\ persisted' \in BOOLEAN /\ unit' \in Unit
  /\ backend' # backend
  /\ flawless' = FALSE /\ configured' = FALSE
  /\ UNCHANGED <<machine, dismissed, due, dialog, auto, ready>>

-----------------------------------------------------------------------------
(* The dialog                                                              *)

Opens(byItself) ==
  /\ dialog' = "open" /\ auto' = byItself /\ ready' \in Inspected
  /\ UNCHANGED <<machine, backend, dismissed, flawless, configured>>

\* ensureActionBackend(false), once after the start
ChecksAtStart ==
  /\ app = "on" /\ due /\ due' = FALSE
  /\ \/ /\ TRUE \in Inspected \/ dismissed
        /\ UNCHANGED <<machine, backend, dismissed, dialog, auto, ready, flawless, configured>>
     \/ FALSE \in Inspected /\ ~dismissed /\ Opens(TRUE)

\* ensureActionBackend(true), before a mapping dialog
ChecksForMapping ==
  /\ app = "on" /\ ~due /\ dialog = "none" /\ FALSE \in Inspected
  /\ Opens(FALSE) /\ UNCHANGED due

\* refreshStatus
Rechecks ==
  /\ dialog = "open" /\ ready' \in Inspected
  /\ UNCHANGED <<machine, backend, dismissed, due, dialog, auto, flawless, configured>>

\* Back in ensureActionBackend.
ClosesSetup ==
  /\ dialog = "open" /\ dialog' = "none" /\ auto' = FALSE /\ ready' = FALSE
  /\ dismissed' = IF ready THEN FALSE ELSE dismissed \/ auto
  /\ UNCHANGED <<machine, backend, due, flawless, configured>>

-----------------------------------------------------------------------------
(* installAndConfigure                                                     *)

Fails == dialog' = "open" /\ ready' = FALSE /\ flawless' = FALSE

\* A Yes on a machine with Arch, pacman and pkexec; on others nothing is done.
Installs ==
  /\ dialog = "open" /\ ~ready /\ machine.supported
  /\ dialog' = (IF ydotool THEN "module" ELSE "package") /\ flawless' = TRUE
  /\ UNCHANGED <<machine, backend, dismissed, due, auto, ready, configured>>

InstallsPackage ==
  /\ dialog = "package"
  /\ \/ dialog' = "module" /\ ydotool' = TRUE /\ UNCHANGED <<ready, flawless>>
     \/ Fails /\ ydotool' \in {ydotool, TRUE}
  /\ UNCHANGED <<machine, uinput, persisted, unit, dismissed, due, auto, configured>>

\* modprobe
LoadsModule ==
  /\ dialog = "module"
  /\ \/ dialog' = "persist" /\ uinput' = TRUE /\ UNCHANGED <<ready, flawless>>
     \/ Fails /\ uinput' \in {uinput, TRUE}
  /\ UNCHANGED <<machine, ydotool, persisted, unit, dismissed, due, auto, configured>>

\* (Not to configure the module when it is there already.)
PersistsNothing ==
  /\ dialog = "persist" /\ dialog' = "enable"
  /\ UNCHANGED <<machine, backend, dismissed, due, auto, ready, flawless, configured>>
PersistsModule ==
  /\ dialog = "persist"
  /\ \/ dialog' = "enable" /\ persisted' = TRUE /\ UNCHANGED <<ready, flawless>>
     \/ Fails /\ persisted' \in {persisted, TRUE}
  /\ UNCHANGED <<machine, ydotool, uinput, unit, dismissed, due, auto, configured>>

\* udevadm, daemon-reload and enable --now, which may all fail without ending it.
EnablesService ==
  /\ dialog = "enable" /\ dialog' = "inspect"
  /\ \/ /\ ydotool /\ uinput
        /\ unit' = [enabled |-> TRUE, active |-> TRUE] /\ UNCHANGED flawless
     \/ /\ unit' \in {unit, [unit EXCEPT !.enabled = TRUE]} /\ flawless' = FALSE
  /\ UNCHANGED <<machine, ydotool, uinput, persisted, dismissed, due, auto, ready, configured>>

InspectsAgain ==
  /\ dialog = "inspect" /\ dialog' = "open" /\ ready' \in Inspected
  /\ configured' = (configured \/ flawless) /\ flawless' = FALSE
  /\ UNCHANGED <<machine, backend, dismissed, due, auto>>

-----------------------------------------------------------------------------
assistantVars == <<app, setupVars>>

AssistantTypeOK == app \in Phases /\ SetupTypeOK

AssistantInit == ProcessInit /\ SetupInit

AssistantLaunches == Launches /\ SetupLaunches
AssistantEnters   == EntersLoop /\ UNCHANGED setupVars
AssistantDies     == Dies /\ SetupDies

Configuring == Installs \/ InstallsPackage \/ LoadsModule \/ PersistsModule
               \/ EnablesService \/ InspectsAgain
World == Boots \/ Interferes
Asking == ChecksAtStart \/ ChecksForMapping \/ Rechecks \/ ClosesSetup

SetupNext == World \/ Asking \/ Configuring

AssistantNext == AssistantLaunches \/ AssistantEnters \/ AssistantDies \/ (SetupNext /\ UNCHANGED app)

AssistantSpec == AssistantInit /\ [][AssistantNext]_assistantVars

-----------------------------------------------------------------------------
\* An installation whose commands have all succeeded, whatever half-done ones came
\* before it, leaves a backend that is ready, and that is ready after every boot
\* from then on, as long as nobody else changes it (installAndConfigure).
BackendStays == configured => Ready
=============================================================================

----------------------------- MODULE TrayWindow -----------------------------
(***************************************************************************)
(* The main window and its icon in the system tray, which comes and goes   *)
(* with Plasma.  Qt puts an icon that was shown back into a tray that has  *)
(* returned; an icon that was never made, because there was no tray, is    *)
(* made later by a timer.                                                  *)
(***************************************************************************)
EXTENDS GuiProcess

VARIABLES
  tray,        \* QSystemTrayIcon::isSystemTrayAvailable()
  icon,        \* trayIcon_ has been made and shown
  window,      \* whether the window is shown
  startInTray  \* startup/startInTray of the settings

windowVars == <<tray, icon, window, startInTray>>

WindowTypeOK ==
  tray \in BOOLEAN /\ icon \in BOOLEAN /\ window \in BOOLEAN /\ startInTray \in BOOLEAN

WindowInit == tray \in BOOLEAN /\ icon = FALSE /\ window = FALSE /\ startInTray = TRUE

\* The constructor.
WindowLaunches == icon' = tray /\ UNCHANGED <<tray, window, startInTray>>

\* main: the tray may have come since, without an icon.
WindowEnters(asked) ==
  /\ window' = ~((asked \/ startInTray) /\ tray)
  /\ UNCHANGED <<tray, icon, startInTray>>

WindowDies == icon' = FALSE /\ window' = FALSE /\ UNCHANGED <<tray, startInTray>>

TrayChanges == tray' = ~tray /\ UNCHANGED <<icon, window, startInTray>>

\* recoverTrayIcon, each five seconds and after activation.  (One that only
\* renews an icon there was.)
RenewsIcon ==
  /\ app = "on" /\ tray /\ icon /\ icon' = TRUE
  /\ UNCHANGED <<tray, window, startInTray>>
RecoversIcon ==
  /\ app = "on" /\ tray /\ ~icon /\ icon' = TRUE
  /\ UNCHANGED <<tray, window, startInTray>>

\* The icon toggles the window, its menu shows or hides it.
UsesIcon ==
  /\ app = "on" /\ icon /\ tray /\ window' \in BOOLEAN
  /\ UNCHANGED <<tray, icon, startInTray>>

\* closeEvent: with an icon, in the tray or not, the window is hidden; without
\* one it is closed, and the program goes on all the same.
ClosesWindow ==
  /\ app = "on" /\ window /\ window' = FALSE
  /\ UNCHANGED <<tray, icon, startInTray>>

\* saveGeneralSettings
SavesSettings ==
  /\ app = "on" /\ window /\ startInTray' \in BOOLEAN
  /\ UNCHANGED <<tray, icon, window>>

\* quitApplication, from the icon's menu.
AsksToQuit == app = "on" /\ icon /\ tray

WindowNext == TrayChanges \/ RecoversIcon \/ UsesIcon \/ ClosesWindow \/ SavesSettings

Reachable == window \/ (icon /\ tray)

\* Release notes 1.1.6: the tray heals itself.  If the desktop has a tray in the
\* end, then the window of a running GUI is shown or can be, whatever the tray
\* did while the GUI started, and however often the window was closed without
\* one (createTrayIcon, recoverTrayIcon, closeEvent, main).
WindowReachable ==
  <>[]tray => [](app = "on" => <>(app # "on" \/ Reachable))
=============================================================================

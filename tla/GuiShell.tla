------------------------------ MODULE GuiShell ------------------------------
(***************************************************************************)
(* The parts of the GUI that live by timers, over starts and crashes of    *)
(* the process: its window with the icon in the tray, and the scales of    *)
(* the outputs.                                                            *)
(***************************************************************************)
EXTENDS TrayWindow, DisplayScale

vars == <<app, windowVars, scaleVars>>

TypeOK == app \in Phases /\ WindowTypeOK /\ ScaleTypeOK

Init == ProcessInit /\ WindowInit /\ ScaleInit

GuiLaunches == Launches /\ WindowLaunches /\ ScaleLaunches
GuiEnters   == EntersLoop /\ (\E asked \in BOOLEAN : WindowEnters(asked)) /\ UNCHANGED scaleVars
GuiDies     == Dies /\ WindowDies /\ ScaleDies
GuiQuits    == AsksToQuit /\ GuiDies

WindowStep == WindowNext /\ UNCHANGED <<app, scaleVars>>
ScaleStep  == ScaleNext /\ UNCHANGED <<app, windowVars>>

Next == GuiLaunches \/ GuiEnters \/ GuiDies \/ GuiQuits \/ WindowStep \/ ScaleStep

\* A start comes to its end; the timers fire; Qt handles its events; the doctor
\* gets to run.
Fairness ==
  /\ WF_vars(GuiEnters)
  /\ WF_vars(RecoversIcon /\ UNCHANGED <<app, scaleVars>>)
  /\ WF_vars((Checks \/ QtNotices) /\ UNCHANGED <<app, windowVars>>)
  /\ WF_vars((\E order \in orders : Obeys(order)) /\ UNCHANGED <<app, windowVars>>)

Spec == Init /\ [][Next]_vars /\ Fairness
=============================================================================

------------------------------ MODULE GuiPages ------------------------------
(***************************************************************************)
(* Two pages of the main window over starts and crashes of the process:    *)
(* the profiles, and the device list with the maintenance of what the      *)
(* devices need.  Handlers of the latter let clicks on the former in.      *)
(***************************************************************************)
EXTENDS ProfileEditor, MaintenancePage

pagesVars == <<app, profileVars, pageVars>>

PagesTypeOK == app \in Phases /\ ProfileTypeOK /\ PageTypeOK

PagesInit == ProcessInit /\ ProfileInit /\ PageInit

GuiLaunches == Launches /\ ProfileLaunches /\ PageLaunches
GuiEnters   == EntersLoop /\ ProfileEnters /\ UNCHANGED pageVars
GuiDies     == Dies /\ ProfileDies /\ PageDies

ProfileStep == ProfileNext /\ UNCHANGED <<app, pageVars>>
PageStep    == PageNext /\ UNCHANGED <<app, profileVars>>

PagesNext == GuiLaunches \/ GuiEnters \/ GuiDies \/ ProfileStep \/ PageStep

PagesSpec == PagesInit /\ [][PagesNext]_pagesVars
=============================================================================

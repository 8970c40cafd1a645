----------------------------- MODULE MCGuiShell -----------------------------
(***************************************************************************)
(* A laptop with a dense panel and two external screens, one of which has  *)
(* a name that the panel's contains; the other one also knows a scale just *)
(* below double.                                                           *)
(***************************************************************************)
EXTENDS GuiShell, TLC

MCOutput  == {"eDP-1", "DP-1", "HDMI-1"}
MCNumber  == "eDP-1" :> 1 @@ "DP-1" :> 2 @@ "HDMI-1" :> 3
MCSimilar == {<<"eDP-1", "DP-1">>}
MCScale   == [o \in MCOutput |-> IF o = "HDMI-1" THEN {100, 180, 200} ELSE {100, 200}]
=============================================================================

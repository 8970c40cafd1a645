----------------------------- MODULE MCGuiPages -----------------------------
(***************************************************************************)
(* The two default profiles, and one that somebody added by hand.          *)
(***************************************************************************)
EXTENDS GuiPages, TLC

MCDefaultOf == "default" :> "standard" @@ "work" :> "smooth"
=============================================================================

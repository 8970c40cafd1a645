---------------------------- MODULE MCInstaller -----------------------------
(***************************************************************************)
(* A home with one file of each kind: the daemon and its unit count as one,*)
(* so do the desktop entries with their icons, and the KWin script is what *)
(* the uninstaller's fixed list does not name.  An earlier release may     *)
(* have put a shortcut on the desktop and listed a path that is now the    *)
(* user's.                                                                 *)
(***************************************************************************)
EXTENDS Installer

MCFile == {"daemon", "gui", "entry", "autostart", "kwin", "shortcut", "notes"}
MCKnown == MCFile \ {"notes"}
MCFull == {"daemon", "gui", "entry", "autostart", "kwin"}
MCProgram == [e \in {"minimal", "full"} |-> IF e = "full" THEN MCFull ELSE {"daemon"}]
MCFixed == MCKnown \ {"kwin"}
MCGuiOnly == MCFixed \ {"daemon"}
MCOldManifests == {{"daemon"}, MCFull, MCFull \cup {"shortcut", "notes"}}
=============================================================================

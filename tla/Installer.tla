----------------------------- MODULE Installer ------------------------------
(***************************************************************************)
(* The scripts that put TDriver into a user's home and take it out again:  *)
(* install_user.sh in its two editions, uninstall_all_user.sh and          *)
(* remove_gui_keep_service.sh, file by file.  Any command may fail (set -e *)
(* ends the script) and any script may be interrupted; the user opens the  *)
(* GUI meanwhile, which writes one of the files itself and restarts the    *)
(* unit.  Files are copied and removed in a fixed order in the code, in    *)
(* any order here.  One script runs at a time.                             *)
(***************************************************************************)
EXTENDS Naturals

CONSTANTS
  File,         \* paths in the home directory
  Known,        \* those the scripts have a pattern for
  Program,      \* for each edition, what it installs
  Fixed,        \* what the uninstaller removes when there is no manifest
  Icons,        \* what it removes in any case
  GuiOnly,      \* what the minimal edition removes
  Shortcuts,    \* what the full edition removes
  GuiParts,     \* what remove_gui_keep_service.sh removes
  Checked,      \* what the full edition looks for before it reports success
  Daemon, Gui, Autostart,  \* the two executables and the GUI's autostart entry
  OldManifests, \* manifests that earlier releases have left
  MaxVersion,   \* bound: releases
  MaxBreaks     \* bound: scripts that break off

Edition == {"minimal", "full"}

ASSUME FileAssumption ==
  /\ Known \subseteq File
  /\ Program \in [Edition -> SUBSET Known]
  /\ Fixed \subseteq Known /\ Icons \subseteq Known
  /\ GuiParts \subseteq Known
  /\ GuiOnly \subseteq Known \ Program["minimal"]
  /\ Shortcuts \subseteq Known \ Program["full"]
  /\ Checked \subseteq Program["full"]
  /\ Daemon \in Program["minimal"] \cap Program["full"]
  /\ {Gui, Autostart} \subseteq Program["full"] /\ Gui # Autostart
  /\ Autostart \in Checked \ Program["minimal"]
ASSUME ManifestAssumption == OldManifests \subseteq SUBSET File
ASSUME BoundAssumption == MaxVersion \in Nat \ {0} /\ MaxBreaks \in Nat

Version == 1..MaxVersion
Absent  == 0
Release == [edition : Edition, version : Version]
None    == [edition |-> "none", version |-> Absent]

VARIABLES
  disk,     \* the version of each file
  manifest, \* managed-files.txt
  listed,   \* whether there is a managed-files.txt
  registry, \* state.env
  data,     \* whether there are settings, profiles and logs
  build,    \* the verified contents of build/
  enabled,  \* whether the unit is enabled
  runs,     \* the version of the daemon that runs
  gui,      \* the version of the GUI that runs
  stage,    \* where the script is
  release,  \* what it installs
  keep,     \* whether it was called with --keep-data
  left,     \* the files that the loop it is in has yet to handle
  ranOn,    \* history: a daemon has been running since the script began
  breaks,   \* how many scripts have broken off
  loose     \* history: files put there under no manifest

files   == <<disk, manifest, listed, registry, data, loose>>
running == <<enabled, runs, gui>>
script  == <<stage, release, keep, left, ranOn, breaks>>
vars    == <<files, build, running, script>>

Stages == {"idle", "stop", "quit", "copy", "prune", "obsolete", "commit",
           "register", "enable", "verify", "installed",
           "disable", "kill", "remove", "purge", "uninstalled", "strip"}
Resting == {"idle", "installed", "uninstalled"}

TypeOK ==
  /\ disk \in [File -> Version \cup {Absent}]
  /\ manifest \subseteq File /\ loose \subseteq Known
  /\ registry \in Release \cup {None} /\ build \in Release \cup {None}
  /\ runs \in Version \cup {Absent} /\ gui \in Version \cup {Absent}
  /\ stage \in Stages /\ release \in Release \cup {None}
  /\ listed \in BOOLEAN /\ data \in BOOLEAN /\ enabled \in BOOLEAN
  /\ keep \in BOOLEAN /\ ranOn \in BOOLEAN
  /\ left \subseteq File /\ breaks \in 0..MaxBreaks

\* Nothing was ever installed; or an earlier release, with or without a
\* manifest.  Other files are there.
Init ==
  /\ \E m \in OldManifests \cup {{}}, e \in Edition :
       /\ disk = [f \in File |-> IF f \in m \/ f \notin Known THEN 1 ELSE Absent]
       /\ \/ manifest = m /\ listed = TRUE /\ loose = {} /\ m # {}
             /\ registry = [edition |-> e, version |-> 1]
          \/ manifest = {} /\ listed = FALSE /\ loose = m \cap Known
             /\ registry = None
       /\ enabled = (Daemon \in m)
  /\ data \in BOOLEAN
  /\ build = None /\ runs = Absent /\ gui = Absent
  /\ stage = "idle" /\ release = None /\ keep = FALSE /\ left = {} /\ ranOn = FALSE
  /\ breaks = 0

Present(f) == disk[f] # Absent

-----------------------------------------------------------------------------
(* The user, the GUI, and builds                                           *)

\* build_arch.sh clears build/ and marks it only when everything has passed.
BuildFails ==
  /\ stage = "idle" /\ build' = None
  /\ UNCHANGED <<files, running, script>>

BuildPasses(e, v) ==
  /\ stage = "idle"
  /\ build' = [edition |-> e, version |-> v]
  /\ UNCHANGED <<files, running, script>>

OpensGui ==
  /\ gui = Absent /\ Present(Gui) /\ gui' = disk[Gui]
  /\ data' = TRUE
  /\ UNCHANGED <<disk, manifest, listed, registry, loose, build, enabled, runs, script>>

\* updateAutostartEntry: the file counts as loose while a script may have been
\* past it, or when no manifest names it.
AutostartOn ==
  /\ gui # Absent
  /\ disk' = [disk EXCEPT ![Autostart] = gui]
  /\ loose' = IF stage = "idle" THEN loose \cup ({Autostart} \ manifest)
              ELSE loose \cup {Autostart}
  /\ UNCHANGED <<manifest, listed, registry, data, build, running, script>>

AutostartOff ==
  /\ gui # Absent
  /\ disk' = [disk EXCEPT ![Autostart] = Absent] /\ loose' = loose \ {Autostart}
  /\ UNCHANGED <<manifest, listed, registry, data, build, running, script>>

\* The tray's restart, or a mapping dialog that closes.
GuiStartsUnit ==
  /\ gui # Absent /\ Present(Daemon)
  /\ runs' = disk[Daemon]
  /\ ranOn' = (stage # "idle")
  /\ UNCHANGED <<files, build, enabled, gui, stage, release, keep, left, breaks>>

-----------------------------------------------------------------------------
(* install_user.sh                                                         *)

AnyBuild(e) == TRUE

\* The build has to be of the edition that is asked for; any other is refused.
Matches(e) == build # None /\ build.edition = e

Installs(e) ==
  /\ stage = "idle" /\ Matches(e)
  /\ stage' = "stop" /\ release' = [edition |-> e, version |-> build.version]
  /\ ranOn' = FALSE
  /\ UNCHANGED <<files, build, running, keep, left, breaks>>

\* The script is over.
Ends == stage' = "idle" /\ release' = None /\ keep' = FALSE /\ left' = {} /\ ranOn' = FALSE

Detected == registry # None \/ Present(Daemon) \/ Present(Gui)

Declines ==
  /\ stage = "stop" /\ Detected /\ Ends
  /\ UNCHANGED <<files, build, running, breaks>>

\* "|| true": a stop that fails leaves the daemon running.
StopForgotten ==
  /\ stage = "stop" /\ stage' = "quit" /\ ranOn' = FALSE
  /\ UNCHANGED <<files, build, running, release, keep, left, breaks>>

StopsUnit ==
  /\ stage = "stop" /\ stage' = "quit"
  /\ runs' \in {runs, Absent} /\ ranOn' = (runs' # Absent)
  /\ UNCHANGED <<files, build, enabled, gui, release, keep, left, breaks>>

QuitsGui ==
  /\ stage = "quit" /\ stage' = "copy"
  /\ gui' = Absent /\ left' = Program[release.edition]
  /\ UNCHANGED <<files, build, enabled, runs, release, keep, ranOn, breaks>>

\* install_managed
Copies(f) ==
  /\ stage = "copy" /\ f \in left /\ left' = left \ {f}
  /\ disk' = [disk EXCEPT ![f] = release.version]
  /\ loose' = loose \cup ({f} \ manifest)
  /\ UNCHANGED <<manifest, listed, registry, data, build, running,
                 stage, release, keep, ranOn, breaks>>

HasCopied ==
  /\ stage = "copy" /\ left = {} /\ stage' = "prune"
  /\ left' = IF release.edition = "full" THEN Shortcuts ELSE GuiOnly
  /\ UNCHANGED <<files, build, running, release, keep, ranOn, breaks>>

\* The new manifest put in place before the old one's files are gone.
HasPrunedAndCommits ==
  /\ stage = "prune" /\ left = {} /\ stage' = "obsolete"
  /\ left' = manifest \ Program[release.edition]
  /\ manifest' = Program[release.edition] /\ listed' = TRUE
  /\ loose' = loose \ Program[release.edition]
  /\ UNCHANGED <<disk, registry, data, build, running, release, keep, ranOn, breaks>>

HasPruned ==
  /\ stage = "prune" /\ left = {} /\ stage' = "obsolete"
  /\ left' = manifest \ Program[release.edition]
  /\ UNCHANGED <<files, build, running, release, keep, ranOn, breaks>>

HasRemovedObsolete ==
  /\ stage = "obsolete" /\ left = {} /\ stage' = "commit"
  /\ UNCHANGED <<files, build, running, release, keep, left, ranOn, breaks>>

CommitsManifest ==
  /\ stage = "commit" /\ stage' = "register"
  /\ manifest' = Program[release.edition] /\ listed' = TRUE
  /\ loose' = loose \ Program[release.edition]
  /\ UNCHANGED <<disk, registry, data, build, running, release, keep, left, ranOn, breaks>>

Registers ==
  /\ stage = "register" /\ stage' = "enable"
  /\ registry' = release
  /\ UNCHANGED <<disk, manifest, listed, data, loose, build, running,
                 release, keep, left, ranOn, breaks>>

\* enable --now starts the unit unless it is active.
EnablesUnit ==
  /\ stage = "enable" /\ Present(Daemon) /\ stage' = "verify"
  /\ enabled' = TRUE /\ runs' = IF runs = Absent THEN disk[Daemon] ELSE runs
  /\ UNCHANGED <<files, build, gui, release, keep, left, ranOn, breaks>>

VerifiesNothing ==
  /\ stage = "verify" /\ stage' = "installed"
  /\ UNCHANGED <<files, build, running, release, keep, left, ranOn, breaks>>

Verifies ==
  /\ stage = "verify" /\ stage' = "installed"
  /\ release.edition = "full" => \A f \in Checked : Present(f)
  /\ UNCHANGED <<files, build, running, release, keep, left, ranOn, breaks>>

-----------------------------------------------------------------------------
(* uninstall_all_user.sh and remove_gui_keep_service.sh                    *)

Uninstalls(k) ==
  /\ stage = "idle" /\ stage' = "disable" /\ keep' = k
  /\ UNCHANGED <<files, build, running, release, left, ranOn, breaks>>

\* Again "|| true"; an executable that goes on is killed next.
DisablesUnit ==
  /\ stage = "disable" /\ stage' = "kill"
  /\ \/ enabled' = FALSE /\ runs' = Absent
     \/ UNCHANGED <<enabled, runs>>
  /\ UNCHANGED <<files, build, gui, release, keep, left, ranOn, breaks>>

\* What the uninstaller is going to remove.
Removed == (IF listed THEN manifest ELSE Fixed) \cup Icons

StopsOwned ==
  /\ stage = "kill" /\ stage' = "remove"
  /\ runs' = Absent /\ gui' = Absent /\ left' = Removed
  /\ UNCHANGED <<files, build, enabled, release, keep, ranOn, breaks>>

HasRemoved ==
  /\ stage = "remove" /\ left = {} /\ stage' = "purge"
  /\ UNCHANGED <<files, build, running, release, keep, left, ranOn, breaks>>

\* The directory of the manifest goes in any case, the data unless kept.
Purges ==
  /\ stage = "purge" /\ stage' = "uninstalled"
  /\ manifest' = {} /\ listed' = FALSE /\ registry' = None
  /\ data' = (data /\ keep)
  /\ UNCHANGED <<disk, loose, build, running, release, keep, left, ranOn, breaks>>

StripsGui ==
  /\ stage = "idle" /\ stage' = "strip"
  /\ gui' = Absent /\ left' = GuiParts
  /\ UNCHANGED <<files, build, enabled, runs, release, keep, ranOn, breaks>>

HasStripped ==
  /\ stage = "strip" /\ left = {} /\ Ends
  /\ UNCHANGED <<files, build, running, breaks>>

-----------------------------------------------------------------------------
(* All of them                                                             *)

RemovesAny(f) ==
  /\ stage \in {"prune", "obsolete", "remove", "strip"}
  /\ f \in left /\ left' = left \ {f}
  /\ disk' = [disk EXCEPT ![f] = Absent] /\ loose' = loose \ {f}
  /\ UNCHANGED <<manifest, listed, registry, data, build, running,
                 stage, release, keep, ranOn, breaks>>

\* safe_remove_obsolete and safe_remove_file leave a path they do not know.
Removes(f) ==
  /\ stage \in {"prune", "obsolete", "remove", "strip"}
  /\ f \in left /\ left' = left \ {f}
  /\ disk' = IF f \in Known THEN [disk EXCEPT ![f] = Absent] ELSE disk
  /\ loose' = loose \ {f}
  /\ UNCHANGED <<manifest, listed, registry, data, build, running,
                 stage, release, keep, ranOn, breaks>>

\* A failing command, a signal or a power cut.
Breaks ==
  /\ stage \notin Resting /\ breaks < MaxBreaks /\ breaks' = breaks + 1
  /\ Ends
  /\ UNCHANGED <<files, build, running>>

Returns ==
  /\ stage \in {"installed", "uninstalled"} /\ Ends
  /\ UNCHANGED <<files, build, running, breaks>>

User == BuildFails \/ OpensGui \/ AutostartOn \/ AutostartOff \/ GuiStartsUnit
        \/ \E e \in Edition, v \in Version : BuildPasses(e, v)

Installing ==
  \/ Declines \/ StopsUnit \/ QuitsGui \/ HasCopied \/ HasPruned
  \/ HasRemovedObsolete \/ CommitsManifest \/ Registers \/ EnablesUnit \/ Verifies
  \/ \E e \in Edition : Installs(e)
  \/ \E f \in File : Copies(f)

Uninstalling ==
  \/ DisablesUnit \/ StopsOwned \/ HasRemoved \/ Purges \/ StripsGui \/ HasStripped
  \/ \E k \in BOOLEAN : Uninstalls(k)

Next == User \/ Installing \/ Uninstalling \/ Breaks \/ Returns
        \/ \E f \in File : Removes(f)

Spec == Init /\ [][Next]_vars

-----------------------------------------------------------------------------
(* Properties                                                              *)

\* Wherever a script breaks off, no file of TDriver is forgotten: the manifest
\* names it, or it came there in a run that never got to its manifest (or from
\* the GUI while a script was at work).  In particular an uninstallation that
\* goes to its end leaves no file that a manifest had named (the order of the
\* removal of obsolete files and the commit in install_user.sh).
Accounted ==
  \A f \in Known : Present(f) => f \in manifest \cup loose

\* When success is reported, every file of the edition is there in the version
\* that manifest and registry now name, none of another edition that a manifest
\* knew, and the unit is enabled - although the GUI may have removed or
\* rewritten its autostart entry meanwhile (install_user.sh).
SuccessIsComplete ==
  [][stage # "installed" /\ stage' = "installed" =>
       /\ listed /\ manifest = Program[release.edition] /\ registry = release
       /\ \A f \in Program[release.edition] :
            IF f = Autostart THEN Present(f) ELSE disk[f] = release.version
       /\ \A f \in Known \ Program[release.edition] : Present(f) => f \in loose
       /\ enabled]_vars

\* After a successful update it is the new daemon that runs, unless the old one
\* could not be stopped or the GUI has started it again in the middle: enable
\* --now does not restart a unit that is active (install_user.sh).
UpdateRuns ==
  stage = "installed" => runs = release.version \/ ranOn

\* Whatever a manifest names and wherever a script breaks off, the user's own
\* files stay; and the data goes last, when the program is gone, and only
\* without --keep-data (safe_remove_obsolete, safe_remove_file, purge).
UserFilesKept ==
  [][/\ \A f \in File \ Known : disk'[f] = disk[f]
     /\ data /\ ~data' =>
          ~keep /\ \A f \in Known : Present(f) => f \in loose]_vars
=============================================================================

-------------------------- MODULE DependencyLedger --------------------------
(***************************************************************************)
(* Which packages TDriver installs, remembers and removes: the maintenance *)
(* page of the GUI and the installation scripts, each with pacman, the     *)
(* package ledger and the list of enabled profiles, while the user runs    *)
(* pacman as well.  Nobody locks the two files.  A process that dies, a    *)
(* dialog that is declined and a command that fails end a job alike.       *)
(***************************************************************************)
EXTENDS FiniteSets

CONSTANTS
  Package,
  Depends,      \* the packages that a package needs, with what those need
  Profile,
  PackagesOf,   \* the packages of a profile in dependencies.arch.json
  RuntimeCore,  \* the profile that is always enabled
  Edition,      \* the profiles of the edition that install.sh is run for
  Runtime,      \* packages that cleanup_install_dependencies.sh spares
  Protected     \* packages that the audit spares

ASSUME ProfileAssumption ==
  /\ RuntimeCore \in Profile /\ Edition \subseteq Profile
  /\ PackagesOf \in [Profile -> SUBSET Package]
ASSUME PackageAssumption ==
  /\ Runtime \subseteq Package /\ Protected \subseteq Package
  /\ Depends \in [Package -> SUBSET Package]
  /\ \A p \in Package : p \notin Depends[p] /\ \A q \in Depends[p] : Depends[q] \subseteq Depends[p]

VARIABLES
  installed,   \* packages in pacman's database
  explicit,    \* those of them that somebody asked for by name
  ledger,      \* installed_by_rodavarion of package-ledger.arch.json
  profiles,    \* enabled_profiles of enabled-features.json
  job,         \* job[a]: what the GUI and the script in the terminal are at
  kept,        \* history: packages that were there at first and ever since
  mine         \* history: packages that TDriver installed, that are still there, and
               \* that no job cut short and no overlap of two jobs made it forget

system == <<installed, explicit, kept>>
files  == <<ledger, profiles>>
vars   == <<system, files, job, mine>>

Actor == {"gui", "script"}
Tasks == {"none", "devices", "install", "remove", "bootstrap", "feature", "cleanup"}
Stages == {"idle", "confirm", "pacman", "read", "write", "rest",
           "readProfiles", "writeProfiles", "restProfiles"}

\* list: packages to install or remove; entries: the ledger to be written;
\* enable: profiles to be added, and then the list to be written; blind, a history:
\* the audit that made the list found no dependencies.arch.json that it could read.
Job == [stage : Stages, task : Tasks, list : SUBSET Package,
        entries : SUBSET Package, enable : SUBSET Profile, blind : BOOLEAN]
AtWork(task, stage, list, enable) ==
  [stage |-> stage, task |-> task, list |-> list, entries |-> {}, enable |-> enable,
   blind |-> FALSE]
NoJob == AtWork("none", "idle", {}, {})

TypeOK ==
  /\ installed \subseteq Package /\ explicit \subseteq installed
  /\ ledger \subseteq Package
  /\ profiles \subseteq Profile /\ (profiles # {} => RuntimeCore \in profiles)
  /\ job \in [Actor -> Job]
  /\ kept \subseteq installed /\ mine \subseteq installed

\* Nothing of TDriver is there yet.  Dependencies are installed with what needs them.
Init ==
  /\ installed \in {s \in SUBSET Package : \A p \in s : Depends[p] \subseteq s}
  /\ explicit \in SUBSET installed
  /\ ledger = {} /\ profiles = {}
  /\ job = [a \in Actor |-> NoJob]
  /\ kept = installed /\ mine = {}

-----------------------------------------------------------------------------
(* pacman                                                                  *)

NeededBy(s, rest) == {p \in s : \E q \in rest : p \in Depends[q]}

\* -S --needed: what is there already stays as it is.
PacmanInstalls(s) ==
  /\ installed' = installed \cup s \cup UNION {Depends[p] : p \in s}
  /\ kept' = kept

\* -R refuses what others still need.
PacmanRemoves(s) ==
  /\ s \subseteq installed /\ NeededBy(s, installed \ s) = {}
  /\ installed' = installed \ s
  /\ explicit' = explicit \ s /\ kept' = kept \ s /\ mine' = mine \ s

\* -Rns takes dependencies along that nobody asked for and nobody needs then.
Unneeded(s) ==
  LET rest == installed \ s
      along == {p \in rest \ explicit : \E q \in s : p \in Depends[q]}
  IN  s \cup (along \ NeededBy(along, rest \ along))

\* The user installs and removes packages.
UserInstalls(p) ==
  /\ p \notin explicit
  /\ PacmanInstalls({p}) /\ explicit' = explicit \cup {p}
  /\ UNCHANGED <<files, job, mine>>

UserRemoves(p) ==
  /\ p \in installed
  /\ PacmanRemoves({p})
  /\ UNCHANGED <<files, job>>

-----------------------------------------------------------------------------
(* The files                                                               *)

\* What does not parse, readObject() and load() take for empty: so it is {} here.
Truncated == {}

Other(a) == IF a = "gui" THEN "script" ELSE "gui"

\* The other one has done its packages and is about to rewrite the ledger.
Amid(a) == job[Other(a)].stage \in {"read", "write", "rest"}

\* The ledger gets new contents in the course of a job.
Writes(a, contents) ==
  /\ ledger' = contents
  /\ mine' = IF Amid(a) THEN {} ELSE mine

Becomes(a, j) == job' = [job EXCEPT ![a] = j]
Goes(a, stage) == Becomes(a, [job[a] EXCEPT !.stage = stage])
Ends(a) == Becomes(a, NoJob)

-----------------------------------------------------------------------------
(* audit()                                                                 *)

\* manifestPath() looks below the directory that the GUI was started in, beside its
\* binary and in two shared directories, where install_user.sh puts no manifest.
\* The scripts have theirs beside them.
Manifest == [readable : BOOLEAN]

Enabled == IF profiles = {} THEN {RuntimeCore} ELSE profiles
Required(manifest) ==
  IF manifest.readable THEN UNION {PackagesOf[f] : f \in Enabled} ELSE {}

\* (An audit that offers all that is required, and one that removes it.)
AllRequired(manifest) == Required(manifest)
MissingRequired(manifest) == Required(manifest) \ installed

RemovableIfUnneeded(manifest) ==
  LET s == (ledger \cap installed) \ Protected IN s \ NeededBy(s, installed)
Removable(manifest) ==
  LET s == (ledger \cap installed) \ (Required(manifest) \cup Protected)
  IN  s \ NeededBy(s, installed)

Audited(task, manifest) ==
  IF task = "install" THEN MissingRequired(manifest) ELSE Removable(manifest)

-----------------------------------------------------------------------------
(* The GUI                                                                 *)

Start(a, task, stage, list, enable) ==
  /\ job[a] = NoJob
  /\ Becomes(a, AtWork(task, stage, list, enable))
  /\ UNCHANGED <<system, files, mine>>

\* refreshDevices() ends in recordDeviceRequirements().
RefreshDevices(found) ==
  Start("gui", "devices", "readProfiles", {}, found \cup {RuntimeCore})

\* installMissingDependencies() and removeUnusedDependencies() show an audit if
\* it has something to offer, but do not pass it on...
AskToConfirm(task) ==
  /\ \E manifest \in Manifest : Audited(task, manifest) # {}
  /\ Start("gui", task, "confirm", {}, {})

\* ... and after a Yes make another one.
Confirmed ==
  /\ job["gui"].stage = "confirm"
  /\ \E manifest \in Manifest :
       LET list == Audited(job["gui"].task, manifest)
       IN  IF list = {} THEN Ends("gui")
           ELSE Becomes("gui", [job["gui"] EXCEPT !.stage = "pacman", !.list = list,
                                                  !.blind = ~manifest.readable])
  /\ UNCHANGED <<system, files, mine>>

-----------------------------------------------------------------------------
(* The scripts                                                             *)

\* bootstrap_arch.sh of install.sh: the edition's packages, of whose profiles
\* it enables one.
Bootstrap ==
  Start("script", "bootstrap", "pacman",
        (UNION {PackagesOf[f] : f \in Edition}) \ installed, {RuntimeCore})

\* install_feature_arch.sh f
InstallFeature(f) ==
  Start("script", "feature", "pacman", PackagesOf[f] \ installed, {RuntimeCore, f})

\* cleanup_install_dependencies.sh, at the end of install.sh: packages of the
\* ledger that pacman lists as orphans.
Orphans == {p \in installed \ explicit : NeededBy({p}, installed) = {}}

Cleanup ==
  /\ (ledger \ Runtime) \cap Orphans # {}
  /\ Start("script", "cleanup", "pacman", (ledger \ Runtime) \cap Orphans, {})

-----------------------------------------------------------------------------
(* The steps of a job                                                      *)

\* pacman -S succeeds.  The names given count as asked for, until bootstrap
\* marks them as dependencies, where a failure is ignored.
JobInstalls(a) ==
  /\ job[a].stage = "pacman" /\ job[a].task \in {"install", "bootstrap", "feature"}
  /\ PacmanInstalls(job[a].list)
  /\ \/ explicit' = explicit \cup (job[a].list \ installed)
     \/ job[a].task = "bootstrap" /\ explicit' = explicit \ job[a].list
  \* The GUI is told that it failed when it took too long to end.
  /\ \/ Goes(a, "read") /\ mine' = mine \cup (job[a].list \ installed)
     \/ a = "gui" /\ Ends(a) /\ UNCHANGED mine
  /\ UNCHANGED files

\* pacman -R succeeds, and is reported as failed when it took too long.
JobRemoves ==
  /\ job["gui"].stage = "pacman" /\ job["gui"].task = "remove"
  /\ PacmanRemoves(job["gui"].list)
  /\ Goes("gui", "read") \/ Ends("gui")
  /\ UNCHANGED files

\* The clean-up does not touch the ledger.
CleanupRemoves ==
  /\ job["script"].stage = "pacman" /\ job["script"].task = "cleanup"
  /\ PacmanRemoves(Unneeded(job["script"].list))
  /\ Ends("script")
  /\ UNCHANGED files

\* What the ledger is to hold after the job.  (A job that starts it anew.)
RecordedAnew(a) == IF job[a].task = "remove" THEN {} ELSE job[a].list
Recorded(a) ==
  IF job[a].task = "remove" THEN ledger \ job[a].list
  ELSE ledger \cup job[a].list

ReadsLedger(a) ==
  /\ job[a].stage = "read"
  /\ Becomes(a, [job[a] EXCEPT !.stage = "write", !.entries = Recorded(a)])
  /\ UNCHANGED <<system, files, mine>>

\* The GUI replaces the file in one rename and ends...
GuiWritesLedger ==
  /\ job["gui"].stage = "write"
  /\ Writes("gui", job["gui"].entries)
  /\ Ends("gui")
  /\ UNCHANGED <<system, profiles>>

\* ... a script truncates it, fills it, and goes on to the profiles.
ScriptTruncatesLedger ==
  /\ job["script"].stage = "write"
  /\ Writes("script", Truncated)
  /\ Goes("script", "rest")
  /\ UNCHANGED <<system, profiles>>

ScriptWritesLedger ==
  /\ job["script"].stage = "rest"
  /\ Writes("script", job["script"].entries)
  /\ Becomes("script", AtWork(job["script"].task, "readProfiles", {}, job["script"].enable))
  /\ UNCHANGED <<system, profiles>>

ReadsProfiles(a) ==
  /\ job[a].stage = "readProfiles"
  /\ Becomes(a, AtWork(job[a].task, "writeProfiles", {}, job[a].enable \cup profiles))
  /\ UNCHANGED <<system, files, mine>>

GuiWritesProfiles ==
  /\ job["gui"].stage = "writeProfiles"
  /\ profiles' = job["gui"].enable
  /\ Ends("gui")
  /\ UNCHANGED <<system, ledger, mine>>

ScriptTruncatesProfiles ==
  /\ job["script"].stage = "writeProfiles"
  /\ profiles' = Truncated
  /\ Goes("script", "restProfiles")
  /\ UNCHANGED <<system, ledger, mine>>

ScriptWritesProfiles ==
  /\ job["script"].stage = "restProfiles"
  /\ profiles' = job["script"].enable
  /\ Ends("script")
  /\ UNCHANGED <<system, ledger, mine>>

\* Declined, failed or killed.  What was installed for the job stays.
GivesUp(a) ==
  /\ job[a] # NoJob
  /\ Ends(a)
  /\ mine' = IF job[a].stage = "rest" THEN {}
             ELSE IF job[a].stage \in {"read", "write"} THEN mine \ job[a].list
             ELSE mine
  /\ UNCHANGED <<system, files>>

-----------------------------------------------------------------------------
User == \E p \in Package : UserInstalls(p) \/ UserRemoves(p)

Gui ==
  \/ \E found \in SUBSET Profile : RefreshDevices(found)
  \/ \E task \in {"install", "remove"} : AskToConfirm(task)
  \/ Confirmed \/ JobRemoves \/ GuiWritesLedger \/ GuiWritesProfiles

Script ==
  \/ Bootstrap \/ Cleanup \/ CleanupRemoves
  \/ \E f \in Profile : InstallFeature(f)
  \/ ScriptTruncatesLedger \/ ScriptWritesLedger
  \/ ScriptTruncatesProfiles \/ ScriptWritesProfiles

Either == \E a \in Actor : JobInstalls(a) \/ ReadsLedger(a) \/ ReadsProfiles(a) \/ GivesUp(a)

Next == User \/ Gui \/ Script \/ Either

Spec == Init /\ [][Next]_vars

-----------------------------------------------------------------------------
(* Properties                                                              *)

\* docs: pre-existing packages are protected.  What was there before TDriver and
\* never went away since is not removed by name, neither by the GUI nor by the
\* clean-up, however jobs overlap, fail or find the files in pieces.  (The
\* clean-up's -Rns may take it along as a dependency that nobody needs then.)
PreexistingKept ==
  [][/\ JobRemoves => kept' = kept
     /\ CleanupRemoves => kept \cap job["script"].list \subseteq kept']_vars

\* The maintenance page never removes what the runtime needs, also when the list
\* of enabled profiles was lost, cut short or overwritten - provided that the
\* audit after the Yes could read dependencies.arch.json, without which it takes
\* nothing for required.
CoreKept ==
  [][JobRemoves /\ ~job["gui"].blind => (installed \ installed') \cap PackagesOf[RuntimeCore] = {}]_vars

\* Packages that a job has yet to put into the ledger.
Pending(j) ==
  CASE j.stage = "rest" -> j.entries
    [] j.stage \in {"read", "write"} /\ j.task # "remove" -> j.list
    [] OTHER -> {}

\* Whatever TDriver has installed is in its ledger or about to get there, as long
\* as no job is cut short and no two of them rewrite the ledger at once.
NothingForgotten == mine \subseteq ledger \cup UNION {Pending(job[a]) : a \in Actor}
=============================================================================

-------------------------- MODULE Installer_proofs --------------------------
(***************************************************************************)
(* That no script forgets a file of TDriver, touches one of the user's, or *)
(* reports a success that is none, for any files, editions, manifests of   *)
(* earlier releases and number of interrupted runs.                        *)
(***************************************************************************)
EXTENDS Installer, TLAPS

Ours == Program[release.edition]

\* A directory without a manifest has an empty one.
Unlisted == ~listed => manifest = {}

\* What the loops run over: copying and pruning never meet.
Lists ==
  /\ stage \in {"stop", "quit", "copy", "prune", "obsolete", "commit", "register",
                "enable", "verify", "installed"} => release \in Release
  /\ stage = "copy" => left \subseteq Ours
  /\ stage \in {"prune", "obsolete"} => left \cap Ours = {}

\* What is still to be removed before the manifest that names it is replaced.
ToRemove ==
  /\ stage = "obsolete" =>
       \A f \in (Known \cap manifest) \ Ours : Present(f) => f \in left \cup loose
  /\ stage = "commit" =>
       \A f \in (Known \cap manifest) \ Ours : Present(f) => f \in loose
  /\ stage = "remove" => \A f \in Known : Present(f) => f \in left \cup loose
  /\ stage = "purge" => \A f \in Known : Present(f) => f \in loose

\* The GUI writes and removes its autostart entry whenever it likes.
Installed(f) == f = Autostart \/ disk[f] = release.version

Copied ==
  /\ stage = "copy" => \A f \in Ours \ left : Installed(f)
  /\ stage \in {"prune", "obsolete", "commit", "register", "enable", "verify"} =>
       \A f \in Ours : Installed(f)

Recorded ==
  /\ stage \in {"register", "enable", "verify"} => listed /\ manifest = Ours
  /\ stage \in {"enable", "verify"} => registry = release
  /\ stage = "verify" => enabled

Daemons ==
  /\ stage \in {"quit", "copy", "prune", "obsolete", "commit", "register", "enable"} =>
       runs = Absent \/ ranOn
  /\ stage \in {"verify", "installed"} => runs = release.version \/ ranOn

IInv == /\ TypeOK /\ Accounted /\ Unlisted /\ Lists /\ ToRemove
        /\ Copied /\ Recorded /\ Daemons

-----------------------------------------------------------------------------
\* What an edition installs is known to the scripts and includes the daemon.
LEMMA ProgramFacts ==
  ASSUME NEW r \in Release
  PROVE  /\ r.edition \in Edition /\ r.version \in Version
         /\ Program[r.edition] \subseteq Known /\ Known \subseteq File
         /\ Daemon \in Program[r.edition] /\ Daemon # Autostart
         /\ Program[r.edition] \cap (IF r.edition = "full" THEN Shortcuts ELSE GuiOnly) = {}
  BY FileAssumption DEF Release, Edition

LEMMA NamedFiles == {Daemon, Gui, Autostart} \subseteq Known /\ Known \subseteq File
  BY FileAssumption DEF Edition

\* The invariant holds at first.
LEMMA InitInv == Init => IInv
<1> SUFFICES ASSUME Init PROVE IInv
  OBVIOUS
<1> USE BoundAssumption, FileAssumption, ManifestAssumption
    DEF Init, Absent, Present
<1>1. TypeOK
  <2>1. PICK m \in OldManifests \cup {{}}, e \in Edition :
          /\ disk = [f \in File |-> IF f \in m \/ f \notin Known THEN 1 ELSE Absent]
          /\ manifest \in {m, {}} /\ listed \in BOOLEAN /\ loose \subseteq m \cap Known
          /\ registry = None \/ registry = [edition |-> e, version |-> 1]
          /\ enabled = (Daemon \in m)
    OBVIOUS
  <2>2. m \subseteq File /\ 1 \in Version
    BY <2>1 DEF Version
  <2>3. disk \in [File -> Version \cup {Absent}]
    BY <2>1, <2>2
  <2>4. manifest \subseteq File /\ loose \subseteq Known /\ enabled \in BOOLEAN
    BY <2>1, <2>2
  <2>5. registry \in Release \cup {None}
    <3>1. e \in {"minimal", "full"}
      BY DEF Edition
    <3>2. [edition |-> e, version |-> 1] \in Release
      BY <2>2, <3>1 DEF Release, Edition
    <3>3. CASE registry = None
      BY <3>3
    <3>4. CASE registry = [edition |-> e, version |-> 1]
      BY <3>2, <3>4
    <3> QED
      BY <2>1, <3>3, <3>4
  <2>6. /\ build = None /\ runs = 0 /\ gui = 0 /\ stage = "idle" /\ release = None
        /\ keep = FALSE /\ left = {} /\ ranOn = FALSE /\ breaks = 0 /\ data \in BOOLEAN
    OBVIOUS
  <2> HIDE DEF Init
  <2>7. 0 \in 0..MaxBreaks
    OBVIOUS
  <2>8. runs \in Version \cup {0} /\ gui \in Version \cup {0} /\ breaks \in 0..MaxBreaks
    BY <2>6, <2>7
  <2>9. /\ build \in Release \cup {None} /\ release \in Release \cup {None}
        /\ stage \in Stages /\ left \subseteq File
        /\ keep \in BOOLEAN /\ ranOn \in BOOLEAN /\ data \in BOOLEAN
    BY <2>6 DEF Stages
  <2> QED
    BY <2>1, <2>3, <2>4, <2>5, <2>8, <2>9 DEF TypeOK
<1>2. Accounted /\ Unlisted
  BY DEF Accounted, Unlisted
<1> QED
  BY <1>1, <1>2 DEF IInv, Lists, ToRemove, Copied, Recorded, Daemons

\* The user, the GUI and builds keep it.
LEMMA UserStep == IInv /\ User => IInv'
<1> SUFFICES ASSUME IInv, User PROVE IInv'
  OBVIOUS
<1> USE FileAssumption
    DEF IInv, files, running, script, Present, Absent, Ours
<1>1. CASE BuildFails \/ \E e \in Edition, v \in Version : BuildPasses(e, v)
  <2>1. TypeOK'
    BY <1>1 DEF BuildFails, BuildPasses, TypeOK, Release, None
  <2> QED
    BY <1>1, <2>1 DEF BuildFails, BuildPasses, Accounted, Unlisted, Lists, ToRemove,
                      Copied, Installed, Recorded, Daemons
<1>2. CASE OpensGui
  <2>1. TypeOK'
    BY <1>2, NamedFiles DEF OpensGui, TypeOK
  <2> QED
    BY <1>2, <2>1 DEF OpensGui, Accounted, Unlisted, Lists, ToRemove,
                      Copied, Installed, Recorded, Daemons
<1>3. CASE AutostartOn \/ AutostartOff
  <2>1. TypeOK'
    BY <1>3, NamedFiles DEF AutostartOn, AutostartOff, TypeOK
  <2>2. \A f \in File \ {Autostart} :
           disk'[f] = disk[f] /\ (f \in loose' <=> f \in loose)
    BY <1>3, NamedFiles DEF AutostartOn, AutostartOff, TypeOK
  <2>3. disk'[Autostart] # 0 => Autostart \in manifest \cup loose'
    BY <1>3, NamedFiles DEF AutostartOn, AutostartOff, TypeOK
  <2>4. disk'[Autostart] # 0 /\ stage # "idle" => Autostart \in loose'
    BY <1>3, NamedFiles DEF AutostartOn, AutostartOff, TypeOK
  <2>5. UNCHANGED <<manifest, listed, registry, running, script>>
    BY <1>3 DEF AutostartOn, AutostartOff
  <2>6. Accounted' /\ Unlisted'
    BY <2>2, <2>3, <2>5 DEF Accounted, Unlisted
  <2>7. ToRemove'
    BY <2>2, <2>4, <2>5 DEF ToRemove
  <2>8. Copied'
    BY <2>2, <2>5, ProgramFacts DEF Copied, Installed, Lists
  <2> QED
    BY <2>1, <2>5, <2>6, <2>7, <2>8 DEF Lists, Recorded, Daemons
<1>4. CASE GuiStartsUnit
  <2>1. TypeOK'
    BY <1>4, NamedFiles DEF GuiStartsUnit, TypeOK
  <2> QED
    BY <1>4, <2>1 DEF GuiStartsUnit, Accounted, Unlisted, Lists, ToRemove,
                      Copied, Installed, Recorded, Daemons
<1> QED
  BY <1>1, <1>2, <1>3, <1>4 DEF User

\* A script that is over leaves nothing to be kept but what its files say.
LEMMA EndStep ==
  ASSUME IInv, Ends, UNCHANGED <<files, build, running>>, breaks' \in 0..MaxBreaks
  PROVE  IInv'
<1>1. TypeOK'
  BY DEF IInv, Ends, files, running, TypeOK, Stages, None
<1> QED
  BY <1>1 DEF IInv, Ends, files, running, Accounted, Unlisted, Lists, ToRemove,
              Copied, Recorded, Daemons, Present

\* The installer's steps keep it.
LEMMA InstallStep == IInv /\ Installing => IInv'
<1> SUFFICES ASSUME IInv, Installing PROVE IInv'
  OBVIOUS
<1> USE FileAssumption DEF IInv, files, running, Present, Absent, Ours
<1>1. CASE Declines
  BY <1>1, EndStep DEF Declines, script, TypeOK
<1>2. ASSUME NEW e \in Edition, Installs(e) PROVE IInv'
  <2>1. release' \in Release
    BY <1>2 DEF Installs, Matches, TypeOK, Release, None
  <2>2. TypeOK'
    BY <1>2, <2>1 DEF Installs, TypeOK, Stages
  <2> QED
    BY <1>2, <2>1, <2>2 DEF Installs, Accounted, Unlisted, Lists, ToRemove,
                            Copied, Recorded, Daemons
<1>3. CASE StopsUnit
  <2>1. TypeOK'
    BY <1>3 DEF StopsUnit, TypeOK, Stages
  <2> QED
    BY <1>3, <2>1 DEF StopsUnit, Accounted, Unlisted, Lists, ToRemove,
                      Copied, Recorded, Daemons
<1>4. CASE QuitsGui
  <2>1. TypeOK'
    BY <1>4, ProgramFacts DEF QuitsGui, TypeOK, Stages, Lists
  <2> QED
    BY <1>4, <2>1 DEF QuitsGui, Accounted, Unlisted, Lists, ToRemove,
                      Copied, Recorded, Daemons
<1>5. ASSUME NEW f \in File, Copies(f) PROVE IInv'
  <2>1. release \in Release /\ f \in Ours /\ f \in Known /\ release.version \in Version
    BY <1>5, ProgramFacts DEF Copies, Lists
  <2>2. TypeOK'
    BY <1>5, <2>1 DEF Copies, TypeOK
  <2>3. disk'[f] = release.version /\ \A g \in File \ {f} : disk'[g] = disk[g]
    BY <1>5 DEF Copies, TypeOK
  <2>4. Accounted'
    BY <1>5, <2>3 DEF Copies, Accounted
  <2>5. Copied'
    BY <1>5, <2>1, <2>3, ProgramFacts DEF Copies, Copied, Installed
  <2> QED
    BY <1>5, <2>2, <2>4, <2>5 DEF Copies, Unlisted, Lists, ToRemove, Recorded, Daemons
<1>6. CASE HasCopied
  <2>1. TypeOK'
    BY <1>6 DEF HasCopied, TypeOK, Stages
  <2>2. Lists'
    BY <1>6, ProgramFacts DEF HasCopied, Lists
  <2> QED
    BY <1>6, <2>1, <2>2 DEF HasCopied, Accounted, Unlisted, ToRemove,
                            Copied, Installed, Recorded, Daemons
<1>7. CASE HasPruned
  <2>1. TypeOK'
    BY <1>7 DEF HasPruned, TypeOK, Stages
  <2>2. ToRemove'
    BY <1>7 DEF HasPruned, ToRemove, Accounted
  <2> QED
    BY <1>7, <2>1, <2>2 DEF HasPruned, Accounted, Unlisted, Lists,
                            Copied, Installed, Recorded, Daemons
<1>8. CASE HasRemovedObsolete
  <2>1. TypeOK'
    BY <1>8 DEF HasRemovedObsolete, TypeOK, Stages
  <2> QED
    BY <1>8, <2>1 DEF HasRemovedObsolete, Accounted, Unlisted, Lists, ToRemove,
                      Copied, Installed, Recorded, Daemons
<1>9. CASE CommitsManifest
  <2>1. TypeOK'
    BY <1>9, ProgramFacts DEF CommitsManifest, TypeOK, Stages, Lists
  <2>2. Accounted'
    BY <1>9 DEF CommitsManifest, Accounted, ToRemove
  <2> QED
    BY <1>9, <2>1, <2>2 DEF CommitsManifest, Unlisted, Lists, ToRemove,
                            Copied, Installed, Recorded, Daemons
<1>10. CASE Registers
  <2>1. TypeOK'
    BY <1>10 DEF Registers, TypeOK, Stages, Lists
  <2> QED
    BY <1>10, <2>1 DEF Registers, Accounted, Unlisted, Lists, ToRemove,
                       Copied, Installed, Recorded, Daemons
<1>11. CASE EnablesUnit
  <2>1. TypeOK'
    BY <1>11, NamedFiles DEF EnablesUnit, TypeOK, Stages
  <2>2. disk[Daemon] = release.version
    BY <1>11, ProgramFacts DEF EnablesUnit, Copied, Installed, Lists
  <2> QED
    BY <1>11, <2>1, <2>2 DEF EnablesUnit, Accounted, Unlisted, Lists, ToRemove,
                             Copied, Installed, Recorded, Daemons
<1>12. CASE Verifies
  <2>1. TypeOK'
    BY <1>12 DEF Verifies, TypeOK, Stages
  <2> QED
    BY <1>12, <2>1 DEF Verifies, Accounted, Unlisted, Lists, ToRemove,
                       Copied, Recorded, Daemons
<1> QED
  BY <1>1, <1>2, <1>3, <1>4, <1>5, <1>6, <1>7, <1>8, <1>9, <1>10, <1>11, <1>12
  DEF Installing

\* The uninstaller's and the GUI remover's steps keep it.
LEMMA UninstallStep == IInv /\ Uninstalling => IInv'
<1> SUFFICES ASSUME IInv, Uninstalling PROVE IInv'
  OBVIOUS
<1> USE FileAssumption DEF IInv, files, running, Present, Absent
<1>1. ASSUME NEW k \in BOOLEAN, Uninstalls(k) PROVE IInv'
  <2>1. TypeOK'
    BY <1>1 DEF Uninstalls, TypeOK, Stages
  <2> QED
    BY <1>1, <2>1 DEF Uninstalls, Accounted, Unlisted, Lists, ToRemove,
                      Copied, Recorded, Daemons
<1>2. CASE DisablesUnit
  <2>1. TypeOK'
    BY <1>2 DEF DisablesUnit, TypeOK, Stages
  <2> QED
    BY <1>2, <2>1 DEF DisablesUnit, Accounted, Unlisted, Lists, ToRemove,
                      Copied, Recorded, Daemons
<1>3. CASE StopsOwned
  <2>1. TypeOK'
    BY <1>3 DEF StopsOwned, Removed, TypeOK, Stages
  <2>2. ToRemove'
    BY <1>3 DEF StopsOwned, Removed, ToRemove, Accounted, Unlisted
  <2> QED
    BY <1>3, <2>1, <2>2 DEF StopsOwned, Accounted, Unlisted, Lists,
                            Copied, Recorded, Daemons
<1>4. CASE HasRemoved
  <2>1. TypeOK'
    BY <1>4 DEF HasRemoved, TypeOK, Stages
  <2> QED
    BY <1>4, <2>1 DEF HasRemoved, Accounted, Unlisted, Lists, ToRemove,
                      Copied, Recorded, Daemons
<1>5. CASE Purges
  <2>1. TypeOK'
    BY <1>5 DEF Purges, TypeOK, Stages
  <2> QED
    BY <1>5, <2>1 DEF Purges, Accounted, Unlisted, Lists, ToRemove,
                      Copied, Recorded, Daemons
<1>6. CASE StripsGui
  <2>1. TypeOK'
    BY <1>6 DEF StripsGui, TypeOK, Stages
  <2> QED
    BY <1>6, <2>1 DEF StripsGui, Accounted, Unlisted, Lists, ToRemove,
                      Copied, Recorded, Daemons
<1>7. CASE HasStripped
  BY <1>7, EndStep DEF HasStripped, TypeOK
<1> QED
  BY <1>1, <1>2, <1>3, <1>4, <1>5, <1>6, <1>7 DEF Uninstalling

\* Removing a file keeps it.
LEMMA RemoveStep ==
  ASSUME NEW f \in File, IInv, Removes(f) PROVE IInv'
<1> USE FileAssumption DEF IInv, running, Present, Absent, Ours
<1>1. TypeOK'
  BY DEF Removes, TypeOK
<1>2. /\ f \in Known => disk'[f] = 0
      /\ \A g \in File : g # f \/ f \notin Known => disk'[g] = disk[g]
  BY DEF Removes, TypeOK
<1>3. Accounted' /\ ToRemove'
  BY <1>2 DEF Removes, Accounted, ToRemove
<1>4. Copied'
  <2>1. stage # "copy"
    BY DEF Removes
  <2>2. CASE stage \in {"prune", "obsolete"}
    BY <1>2, <2>2, ProgramFacts DEF Removes, Copied, Installed, Lists
  <2>3. CASE stage \in {"remove", "strip"}
    BY <2>3 DEF Removes, Copied
  <2> QED
    BY <2>1, <2>2, <2>3 DEF Removes
<1> QED
  BY <1>1, <1>3, <1>4 DEF Removes, Unlisted, Lists, Recorded, Daemons

\* Every step keeps it.
LEMMA NextInv == IInv /\ [Next]_vars => IInv'
<1> SUFFICES ASSUME IInv, [Next]_vars PROVE IInv'
  OBVIOUS
<1>1. CASE Breaks
  BY <1>1, EndStep, BoundAssumption DEF Breaks, IInv, TypeOK
<1>2. CASE Returns
  BY <1>2, EndStep DEF Returns, IInv, TypeOK
<1>3. CASE UNCHANGED vars
  BY <1>3 DEF vars, files, running, script, IInv, TypeOK, Accounted, Unlisted, Lists,
              ToRemove, Copied, Installed, Recorded, Daemons, Present, Ours
<1> QED
  BY <1>1, <1>2, <1>3, UserStep, InstallStep, UninstallStep, RemoveStep DEF Next

\* The inductive invariant holds in every reachable state.
THEOREM Invariance == Spec => []IInv
  BY InitInv, NextInv, PTL DEF Spec

-----------------------------------------------------------------------------
\* The variables keep their types.
THEOREM TypeCorrect == Spec => []TypeOK
  BY Invariance, PTL DEF IInv

\* Wherever scripts break off, each file of TDriver is named by the manifest or
\* came there outside of one.
THEOREM NothingForgotten == Spec => []Accounted
  BY Invariance, PTL DEF IInv

\* After a successful update the new daemon runs, unless the old one was left
\* running or started again meanwhile.
THEOREM NewDaemonRuns == Spec => []UpdateRuns
<1>1. IInv => UpdateRuns
  BY DEF IInv, Daemons, UpdateRuns
<1> QED
  BY <1>1, Invariance, PTL

\* A success that is reported is one, whatever the GUI did to its entry.
THEOREM SuccessIsTrue == Spec => SuccessIsComplete
<1>1. IInv /\ [Next]_vars =>
        [stage # "installed" /\ stage' = "installed" =>
           /\ listed /\ manifest = Program[release.edition] /\ registry = release
           /\ \A f \in Program[release.edition] :
                IF f = Autostart THEN Present(f) ELSE disk[f] = release.version
           /\ \A f \in Known \ Program[release.edition] : Present(f) => f \in loose
           /\ enabled]_vars
  <2> SUFFICES ASSUME IInv, Next, stage # "installed", stage' = "installed"
               PROVE  /\ listed /\ manifest = Program[release.edition]
                      /\ registry = release
                      /\ \A f \in Program[release.edition] :
                           IF f = Autostart THEN Present(f)
                           ELSE disk[f] = release.version
                      /\ \A f \in Known \ Program[release.edition] :
                           Present(f) => f \in loose
                      /\ enabled
    OBVIOUS
  <2>1. Verifies
    BY DEF Next, User, Installing, Uninstalling, BuildFails, BuildPasses, OpensGui,
           AutostartOn, AutostartOff, GuiStartsUnit, Installs, Declines, Ends, StopsUnit,
           QuitsGui, Copies, HasCopied, HasPruned, HasRemovedObsolete, CommitsManifest,
           Registers, EnablesUnit, Uninstalls, DisablesUnit, StopsOwned, HasRemoved,
           Purges, StripsGui, HasStripped, Removes, Breaks, Returns, script
  <2>2. Autostart \in Program[release.edition] => Present(Autostart)
    BY <2>1, FileAssumption DEF Verifies, IInv, Lists, Release, Edition
  <2> QED
    BY <2>1, <2>2 DEF Verifies, IInv, Copied, Installed, Recorded, Accounted, Ours
<1> QED
  BY <1>1, Invariance, PTL DEF Spec, SuccessIsComplete

\* The user's files are never touched, and the data goes last.
THEOREM UsersFilesSafe == Spec => UserFilesKept
<1>1. IInv /\ [Next]_vars =>
        [/\ \A f \in File \ Known : disk'[f] = disk[f]
         /\ data /\ ~data' =>
              ~keep /\ \A f \in Known : Present(f) => f \in loose]_vars
  <2> SUFFICES ASSUME IInv, Next
               PROVE  /\ \A f \in File \ Known : disk'[f] = disk[f]
                      /\ data /\ ~data' =>
                           ~keep /\ \A f \in Known : Present(f) => f \in loose
    OBVIOUS
  <2> USE DEF files
  <2>1. CASE Purges
    BY <2>1 DEF Purges, IInv, ToRemove
  <2>2. ASSUME NEW f \in File, Copies(f) PROVE f \in Known /\ UNCHANGED data
    BY <2>2, ProgramFacts DEF Copies, IInv, Lists, Ours
  <2>3. CASE \E f \in File : Copies(f)
    <3>1. PICK f \in File : Copies(f)
      BY <2>3
    <3> QED
      BY <3>1, <2>2 DEF Copies, IInv, TypeOK
  <2>4. CASE AutostartOn \/ AutostartOff
    BY <2>4, NamedFiles DEF AutostartOn, AutostartOff, IInv, TypeOK
  <2>5. CASE \E f \in File : Removes(f)
    BY <2>5 DEF Removes, IInv, TypeOK
  <2> QED
    BY <2>1, <2>3, <2>4, <2>5
    DEF Next, User, Installing, Uninstalling, BuildFails, BuildPasses, OpensGui,
        GuiStartsUnit, Installs, Declines, StopsUnit, QuitsGui, HasCopied, HasPruned,
        HasRemovedObsolete, CommitsManifest, Registers, EnablesUnit, Verifies,
        Uninstalls, DisablesUnit, StopsOwned, HasRemoved, StripsGui, HasStripped,
        Breaks, Returns
<1> QED
  BY <1>1, Invariance, PTL DEF Spec, UserFilesKept
=============================================================================

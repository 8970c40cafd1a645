------------------------ MODULE Dependencies_proofs ------------------------
(***************************************************************************)
(* That the maintenance page and the scripts leave alone what was there    *)
(* before TDriver and what its runtime needs, and that the ledger forgets  *)
(* nothing but by an accident, for any packages and profiles; that the     *)
(* page shows what is the case, however its handlers nest, and that the    *)
(* page beside it loses no profile; that a backend once set up stays ready.*)
(* The three specifications share no variable but the GUI's process.       *)
(***************************************************************************)
EXTENDS DependencyLedger, GuiPages, SetupAssistant, SequenceTheorems, TLAPS

-----------------------------------------------------------------------------
(* The ledger                                                              *)

\* Jobs that add to the profiles, and stages in which they do.
Enabling == {"devices", "bootstrap", "feature"}
EnablingStages == {"readProfiles", "writeProfiles", "restProfiles"}

\* Which job is at which stage.
Orderly ==
  /\ job["gui"].task \notin {"bootstrap", "feature", "cleanup"}
  /\ job["script"].task \notin {"devices", "install", "remove"}
  /\ \A a \in Actor :
       /\ job[a].stage \in EnablingStages => job[a].task \in Enabling
       /\ job[a].stage \in {"read", "write", "rest"} =>
            job[a].task \in {"install", "remove", "bootstrap", "feature"}

\* Nothing that was there before is in the ledger, on a list or to be written.
KeptApart ==
  /\ ledger \cap kept = {}
  /\ \A a \in Actor : job[a].list \cap kept = {} /\ job[a].entries \cap kept = {}

\* Every job that adds to the profiles adds the runtime's, and what is to be
\* removed by an audit that read the manifest is not the runtime's.
CoreApart ==
  /\ \A a \in Actor : job[a].task \in Enabling => RuntimeCore \in job[a].enable
  /\ job["gui"].stage = "pacman" /\ job["gui"].task = "remove" /\ ~job["gui"].blind =>
       job["gui"].list \cap PackagesOf[RuntimeCore] = {}

\* What a job is about to write lacks nothing that the other will not add, and
\* what it is about to strike out is gone.
NothingLost ==
  \A a \in Actor :
    /\ job[a].stage \in {"write", "rest"} =>
         mine \subseteq job[a].entries \cup Pending(job[Other(a)])
    /\ job[a].stage = "read" /\ job[a].task = "remove" =>
         mine \cap job[a].list \subseteq Pending(job[Other(a)])

Ordered == TypeOK /\ Orderly

-----------------------------------------------------------------------------
\* A job that becomes another one leaves the other actor's alone.
LEMMA OnlyOneJobChanges ==
  ASSUME TypeOK, NEW a \in Actor, NEW j \in Job, Becomes(a, j)
  PROVE  /\ job' \in [Actor -> Job]
         /\ job'[a] = j
         /\ \A b \in Actor \ {a} : job'[b] = job[b]
BY DEF TypeOK, Becomes

\* The idle job is a job.
LEMMA NoJobType ==
  /\ NoJob \in Job /\ NoJob.task = "none" /\ NoJob.stage = "idle"
  /\ NoJob.list = {} /\ NoJob.entries = {} /\ NoJob.enable = {}
BY DEF AtWork, NoJob, Job, Stages, Tasks

\* The type invariant and the order of stages hold at first.
LEMMA OrderedInit == Init => Ordered
BY NoJobType, ProfileAssumption, PackageAssumption
  DEF Init, Ordered, TypeOK, Orderly, Actor, EnablingStages

\* A job that starts keeps both, given that it fits its actor and its stage.
LEMMA OrderedStart ==
  ASSUME Ordered, NEW a \in Actor, NEW j \in Job, Becomes(a, j), UNCHANGED <<system, files, mine>>,
         a = "gui" => j.task \notin {"bootstrap", "feature", "cleanup"},
         a = "script" => j.task \notin {"devices", "install", "remove"},
         j.stage \in EnablingStages => j.task \in Enabling,
         j.stage \notin {"read", "write", "rest"}
  PROVE  Ordered'
<1>1. /\ job' \in [Actor -> Job]
      /\ job'[a] = j
      /\ \A b \in Actor \ {a} : job'[b] = job[b]
  BY OnlyOneJobChanges DEF Ordered
<1>2. TypeOK'
  BY <1>1 DEF Ordered, TypeOK, system, files
<1>3. Orderly'
  BY <1>1 DEF Ordered, Orderly, Actor
<1> QED
  BY <1>2, <1>3 DEF Ordered

\* A job that goes on to another stage keeps both, given that the stage fits its
\* task and the rest of the system is still of its type.
LEMMA OrderedMove ==
  ASSUME Ordered, NEW a \in Actor, NEW j \in Job, Becomes(a, j),
         j = NoJob \/ j.task = job[a].task,
         j.stage \in EnablingStages => job[a].task \in Enabling,
         j.stage \in {"read", "write", "rest"} =>
           job[a].task \in {"install", "remove", "bootstrap", "feature"},
         installed' \subseteq Package, explicit' \subseteq installed', ledger' \subseteq Package,
         profiles' \subseteq Profile, profiles' # {} => RuntimeCore \in profiles',
         kept' \subseteq installed', mine' \subseteq installed'
  PROVE  Ordered'
<1>1. /\ job' \in [Actor -> Job]
      /\ job'[a] = j
      /\ \A b \in Actor \ {a} : job'[b] = job[b]
  BY OnlyOneJobChanges DEF Ordered
<1>2. TypeOK'
  BY <1>1 DEF TypeOK
<1>3. Orderly'
  BY <1>1, NoJobType DEF Ordered, Orderly, Actor, EnablingStages
<1> QED
  BY <1>2, <1>3 DEF Ordered

\* Every step keeps the types and the order of stages; those that write the
\* profiles also need to know that the runtime's are among them.
LEMMA OrderedStep ==
  ASSUME Ordered, CoreApart, [Next]_vars
  PROVE  Ordered'
<1> USE DEF Ordered, TypeOK
<1>1. CASE \E p \in Package : UserInstalls(p) \/ UserRemoves(p)
  BY <1>1, PackageAssumption
     DEF UserInstalls, UserRemoves, PacmanInstalls, PacmanRemoves, files, Orderly
<1>2. CASE \E found \in SUBSET Profile : RefreshDevices(found)
  <2>1. PICK found \in SUBSET Profile : RefreshDevices(found)
    BY <1>2
  <2> DEFINE j == AtWork("devices", "readProfiles", {}, found \cup {RuntimeCore})
  <2>2. j \in Job /\ j.task = "devices" /\ j.stage = "readProfiles"
    BY ProfileAssumption DEF AtWork, Job, Tasks, Stages
  <2>3. Becomes("gui", j) /\ UNCHANGED <<system, files, mine>> /\ "gui" \in Actor
    BY <2>1 DEF RefreshDevices, Start, Actor
  <2> HIDE DEF j
  <2> QED
    BY <2>2, <2>3, OrderedStart DEF Enabling
<1>3. CASE \E task \in {"install", "remove"} : AskToConfirm(task)
  <2>1. PICK task \in {"install", "remove"} : AskToConfirm(task)
    BY <1>3
  <2> DEFINE j == AtWork(task, "confirm", {}, {})
  <2>2. j \in Job /\ j.task = task /\ j.stage = "confirm"
    BY ProfileAssumption DEF AtWork, Job, Tasks, Stages
  <2>3. Becomes("gui", j) /\ UNCHANGED <<system, files, mine>> /\ "gui" \in Actor
    BY <2>1 DEF AskToConfirm, Start, Actor
  <2> HIDE DEF j
  <2> QED
    BY <2>2, <2>3, OrderedStart DEF EnablingStages
<1>4. CASE Bootstrap
  <2> DEFINE j == AtWork("bootstrap", "pacman",
                          (UNION {PackagesOf[f] : f \in Edition}) \ installed, {RuntimeCore})
  <2>1. (UNION {PackagesOf[f] : f \in Edition}) \ installed \in SUBSET Package
    BY ProfileAssumption
  <2>2. j \in Job /\ j.task = "bootstrap" /\ j.stage = "pacman"
    BY <2>1, ProfileAssumption DEF AtWork, Job, Tasks, Stages
  <2>3. Becomes("script", j) /\ UNCHANGED <<system, files, mine>> /\ "script" \in Actor
    BY <1>4 DEF Bootstrap, Start, Actor
  <2> HIDE DEF j
  <2> QED
    BY <2>2, <2>3, OrderedStart DEF EnablingStages
<1>5. CASE \E f \in Profile : InstallFeature(f)
  <2>1. PICK f \in Profile : InstallFeature(f)
    BY <1>5
  <2> DEFINE j == AtWork("feature", "pacman", PackagesOf[f] \ installed, {RuntimeCore, f})
  <2>2. j \in Job /\ j.task = "feature" /\ j.stage = "pacman"
    BY ProfileAssumption DEF AtWork, Job, Tasks, Stages
  <2>3. Becomes("script", j) /\ UNCHANGED <<system, files, mine>> /\ "script" \in Actor
    BY <2>1 DEF InstallFeature, Start, Actor
  <2> HIDE DEF j
  <2> QED
    BY <2>2, <2>3, OrderedStart DEF EnablingStages
<1>6. CASE Cleanup
  <2> DEFINE j == AtWork("cleanup", "pacman", (ledger \ Runtime) \cap Orphans, {})
  <2>1. j \in Job /\ j.task = "cleanup" /\ j.stage = "pacman"
    BY ProfileAssumption DEF AtWork, Job, Tasks, Stages
  <2>2. Becomes("script", j) /\ UNCHANGED <<system, files, mine>> /\ "script" \in Actor
    BY <1>6 DEF Cleanup, Start, Actor
  <2> HIDE DEF j
  <2> QED
    BY <2>1, <2>2, OrderedStart DEF EnablingStages
<1>7. CASE Confirmed
  <2>0. PICK manifest \in Manifest :
          \/ Becomes("gui", NoJob)
          \/ Becomes("gui", [job["gui"] EXCEPT !.stage = "pacman",
                                !.list = Audited(job["gui"].task, manifest),
                                !.blind = ~manifest.readable])
    BY <1>7 DEF Confirmed, Ends
  <2>1. Audited(job["gui"].task, manifest) \in SUBSET Package /\ (~manifest.readable) \in BOOLEAN
    BY ProfileAssumption DEF Audited, MissingRequired, Removable, Required, Enabled
  <2> DEFINE j == [job["gui"] EXCEPT !.stage = "pacman",
                     !.list = Audited(job["gui"].task, manifest),
                     !.blind = ~manifest.readable]
  <2>2. j \in Job /\ j.stage = "pacman" /\ j.task = job["gui"].task
    BY <2>1 DEF Job, Stages, Actor
  <2>3. Becomes("gui", NoJob) \/ Becomes("gui", j)
    BY <2>0
  <2>4. UNCHANGED <<installed, explicit, kept, ledger, profiles, mine>>
    BY <1>7 DEF Confirmed, system, files
  <2>5. "gui" \in Actor
    BY DEF Actor
  <2> HIDE DEF j
  <2> QED
    BY <2>2, <2>3, <2>4, <2>5, OrderedMove, NoJobType DEF EnablingStages
<1>8. CASE \E a \in Actor : JobInstalls(a)
  <2>1. PICK a \in Actor : JobInstalls(a)
    BY <1>8
  <2> DEFINE j == [job[a] EXCEPT !.stage = "read"]
  <2>2. j \in Job /\ j.stage = "read" /\ j.task = job[a].task /\ job[a].list \subseteq Package
    BY DEF Job, Stages
  <2>3. Becomes(a, NoJob) \/ Becomes(a, j)
    BY <2>1 DEF JobInstalls, Goes, Ends
  <2>4. /\ installed' \subseteq Package /\ installed \cup job[a].list \subseteq installed'
        /\ kept' = kept /\ UNCHANGED files
    BY <2>1, <2>2, PackageAssumption DEF JobInstalls, PacmanInstalls
  <2>5. explicit' \subseteq installed' /\ mine' \subseteq installed'
    BY <2>1, <2>4 DEF JobInstalls
  <2>6. job[a].task \in {"install", "bootstrap", "feature"}
    BY <2>1 DEF JobInstalls
  <2> HIDE DEF j
  <2> QED
    BY <2>2, <2>3, <2>4, <2>5, <2>6, OrderedMove, NoJobType DEF EnablingStages, files
<1>9. CASE JobRemoves
  <2> DEFINE j == [job["gui"] EXCEPT !.stage = "read"]
  <2>1. j \in Job /\ j.stage = "read" /\ j.task = job["gui"].task
    BY DEF Job, Stages, Actor
  <2>2. Becomes("gui", NoJob) \/ Becomes("gui", j)
    BY <1>9 DEF JobRemoves, Goes, Ends
  <2>3. /\ installed' \subseteq Package /\ explicit' \subseteq installed'
        /\ kept' \subseteq installed' /\ mine' \subseteq installed' /\ UNCHANGED files
    BY <1>9 DEF JobRemoves, PacmanRemoves
  <2>4. "gui" \in Actor /\ job["gui"].task = "remove"
    BY <1>9 DEF Actor, JobRemoves
  <2> HIDE DEF j
  <2> QED
    BY <2>1, <2>2, <2>3, <2>4, OrderedMove, NoJobType DEF EnablingStages, files
<1>10. CASE CleanupRemoves
  <2>1. /\ installed' \subseteq Package /\ explicit' \subseteq installed'
        /\ kept' \subseteq installed' /\ mine' \subseteq installed' /\ UNCHANGED files
    BY <1>10 DEF CleanupRemoves, PacmanRemoves
  <2>2. Becomes("script", NoJob) /\ "script" \in Actor
    BY <1>10 DEF CleanupRemoves, Ends, Actor
  <2> QED
    BY <2>1, <2>2, OrderedMove, NoJobType DEF EnablingStages, files
<1>11. CASE \E a \in Actor : ReadsLedger(a)
  <2>1. PICK a \in Actor : ReadsLedger(a)
    BY <1>11
  <2> DEFINE j == [job[a] EXCEPT !.stage = "write", !.entries = Recorded(a)]
  <2>2. j \in Job /\ j.stage = "write" /\ j.task = job[a].task
    BY DEF Job, Stages, Recorded
  <2>3. /\ Becomes(a, j) /\ job[a].stage = "read"
        /\ UNCHANGED <<installed, explicit, kept, ledger, profiles, mine>>
    BY <2>1 DEF ReadsLedger, system, files
  <2> HIDE DEF j
  <2> QED
    BY <2>2, <2>3, OrderedMove, NoJobType DEF Orderly, EnablingStages
<1>12. CASE GuiWritesLedger \/ GuiWritesProfiles
  <2>1. Becomes("gui", NoJob) /\ "gui" \in Actor
    BY <1>12 DEF GuiWritesLedger, GuiWritesProfiles, Ends, Actor
  <2>2. job["gui"].entries \subseteq Package /\ job["gui"].enable \subseteq Profile
    BY DEF Job, Actor
  <2>3. GuiWritesProfiles => RuntimeCore \in job["gui"].enable
    BY DEF GuiWritesProfiles, CoreApart, Orderly, EnablingStages, Actor
  <2>4. /\ ledger' \subseteq Package /\ profiles' \subseteq Profile
        /\ profiles' # {} => RuntimeCore \in profiles'
        /\ UNCHANGED system /\ mine' \subseteq installed'
    BY <1>12, <2>2, <2>3 DEF GuiWritesLedger, GuiWritesProfiles, Writes, system
  <2> QED
    BY <2>1, <2>4, OrderedMove, NoJobType DEF EnablingStages, system
<1>13. CASE ScriptTruncatesLedger \/ ScriptTruncatesProfiles
  <2> DEFINE j(stage) == [job["script"] EXCEPT !.stage = stage]
  <2>1. PICK stage \in {"rest", "restProfiles"} :
          /\ Becomes("script", j(stage))
          /\ stage = "rest" => job["script"].stage = "write"
          /\ stage = "restProfiles" => job["script"].stage = "writeProfiles"
    BY <1>13 DEF ScriptTruncatesLedger, ScriptTruncatesProfiles, Goes
  <2>2. j(stage) \in Job /\ j(stage).stage = stage /\ j(stage).task = job["script"].task
    BY DEF Job, Stages, Actor
  <2>3. /\ ledger' \subseteq Package /\ profiles' \subseteq Profile
        /\ profiles' # {} => RuntimeCore \in profiles'
        /\ UNCHANGED system /\ mine' \subseteq installed' /\ "script" \in Actor
    BY <1>13 DEF ScriptTruncatesLedger, ScriptTruncatesProfiles, Writes, Truncated, system, Actor
  <2> HIDE DEF j
  <2> QED
    BY <2>1, <2>2, <2>3, OrderedMove, NoJobType DEF Orderly, EnablingStages, system
<1>14. CASE ScriptWritesLedger
  <2> DEFINE j == AtWork(job["script"].task, "readProfiles", {}, job["script"].enable)
  <2>1. j \in Job /\ j.stage = "readProfiles" /\ j.task = job["script"].task
    BY DEF AtWork, Job, Stages, Actor
  <2>2. /\ Becomes("script", j) /\ job["script"].stage = "rest" /\ "script" \in Actor
        /\ UNCHANGED <<installed, explicit, kept, profiles>> /\ mine' \subseteq installed'
    BY <1>14 DEF ScriptWritesLedger, Writes, system, Actor
  <2>3. ledger' \subseteq Package
    BY <1>14 DEF ScriptWritesLedger, Writes, Job, Actor
  <2>4. job["script"].task \in Enabling
    BY <2>2 DEF Orderly, Enabling
  <2> HIDE DEF j
  <2> QED
    BY <2>1, <2>2, <2>3, <2>4, OrderedMove, NoJobType
<1>15. CASE \E a \in Actor : ReadsProfiles(a)
  <2>1. PICK a \in Actor : ReadsProfiles(a)
    BY <1>15
  <2> DEFINE j == AtWork(job[a].task, "writeProfiles", {}, job[a].enable \cup profiles)
  <2>2. j \in Job /\ j.stage = "writeProfiles" /\ j.task = job[a].task
    BY DEF AtWork, Job, Stages
  <2>3. /\ Becomes(a, j) /\ job[a].stage = "readProfiles"
        /\ UNCHANGED <<installed, explicit, kept, ledger, profiles, mine>>
    BY <2>1 DEF ReadsProfiles, system, files
  <2> HIDE DEF j
  <2> QED
    BY <2>2, <2>3, OrderedMove, NoJobType DEF Orderly, EnablingStages
<1>16. CASE ScriptWritesProfiles
  <2>1. Becomes("script", NoJob) /\ "script" \in Actor
    BY <1>16 DEF ScriptWritesProfiles, Ends, Actor
  <2>2. /\ RuntimeCore \in profiles' /\ profiles' \subseteq Profile
        /\ UNCHANGED <<installed, explicit, kept, ledger, mine>>
    BY <1>16 DEF ScriptWritesProfiles, CoreApart, Orderly, EnablingStages, Actor, Job, system
  <2> QED
    BY <2>1, <2>2, OrderedMove, NoJobType DEF EnablingStages
<1>17. CASE \E a \in Actor : GivesUp(a)
  <2>1. PICK a \in Actor : GivesUp(a)
    BY <1>17
  <2>2. /\ Becomes(a, NoJob)
        /\ UNCHANGED <<installed, explicit, kept, ledger, profiles>> /\ mine' \subseteq mine
    BY <2>1 DEF GivesUp, Ends, system, files
  <2> QED
    BY <2>2, OrderedMove, NoJobType DEF EnablingStages
<1>18. CASE UNCHANGED vars
  BY <1>18 DEF vars, system, files, Orderly
<1> QED
  BY <1>1, <1>2, <1>3, <1>4, <1>5, <1>6, <1>7, <1>8, <1>9, <1>10, <1>11, <1>12, <1>13,
     <1>14, <1>15, <1>16, <1>17, <1>18 DEF Next, User, Gui, Script, Either

-----------------------------------------------------------------------------
\* A step keeps what was there apart, given that its job, the ledger it writes and
\* the packages it removes do.
LEMMA KeptMove ==
  ASSUME Ordered, KeptApart, NEW a \in Actor, NEW j \in Job, Becomes(a, j),
         j.list \cap kept = {}, j.entries \cap kept = {}, ledger' \cap kept = {}, kept' \subseteq kept
  PROVE  KeptApart'
<1>1. /\ job' \in [Actor -> Job]
      /\ job'[a] = j
      /\ \A b \in Actor \ {a} : job'[b] = job[b]
  BY OnlyOneJobChanges DEF Ordered
<1> QED
  BY <1>1 DEF KeptApart

\* Lists come from what is not installed or from the ledger.
LEMMA KeptStep ==
  ASSUME Ordered, KeptApart, [Next]_vars
  PROVE  KeptApart'
<1>1. CASE \E p \in Package : UserInstalls(p) \/ UserRemoves(p)
  BY <1>1 DEF UserInstalls, UserRemoves, PacmanInstalls, PacmanRemoves, files, KeptApart
<1>2. CASE \E found \in SUBSET Profile : RefreshDevices(found)
  <2>1. PICK found \in SUBSET Profile : RefreshDevices(found)
    BY <1>2
  <2> DEFINE j == AtWork("devices", "readProfiles", {}, found \cup {RuntimeCore})
  <2>2. j \in Job /\ j.list = {} /\ j.entries = {}
    BY ProfileAssumption DEF AtWork, Job, Tasks, Stages
  <2>3. Becomes("gui", j) /\ UNCHANGED <<kept, ledger>> /\ "gui" \in Actor
    BY <2>1 DEF RefreshDevices, Start, system, files, Actor
  <2> HIDE DEF j
  <2> QED
    BY <2>2, <2>3, KeptMove DEF KeptApart
<1>3. CASE \E task \in {"install", "remove"} : AskToConfirm(task)
  <2>1. PICK task \in {"install", "remove"} : AskToConfirm(task)
    BY <1>3
  <2> DEFINE j == AtWork(task, "confirm", {}, {})
  <2>2. j \in Job /\ j.list = {} /\ j.entries = {}
    BY DEF AtWork, Job, Tasks, Stages
  <2>3. Becomes("gui", j) /\ UNCHANGED <<kept, ledger>> /\ "gui" \in Actor
    BY <2>1 DEF AskToConfirm, Start, system, files, Actor
  <2> HIDE DEF j
  <2> QED
    BY <2>2, <2>3, KeptMove DEF KeptApart
<1>4. CASE Bootstrap
  <2> DEFINE list == (UNION {PackagesOf[f] : f \in Edition}) \ installed
             j == AtWork("bootstrap", "pacman", list, {RuntimeCore})
  <2>1. list \subseteq Package /\ list \cap kept = {}
    BY ProfileAssumption DEF Ordered, TypeOK
  <2>2. j \in Job /\ j.list = list /\ j.entries = {}
    BY <2>1, ProfileAssumption DEF AtWork, Job, Tasks, Stages
  <2>3. Becomes("script", j) /\ UNCHANGED <<kept, ledger>> /\ "script" \in Actor
    BY <1>4 DEF Bootstrap, Start, system, files, Actor
  <2> HIDE DEF j, list
  <2> QED
    BY <2>1, <2>2, <2>3, KeptMove DEF KeptApart
<1>5. CASE \E f \in Profile : InstallFeature(f)
  <2>1. PICK f \in Profile : InstallFeature(f)
    BY <1>5
  <2> DEFINE list == PackagesOf[f] \ installed
             j == AtWork("feature", "pacman", list, {RuntimeCore, f})
  <2>2. list \subseteq Package /\ list \cap kept = {}
    BY ProfileAssumption DEF Ordered, TypeOK
  <2>3. j \in Job /\ j.list = list /\ j.entries = {}
    BY <2>2, ProfileAssumption DEF AtWork, Job, Tasks, Stages
  <2>4. Becomes("script", j) /\ UNCHANGED <<kept, ledger>> /\ "script" \in Actor
    BY <2>1 DEF InstallFeature, Start, system, files, Actor
  <2> HIDE DEF j, list
  <2> QED
    BY <2>2, <2>3, <2>4, KeptMove DEF KeptApart
<1>6. CASE Cleanup
  <2> DEFINE list == (ledger \ Runtime) \cap Orphans
             j == AtWork("cleanup", "pacman", list, {})
  <2>1. list \subseteq Package /\ list \cap kept = {}
    BY DEF Ordered, TypeOK, KeptApart
  <2>2. j \in Job /\ j.list = list /\ j.entries = {}
    BY <2>1 DEF AtWork, Job, Tasks, Stages
  <2>3. Becomes("script", j) /\ UNCHANGED <<kept, ledger>> /\ "script" \in Actor
    BY <1>6 DEF Cleanup, Start, system, files, Actor
  <2> HIDE DEF j, list
  <2> QED
    BY <2>1, <2>2, <2>3, KeptMove DEF KeptApart
<1>7. CASE Confirmed
  <2>0. PICK manifest \in Manifest :
          \/ Becomes("gui", NoJob)
          \/ Becomes("gui", [job["gui"] EXCEPT !.stage = "pacman",
                                !.list = Audited(job["gui"].task, manifest),
                                !.blind = ~manifest.readable])
    BY <1>7 DEF Confirmed, Ends
  <2> DEFINE list == Audited(job["gui"].task, manifest)
             blind == ~manifest.readable
             j == [job["gui"] EXCEPT !.stage = "pacman", !.list = list, !.blind = blind]
  <2>1. list \subseteq Package /\ list \cap kept = {} /\ blind \in BOOLEAN
    BY ProfileAssumption
       DEF Audited, MissingRequired, Removable, Required, Enabled, Ordered, TypeOK, KeptApart
  <2>2. j \in Job /\ j.list = list /\ j.entries = job["gui"].entries
    BY <2>1 DEF Job, Stages, Actor, Ordered, TypeOK
  <2>3. Becomes("gui", NoJob) \/ Becomes("gui", j)
    BY <2>0
  <2>4. UNCHANGED <<kept, ledger>> /\ "gui" \in Actor
    BY <1>7 DEF Confirmed, system, files, Actor
  <2> HIDE DEF j, list, blind
  <2> QED
    BY <2>1, <2>2, <2>3, <2>4, KeptMove, NoJobType DEF KeptApart
<1>8. CASE (\E a \in Actor : JobInstalls(a)) \/ JobRemoves \/ CleanupRemoves
  <2>1. PICK a \in Actor :
          \/ JobInstalls(a)
          \/ JobRemoves /\ a = "gui"
          \/ CleanupRemoves /\ a = "script"
    <3>1. "gui" \in Actor /\ "script" \in Actor
      BY DEF Actor
    <3> QED
      BY <1>8, <3>1
  <2> DEFINE j == [job[a] EXCEPT !.stage = "read"]
  <2>2. j \in Job /\ j.list = job[a].list /\ j.entries = job[a].entries
    BY DEF Job, Stages, Ordered, TypeOK
  <2>3. Becomes(a, NoJob) \/ Becomes(a, j)
    BY <2>1 DEF JobInstalls, JobRemoves, CleanupRemoves, Goes, Ends
  <2>4. kept' \subseteq kept /\ ledger' = ledger
    BY <2>1 DEF JobInstalls, JobRemoves, CleanupRemoves, PacmanInstalls, PacmanRemoves, files
  <2> HIDE DEF j
  <2> QED
    BY <2>2, <2>3, <2>4, KeptMove, NoJobType DEF KeptApart
<1>9. CASE \E a \in Actor : ReadsLedger(a)
  <2>1. PICK a \in Actor : ReadsLedger(a)
    BY <1>9
  <2> DEFINE j == [job[a] EXCEPT !.stage = "write", !.entries = Recorded(a)]
  <2>2. j \in Job /\ j.list = job[a].list /\ j.entries = Recorded(a)
    BY DEF Job, Stages, Recorded, Ordered, TypeOK
  <2>3. Recorded(a) \cap kept = {}
    BY DEF Recorded, KeptApart
  <2>4. Becomes(a, j) /\ UNCHANGED <<kept, ledger>>
    BY <2>1 DEF ReadsLedger, system, files
  <2> HIDE DEF j
  <2> QED
    BY <2>2, <2>3, <2>4, KeptMove DEF KeptApart
<1>10. CASE GuiWritesLedger \/ GuiWritesProfiles
  <2>1. /\ Becomes("gui", NoJob) /\ "gui" \in Actor /\ kept' = kept
        /\ ledger' \in {ledger, job["gui"].entries}
    BY <1>10 DEF GuiWritesLedger, GuiWritesProfiles, Writes, Ends, system, Actor
  <2> QED
    BY <2>1, KeptMove, NoJobType DEF KeptApart
<1>11. CASE ScriptTruncatesLedger \/ ScriptTruncatesProfiles
  <2> DEFINE j(stage) == [job["script"] EXCEPT !.stage = stage]
  <2>1. PICK stage \in {"rest", "restProfiles"} :
          /\ Becomes("script", j(stage)) /\ "script" \in Actor /\ kept' = kept
          /\ ledger' \in {ledger, {}}
    BY <1>11
       DEF ScriptTruncatesLedger, ScriptTruncatesProfiles, Goes, Writes, Truncated, system, Actor
  <2>2. /\ j(stage) \in Job /\ j(stage).list = job["script"].list
        /\ j(stage).entries = job["script"].entries
    BY DEF Job, Stages, Actor, Ordered, TypeOK
  <2> HIDE DEF j
  <2> QED
    BY <2>1, <2>2, KeptMove DEF KeptApart
<1>12. CASE ScriptWritesLedger
  <2> DEFINE j == AtWork(job["script"].task, "readProfiles", {}, job["script"].enable)
  <2>1. j \in Job /\ j.list = {} /\ j.entries = {}
    BY DEF AtWork, Job, Stages, Actor, Ordered, TypeOK
  <2>2. /\ Becomes("script", j) /\ "script" \in Actor /\ kept' = kept
        /\ ledger' = job["script"].entries
    BY <1>12 DEF ScriptWritesLedger, Writes, system, Actor
  <2> HIDE DEF j
  <2> QED
    BY <2>1, <2>2, KeptMove DEF KeptApart
<1>13. CASE \E a \in Actor : ReadsProfiles(a)
  <2>1. PICK a \in Actor : ReadsProfiles(a)
    BY <1>13
  <2> DEFINE j == AtWork(job[a].task, "writeProfiles", {}, job[a].enable \cup profiles)
  <2>2. j \in Job /\ j.list = {} /\ j.entries = {}
    BY DEF AtWork, Job, Stages, Ordered, TypeOK
  <2>3. Becomes(a, j) /\ UNCHANGED <<kept, ledger>>
    BY <2>1 DEF ReadsProfiles, system, files
  <2> HIDE DEF j
  <2> QED
    BY <2>2, <2>3, KeptMove DEF KeptApart
<1>14. CASE ScriptWritesProfiles \/ \E a \in Actor : GivesUp(a)
  <2>1. PICK a \in Actor : Becomes(a, NoJob) /\ UNCHANGED <<kept, ledger>>
    BY <1>14 DEF ScriptWritesProfiles, GivesUp, Ends, system, files, Actor
  <2> QED
    BY <2>1, KeptMove, NoJobType DEF KeptApart
<1>15. CASE UNCHANGED vars
  BY <1>15 DEF vars, system, files, KeptApart
<1> QED
  BY <1>1, <1>2, <1>3, <1>4, <1>5, <1>6, <1>7, <1>8, <1>9, <1>10, <1>11, <1>12, <1>13,
     <1>14, <1>15 DEF Next, User, Gui, Script, Either

-----------------------------------------------------------------------------
\* With the manifest at hand the runtime's packages are always required, so that
\* none is ever removable.
LEMMA CoreIsRequired ==
  ASSUME TypeOK, NEW manifest \in Manifest, manifest.readable
  PROVE  Removable(manifest) \cap PackagesOf[RuntimeCore] = {}
<1>1. RuntimeCore \in Enabled
  BY DEF Enabled, TypeOK
<1>2. PackagesOf[RuntimeCore] \subseteq Required(manifest)
  BY <1>1 DEF Required
<1> QED
  BY <1>2 DEF Removable

\* A step keeps the runtime apart, given that its job adds the runtime's profile
\* when it adds any, and is not about to remove what the runtime needs.
LEMMA CoreMove ==
  ASSUME Ordered, CoreApart, NEW a \in Actor, NEW j \in Job, Becomes(a, j),
         j.task \in Enabling => RuntimeCore \in j.enable,
         j.stage = "pacman" /\ j.task = "remove" /\ ~j.blind =>
           j.list \cap PackagesOf[RuntimeCore] = {}
  PROVE  CoreApart'
<1>1. /\ job' \in [Actor -> Job]
      /\ job'[a] = j
      /\ \A b \in Actor \ {a} : job'[b] = job[b]
  BY OnlyOneJobChanges DEF Ordered
<1>2. "gui" \in Actor
  BY DEF Actor
<1> QED
  BY <1>1, <1>2 DEF CoreApart

\* Whatever becomes of the files, each step keeps the runtime apart.
LEMMA CoreStep ==
  ASSUME Ordered, CoreApart, [Next]_vars
  PROVE  CoreApart'
<1>1. CASE \E p \in Package : UserInstalls(p) \/ UserRemoves(p)
  BY <1>1 DEF UserInstalls, UserRemoves, CoreApart
<1>2. CASE \E found \in SUBSET Profile : RefreshDevices(found)
  <2>1. PICK found \in SUBSET Profile : RefreshDevices(found)
    BY <1>2
  <2> DEFINE j == AtWork("devices", "readProfiles", {}, found \cup {RuntimeCore})
  <2>2. j \in Job /\ j.stage # "pacman" /\ RuntimeCore \in j.enable
    BY ProfileAssumption DEF AtWork, Job, Tasks, Stages
  <2>3. Becomes("gui", j) /\ "gui" \in Actor
    BY <2>1 DEF RefreshDevices, Start, Actor
  <2> HIDE DEF j
  <2> QED
    BY <2>2, <2>3, CoreMove
<1>3. CASE \E task \in {"install", "remove"} : AskToConfirm(task)
  <2>1. PICK task \in {"install", "remove"} : AskToConfirm(task)
    BY <1>3
  <2> DEFINE j == AtWork(task, "confirm", {}, {})
  <2>2. j \in Job /\ j.stage # "pacman" /\ j.task \notin Enabling
    BY DEF AtWork, Job, Tasks, Stages, Enabling
  <2>3. Becomes("gui", j) /\ "gui" \in Actor
    BY <2>1 DEF AskToConfirm, Start, Actor
  <2> HIDE DEF j
  <2> QED
    BY <2>2, <2>3, CoreMove
<1>4. CASE Bootstrap
  <2> DEFINE list == (UNION {PackagesOf[f] : f \in Edition}) \ installed
             j == AtWork("bootstrap", "pacman", list, {RuntimeCore})
  <2>1. list \subseteq Package
    BY ProfileAssumption
  <2>2. j \in Job /\ j.task # "remove" /\ RuntimeCore \in j.enable
    BY <2>1, ProfileAssumption DEF AtWork, Job, Tasks, Stages
  <2>3. Becomes("script", j) /\ "script" \in Actor
    BY <1>4 DEF Bootstrap, Start, Actor
  <2> HIDE DEF j, list
  <2> QED
    BY <2>2, <2>3, CoreMove
<1>5. CASE \E f \in Profile : InstallFeature(f)
  <2>1. PICK f \in Profile : InstallFeature(f)
    BY <1>5
  <2> DEFINE j == AtWork("feature", "pacman", PackagesOf[f] \ installed, {RuntimeCore, f})
  <2>2. j \in Job /\ j.task # "remove" /\ RuntimeCore \in j.enable
    BY ProfileAssumption DEF AtWork, Job, Tasks, Stages
  <2>3. Becomes("script", j) /\ "script" \in Actor
    BY <2>1 DEF InstallFeature, Start, Actor
  <2> HIDE DEF j
  <2> QED
    BY <2>2, <2>3, CoreMove
<1>6. CASE Cleanup
  <2> DEFINE j == AtWork("cleanup", "pacman", (ledger \ Runtime) \cap Orphans, {})
  <2>1. j \in Job /\ j.task = "cleanup"
    BY DEF AtWork, Job, Tasks, Stages, Ordered, TypeOK
  <2>2. Becomes("script", j) /\ "script" \in Actor
    BY <1>6 DEF Cleanup, Start, Actor
  <2> HIDE DEF j
  <2> QED
    BY <2>1, <2>2, CoreMove DEF Enabling
<1>7. CASE Confirmed
  <2>0. PICK manifest \in Manifest :
          \/ Becomes("gui", NoJob)
          \/ Becomes("gui", [job["gui"] EXCEPT !.stage = "pacman",
                                !.list = Audited(job["gui"].task, manifest),
                                !.blind = ~manifest.readable])
    BY <1>7 DEF Confirmed, Ends
  <2> DEFINE list == Audited(job["gui"].task, manifest)
             blind == ~manifest.readable
             j == [job["gui"] EXCEPT !.stage = "pacman", !.list = list, !.blind = blind]
  <2>1. list \subseteq Package /\ blind \in BOOLEAN
    BY ProfileAssumption DEF Audited, MissingRequired, Removable, Required, Enabled, Ordered, TypeOK
  <2>2. job["gui"].task = "remove" /\ ~blind => list \cap PackagesOf[RuntimeCore] = {}
    BY CoreIsRequired DEF Audited, Ordered
  <2>3. /\ j \in Job /\ j.list = list /\ j.blind = blind /\ j.task = job["gui"].task
        /\ j.enable = job["gui"].enable
    BY <2>1 DEF Job, Stages, Actor, Ordered, TypeOK
  <2>4. (Becomes("gui", NoJob) \/ Becomes("gui", j)) /\ "gui" \in Actor
    BY <2>0 DEF Actor
  <2> HIDE DEF j, list, blind
  <2> QED
    BY <2>2, <2>3, <2>4, CoreMove, NoJobType DEF CoreApart, Enabling
<1>8. CASE (\E a \in Actor : JobInstalls(a)) \/ JobRemoves \/ CleanupRemoves
  <2>1. PICK a \in Actor :
          \/ JobInstalls(a)
          \/ JobRemoves /\ a = "gui"
          \/ CleanupRemoves /\ a = "script"
    <3>1. "gui" \in Actor /\ "script" \in Actor
      BY DEF Actor
    <3> QED
      BY <1>8, <3>1
  <2> DEFINE j == [job[a] EXCEPT !.stage = "read"]
  <2>2. /\ j \in Job /\ j.stage = "read" /\ j.task = job[a].task
        /\ j.enable = job[a].enable
    BY DEF Job, Stages, Ordered, TypeOK
  <2>3. Becomes(a, NoJob) \/ Becomes(a, j)
    BY <2>1 DEF JobInstalls, JobRemoves, CleanupRemoves, Goes, Ends
  <2> HIDE DEF j
  <2> QED
    BY <2>2, <2>3, CoreMove, NoJobType DEF CoreApart, Enabling
<1>9. CASE \E a \in Actor : ReadsLedger(a)
  <2>1. PICK a \in Actor : ReadsLedger(a)
    BY <1>9
  <2> DEFINE j == [job[a] EXCEPT !.stage = "write", !.entries = Recorded(a)]
  <2>2. /\ j \in Job /\ j.stage = "write" /\ j.task = job[a].task
        /\ j.enable = job[a].enable
    BY DEF Job, Stages, Recorded, Ordered, TypeOK
  <2>3. Becomes(a, j)
    BY <2>1 DEF ReadsLedger
  <2> HIDE DEF j
  <2> QED
    BY <2>2, <2>3, CoreMove DEF CoreApart
<1>10. CASE ScriptTruncatesLedger \/ ScriptTruncatesProfiles
  <2> DEFINE j(stage) == [job["script"] EXCEPT !.stage = stage]
  <2>1. PICK stage \in {"rest", "restProfiles"} :
          Becomes("script", j(stage)) /\ "script" \in Actor
    BY <1>10 DEF ScriptTruncatesLedger, ScriptTruncatesProfiles, Goes, Actor
  <2>2. /\ j(stage) \in Job /\ j(stage).stage = stage /\ j(stage).task = job["script"].task
        /\ j(stage).enable = job["script"].enable
    BY DEF Job, Stages, Actor, Ordered, TypeOK
  <2> HIDE DEF j
  <2> QED
    BY <2>1, <2>2, CoreMove DEF CoreApart
<1>11. CASE ScriptWritesLedger
  <2> DEFINE j == AtWork(job["script"].task, "readProfiles", {}, job["script"].enable)
  <2>1. /\ j \in Job /\ j.stage = "readProfiles" /\ j.task = job["script"].task
        /\ j.enable = job["script"].enable
    BY DEF AtWork, Job, Stages, Actor, Ordered, TypeOK
  <2>2. Becomes("script", j) /\ "script" \in Actor
    BY <1>11 DEF ScriptWritesLedger, Actor
  <2> HIDE DEF j
  <2> QED
    BY <2>1, <2>2, CoreMove DEF CoreApart
<1>12. CASE \E a \in Actor : ReadsProfiles(a)
  <2>1. PICK a \in Actor : ReadsProfiles(a)
    BY <1>12
  <2> DEFINE j == AtWork(job[a].task, "writeProfiles", {}, job[a].enable \cup profiles)
  <2>2. /\ j \in Job /\ j.stage = "writeProfiles" /\ j.task = job[a].task
        /\ job[a].enable \subseteq j.enable
    BY DEF AtWork, Job, Stages, Ordered, TypeOK
  <2>3. Becomes(a, j)
    BY <2>1 DEF ReadsProfiles
  <2> HIDE DEF j
  <2> QED
    BY <2>2, <2>3, CoreMove DEF CoreApart
<1>13. CASE \/ GuiWritesLedger \/ GuiWritesProfiles \/ ScriptWritesProfiles
            \/ \E a \in Actor : GivesUp(a)
  <2>1. PICK a \in Actor : Becomes(a, NoJob)
    BY <1>13
       DEF GuiWritesLedger, GuiWritesProfiles, ScriptWritesProfiles, GivesUp, Ends, Actor
  <2> QED
    BY <2>1, CoreMove, NoJobType DEF Enabling
<1>14. CASE UNCHANGED vars
  BY <1>14 DEF vars, CoreApart
<1> QED
  BY <1>1, <1>2, <1>3, <1>4, <1>5, <1>6, <1>7, <1>8, <1>9, <1>10, <1>11, <1>12, <1>13,
     <1>14 DEF Next, User, Gui, Script, Either

-----------------------------------------------------------------------------
\* The stages from a job's packages to its entries in the ledger.
Recording == {"read", "write", "rest"}

\* The conditions under which a step to job j of a forgets and loses nothing.
LEMMA NotedMove ==
  ASSUME Ordered, NEW a \in Actor, NEW j \in Job, Becomes(a, j), NEW other, other = job[Other(a)],
         mine' \subseteq ledger' \cup Pending(j) \cup Pending(other),
         other.stage \in {"write", "rest"} => mine' \subseteq other.entries \cup Pending(j),
         j.stage \in {"write", "rest"} => mine' \subseteq j.entries \cup Pending(other),
         other.stage = "read" /\ other.task = "remove" => mine' \cap other.list \subseteq Pending(j),
         j.stage = "read" /\ j.task = "remove" => mine' \cap j.list \subseteq Pending(other)
  PROVE  NothingForgotten' /\ NothingLost'
<1> DEFINE o == Other(a)
<1>1. /\ job' \in [Actor -> Job]
      /\ job'[a] = j
      /\ \A b \in Actor \ {a} : job'[b] = job[b]
  BY OnlyOneJobChanges DEF Ordered
<1>2. o \in Actor \ {a} /\ Other(o) = a /\ Actor = {a, o}
  BY DEF Actor, Other
<1>3. job'[o] = other
  BY <1>1, <1>2
<1> HIDE DEF o
<1>4. NothingForgotten'
  <2>1. mine' \subseteq ledger' \cup Pending(job'[a]) \cup Pending(job'[o])
    BY <1>1, <1>3
  <2>2. mine' \subseteq ledger' \cup UNION {Pending(job'[b]) : b \in Actor}
    BY <2>1, <1>2
  <2> QED
    BY <2>2 DEF NothingForgotten, Pending
<1>5. \A b \in Actor :
        /\ job'[b].stage \in {"write", "rest"} =>
             mine' \subseteq job'[b].entries \cup Pending(job'[Other(b)])
        /\ job'[b].stage = "read" /\ job'[b].task = "remove" =>
             mine' \cap job'[b].list \subseteq Pending(job'[Other(b)])
  <2>1. Other(a) = o /\ Other(o) = a
    BY <1>2 DEF o
  <2> QED
    BY <2>1, <1>1, <1>2, <1>3
<1> QED
  BY <1>4, <1>5 DEF NothingLost, Pending, Other

\* A step of a job that is done with the ledger, or has not come to it, forgets
\* nothing; nor does one that ends a job and drops what that had to record.
LEMMA QuietMove ==
  ASSUME Ordered, NothingForgotten, NothingLost, NEW a \in Actor, NEW j \in Job, Becomes(a, j),
         j.stage \notin Recording, ledger' = ledger,
         mine' \subseteq mine, mine' \cap Pending(job[a]) = {}
  PROVE  NothingForgotten' /\ NothingLost'
<1> DEFINE o == Other(a)
           other == job[o]
<1>1. o \in Actor /\ Other(o) = a /\ Actor = {a, o}
  BY DEF Actor, Other
<1>2. Pending(j) = {}
  BY DEF Pending, Recording
<1>3. mine \subseteq ledger \cup Pending(job[a]) \cup Pending(other)
  BY <1>1 DEF NothingForgotten
<1>4. /\ other.stage \in {"write", "rest"} => mine \subseteq other.entries \cup Pending(job[a])
      /\ other.stage = "read" /\ other.task = "remove" =>
           mine \cap other.list \subseteq Pending(job[a])
  BY <1>1 DEF NothingLost
<1>5. other = job[Other(a)]
  OBVIOUS
<1> HIDE DEF other, o
<1> QED
  BY <1>2, <1>3, <1>4, <1>5, NotedMove DEF Recording

\* The step that writes what a job has got together for the ledger; when the other
\* job is in the middle of that, nothing more is said of the packages so far.
LEMMA WritingMove ==
  ASSUME Ordered, NothingForgotten, NothingLost, NEW a \in Actor, NEW j \in Job, Becomes(a, j),
         job[a].stage \in {"write", "rest"}, mine' = IF Amid(a) THEN {} ELSE mine,
         \/ j.stage \notin Recording /\ ledger' = job[a].entries
         \/ j.stage = "rest" /\ j.entries = job[a].entries
  PROVE  NothingForgotten' /\ NothingLost'
<1> DEFINE other == job[Other(a)]
<1>1. other = job[Other(a)]
  OBVIOUS
<1>2. mine \subseteq job[a].entries \cup Pending(other)
  BY DEF NothingLost
<1>3. CASE Amid(a)
  <2>1. mine' = {}
    BY <1>3
  <2> HIDE DEF other
  <2> QED
    BY <1>1, <2>1, NotedMove
<1>4. CASE ~Amid(a)
  <2>1. other.stage \notin Recording /\ mine' = mine
    BY <1>4 DEF Amid, Recording
  <2>2. /\ mine \subseteq ledger' \cup Pending(j) \cup Pending(other)
        /\ j.stage \in {"write", "rest"} => mine \subseteq j.entries \cup Pending(other)
        /\ j.stage # "read"
    BY <1>2 DEF Pending, Recording
  <2> HIDE DEF other
  <2> QED
    BY <1>1, <2>1, <2>2, NotedMove DEF Recording
<1> QED
  BY <1>3, <1>4

\* Every step forgets and loses nothing.
LEMMA NotedStep ==
  ASSUME Ordered, NothingForgotten, NothingLost, [Next]_vars
  PROVE  NothingForgotten' /\ NothingLost'
<1>1. CASE \E p \in Package : UserInstalls(p) \/ UserRemoves(p)
  <2>1. UNCHANGED <<job, ledger>> /\ mine' \subseteq mine
    BY <1>1 DEF UserInstalls, UserRemoves, PacmanRemoves, files
  <2> QED
    BY <2>1 DEF NothingForgotten, NothingLost, Pending
<1>2. CASE \/ \E found \in SUBSET Profile : RefreshDevices(found)
           \/ \E task \in {"install", "remove"} : AskToConfirm(task)
           \/ Bootstrap \/ Cleanup \/ \E f \in Profile : InstallFeature(f)
  <2>1. PICK a \in Actor, task \in Tasks, stage \in {"readProfiles", "confirm", "pacman"},
             list \in SUBSET Package, enable \in SUBSET Profile :
               Start(a, task, stage, list, enable)
    <3>1. /\ {} \in SUBSET Package /\ {} \in SUBSET Profile
          /\ (UNION {PackagesOf[f] : f \in Edition}) \ installed \in SUBSET Package
          /\ (ledger \ Runtime) \cap Orphans \in SUBSET Package
          /\ \A f \in Profile : PackagesOf[f] \ installed \in SUBSET Package
          /\ \A s \in SUBSET Profile : s \cup {RuntimeCore} \in SUBSET Profile
          /\ \A f \in Profile : {RuntimeCore, f} \in SUBSET Profile
          /\ {RuntimeCore} \in SUBSET Profile
      BY ProfileAssumption DEF Ordered, TypeOK
    <3>2. CASE \E found \in SUBSET Profile : RefreshDevices(found)
      BY <3>1, <3>2 DEF RefreshDevices, Actor, Tasks
    <3>3. CASE \E task \in {"install", "remove"} : AskToConfirm(task)
      BY <3>1, <3>3 DEF AskToConfirm, Actor, Tasks
    <3>4. CASE Bootstrap
      BY <3>1, <3>4 DEF Bootstrap, Actor, Tasks
    <3>5. CASE Cleanup
      BY <3>1, <3>5 DEF Cleanup, Actor, Tasks
    <3>6. CASE \E f \in Profile : InstallFeature(f)
      BY <3>1, <3>6 DEF InstallFeature, Actor, Tasks
    <3> QED
      BY <1>2, <3>2, <3>3, <3>4, <3>5, <3>6
  <2> DEFINE j == AtWork(task, stage, list, enable)
  <2>2. j \in Job /\ j.stage \notin Recording
    BY DEF AtWork, Job, Stages, Recording
  <2>3. /\ Becomes(a, j) /\ ledger' = ledger /\ mine' = mine /\ job[a] = NoJob
    BY <2>1 DEF Start, files
  <2>4. Pending(job[a]) = {}
    BY <2>3, NoJobType DEF Pending
  <2> HIDE DEF j
  <2> QED
    BY <2>2, <2>3, <2>4, QuietMove
<1>3. CASE Confirmed
  <2>0. PICK manifest \in Manifest :
          \/ Becomes("gui", NoJob)
          \/ Becomes("gui", [job["gui"] EXCEPT !.stage = "pacman",
                                !.list = Audited(job["gui"].task, manifest),
                                !.blind = ~manifest.readable])
    BY <1>3 DEF Confirmed, Ends
  <2> DEFINE list == Audited(job["gui"].task, manifest)
             blind == ~manifest.readable
             j == [job["gui"] EXCEPT !.stage = "pacman", !.list = list, !.blind = blind]
  <2>1. list \subseteq Package /\ blind \in BOOLEAN
    BY ProfileAssumption DEF Audited, MissingRequired, Removable, Required, Enabled, Ordered, TypeOK
  <2>2. j \in Job /\ j.stage \notin Recording
    BY <2>1 DEF Job, Stages, Actor, Ordered, TypeOK, Recording
  <2>3. /\ Becomes("gui", NoJob) \/ Becomes("gui", j)
        /\ "gui" \in Actor /\ ledger' = ledger /\ mine' = mine
    BY <1>3, <2>0 DEF Confirmed, files, Actor
  <2>4. Pending(job["gui"]) = {}
    BY <1>3 DEF Confirmed, Pending
  <2> HIDE DEF j, list
  <2> QED
    BY <2>2, <2>3, <2>4, QuietMove, NoJobType DEF Recording
<1>4. CASE \E a \in Actor : JobInstalls(a)
  <2>1. PICK a \in Actor : JobInstalls(a)
    BY <1>4
  <2>2. Pending(job[a]) = {} /\ ledger' = ledger
    BY <2>1 DEF JobInstalls, Pending, files
  <2>3. CASE Ends(a) /\ mine' = mine
    BY <2>2, <2>3, QuietMove, NoJobType DEF Ends, Recording
  <2>4. CASE Goes(a, "read") /\ mine' = mine \cup (job[a].list \ installed)
    <3> DEFINE j == [job[a] EXCEPT !.stage = "read"]
               other == job[Other(a)]
    <3>1. j \in Job /\ j.stage = "read" /\ j.task # "remove" /\ j.list = job[a].list
      BY <2>1 DEF Job, Stages, Ordered, TypeOK, JobInstalls
    <3>2. Pending(j) = job[a].list
      BY <3>1 DEF Pending
    <3>3. Other(a) \in Actor /\ Other(Other(a)) = a /\ Actor = {a, Other(a)}
      BY DEF Actor, Other
    <3>4. mine \subseteq ledger \cup Pending(other)
      BY <3>3, <2>2 DEF NothingForgotten
    <3>5. /\ other.stage \in {"write", "rest"} => mine \subseteq other.entries
          /\ other.stage = "read" /\ other.task = "remove" => mine \cap other.list = {}
      BY <3>3, <2>2 DEF NothingLost
    <3>6. Becomes(a, j) /\ other = job[Other(a)]
      BY <2>4 DEF Goes
    <3> HIDE DEF j, other
    <3> QED
      BY <2>2, <2>4, <3>1, <3>2, <3>4, <3>5, <3>6, NotedMove
  <2> QED
    BY <2>1, <2>3, <2>4 DEF JobInstalls
<1>5. CASE JobRemoves
  <2>1. /\ Pending(job["gui"]) = {} /\ ledger' = ledger /\ "gui" \in Actor
        /\ mine' = mine \ job["gui"].list
    BY <1>5 DEF JobRemoves, PacmanRemoves, Pending, files, Actor
  <2>2. CASE Ends("gui")
    BY <2>1, <2>2, QuietMove, NoJobType DEF Ends, Recording
  <2>3. CASE Goes("gui", "read")
    <3> DEFINE j == [job["gui"] EXCEPT !.stage = "read"]
               other == job[Other("gui")]
    <3>1. j \in Job /\ j.stage = "read" /\ j.task = "remove" /\ j.list = job["gui"].list
      BY <1>5, <2>1 DEF Job, Stages, Ordered, TypeOK, JobRemoves
    <3>2. Pending(j) = {}
      BY <3>1 DEF Pending
    <3>3. Other("gui") \in Actor /\ Other(Other("gui")) = "gui" /\ Actor = {"gui", Other("gui")}
      BY DEF Actor, Other
    <3>4. mine \subseteq ledger \cup Pending(other)
      BY <3>3, <2>1 DEF NothingForgotten
    <3>5. /\ other.stage \in {"write", "rest"} => mine \subseteq other.entries
          /\ other.stage = "read" /\ other.task = "remove" => mine \cap other.list = {}
      BY <3>3, <2>1 DEF NothingLost
    <3>6. Becomes("gui", j) /\ other = job[Other("gui")]
      BY <2>3 DEF Goes
    <3> HIDE DEF j, other
    <3> QED
      BY <2>1, <3>1, <3>2, <3>4, <3>5, <3>6, NotedMove
  <2> QED
    BY <1>5, <2>2, <2>3 DEF JobRemoves
<1>6. CASE CleanupRemoves
  <2>1. /\ Becomes("script", NoJob) /\ "script" \in Actor /\ Pending(job["script"]) = {}
        /\ ledger' = ledger /\ mine' \subseteq mine
    BY <1>6 DEF CleanupRemoves, Ends, PacmanRemoves, Pending, files, Actor
  <2> QED
    BY <2>1, QuietMove, NoJobType DEF Recording
<1>7. CASE \E a \in Actor : ReadsLedger(a)
  <2>1. PICK a \in Actor : ReadsLedger(a)
    BY <1>7
  <2> DEFINE j == [job[a] EXCEPT !.stage = "write", !.entries = Recorded(a)]
             other == job[Other(a)]
  <2>2. /\ j \in Job /\ j.stage = "write" /\ j.task = job[a].task
        /\ j.list = job[a].list /\ j.entries = Recorded(a)
    BY DEF Job, Stages, Recorded, Ordered, TypeOK
  <2>3. /\ Becomes(a, j) /\ ledger' = ledger /\ mine' = mine /\ job[a].stage = "read"
        /\ other = job[Other(a)]
    BY <2>1 DEF ReadsLedger, files
  <2>4. Pending(j) = Pending(job[a])
    BY <2>2, <2>3 DEF Pending
  <2>5. Other(a) \in Actor /\ Other(Other(a)) = a /\ Actor = {a, Other(a)}
    BY DEF Actor, Other
  <2>6. mine \subseteq ledger \cup Pending(j) \cup Pending(other)
    BY <2>4, <2>5 DEF NothingForgotten
  <2>7. /\ other.stage \in {"write", "rest"} => mine \subseteq other.entries \cup Pending(j)
        /\ other.stage = "read" /\ other.task = "remove" => mine \cap other.list \subseteq Pending(j)
    BY <2>4, <2>5 DEF NothingLost
  <2>8. mine \subseteq j.entries \cup Pending(other)
    <3>1. CASE job[a].task = "remove"
      <4>1. Pending(j) = {} /\ j.entries = ledger \ job[a].list
        BY <2>2, <3>1 DEF Pending, Recorded
      <4>2. mine \cap job[a].list \subseteq Pending(other)
        BY <2>3, <3>1 DEF NothingLost
      <4> QED
        BY <2>6, <4>1, <4>2
    <3>2. CASE job[a].task # "remove"
      <4>1. Pending(j) = job[a].list /\ j.entries = ledger \cup job[a].list
        BY <2>2, <3>2 DEF Pending, Recorded
      <4> QED
        BY <2>6, <4>1
    <3> QED
      BY <3>1, <3>2
  <2> HIDE DEF j, other
  <2> QED
    BY <2>2, <2>3, <2>6, <2>7, <2>8, NotedMove
<1>8. CASE GuiWritesLedger
  <2>1. /\ Becomes("gui", NoJob) /\ "gui" \in Actor /\ job["gui"].stage = "write"
        /\ ledger' = job["gui"].entries /\ mine' = IF Amid("gui") THEN {} ELSE mine
    BY <1>8 DEF GuiWritesLedger, Writes, Ends, Actor
  <2> QED
    BY <2>1, WritingMove, NoJobType DEF Recording
<1>9. CASE ScriptTruncatesLedger
  <2> DEFINE j == [job["script"] EXCEPT !.stage = "rest"]
  <2>1. j \in Job /\ j.stage = "rest" /\ j.entries = job["script"].entries
    BY DEF Job, Stages, Actor, Ordered, TypeOK
  <2>2. /\ Becomes("script", j) /\ "script" \in Actor /\ job["script"].stage = "write"
        /\ mine' = IF Amid("script") THEN {} ELSE mine
    BY <1>9 DEF ScriptTruncatesLedger, Writes, Goes, Actor
  <2> HIDE DEF j
  <2> QED
    BY <2>1, <2>2, WritingMove
<1>10. CASE ScriptWritesLedger
  <2> DEFINE j == AtWork(job["script"].task, "readProfiles", {}, job["script"].enable)
  <2>1. j \in Job /\ j.stage \notin Recording
    BY DEF AtWork, Job, Stages, Actor, Ordered, TypeOK, Recording
  <2>2. /\ Becomes("script", j) /\ "script" \in Actor /\ job["script"].stage = "rest"
        /\ ledger' = job["script"].entries /\ mine' = IF Amid("script") THEN {} ELSE mine
    BY <1>10 DEF ScriptWritesLedger, Writes, Actor
  <2> HIDE DEF j
  <2> QED
    BY <2>1, <2>2, WritingMove
<1>11. CASE \E a \in Actor : ReadsProfiles(a)
  <2>1. PICK a \in Actor : ReadsProfiles(a)
    BY <1>11
  <2> DEFINE j == AtWork(job[a].task, "writeProfiles", {}, job[a].enable \cup profiles)
  <2>2. j \in Job /\ j.stage \notin Recording
    BY DEF AtWork, Job, Stages, Ordered, TypeOK, Recording
  <2>3. /\ Becomes(a, j) /\ ledger' = ledger /\ mine' = mine /\ Pending(job[a]) = {}
    BY <2>1 DEF ReadsProfiles, files, Pending
  <2> HIDE DEF j
  <2> QED
    BY <2>2, <2>3, QuietMove
<1>12. CASE ScriptTruncatesProfiles
  <2> DEFINE j == [job["script"] EXCEPT !.stage = "restProfiles"]
  <2>1. j \in Job /\ j.stage \notin Recording
    BY DEF Job, Stages, Actor, Ordered, TypeOK, Recording
  <2>2. /\ Becomes("script", j) /\ "script" \in Actor /\ ledger' = ledger /\ mine' = mine
        /\ Pending(job["script"]) = {}
    BY <1>12 DEF ScriptTruncatesProfiles, Goes, Pending, Actor
  <2> HIDE DEF j
  <2> QED
    BY <2>1, <2>2, QuietMove
<1>13. CASE GuiWritesProfiles \/ ScriptWritesProfiles
  <2>1. PICK a \in Actor : /\ Becomes(a, NoJob) /\ Pending(job[a]) = {}
                           /\ ledger' = ledger /\ mine' = mine
    BY <1>13 DEF GuiWritesProfiles, ScriptWritesProfiles, Ends, Pending, Actor
  <2> QED
    BY <2>1, QuietMove, NoJobType DEF Recording
<1>14. CASE \E a \in Actor : GivesUp(a)
  <2>1. PICK a \in Actor : GivesUp(a)
    BY <1>14
  <2>2. /\ Becomes(a, NoJob) /\ ledger' = ledger /\ mine' \subseteq mine
        /\ mine' \cap Pending(job[a]) = {}
    BY <2>1 DEF GivesUp, Ends, Pending, files
  <2> QED
    BY <2>2, QuietMove, NoJobType DEF Recording
<1>15. CASE UNCHANGED vars
  BY <1>15 DEF vars, files, NothingForgotten, NothingLost, Pending
<1> QED
  BY <1>1, <1>2, <1>3, <1>4, <1>5, <1>6, <1>7, <1>8, <1>9, <1>10, <1>11, <1>12, <1>13,
     <1>14, <1>15 DEF Next, User, Gui, Script, Either

-----------------------------------------------------------------------------
\* The inductive invariant: the types and the order of stages, and each of the
\* three ways in which the jobs keep out of trouble.
IInv == Ordered /\ KeptApart /\ CoreApart /\ NothingForgotten /\ NothingLost

\* It holds at first.
LEMMA IInvInit == Init => IInv
<1> SUFFICES ASSUME Init PROVE IInv
  OBVIOUS
<1>1. \A a \in Actor : job[a] = NoJob
  BY DEF Init
<1>2. ledger = {} /\ mine = {} /\ "gui" \in Actor
  BY DEF Init, Actor
<1> QED
  BY <1>1, <1>2, OrderedInit, NoJobType
     DEF IInv, KeptApart, CoreApart, NothingForgotten, NothingLost, Enabling

\* Every step preserves it.
LEMMA IInvStep == IInv /\ [Next]_vars => IInv'
BY OrderedStep, KeptStep, CoreStep, NotedStep DEF IInv

\* It holds in every state.
LEMMA Invariance == Spec => []IInv
BY IInvInit, IInvStep, PTL DEF Spec

\* The ledger and the list of profiles hold packages and profiles, the runtime's
\* profile among them, and jobs are jobs, in every state.
THEOREM TypeCorrect == Spec => []TypeOK
<1>1. IInv => TypeOK
  BY DEF IInv, Ordered
<1> QED
  BY <1>1, Invariance, PTL

\* Neither the maintenance page nor the clean-up removes by name what was there
\* before TDriver and never went away, whatever jobs overlap or are cut short.
THEOREM PreexistingSafe == Spec => PreexistingKept
<1>1. IInv /\ [Next]_vars =>
        [/\ JobRemoves => kept' = kept
         /\ CleanupRemoves => kept \cap job["script"].list \subseteq kept']_vars
  <2> SUFFICES ASSUME IInv, [Next]_vars
               PROVE  /\ JobRemoves => kept' = kept
                      /\ CleanupRemoves => kept \cap job["script"].list \subseteq kept'
    OBVIOUS
  <2>1. job["gui"].list \cap kept = {} /\ job["script"].list \cap kept = {}
    BY DEF IInv, KeptApart, Actor
  <2>2. JobRemoves => kept' = kept \ job["gui"].list
    BY DEF JobRemoves, PacmanRemoves
  <2> QED
    BY <2>1, <2>2
<1> QED
  BY <1>1, Invariance, PTL DEF Spec, PreexistingKept

\* The maintenance page never removes a package of the runtime, if it could read
\* the manifest when it made its list.
THEOREM RuntimeSafe == Spec => CoreKept
<1>1. IInv /\ [Next]_vars =>
        [JobRemoves /\ ~job["gui"].blind =>
           (installed \ installed') \cap PackagesOf[RuntimeCore] = {}]_vars
  <2> SUFFICES ASSUME IInv, JobRemoves, ~job["gui"].blind
               PROVE  (installed \ installed') \cap PackagesOf[RuntimeCore] = {}
    OBVIOUS
  <2>1. job["gui"].list \cap PackagesOf[RuntimeCore] = {}
    BY DEF IInv, CoreApart, JobRemoves
  <2> QED
    BY <2>1 DEF JobRemoves, PacmanRemoves
<1> QED
  BY <1>1, Invariance, PTL DEF Spec, CoreKept

\* What TDriver installed is in its ledger or about to get there, unless a job
\* was cut short or two of them wrote at once.
THEOREM LedgerComplete == Spec => []NothingForgotten
<1>1. IInv => NothingForgotten
  BY DEF IInv
<1> QED
  BY <1>1, Invariance, PTL

-----------------------------------------------------------------------------
(* The setup of a backend                                                  *)

UnitRuns == [enabled |-> TRUE, active |-> TRUE]

\* A backend that is set up, after this boot and the next.
SetUp == ydotool = TRUE /\ uinput = TRUE /\ persisted = TRUE /\ unit = UnitRuns

\* What an installation without a failure has done when it is at a command, which
\* nothing undoes while the GUI runs.
DoneSoFar ==
  /\ app = "off" => dialog = "none" /\ ~flawless
  /\ flawless /\ dialog \in {"module", "persist", "enable", "inspect"} => ydotool = TRUE
  /\ flawless /\ dialog \in {"persist", "enable", "inspect"} => uinput = TRUE
  /\ flawless /\ dialog \in {"enable", "inspect"} => persisted = TRUE
  /\ flawless /\ dialog = "inspect" => unit = UnitRuns

SetupInv == DoneSoFar /\ (configured => SetUp)

LEMMA SetupStart == AssistantInit => SetupInv
  BY DEF AssistantInit, ProcessInit, SetupInit, SetupInv, DoneSoFar

\* Boots, failures and interference keep it, and so does an installation over
\* what an earlier one has done.
LEMMA SetupStep == SetupInv /\ [AssistantNext]_assistantVars => SetupInv'
<1> SUFFICES ASSUME SetupInv, [AssistantNext]_assistantVars
             PROVE  SetupInv'
  OBVIOUS
<1> USE DEF SetupInv, DoneSoFar, SetUp, backend
<1>0. CASE UNCHANGED assistantVars
  BY <1>0 DEF assistantVars, setupVars
<1>1. CASE AssistantLaunches
  BY <1>1 DEF AssistantLaunches, Launches, SetupLaunches
<1>2. CASE AssistantEnters
  BY <1>2 DEF AssistantEnters, EntersLoop, setupVars
<1>3. CASE AssistantDies
  BY <1>3 DEF AssistantDies, Dies, SetupDies
<1>4. CASE SetupNext /\ UNCHANGED app
  <2>1. CASE Boots
    <3>1. ASSUME configured
          PROVE  uinput' = TRUE /\ unit' = UnitRuns
      <4>1. uinput' = TRUE
        BY <2>1, <3>1 DEF Boots
      <4>2. (unit.enabled /\ ydotool /\ uinput') = TRUE
        BY <3>1, <4>1 DEF UnitRuns
      <4> QED
        BY <2>1, <3>1, <4>1, <4>2 DEF Boots, UnitRuns
    <3> QED
      BY <1>4, <2>1, <3>1 DEF Boots
  <2>2. CASE Interferes
    BY <1>4, <2>2 DEF Interferes
  <2>3. CASE Asking
    <3>1. UNCHANGED <<ydotool, uinput, persisted, unit, flawless, configured>>
      BY <2>3 DEF Asking, ChecksAtStart, ChecksForMapping, Rechecks, ClosesSetup, Opens
    <3>2. dialog' = dialog \/ dialog' = "none" \/ (dialog' = "open" /\ app = "on")
      BY <2>3 DEF Asking, ChecksAtStart, ChecksForMapping, Rechecks, ClosesSetup, Opens
    <3> QED
      BY <1>4, <3>1, <3>2
  <2>4. CASE Installs
    BY <1>4, <2>4 DEF Installs
  <2>5. CASE InstallsPackage
    BY <1>4, <2>5 DEF InstallsPackage, Fails
  <2>6. CASE LoadsModule
    <3>1. configured => uinput' = TRUE
      BY <2>6 DEF LoadsModule
    <3>2. \/ dialog' = "persist" /\ uinput' = TRUE /\ flawless' = flawless
          \/ dialog' = "open" /\ flawless' = FALSE
      BY <2>6 DEF LoadsModule, Fails
    <3> QED
      BY <1>4, <2>6, <3>1, <3>2 DEF LoadsModule
  <2>7. CASE PersistsModule
    <3>1. configured => persisted' = TRUE
      BY <2>7 DEF PersistsModule
    <3>2. \/ dialog' = "enable" /\ persisted' = TRUE /\ flawless' = flawless
          \/ dialog' = "open" /\ flawless' = FALSE
      BY <2>7 DEF PersistsModule, Fails
    <3> QED
      BY <1>4, <2>7, <3>1, <3>2 DEF PersistsModule
  <2>8. CASE EnablesService
    <3>1. configured => unit' = UnitRuns
      BY <2>8 DEF EnablesService, UnitRuns
    <3>2. flawless' => unit' = UnitRuns
      BY <2>8 DEF EnablesService, UnitRuns
    <3> QED
      BY <1>4, <2>8, <3>1, <3>2 DEF EnablesService
  <2>9. CASE InspectsAgain
    BY <1>4, <2>9 DEF InspectsAgain
  <2> QED
    BY <1>4, <2>1, <2>2, <2>3, <2>4, <2>5, <2>6, <2>7, <2>8, <2>9
    DEF SetupNext, World, Configuring
<1> QED
  BY <1>0, <1>1, <1>2, <1>3, <1>4 DEF AssistantNext

\* A backend that an installation without a failure has set up is ready, after
\* every boot, as long as nobody else changes it.
THEOREM BackendStaysReady == AssistantSpec => []BackendStays
<1>1. SetupInv => BackendStays
  BY DEF SetupInv, SetUp, UnitRuns, BackendStays, Ready
<1> QED
  BY <1>1, SetupStart, SetupStep, PTL DEF AssistantSpec

-----------------------------------------------------------------------------
(* The maintenance page                                                    *)

\* A handler that will end in an audit, or has yet to come to it.
WillAudit(c) == c.at = "before" \/ c.of = "change"

\* Only the innermost handler works, and the page is busy just then; a page that does
\* not show what a handler left has one that will bring it up to date.
Nested ==
  /\ calls \in Seq(Call)
  /\ \A i \in 1..Len(calls) : calls[i].at = "before" => i = Len(calls)
  /\ busy = (calls # <<>> /\ calls[Len(calls)].at = "before")
  /\ "page" \in stale => \E i \in 1..Len(calls) : WillAudit(calls[i])

\* No handler is at work.
LEMMA NoneNested ==
  ASSUME calls' = <<>>, busy' = FALSE, stale' = {}
  PROVE  Nested'
<1>1. <<>> \in Seq(Call) /\ Len(<<>>) = 0
  OBVIOUS
<1>2. calls' \in Seq(Call) /\ \A i \in 1..Len(calls') : FALSE
  BY <1>1
<1>3. busy' = (calls' # <<>> /\ calls'[Len(calls')].at = "before")
  OBVIOUS
<1>4. "page" \notin stale'
  OBVIOUS
<1> QED
  BY <1>2, <1>3, <1>4 DEF Nested

\* A handler starts inside, or in the place of, the ones below it.
LEMMA StartsNested ==
  ASSUME NEW below \in Seq(Call), NEW f \in {"refresh", "change"},
         \A i \in 1..Len(below) : below[i].at = "after",
         calls' = Append(below, [of |-> f, at |-> "before"]), busy' = TRUE
  PROVE  Nested'
<1> DEFINE c == [of |-> f, at |-> "before"]
<1>1. c \in Call /\ c.at = "before"
  BY DEF Call
<1> HIDE DEF c
<1>2. /\ calls' \in Seq(Call) /\ Len(calls') = Len(below) + 1 /\ Len(below) \in Nat
      /\ calls'[Len(calls')] = c
      /\ \A i \in 1..Len(below) : calls'[i] = below[i]
  BY <1>1, AppendProperties, LenProperties DEF c
<1>3. \A i \in 1..Len(calls') : i # Len(calls') => i \in 1..Len(below)
  BY <1>2
<1>4. Len(calls') \in 1..Len(calls') /\ calls' # <<>>
  BY <1>2
<1>5. \A i \in 1..Len(calls') : i # Len(calls') => calls'[i].at = "after"
  BY <1>2, <1>3
<1>6. busy' = (calls' # <<>> /\ calls'[Len(calls')].at = "before")
  BY <1>1, <1>2, <1>4
<1>7. WillAudit(calls'[Len(calls')])
  BY <1>1, <1>2 DEF WillAudit
<1> QED
  BY <1>2, <1>4, <1>5, <1>6, <1>7 DEF Nested, WillAudit

\* All handlers of a page that is not busy have done their work.
LEMMA NotBusy ==
  ASSUME Nested, ~busy
  PROVE  \A i \in 1..Len(calls) : calls[i].at = "after"
<1> SUFFICES ASSUME NEW i \in 1..Len(calls)
             PROVE  calls[i].at = "after"
  OBVIOUS
<1>1. calls[i] \in Call
  BY DEF Nested
<1>2. calls # <<>>
  BY DEF Nested
<1>3. calls[i].at # "before"
  BY <1>2 DEF Nested
<1> QED
  BY <1>1, <1>3 DEF Call

\* The audit, or pacman, of the innermost handler.
LEMMA WorksNested ==
  ASSUME Nested, Works
  PROVE  Nested'
<1> DEFINE n == Len(calls)
<1>1. calls \in Seq(Call) /\ n \in Nat /\ n >= 1 /\ calls[n] \in Call
  BY LenProperties DEF Nested, Works
<1>2. /\ calls' = [calls EXCEPT ![n].at = "after"] /\ busy' = FALSE
      /\ calls[n].of = "refresh" => stale' = {}
  BY DEF Works, Inner
<1>3. calls[n].of \in {"refresh", "change"}
  BY <1>1 DEF Call
<1>4. [calls[n] EXCEPT !.at = "after"] \in Call
  BY <1>1 DEF Call
<1>5. calls' \in Seq(Call) /\ Len(calls') = n
  BY <1>1, <1>2, <1>4, ExceptSeq
<1>6. \A i \in 1..n : i # n => calls'[i] = calls[i]
  BY <1>1, <1>2
<1>7. calls'[n].at = "after" /\ calls'[n].of = calls[n].of
  BY <1>1, <1>2 DEF Call
<1> HIDE DEF n
<1>8. \A i \in 1..n : i # n => calls[i].at # "before"
  BY DEF Nested, n
<1>9. \A i \in 1..n : calls'[i].at # "before"
  BY <1>6, <1>7, <1>8
<1>10. "page" \in stale' => WillAudit(calls'[n])
  BY <1>2, <1>3, <1>7 DEF WillAudit
<1>11. n \in 1..n
  BY <1>1
<1> QED
  BY <1>2, <1>5, <1>9, <1>10, <1>11 DEF Nested

\* A handler returns; one that has changed packages audits first.
LEMMA ReturnsNested ==
  ASSUME Nested, Returns
  PROVE  Nested'
<1> DEFINE n == Len(calls)
<1>1. calls \in Seq(Call) /\ n \in Nat /\ n >= 1 /\ calls[n] \in Call /\ calls[n].at = "after"
  BY LenProperties DEF Nested, Returns, Inner
<1>2. ~busy
  BY <1>1 DEF Nested
<1>3. /\ Others \in Seq(Call) /\ Len(Others) = n - 1
      /\ \A i \in 1..n - 1 : Others[i] = calls[i]
  <2>1. 1 \in 1..n + 1 /\ n - 1 \in 1 - 1..n /\ n - 1 \in Nat
    BY <1>1
  <2>2. Others = SubSeq(calls, 1, n - 1)
    BY DEF Others
  <2>3. Others \in Seq(Call)
    BY <1>1, <2>1, <2>2
  <2>4. \A i \in 1..n - 1 : calls[i] \in Call
    BY <1>1
  <2>5. Len(Others) = IF 1 <= n - 1 THEN (n - 1) - 1 + 1 ELSE 0
    BY <1>1, <2>1, <2>2, <2>4, SubSeqProperties
  <2>6. Len(Others) = n - 1
    <3> HIDE DEF n
    <3>1. \A k \in Nat : k >= 1 => (IF 1 <= k - 1 THEN (k - 1) - 1 + 1 ELSE 0) = k - 1
      OBVIOUS
    <3> QED
      BY <1>1, <2>5, <3>1
  <2>7. \A i \in 1..n - 1 : Others[i] = calls[i]
    BY <1>1, <2>1, <2>2
  <2> QED
    BY <2>3, <2>6, <2>7
<1>4. \A i \in 1..Len(Others) : Others[i].at = "after"
  BY <1>1, <1>2, <1>3, NotBusy
<1>5. CASE calls[n].of = "change"
  <2>1. calls' = Append(Others, [of |-> "refresh", at |-> "before"]) /\ busy' = TRUE
    BY <1>2, <1>5 DEF Returns, Inner
  <2> QED
    BY <1>3, <1>4, <2>1, StartsNested
<1>6. CASE calls[n].of # "change"
  <2>1. calls' = Others /\ busy' = busy /\ stale' = stale
    BY <1>6 DEF Returns, Inner
  <2>2. busy' = (calls' # <<>> /\ calls'[Len(calls')].at = "before")
    <3>1. CASE calls' = <<>>
      BY <1>2, <2>1, <3>1 DEF Nested
    <3>2. CASE calls' # <<>>
      <4>1. Len(calls') \in 1..Len(calls')
        BY <1>1, <1>3, <2>1, <3>2
      <4> QED
        BY <1>2, <1>4, <2>1, <4>1 DEF Nested
    <3> QED
      BY <3>1, <3>2
  <2>3. ASSUME NEW i \in 1..n, WillAudit(calls[i])
        PROVE  i \in 1..n - 1
    BY <1>1, <1>6, <2>3 DEF WillAudit
  <2>4. ASSUME "page" \in stale
        PROVE  \E i \in 1..Len(calls') : WillAudit(calls'[i])
    BY <1>3, <2>1, <2>3, <2>4 DEF Nested
  <2> QED
    BY <1>3, <1>4, <2>1, <2>2, <2>4 DEF Nested
<1> QED
  BY <1>5, <1>6

\* Every step of the two pages and of their process keeps it.
LEMMA NestedStep == Nested /\ [PagesNext]_pagesVars => Nested'
<1> SUFFICES ASSUME Nested, [PagesNext]_pagesVars
             PROVE  Nested'
  OBVIOUS
<1>0. ASSUME UNCHANGED <<busy, calls>>, "page" \in stale' => "page" \in stale
      PROVE  Nested'
  BY <1>0 DEF Nested, WillAudit
<1>1. CASE GuiLaunches
  BY <1>1, NoneNested DEF GuiLaunches, PageLaunches, Afresh
<1>2. CASE GuiEnters
  BY <1>0, <1>2 DEF GuiEnters, pageVars
<1>3. CASE GuiDies
  BY <1>3, NoneNested DEF GuiDies, PageDies, Afresh
<1>4. CASE ProfileStep
  BY <1>0, <1>4 DEF ProfileStep, pageVars
<1>5. CASE PageStep
  <2>1. ASSUME NEW f \in {"refresh", "change"}, ~busy, Starts(f)
        PROVE  Nested'
    <3>1. calls \in Seq(Call)
      BY DEF Nested
    <3> QED
      BY <2>1, <3>1, NotBusy, StartsNested DEF Starts
  <2>2. CASE RefreshesDevices
    <3>1. CASE busy
      <4>1. UNCHANGED <<busy, calls>> /\ calls # <<>> /\ calls[Len(calls)].at = "before"
        BY <2>2, <3>1 DEF RefreshesDevices, Nested
      <4>2. Len(calls) \in 1..Len(calls)
        BY <4>1, LenProperties DEF Nested
      <4> QED
        BY <4>1, <4>2 DEF Nested, WillAudit
    <3>2. CASE ~busy
      BY <2>1, <2>2, <3>2 DEF RefreshesDevices
    <3> QED
      BY <3>1, <3>2
  <2>3. CASE ChecksDependencies \/ ChangesPackages
    BY <2>1, <2>3 DEF ChecksDependencies, ChangesPackages
  <2>4. CASE Works
    BY <2>4, WorksNested
  <2>5. CASE Returns
    BY <2>5, ReturnsNested
  <2>6. CASE OpensPreparation \/ PreparesBackend \/ ClosesPreparation
    BY <1>0, <2>6 DEF OpensPreparation, PreparesBackend, ClosesPreparation
  <2> QED
    BY <1>5, <2>2, <2>3, <2>4, <2>5, <2>6 DEF PageStep, PageNext
<1>6. CASE UNCHANGED pagesVars
  BY <1>0, <1>6 DEF pagesVars, pageVars
<1> QED
  BY <1>1, <1>2, <1>3, <1>4, <1>5, <1>6 DEF PagesNext

\* When all handlers of the maintenance page have returned, it shows what they have
\* left, and its buttons work.
THEOREM PageStaysCurrent == PagesSpec => []PageIsCurrent
<1>1. PagesInit => Nested
  <2> SUFFICES ASSUME PagesInit
               PROVE  Nested
    OBVIOUS
  <2>1. calls = <<>> /\ busy = FALSE /\ stale = {}
    BY DEF PagesInit, PageInit
  <2>2. <<>> \in Seq(Call) /\ \A i \in 1..Len(<<>>) : FALSE
    OBVIOUS
  <2>3. busy = (calls # <<>> /\ calls[Len(calls)].at = "before")
    BY <2>1
  <2> QED
    BY <2>1, <2>2, <2>3 DEF Nested
<1>2. Nested => PageIsCurrent
  <2> SUFFICES ASSUME Nested, app = "on", calls = <<>>
               PROVE  "page" \notin stale /\ ~busy
    BY DEF PageIsCurrent
  <2>1. ~busy
    BY DEF Nested
  <2>2. \A i \in 1..Len(calls) : FALSE
    OBVIOUS
  <2> QED
    BY <2>1, <2>2 DEF Nested
<1> QED
  BY <1>1, <1>2, NestedStep, PTL DEF PagesSpec

-----------------------------------------------------------------------------
(* Types of the pages and of the setup                                     *)

LEMMA SetupTypeStep == AssistantTypeOK /\ [AssistantNext]_assistantVars => AssistantTypeOK'
<1> SUFFICES ASSUME AssistantTypeOK, [AssistantNext]_assistantVars
             PROVE  AssistantTypeOK'
  OBVIOUS
<1> USE DEF AssistantTypeOK, SetupTypeOK, Phases, Steps, backend
<1>0. Inspected \subseteq BOOLEAN
  BY DEF Inspected, Ready, Machine, Unit
<1>1. CASE UNCHANGED assistantVars
  BY <1>1 DEF assistantVars, setupVars
<1>2. CASE AssistantLaunches
  BY <1>2 DEF AssistantLaunches, Launches, SetupLaunches
<1>3. CASE AssistantEnters
  BY <1>3 DEF AssistantEnters, EntersLoop, setupVars
<1>4. CASE AssistantDies
  BY <1>4 DEF AssistantDies, Dies, SetupDies
<1>5. CASE SetupNext /\ UNCHANGED app
  <2>1. CASE Boots
    <3>1. uinput' \in BOOLEAN
      BY <2>1 DEF Boots
    <3>2. unit' \in Unit
      BY <2>1, <3>1 DEF Boots, Unit
    <3> QED
      BY <1>5, <2>1, <3>1, <3>2 DEF Boots
  <2>2. CASE Interferes
    BY <1>5, <2>2 DEF Interferes
  <2>3. CASE ChecksAtStart
    BY <1>0, <1>5, <2>3 DEF ChecksAtStart, Opens
  <2>4. CASE ChecksForMapping
    BY <1>0, <1>5, <2>4 DEF ChecksForMapping, Opens
  <2>5. CASE Rechecks
    BY <1>0, <1>5, <2>5 DEF Rechecks
  <2>6. CASE ClosesSetup
    BY <1>5, <2>6 DEF ClosesSetup
  <2>7. CASE Installs
    BY <1>5, <2>7 DEF Installs
  <2>8. CASE InstallsPackage
    <3>1. ydotool' \in BOOLEAN
      BY <2>8 DEF InstallsPackage
    <3> QED
      BY <1>5, <2>8, <3>1 DEF InstallsPackage, Fails
  <2>9. CASE LoadsModule
    <3>1. uinput' \in BOOLEAN
      BY <2>9 DEF LoadsModule
    <3> QED
      BY <1>5, <2>9, <3>1 DEF LoadsModule, Fails
  <2>10. CASE PersistsModule
    <3>1. persisted' \in BOOLEAN
      BY <2>10 DEF PersistsModule
    <3> QED
      BY <1>5, <2>10, <3>1 DEF PersistsModule, Fails
  <2>11. CASE EnablesService
    <3>1. unit' \in Unit
      <4>1. [unit EXCEPT !.enabled = TRUE] \in Unit /\ [enabled |-> TRUE, active |-> TRUE] \in Unit
        BY DEF Unit
      <4> QED
        BY <2>11, <4>1 DEF EnablesService
    <3>2. flawless' \in BOOLEAN
      BY <2>11 DEF EnablesService
    <3> QED
      BY <1>5, <2>11, <3>1, <3>2 DEF EnablesService
  <2>12. CASE InspectsAgain
    BY <1>0, <1>5, <2>12 DEF InspectsAgain
  <2> QED
    BY <1>5, <2>1, <2>2, <2>3, <2>4, <2>5, <2>6, <2>7, <2>8, <2>9, <2>10, <2>11, <2>12
    DEF SetupNext, World, Asking, Configuring
<1> QED
  BY <1>1, <1>2, <1>3, <1>4, <1>5 DEF AssistantNext

\* The type invariant of the setup.
THEOREM SetupTypeCorrect == AssistantSpec => []AssistantTypeOK
<1>1. AssistantInit => AssistantTypeOK
  <2>1. [enabled |-> FALSE, active |-> FALSE] \in Unit
    BY DEF Unit
  <2> QED
    BY <2>1 DEF AssistantInit, ProcessInit, SetupInit, AssistantTypeOK, SetupTypeOK, Phases
<1> QED
  BY <1>1, SetupTypeStep, PTL DEF AssistantSpec

\* Sets of profiles, and the defaults.
LEMMA OfProfiles ==
  ASSUME NEW p \in Profiles
  PROVE  DOMAIN p \subseteq Id /\ \A i \in DOMAIN p : p[i] \in Settings
  BY DEF Profiles

LEMMA InProfiles ==
  ASSUME NEW ids \in SUBSET Id, NEW p \in [ids -> Settings]
  PROVE  p \in Profiles
  BY DEF Profiles

LEMMA DefaultProfiles ==
  /\ NoProfiles \in Profiles
  /\ Defaults \in Profiles /\ First \in DOMAIN Defaults /\ First \in Id
<1>1. NoProfiles \in [{} -> Settings]
  BY DEF NoProfiles
<1>2. \A i \in DOMAIN DefaultOf : Plain(DefaultOf[i]) \in Settings
  BY EditorAssumption DEF Plain, Settings
<1>3. Defaults \in [DOMAIN DefaultOf -> Settings] /\ DOMAIN Defaults = DOMAIN DefaultOf
  BY <1>2 DEF Defaults
<1>4. DOMAIN DefaultOf \in SUBSET Id /\ First \in DOMAIN DefaultOf
  BY EditorAssumption
<1> QED
  BY <1>1, <1>3, <1>4, InProfiles

LEMMA EnterTypes ==
  ASSUME ProfileTypeOK, ProfileEnters
  PROVE  ProfileTypeOK'
<1>1. /\ memory' \in Profiles /\ DOMAIN memory' # {}
      /\ file' \in Profiles \cup {Missing, Garbled} /\ readable' \in BOOLEAN
  <2>1. CASE DOMAIN memory # {}
    BY <2>1 DEF ProfileEnters, EnsuresDefaults, ProfileTypeOK
  <2>2. CASE DOMAIN memory = {}
    BY <2>2, DefaultProfiles DEF ProfileEnters, EnsuresDefaults, Stores, ProfileTypeOK
  <2> QED
    BY <2>1, <2>2
<1>2. row' \in DOMAIN memory'
  BY <1>1 DEF ProfileEnters
<1>3. row' \in Id /\ memory'[row'] \in Settings
  BY <1>1, <1>2, OfProfiles
<1>4. field' \in Text
  BY <1>3 DEF ProfileEnters, Settings
<1> QED
  BY <1>1, <1>3, <1>4 DEF ProfileEnters, ProfileTypeOK

LEMMA LaunchTypes ==
  ASSUME ProfileTypeOK, ProfileLaunches \/ ProfileDies
  PROVE  ProfileTypeOK'
<1>1. Loaded \in Profiles
  BY DefaultProfiles DEF Loaded, ProfileTypeOK
<1>2. memory' \in Profiles /\ row' = First /\ field' = Blank /\ asked' = {} /\ clashed' = FALSE
  BY <1>1, DefaultProfiles DEF ProfileLaunches, ProfileDies
<1> QED
  BY <1>2, DefaultProfiles DEF ProfileLaunches, ProfileDies, ProfileTypeOK

LEMMA DaemonTypes ==
  ASSUME ProfileTypeOK, DaemonLoads \/ DaemonSaves \/ DaemonDies
  PROVE  ProfileTypeOK'
<1> USE DEF pageOfProfiles, ProfileTypeOK
<1>1. CASE DaemonSaves
  <2>1. file' \in Profiles \cup {Missing, Garbled} /\ readable' \in BOOLEAN
    BY <1>1, DefaultProfiles DEF DaemonSaves, Stores
  <2>2. clashed' \in BOOLEAN
    BY <1>1 DEF DaemonSaves
  <2> QED
    BY <1>1, <2>1, <2>2 DEF DaemonSaves
<1>2. CASE DaemonLoads \/ DaemonDies
  BY <1>2 DEF DaemonLoads, DaemonDies
<1> QED
  BY <1>1, <1>2

LEMMA SaveTypes ==
  ASSUME ProfileTypeOK, SavesProfile
  PROVE  ProfileTypeOK'
<1>1. /\ row \in DOMAIN memory /\ field \in Text /\ memory \in Profiles
      /\ memory' = [memory EXCEPT ![row] = Plain(field)]
      /\ asked' = asked \cup {<<row, field>>} /\ UNCHANGED <<row, field, daemon, clashed>>
      /\ \/ file' = memory' /\ readable' = TRUE
         \/ file' = file /\ readable' = readable
  <2>1. row \in DOMAIN memory /\ field \in Text /\ memory \in Profiles
    BY DEF SavesProfile, ProfileTypeOK
  <2>2. \/ file' = memory' /\ readable' = TRUE
        \/ file' = file /\ readable' = readable
    BY DEF SavesProfile, Stores
  <2> QED
    BY <2>1, <2>2 DEF SavesProfile, pageOfProfiles
<1>2. Plain(field) \in Settings
  BY <1>1 DEF Plain, Settings
<1>3. DOMAIN memory \in SUBSET Id /\ memory \in [DOMAIN memory -> Settings]
  BY <1>1 DEF Profiles
<1>4. memory' \in [DOMAIN memory -> Settings]
  BY <1>1, <1>2, <1>3
<1>5. memory' \in Profiles
  BY <1>3, <1>4, InProfiles
<1>6. asked' \subseteq Id \X Text
  BY <1>1, <1>3 DEF ProfileTypeOK
<1> QED
  BY <1>1, <1>5, <1>6 DEF ProfileTypeOK

\* A handler starts only where the bound on their nesting allows one.
LEMMA PageTypeStep ==
  ASSUME PageTypeOK, PageNext
  PROVE  PageTypeOK'
<1>1. calls \in Seq(Call) /\ Len(calls) \in Nat /\ Len(calls) <= MaxNesting /\ MaxNesting \in Nat
  BY LenProperties, NestingAssumption DEF PageTypeOK
<1>2. ASSUME NEW below \in Seq(Call), NEW f \in {"refresh", "change"}, Len(below) < MaxNesting,
             calls' = Append(below, [of |-> f, at |-> "before"])
      PROVE  calls' \in Seq(Call) /\ Len(calls') <= MaxNesting
  <2>1. [of |-> f, at |-> "before"] \in Call
    BY DEF Call
  <2>2. Len(calls') = Len(below) + 1 /\ calls' \in Seq(Call) /\ Len(below) \in Nat
    BY <1>2, <2>1, AppendProperties, LenProperties
  <2> QED
    BY <1>1, <1>2, <2>2
<1>3. CASE RefreshesDevices
  <2>1. CASE busy
    BY <1>3, <2>1 DEF RefreshesDevices, PageTypeOK
  <2>2. CASE ~busy
    BY <1>1, <1>2, <1>3, <2>2 DEF RefreshesDevices, Listening, Starts, PageTypeOK
  <2> QED
    BY <2>1, <2>2
<1>4. CASE ChecksDependencies \/ ChangesPackages
  BY <1>1, <1>2, <1>4 DEF ChecksDependencies, ChangesPackages, Listening, Starts, PageTypeOK
<1>5. CASE Works
  <2>1. Len(calls) \in 1..Len(calls) /\ calls[Len(calls)] \in Call
    BY <1>1, <1>5 DEF Works
  <2>2. [calls[Len(calls)] EXCEPT !.at = "after"] \in Call
    BY <2>1 DEF Call
  <2>3. calls' \in Seq(Call) /\ Len(calls') = Len(calls)
    BY <1>1, <1>5, <2>1, <2>2, ExceptSeq DEF Works
  <2> QED
    BY <1>1, <1>5, <2>3 DEF Works, PageTypeOK
<1>6. CASE Returns
  <2>1. Len(calls) >= 1 /\ \A i \in 1..Len(calls) - 1 : calls[i] \in Call
    BY <1>1, <1>6 DEF Returns
  <2>2. Others \in Seq(Call) /\ Len(Others) = IF 1 <= Len(calls) - 1 THEN (Len(calls) - 1) - 1 + 1 ELSE 0
    BY <1>1, <2>1, SubSeqProperties DEF Others
  <2>3. Len(Others) < MaxNesting /\ Len(Others) <= MaxNesting
    BY <1>1, <2>1, <2>2
  <2>4. CASE Inner.of = "change" /\ ~busy
    BY <1>2, <1>6, <2>2, <2>3, <2>4 DEF Returns, PageTypeOK
  <2>5. CASE ~(Inner.of = "change" /\ ~busy)
    BY <1>6, <2>2, <2>3, <2>5 DEF Returns, PageTypeOK
  <2> QED
    BY <2>4, <2>5
<1>7. CASE OpensPreparation \/ PreparesBackend \/ ClosesPreparation
  BY <1>7 DEF OpensPreparation, PreparesBackend, ClosesPreparation, PageTypeOK
<1> QED
  BY <1>3, <1>4, <1>5, <1>6, <1>7 DEF PageNext

LEMMA PagesTypeStep == PagesTypeOK /\ [PagesNext]_pagesVars => PagesTypeOK'
<1> SUFFICES ASSUME PagesTypeOK, [PagesNext]_pagesVars
             PROVE  PagesTypeOK'
  OBVIOUS
<1>1. app \in Phases /\ ProfileTypeOK /\ PageTypeOK
  BY DEF PagesTypeOK
<1>2. ASSUME UNCHANGED profileVars
      PROVE  ProfileTypeOK'
  BY <1>1, <1>2 DEF profileVars, pageOfProfiles, ProfileTypeOK
<1>3. ASSUME UNCHANGED pageVars
      PROVE  PageTypeOK'
  BY <1>1, <1>3 DEF pageVars, PageTypeOK
<1>4. ASSUME Afresh, stale' = {}
      PROVE  PageTypeOK'
  <2>1. <<>> \in Seq(Call) /\ Len(<<>>) = 0
    OBVIOUS
  <2>2. calls' \in Seq(Call) /\ Len(calls') <= MaxNesting
    BY <1>4, <2>1, NestingAssumption DEF Afresh
  <2> QED
    BY <1>4, <2>2 DEF Afresh, PageTypeOK
<1>5. CASE GuiLaunches
  BY <1>1, <1>4, <1>5, LaunchTypes DEF GuiLaunches, Launches, PageLaunches, PagesTypeOK, Phases
<1>6. CASE GuiEnters
  BY <1>1, <1>3, <1>6, EnterTypes DEF GuiEnters, EntersLoop, PagesTypeOK, Phases
<1>7. CASE GuiDies
  BY <1>1, <1>4, <1>7, LaunchTypes DEF GuiDies, Dies, PageDies, PagesTypeOK, Phases
<1>8. CASE ProfileStep
  <2>1. ASSUME EditedByHand
        PROVE  ProfileTypeOK'
    BY <1>1, <2>1 DEF EditedByHand, pageOfProfiles, ProfileTypeOK
  <2>2. ASSUME SavesProfile
        PROVE  ProfileTypeOK'
    BY <1>1, <2>2, SaveTypes
  <2>3. ASSUME NEW i \in Id, Selects(i)
        PROVE  ProfileTypeOK'
    <3>1. memory[i].text \in Text
      BY <1>1, <2>3, OfProfiles DEF Selects, ProfileTypeOK, Settings
    <3> QED
      BY <1>1, <2>3, <3>1 DEF Selects, ProfileTypeOK
  <2>4. ASSUME NEW t \in Text \cup {Blank}, Types(t)
        PROVE  ProfileTypeOK'
    BY <1>1, <2>4 DEF Types, ProfileTypeOK
  <2>5. ProfileTypeOK'
    BY <1>1, <1>8, <2>1, <2>2, <2>3, <2>4, DaemonTypes DEF ProfileStep, ProfileNext
  <2> QED
    BY <1>1, <1>3, <1>8, <2>5 DEF ProfileStep, PagesTypeOK
<1>9. CASE PageStep
  BY <1>1, <1>2, <1>9, PageTypeStep DEF PageStep, PagesTypeOK
<1>10. CASE UNCHANGED pagesVars
  BY <1>1, <1>2, <1>3, <1>10 DEF pagesVars, PagesTypeOK
<1> QED
  BY <1>5, <1>6, <1>7, <1>8, <1>9, <1>10 DEF PagesNext

\* The type invariant of the two pages.
THEOREM PagesTypeCorrect == PagesSpec => []PagesTypeOK
<1>1. PagesInit => PagesTypeOK
  <2> SUFFICES ASSUME PagesInit
               PROVE  PagesTypeOK
    OBVIOUS
  <2>1. ProfileTypeOK
    BY DefaultProfiles DEF PagesInit, ProfileInit, ProfileTypeOK
  <2>2. <<>> \in Seq(Call) /\ Len(<<>>) = 0
    OBVIOUS
  <2>3. PageTypeOK
    <3>1. calls = <<>> /\ busy = FALSE /\ preparing = FALSE /\ stale = {}
      BY DEF PagesInit, PageInit
    <3>2. calls \in Seq(Call) /\ Len(calls) <= MaxNesting
      BY <2>2, <3>1, NestingAssumption
    <3> QED
      BY <3>1, <3>2 DEF PageTypeOK
  <2> QED
    BY <2>1, <2>3 DEF PagesInit, ProcessInit, PagesTypeOK, Phases
<1> QED
  BY <1>1, PagesTypeStep, PTL DEF PagesSpec

-----------------------------------------------------------------------------
(* The profiles page                                                       *)

\* The profiles that are in the file, or that either program puts there if none are.
OnFile == IF DOMAIN Loaded # {} THEN Loaded ELSE Defaults

\* What the GUI has in memory is that, but for what it was asked to save.
Holds ==
  \A i \in DOMAIN OnFile :
    /\ i \in DOMAIN memory
    /\ memory[i] = OnFile[i] \/ <<i, memory[i].text>> \in asked

InMemory ==
  ~clashed =>
    /\ app = "on" => Holds
    /\ app = "starting" => Holds \/ (DOMAIN memory = {} /\ OnFile = Defaults)

\* What a step does with the profiles, where ProfilesKept speaks of it.
Keeps ==
  file \in Profiles /\ readable =>
    \A i \in DOMAIN file :
      /\ i \in DOMAIN file'
      /\ file'[i] = file[i] \/ <<i, file'[i].text>> \in asked'

\* A file that can be read is what is loaded.
LEMMA LoadedFile == file \in Profiles /\ readable => Loaded = file
  BY EditorAssumption DEF Loaded

\* A step that leaves the file alone keeps what is in it.
LEMMA SameKept ==
  ASSUME UNCHANGED file
  PROVE  Keeps
  BY DEF Keeps

\* The defaults are saved over no profiles, or over themselves.
LEMMA DefaultsKeep ==
  ASSUME OnFile = Defaults, Stores(Defaults)
  PROVE  Keeps /\ OnFile' = Defaults
<1>1. CASE UNCHANGED <<file, readable>>
  <2>1. Loaded' = Loaded
    BY <1>1 DEF Loaded
  <2> QED
    BY <1>1, <2>1, SameKept DEF OnFile
<1>2. CASE file' = Defaults /\ readable' = TRUE
  <2>1. Keeps
    <3>1. file \in Profiles /\ readable => \A i \in DOMAIN file : file = Defaults
      BY LoadedFile DEF OnFile
    <3> QED
      BY <1>2, <3>1 DEF Keeps
  <2>2. Loaded' = Defaults
    <3>1. Defaults \in Profiles
      BY DefaultProfiles
    <3> QED
      BY <1>2, <3>1, EditorAssumption DEF Loaded
  <2> QED
    BY <2>1, <2>2 DEF OnFile
<1> QED
  BY <1>1, <1>2 DEF Stores

\* The second half of a start.
LEMMA EnsuresKept ==
  ASSUME InMemory, ~clashed, app = "starting", EnsuresDefaults, UNCHANGED asked
  PROVE  Keeps /\ Holds'
<1>1. CASE DOMAIN memory # {}
  <2>1. UNCHANGED <<memory, file, readable>>
    BY <1>1 DEF EnsuresDefaults
  <2>2. OnFile' = OnFile
    BY <2>1 DEF OnFile, Loaded
  <2>3. Holds
    BY <1>1 DEF InMemory
  <2> QED
    BY <2>1, <2>2, <2>3, SameKept DEF Holds
<1>2. CASE DOMAIN memory = {}
  <2>1. memory' = Defaults /\ Stores(Defaults)
    BY <1>2 DEF EnsuresDefaults
  <2>2. OnFile = Defaults
    <3>1. CASE Holds
      <4>1. DOMAIN OnFile = {}
        BY <1>2, <3>1 DEF Holds
      <4> QED
        BY <4>1 DEF OnFile
    <3>2. CASE ~Holds
      BY <3>2 DEF InMemory
    <3> QED
      BY <3>1, <3>2
  <2> QED
    BY <2>1, <2>2, DefaultsKeep DEF Holds
<1> QED
  BY <1>1, <1>2

\* The daemon's save, unless it clashes.
LEMMA DaemonKept ==
  ASSUME DaemonSaves, ~clashed'
  PROVE  Keeps /\ OnFile' = OnFile /\ (app # "off" => ~clashed)
<1>1. Stores(Defaults) /\ (app # "off" => ~clashed) /\ (DOMAIN Loaded # {} => file' = file)
  BY DEF DaemonSaves
<1>2. CASE DOMAIN Loaded = {}
  BY <1>1, <1>2, DefaultsKeep DEF OnFile
<1>3. CASE UNCHANGED <<file, readable>>
  BY <1>1, <1>3, SameKept DEF OnFile, Loaded
<1>4. CASE DOMAIN Loaded # {} /\ file' = Defaults /\ readable' = TRUE
  <2>1. file' = file /\ readable' = TRUE
    BY <1>1, <1>4
  <2>2. Loaded = file
    <3>1. \A i \in DOMAIN NoProfiles : FALSE
      BY DEF NoProfiles
    <3> QED
      BY <1>4, <3>1 DEF Loaded
  <2>3. Loaded' = Loaded
    <3>1. file # Missing /\ file # Garbled
      <4>1. Defaults \in Profiles
        BY DefaultProfiles
      <4> QED
        BY <1>4, <2>1, <4>1, EditorAssumption
    <3> QED
      BY <2>1, <2>2, <3>1 DEF Loaded
  <2> QED
    BY <1>1, <2>1, <2>3, SameKept DEF OnFile
<1> QED
  BY <1>1, <1>2, <1>3, <1>4 DEF Stores

\* A save of the page, whether it reaches the file or not.
LEMMA SaveKept ==
  ASSUME Holds, SavesProfile, ProfileTypeOK
  PROVE  Keeps /\ Holds'
<1>1. /\ memory' = [memory EXCEPT ![row] = Plain(field)] /\ row \in DOMAIN memory
      /\ asked' = asked \cup {<<row, field>>}
      /\ (file' = memory' /\ readable' = TRUE) \/ UNCHANGED <<file, readable>>
  BY DEF SavesProfile, Stores
<1>2. Plain(field).text = field
  BY DEF Plain
<1>3. DOMAIN memory' = DOMAIN memory
  BY <1>1
<1>4. \A i \in DOMAIN memory : memory'[i] = memory[i] \/ <<i, memory'[i].text>> \in asked'
  BY <1>1, <1>2
<1>5. \A i \in DOMAIN OnFile :
        /\ i \in DOMAIN memory'
        /\ memory'[i] = OnFile[i] \/ <<i, memory'[i].text>> \in asked'
  BY <1>1, <1>3, <1>4 DEF Holds
<1>6. CASE UNCHANGED <<file, readable>>
  BY <1>5, <1>6, SameKept DEF Holds, OnFile, Loaded
<1>7. CASE file' = memory' /\ readable' = TRUE
  <2>1. Keeps
    <3>1. file \in Profiles /\ readable => \A i \in DOMAIN file : OnFile = file
      BY LoadedFile DEF OnFile
    <3> QED
      BY <1>5, <1>7, <3>1 DEF Keeps
  <2>2. memory' \in Profiles
    BY SaveTypes DEF ProfileTypeOK
  <2>3. Loaded' = memory' /\ DOMAIN memory' # {}
    BY <1>1, <1>3, <1>7, <2>2, EditorAssumption DEF Loaded
  <2> QED
    BY <2>1, <2>3 DEF Holds, OnFile
<1> QED
  BY <1>1, <1>6, <1>7

\* Every step of the two programs keeps it, and keeps the profiles.
LEMMA ProfilesStep ==
  ASSUME InMemory, ProfileTypeOK, [PagesNext]_pagesVars
  PROVE  InMemory' /\ (EditedByHand \/ clashed' \/ Keeps)
<1>0. ASSUME UNCHANGED <<app, file, readable, memory, asked, clashed>>
      PROVE  InMemory' /\ Keeps
  BY <1>0, SameKept DEF InMemory, Holds, OnFile, Loaded
<1>1. CASE GuiLaunches
  <2>1. /\ UNCHANGED <<file, readable>> /\ memory' = Loaded /\ app' = "starting"
    BY <1>1 DEF GuiLaunches, Launches, ProfileLaunches
  <2>2. OnFile' = OnFile
    BY <2>1 DEF OnFile, Loaded
  <2>3. Holds' \/ (DOMAIN memory' = {} /\ OnFile' = Defaults)
    <3>1. CASE DOMAIN Loaded # {}
      <4>1. OnFile' = memory'
        BY <2>1, <2>2, <3>1 DEF OnFile
      <4> QED
        BY <4>1 DEF Holds
    <3>2. CASE DOMAIN Loaded = {}
      BY <2>1, <2>2, <3>2 DEF OnFile
    <3> QED
      BY <3>1, <3>2
  <2> QED
    BY <2>1, <2>3, SameKept DEF InMemory
<1>2. CASE GuiEnters
  <2>1. app = "starting" /\ app' = "on" /\ EnsuresDefaults /\ UNCHANGED <<asked, clashed>>
    BY <1>2 DEF GuiEnters, EntersLoop, ProfileEnters
  <2> QED
    BY <2>1, EnsuresKept DEF InMemory
<1>3. CASE GuiDies
  BY <1>3, SameKept DEF GuiDies, Dies, ProfileDies, InMemory
<1>4. CASE ProfileStep
  <2>0. UNCHANGED app
    BY <1>4 DEF ProfileStep
  <2>1. CASE EditedByHand
    BY <2>0, <2>1 DEF EditedByHand, InMemory
  <2>2. CASE SavesProfile
    <3>1. app = "on" /\ UNCHANGED clashed
      BY <2>2 DEF SavesProfile
    <3> QED
      BY <2>0, <2>2, <3>1, SaveKept DEF InMemory
  <2>3. CASE \E i \in Id : Selects(i)
    BY <1>0, <2>0, <2>3 DEF Selects
  <2>4. CASE \E t \in Text \cup {Blank} : Types(t)
    BY <1>0, <2>0, <2>4 DEF Types
  <2>5. CASE DaemonLoads \/ DaemonDies
    BY <1>0, <2>0, <2>5 DEF DaemonLoads, DaemonDies
  <2>6. CASE DaemonSaves
    <3>1. UNCHANGED <<memory, asked>>
      BY <2>6 DEF DaemonSaves
    <3>2. CASE clashed'
      BY <3>2 DEF InMemory
    <3>3. CASE ~clashed'
      <4>1. Keeps /\ OnFile' = OnFile /\ (app # "off" => ~clashed)
        BY <2>6, <3>3, DaemonKept
      <4> QED
        BY <2>0, <3>1, <4>1 DEF InMemory, Holds
    <3> QED
      BY <3>2, <3>3
  <2> QED
    BY <1>4, <2>1, <2>2, <2>3, <2>4, <2>5, <2>6 DEF ProfileStep, ProfileNext
<1>5. CASE PageStep \/ UNCHANGED pagesVars
  BY <1>0, <1>5 DEF PageStep, pagesVars, profileVars
<1> QED
  BY <1>1, <1>2, <1>3, <1>4, <1>5 DEF PagesNext

\* No start, save, failure or death of the two programs loses or alters a profile of a
\* file that can be read, except to what the user has asked the GUI to save as that
\* profile, unless the daemon saved its defaults over profiles that came after its load.
THEOREM ProfilesAreKept == PagesSpec => ProfilesKept
<1>1. PagesInit => InMemory
  BY DEF PagesInit, ProcessInit, InMemory
<1>2. PagesTypeOK /\ InMemory /\ [PagesNext]_pagesVars =>
        InMemory' /\ [~EditedByHand /\ ~clashed' /\ file \in Profiles /\ readable =>
                        \A i \in DOMAIN file :
                          /\ i \in DOMAIN file'
                          /\ file'[i] = file[i] \/ <<i, file'[i].text>> \in asked']_<<app, profileVars>>
  BY ProfilesStep DEF PagesTypeOK, Keeps
<1> QED
  BY <1>1, <1>2, PagesTypeCorrect, PTL DEF PagesSpec, ProfilesKept
=============================================================================

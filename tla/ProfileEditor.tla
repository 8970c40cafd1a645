---------------------------- MODULE ProfileEditor ---------------------------
(***************************************************************************)
(* The profiles page with profiles.json: what Application::initialize and  *)
(* MainWindow make of the file from start to start, with writes that fail, *)
(* a file that cannot be read and processes that die.  The daemon runs the *)
(* same initialize, at any time: neither locks the file between its load   *)
(* and its save.  The file is edited by hand only while no GUI runs.       *)
(***************************************************************************)
EXTENDS GuiProcess

CONSTANTS
  Id,        \* ids of profiles
  First,     \* the one in the first row
  Text,      \* what the page can show of one
  Blank,     \* a name that is empty
  DefaultOf, \* for the ids of the default profiles, what they have
  Missing, Garbled  \* no file; a file that does not parse

\* Of the settings that the page does not show only whether there are any.
Settings  == [text : Text, more : BOOLEAN]
Plain(t) == [text |-> t, more |-> FALSE]
Profiles == UNION {[ids -> Settings] : ids \in SUBSET Id}

ASSUME EditorAssumption ==
  /\ Blank \notin Text /\ First \in DOMAIN DefaultOf /\ DOMAIN DefaultOf \subseteq Id
  /\ \A i \in DOMAIN DefaultOf : DefaultOf[i] \in Text
  /\ Missing \notin Profiles /\ Garbled \notin Profiles /\ Missing # Garbled

VARIABLES
  file,     \* profiles.json
  readable, \* whether it can be opened
  memory,   \* ProfileManager
  row,      \* the selected profile
  field,    \* what the page shows
  daemon,   \* "defaulting": it has found no profiles and will save the defaults
  asked,    \* history: what this GUI was asked to save
  clashed   \* history: whether the daemon has saved its defaults over profiles that
            \* came after its load (with a GUI running: since that GUI's load)

pageOfProfiles == <<row, field>>
profileVars    == <<file, readable, memory, pageOfProfiles, daemon, asked, clashed>>

ProfileTypeOK ==
  /\ file \in Profiles \cup {Missing, Garbled} /\ readable \in BOOLEAN
  /\ memory \in Profiles /\ row \in Id /\ field \in Text \cup {Blank}
  /\ daemon \in {"idle", "defaulting"}
  /\ asked \subseteq Id \X Text /\ clashed \in BOOLEAN

NoProfiles == [i \in {} |-> Plain(Blank)]
Defaults   == [i \in DOMAIN DefaultOf |-> Plain(DefaultOf[i])]

ProfileInit ==
  /\ file = Missing /\ readable = TRUE
  /\ memory = NoProfiles /\ row = First /\ field = Blank
  /\ daemon = "idle" /\ asked = {} /\ clashed = FALSE

\* ProfileStore::load
Loaded == IF file = Missing \/ file = Garbled \/ ~readable THEN NoProfiles ELSE file

\* ProfileStore::save puts a new file in the place of the old one, or fails.
Stores(profiles) ==
  \/ file' = profiles /\ readable' = TRUE
  \/ UNCHANGED <<file, readable>>

\* Application::initialize loads ...
ProfileLaunches ==
  /\ memory' = Loaded /\ row' = First /\ field' = Blank
  /\ asked' = {} /\ clashed' = FALSE
  /\ UNCHANGED <<file, readable, daemon>>

\* ... and goes on with ensureDefaultProfiles.
\* (Defaults that come on top of what was loaded.)
DefaultsAnyway ==
  /\ memory' = [i \in DOMAIN memory \cup DOMAIN Defaults |->
                  IF i \in DOMAIN Defaults THEN Defaults[i] ELSE memory[i]]
  /\ Stores(memory')
EnsuresDefaults ==
  IF DOMAIN memory # {} THEN UNCHANGED <<memory, file, readable>>
  ELSE memory' = Defaults /\ Stores(Defaults)

\* The window selects the first row.
ProfileEnters ==
  /\ EnsuresDefaults
  /\ row' = IF First \in DOMAIN memory' THEN First ELSE CHOOSE i \in DOMAIN memory' : TRUE
  /\ field' = memory'[row'].text
  /\ UNCHANGED <<daemon, asked, clashed>>

ProfileDies ==
  /\ memory' = NoProfiles /\ row' = First /\ field' = Blank
  /\ asked' = {} /\ clashed' = FALSE
  /\ UNCHANGED <<file, readable, daemon>>

\* The daemon's initialize: of what it loads it uses nothing but whether there is any.
DaemonLoads ==
  /\ daemon = "idle" /\ DOMAIN Loaded = {} /\ daemon' = "defaulting"
  /\ UNCHANGED <<file, readable, memory, pageOfProfiles, asked, clashed>>

DaemonSaves ==
  /\ daemon = "defaulting" /\ daemon' = "idle" /\ Stores(Defaults)
  /\ clashed' = \/ app # "off" /\ clashed
                \/ DOMAIN Loaded # {} /\ file' # file
  /\ UNCHANGED <<memory, pageOfProfiles, asked>>

DaemonDies ==
  /\ daemon = "defaulting" /\ daemon' = "idle"
  /\ UNCHANGED <<file, readable, memory, pageOfProfiles, asked, clashed>>

\* By hand, or by a sudo that leaves a file of root's.
EditedByHand ==
  /\ app = "off"
  /\ \/ file' \in Profiles \cup {Missing, Garbled} /\ readable' = TRUE
     \/ file \in Profiles /\ readable' = FALSE /\ UNCHANGED file
  /\ UNCHANGED <<memory, pageOfProfiles, daemon, asked, clashed>>

\* loadSelectedProfile drops what was typed.
Selects(i) ==
  /\ app = "on" /\ i \in DOMAIN memory
  /\ row' = i /\ field' = memory[i].text
  /\ UNCHANGED <<file, readable, memory, daemon, asked, clashed>>

Types(t) ==
  /\ app = "on" /\ field' = t
  /\ UNCHANGED <<file, readable, memory, row, daemon, asked, clashed>>

\* saveSelectedProfile: the profile is made anew, with what the page shows.
SavesProfile ==
  /\ app = "on" /\ row \in DOMAIN memory /\ field # Blank
  /\ memory' = [memory EXCEPT ![row] = Plain(field)]
  /\ Stores(memory') /\ asked' = asked \cup {<<row, field>>}
  /\ UNCHANGED <<pageOfProfiles, daemon, clashed>>

ProfileNext ==
  \/ EditedByHand \/ SavesProfile
  \/ DaemonLoads \/ DaemonSaves \/ DaemonDies
  \/ \E i \in Id : Selects(i)
  \/ \E t \in Text \cup {Blank} : Types(t)

\* Neither program loses or alters a profile in a file that can be read, except to
\* something that the user asked this GUI to save as that profile, at once or after a
\* save that failed (initialize, ensureDefaultProfiles, saveSelectedProfile).  Excepted
\* is what follows when the daemon saves defaults over profiles that came after its
\* load: its initialize does not look again.
ProfilesKept ==
  [][~EditedByHand /\ ~clashed' /\ file \in Profiles /\ readable =>
       \A i \in DOMAIN file :
         /\ i \in DOMAIN file'
         /\ file'[i] = file[i] \/ <<i, file'[i].text>> \in asked']_<<app, profileVars>>
=============================================================================

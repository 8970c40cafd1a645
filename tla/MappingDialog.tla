--------------------------- MODULE MappingDialog ----------------------------
(***************************************************************************)
(* The mapping dialog over several sessions, for several mice: its table   *)
(* is filled from the mouse's profile or from the only profile there is,   *)
(* buttons the mouse is not known to have are locked until a live monitor  *)
(* has seen them, and a save writes what the table says of the others.     *)
(* Profiles list the buttons in the order of defaultMouseButtons(), which  *)
(* is how they are written, so that a row stands for a button.             *)
(***************************************************************************)
EXTENDS Naturals, FiniteSets

CONSTANTS
  Mouse,      \* mice, by the key of their profile
  Button,     \* defaultMouseButtons()
  Inferred,   \* for each mouse, the buttons its name tells
  Node,       \* input devices
  Compatible, \* for each mouse, the devices whose names match its own
  Nobody,     \* the empty key
  Missing, Garbled, \* no file; a file that does not parse
  MaxSaves    \* bound: saves, and damages to the file

ASSUME MouseAssumption ==
  /\ Nobody \notin Mouse
  /\ Inferred \in [Mouse -> SUBSET Button]
  /\ Compatible \in [Mouse -> SUBSET Node]
ASSUME BoundAssumption == MaxSaves \in Nat

\* "Command" is a custom shortcut or a script, "Plain" any other action; of a
\* parameter only whether there is one.
Action    == {"Default", "Plain", "Command"}
Needs(a)  == a = "Command"
Mapping   == [action : Action, parameter : BOOLEAN]
Native    == [action |-> "Default", parameter |-> FALSE]
Profile   == UNION {[buttons -> Mapping] : buttons \in SUBSET Button}
Unmapped  == [b \in Button |-> Native]
Key       == Mouse \cup {Nobody}
Files     == UNION {[keys -> Profile] : keys \in SUBSET Key}

ASSUME FileAssumption ==
  Missing \notin Files /\ Garbled \notin Files /\ Missing # Garbled

Row   == [action : Action, parameter : BOOLEAN, enabled : BOOLEAN]
Table == UNION {[buttons -> Row] : buttons \in SUBSET Button}
Empty == [b \in {} |-> Native]

VARIABLES
  file,       \* mouse-mappings.json
  saves,      \* how often it was written or damaged
  open,       \* whether there is a dialog
  peripheral, \* the mouse it is for
  key,        \* profile_.deviceKey
  rows,       \* mappingTable_
  confirmed,  \* confirmedButtons_
  discovered, \* discoveredInputDevices_, those that are readable
  monitors,   \* monitors_
  listening,  \* those whose device has not gone away since
  plugged,    \* the devices there are
  proven,     \* history: buttons a dialog for the mouse has seen working
  refused     \* history: a load has failed

disk   == <<file, saves>>
table  == <<key, rows, confirmed>>
live   == <<discovered, monitors, listening>>
dialog == <<open, peripheral>>
vars   == <<disk, dialog, table, live, plugged, proven, refused>>

TypeOK ==
  /\ file \in Files \cup {Missing, Garbled} /\ saves \in 0..MaxSaves
  /\ open \in BOOLEAN /\ peripheral \in Mouse /\ key \in Key
  /\ rows \in Table /\ confirmed \subseteq Button
  /\ discovered \subseteq Node /\ monitors \subseteq discovered
  /\ listening \subseteq monitors
  /\ plugged \subseteq Node
  /\ proven \in [Mouse -> SUBSET Button] /\ refused \in BOOLEAN

Init ==
  /\ file = Missing /\ saves = 0
  /\ open = FALSE /\ peripheral \in Mouse
  /\ key = Nobody /\ rows = Empty /\ confirmed = {}
  /\ discovered = {} /\ monitors = {} /\ listening = {}
  /\ plugged = Node
  /\ proven = [m \in Mouse |-> {}] /\ refused = FALSE

-----------------------------------------------------------------------------
(* The mapping store, seen from one process                                *)

Loads(f) == f # Garbled

LoadOr(otherwise, f, m) ==
  IF f = Missing THEN otherwise
  ELSE IF m \in DOMAIN f THEN f[m]
  ELSE IF Cardinality(DOMAIN f) = 1 THEN f[CHOOSE k \in DOMAIN f : TRUE]
  ELSE otherwise

\* A profile that starts empty and is filled from the file only.
LoadBare(f, m) == LoadOr(Empty, f, m)
Load(f, m)     == LoadOr(Unmapped, f, m)

\* The file with one profile replaced.
With(f, k, p) ==
  LET others == IF f \in {Missing, Garbled} THEN {} ELSE DOMAIN f \ {k}
  IN  [other \in others \cup {k} |-> IF other = k THEN p ELSE f[other]]

Damaged ==
  /\ saves < MaxSaves /\ saves' = saves + 1
  /\ file' = Garbled
  /\ UNCHANGED <<dialog, table, live, plugged, proven, refused>>

-----------------------------------------------------------------------------
(* Opening and closing                                                     *)

\* A row as it is built: updateParameterEditor clears what no action needs.
Shown(mapping, available) ==
  [action |-> mapping.action,
   parameter |-> mapping.parameter /\ Needs(mapping.action),
   enabled |-> available]

\* A load that fails leaves the empty profile of the constructor.
Opens(m) ==
  /\ ~open /\ open' = TRUE /\ peripheral' = m
  /\ IF Loads(file)
     THEN /\ key' = m
          /\ rows' = [b \in DOMAIN Load(file, m) |->
                        Shown(Load(file, m)[b], b \in Inferred[m])]
          /\ UNCHANGED refused
     ELSE key' = Nobody /\ rows' = Empty /\ refused' = TRUE
  /\ confirmed' = {}
  /\ discovered' = plugged /\ monitors' = {} /\ listening' = {}
  /\ UNCHANGED <<disk, plugged, proven>>

Closes ==
  /\ open' = FALSE
  /\ key' = Nobody /\ rows' = Empty /\ confirmed' = {}
  /\ discovered' = {} /\ monitors' = {} /\ listening' = {}
  /\ UNCHANGED <<peripheral, plugged, proven, refused>>

Cancels == open /\ Closes /\ UNCHANGED disk

-----------------------------------------------------------------------------
(* The table                                                               *)

ChoosesOnly(b, a) ==
  /\ open /\ b \in DOMAIN rows /\ rows[b].enabled /\ rows[b].action # a
  /\ rows' = [rows EXCEPT ![b].action = a]
  /\ UNCHANGED <<disk, dialog, key, confirmed, live, plugged, proven, refused>>

Chooses(b, a) ==
  /\ open /\ b \in DOMAIN rows /\ rows[b].enabled /\ rows[b].action # a
  /\ rows' = [rows EXCEPT ![b] = Shown([action |-> a, parameter |-> @.parameter], TRUE)]
  /\ UNCHANGED <<disk, dialog, key, confirmed, live, plugged, proven, refused>>

\* Typed, or browsed for.
Types(b, p) ==
  /\ open /\ b \in DOMAIN rows /\ rows[b].enabled /\ Needs(rows[b].action)
  /\ rows' = [rows EXCEPT ![b].parameter = p]
  /\ UNCHANGED <<disk, dialog, key, confirmed, live, plugged, proven, refused>>

-----------------------------------------------------------------------------
(* The live monitors                                                       *)

Unplugs(n) ==
  /\ n \in plugged /\ plugged' = plugged \ {n}
  /\ listening' = listening \ {n}
  /\ UNCHANGED <<disk, dialog, table, discovered, monitors, proven, refused>>

Plugs(n) ==
  /\ n \notin plugged /\ plugged' = plugged \cup {n}
  /\ UNCHANGED <<disk, dialog, table, live, proven, refused>>

Refreshes ==
  /\ open
  /\ discovered' = plugged /\ monitors' = {} /\ listening' = {}
  /\ UNCHANGED <<disk, dialog, table, plugged, proven, refused>>

\* What can be selected: everything compatible, or any one device.  A start may
\* fail, and does when the device is gone.
Selections == {discovered \cap Compatible[peripheral]} \cup {{n} : n \in discovered}
Started == UNION {SUBSET (selection \cap plugged) : selection \in Selections}

Toggles ==
  /\ open
  /\ IF monitors # {} THEN monitors' = {} ELSE monitors' \in Started
  /\ listening' = monitors'
  /\ UNCHANGED <<disk, dialog, table, discovered, plugged, proven, refused>>

\* A confirmation that is remembered, and one that unlocks the row as well.
ConfirmsOnly(b) ==
  /\ open /\ listening # {}
  /\ confirmed' = confirmed \cup {b}
  /\ proven' = [proven EXCEPT ![peripheral] = @ \cup {b}]
  /\ UNCHANGED <<disk, dialog, key, rows, live, plugged, refused>>

\* handleLiveButton, markButtonConfirmed
Confirms(b) ==
  /\ open /\ listening # {}
  /\ confirmed' = confirmed \cup {b}
  /\ rows' = IF b \in DOMAIN rows THEN [rows EXCEPT ![b] = Shown(@, TRUE)] ELSE rows
  /\ proven' = [proven EXCEPT ![peripheral] = @ \cup {b}]
  /\ UNCHANGED <<disk, dialog, key, live, plugged, refused>>

-----------------------------------------------------------------------------
(* saveMappings                                                            *)

Allowed == Inferred[peripheral] \cup confirmed

\* ActionSafetyPolicy::validateForDryRun
Passes(row) == Needs(row.action) => row.parameter

\* The profile made of the table, and one that takes over what is in a locked row.
EveryRow ==
  [b \in DOMAIN rows |-> [action |-> rows[b].action, parameter |-> rows[b].parameter]]
ToSave ==
  [b \in DOMAIN rows |->
     IF b \in Allowed
     THEN [action |-> rows[b].action, parameter |-> rows[b].parameter]
     ELSE Native]

AllPass == \A b \in DOMAIN rows \cap Allowed : Passes(rows[b])

\* The policy refuses a row, or the file cannot be written; monitors that were
\* running are started again.  Rows that were copied by then are copied anew by the
\* next save.
SaveRefused ==
  /\ open
  /\ monitors' \in IF monitors = {} THEN {{}} ELSE Started
  /\ listening' = monitors'
  /\ UNCHANGED <<disk, dialog, table, discovered, plugged, proven, refused>>

Saves ==
  /\ open /\ AllPass
  /\ saves < MaxSaves /\ saves' = saves + 1
  /\ file' = With(file, key, ToSave)
  /\ Closes

-----------------------------------------------------------------------------
Editing == \E b \in Button : \/ \E a \in Action : Chooses(b, a)
                             \/ \E p \in BOOLEAN : Types(b, p)

Next ==
  \/ Damaged \/ Cancels \/ Editing \/ Refreshes \/ Toggles \/ SaveRefused \/ Saves
  \/ \E m \in Mouse : Opens(m)
  \/ \E n \in Node : Unplugs(n) \/ Plugs(n)
  \/ \E b \in Button : Confirms(b)

Spec == Init /\ [][Next]_vars

-----------------------------------------------------------------------------
(* Properties                                                              *)

\* The file never remaps a button of a mouse that neither its name tells nor a
\* live monitor has seen for it, although the table may be filled from another
\* mouse's profile or from one with more buttons (saveMappings, load).
RemapsOnlyProven ==
  file \notin {Missing, Garbled} =>
    \A m \in DOMAIN file \cap Mouse, b \in Button :
      b \in DOMAIN file[m] /\ file[m][b].action # "Default" =>
        b \in Inferred[m] \cup proven[m]

\* A save writes what the rows that can be edited show, and Default for the
\* locked ones, whatever confirmations, refused saves and refreshes went before;
\* other mice keep theirs (saveMappings, markButtonConfirmed).
SavedAsShown ==
  [][open /\ ~open' /\ file' # file =>
       /\ DOMAIN file'[key] = DOMAIN rows
       /\ \A b \in DOMAIN rows :
            file'[key][b] = IF rows[b].enabled
                            THEN [action |-> rows[b].action,
                                  parameter |-> rows[b].parameter]
                            ELSE Native
       /\ file \notin {Missing, Garbled} =>
            \A m \in DOMAIN file \ {key} : m \in DOMAIN file' /\ file'[m] = file[m]]_vars

\* Every shortcut or script in the file has its parameter and no other action
\* has a left-over one, although actions are changed with the parameter in place
\* (updateParameterEditor, validateForDryRun).
ParametersFit ==
  file \notin {Missing, Garbled} =>
    \A k \in DOMAIN file : \A b \in DOMAIN file[k] :
      file[k][b].parameter = Needs(file[k][b].action)

\* The dialog offers all buttons, unless some load has failed: a save after that
\* writes a profile without rows and without a key, which the fallback then takes
\* for every mouse's (loadMappings, saveMappings, load).
TableIsWhole == open /\ ~refused => DOMAIN rows = Button
=============================================================================

------------------------ MODULE MappingDialog_proofs ------------------------
(***************************************************************************)
(* That the mapping dialog only ever remaps buttons its mouse is known to  *)
(* have, writes what it shows, and never stores a command without its      *)
(* parameter, for any mice, buttons, devices and number of sessions.       *)
(***************************************************************************)
EXTENDS MappingDialog, FiniteSetTheorems, TLAPS

\* A row is unlocked exactly if a save will take it over; what is confirmed has
\* been seen; the dialog writes its own mouse's profile or the nameless one.
Rows ==
  /\ \A b \in DOMAIN rows :
       /\ rows[b].enabled = (b \in Allowed)
       /\ rows[b].parameter => Needs(rows[b].action)
  /\ confirmed \subseteq proven[peripheral]
  /\ key \in {peripheral, Nobody}

\* Profiles have all buttons as long as no load has failed.
WholeFile ==
  ~refused /\ file \notin {Missing, Garbled} =>
    \A k \in DOMAIN file : DOMAIN file[k] = Button

IInv == TypeOK /\ Rows /\ WholeFile /\ RemapsOnlyProven /\ ParametersFit /\ TableIsWhole

-----------------------------------------------------------------------------
LEMMA InTable ==
  ASSUME NEW buttons \in SUBSET Button, NEW r \in [buttons -> Row]
  PROVE  r \in Table
  BY DEF Table

LEMMA OfTable ==
  ASSUME NEW r \in Table
  PROVE  DOMAIN r \subseteq Button /\ r \in [DOMAIN r -> Row]
  BY DEF Table

LEMMA InProfile ==
  ASSUME NEW buttons \in SUBSET Button, NEW p \in [buttons -> Mapping]
  PROVE  p \in Profile
  BY DEF Profile

LEMMA OfProfile ==
  ASSUME NEW p \in Profile
  PROVE  DOMAIN p \subseteq Button /\ p \in [DOMAIN p -> Mapping]
  BY DEF Profile

LEMMA OfFiles ==
  ASSUME NEW f \in Files
  PROVE  /\ DOMAIN f \subseteq Key /\ \A k \in DOMAIN f : f[k] \in Profile
         /\ f \notin {Missing, Garbled}
  BY FileAssumption DEF Files

\* What is loaded is a profile, with all buttons if those in the file have them.
LEMMA LoadFacts ==
  ASSUME NEW f \in Files \cup {Missing}, NEW m \in Mouse
  PROVE  /\ Load(f, m) \in Profile
         /\ (f \in Files => \A k \in DOMAIN f : DOMAIN f[k] = Button)
              => DOMAIN Load(f, m) = Button
<1>1. Unmapped \in Profile /\ DOMAIN Unmapped = Button
  <2>1. Unmapped \in [Button -> Mapping]
    BY DEF Unmapped, Native, Mapping, Action
  <2> QED
    BY <2>1, InProfile
<1>2. CASE f = Missing
  BY <1>1, <1>2, FileAssumption DEF Load, LoadOr
<1>3. CASE f \in Files /\ m \in DOMAIN f
  BY <1>3, OfFiles DEF Load, LoadOr
<1>4. CASE f \in Files /\ m \notin DOMAIN f /\ Cardinality(DOMAIN f) = 1
  <2>1. DOMAIN f # {}
    BY <1>4, FS_EmptySet
  <2>2. (CHOOSE k \in DOMAIN f : TRUE) \in DOMAIN f
    BY <2>1
  <2> QED
    BY <1>4, <2>2, OfFiles DEF Load, LoadOr
<1>5. CASE f \in Files /\ m \notin DOMAIN f /\ Cardinality(DOMAIN f) # 1
  BY <1>1, <1>5, OfFiles DEF Load, LoadOr
<1> QED
  BY <1>2, <1>3, <1>4, <1>5

\* A row that is built has a parameter only if its action needs one.
LEMMA ShownFacts ==
  ASSUME NEW mapping, NEW available \in BOOLEAN,
         mapping.action \in Action, mapping.parameter \in BOOLEAN
  PROVE  /\ Shown(mapping, available) \in Row
         /\ Shown(mapping, available).action = mapping.action
         /\ Shown(mapping, available).enabled = available
         /\ Shown(mapping, available).parameter => Needs(mapping.action)
<1>1. CASE mapping.parameter /\ Needs(mapping.action)
  BY <1>1 DEF Shown, Row
<1>2. CASE ~(mapping.parameter /\ Needs(mapping.action))
  BY <1>2 DEF Shown, Row
<1> QED
  BY <1>1, <1>2

-----------------------------------------------------------------------------
LEMMA InitInv == Init => IInv
<1> SUFFICES ASSUME Init PROVE IInv
  OBVIOUS
<1>1. Empty \in [{} -> Row] /\ DOMAIN Empty = {}
  BY DEF Empty
<1>2. Empty \in Table
  BY <1>1, InTable
<1>3. peripheral \in Mouse /\ proven = [m \in Mouse |-> {}]
      /\ discovered = {} /\ monitors = {} /\ listening = {} /\ plugged = Node
  BY DEF Init
<1>4. file = Missing /\ saves = 0 /\ open = FALSE /\ key = Nobody /\ rows = Empty
      /\ confirmed = {} /\ refused = FALSE
  BY DEF Init
<1> HIDE DEF Init
<1>5. proven \in [Mouse -> SUBSET Button]
  BY <1>3
<1>6. saves \in 0..MaxSaves
  BY <1>4, BoundAssumption
<1>7. TypeOK
  BY <1>2, <1>3, <1>4, <1>5, <1>6 DEF TypeOK, Key
<1> QED
  BY <1>1, <1>4, <1>7
  DEF IInv, Rows, WholeFile, RemapsOnlyProven, ParametersFit, TableIsWhole

\* Opening fills the table.
LEMMA OpenStep ==
  ASSUME NEW m \in Mouse, IInv, Opens(m) PROVE IInv'
<1> USE DEF IInv, disk
<1>1. CASE ~Loads(file)
  <2>1. Empty \in [{} -> Row] /\ DOMAIN Empty = {}
    BY DEF Empty
  <2>2. Empty \in Table
    BY <2>1, InTable
  <2>3. rows' = Empty /\ key' = Nobody /\ refused' = TRUE
    BY <1>1 DEF Opens
  <2>4. TypeOK'
    BY <2>2, <2>3 DEF Opens, TypeOK, Key
  <2> QED
    BY <2>1, <2>3, <2>4
    DEF Opens, Rows, WholeFile, RemapsOnlyProven, ParametersFit, TableIsWhole
<1>2. CASE Loads(file)
  <2> DEFINE p == Load(file, m)
             r == [b \in DOMAIN p |-> Shown(p[b], b \in Inferred[m])]
  <2>1. file \in Files \cup {Missing}
    BY <1>2 DEF TypeOK, Loads
  <2>2. p \in Profile /\ (~refused => DOMAIN p = Button)
    BY <2>1, LoadFacts, OfFiles DEF WholeFile
  <2>3. DOMAIN p \subseteq Button /\ p \in [DOMAIN p -> Mapping]
    BY <2>2, OfProfile
  <2>4. rows' = r /\ key' = m /\ UNCHANGED refused
    BY <1>2 DEF Opens
  <2>5. \A b \in DOMAIN p :
           /\ Shown(p[b], b \in Inferred[m]) \in Row
           /\ Shown(p[b], b \in Inferred[m]).enabled = (b \in Inferred[m])
           /\ Shown(p[b], b \in Inferred[m]).parameter
                => Needs(Shown(p[b], b \in Inferred[m]).action)
    <3> TAKE b \in DOMAIN p
    <3>1. p[b].action \in Action /\ p[b].parameter \in BOOLEAN
      BY <2>3 DEF Mapping
    <3>2. (b \in Inferred[m]) \in BOOLEAN
      OBVIOUS
    <3>3. /\ Shown(p[b], b \in Inferred[m]) \in Row
          /\ Shown(p[b], b \in Inferred[m]).action = p[b].action
          /\ Shown(p[b], b \in Inferred[m]).enabled = (b \in Inferred[m])
          /\ Shown(p[b], b \in Inferred[m]).parameter => Needs(p[b].action)
      <4> DEFINE mapping == p[b]
                 available == b \in Inferred[m]
      <4>1. mapping.action \in Action /\ mapping.parameter \in BOOLEAN
            /\ available \in BOOLEAN
        BY <3>1, <3>2
      <4> HIDE DEF mapping, available
      <4>2. /\ Shown(mapping, available) \in Row
            /\ Shown(mapping, available).action = mapping.action
            /\ Shown(mapping, available).enabled = available
            /\ Shown(mapping, available).parameter => Needs(mapping.action)
        BY <4>1, ShownFacts
      <4> USE DEF mapping, available
      <4> QED
        BY <4>2
    <3> QED
      BY <3>3
  <2> HIDE DEF p
  <2>6. r \in [DOMAIN p -> Row]
    BY <2>5
  <2>7. r \in Table
    BY <2>3, <2>6, InTable
  <2>8. TypeOK'
    BY <2>4, <2>7 DEF Opens, TypeOK, Key
  <2>9. Rows'
    BY <2>4, <2>5, MouseAssumption DEF Opens, Rows, Allowed, TypeOK
  <2>10. TableIsWhole'
    BY <2>2, <2>4 DEF TableIsWhole
  <2> QED
    BY <2>4, <2>8, <2>9, <2>10 DEF Opens, WholeFile, RemapsOnlyProven, ParametersFit
<1> QED
  BY <1>1, <1>2

\* A table that differs in one unlocked row that is sound is sound.
LEMMA RowStep ==
  ASSUME NEW b \in DOMAIN rows, NEW row \in Row, TypeOK, Rows,
         b \in Inferred[peripheral] \cup confirmed',
         row.enabled = TRUE, row.parameter => Needs(row.action),
         rows' = [rows EXCEPT ![b] = row],
         confirmed' = confirmed \/ confirmed' = confirmed \cup {b},
         confirmed' \subseteq proven'[peripheral],
         UNCHANGED <<peripheral, key>>
  PROVE  rows' \in Table /\ DOMAIN rows' = DOMAIN rows /\ Rows'
<1>1. DOMAIN rows \subseteq Button /\ rows \in [DOMAIN rows -> Row]
  BY OfTable DEF TypeOK
<1>2. rows' \in [DOMAIN rows -> Row] /\ DOMAIN rows' = DOMAIN rows
  BY <1>1
<1>3. rows' \in Table
  BY <1>1, <1>2, InTable
<1>4. \A c \in DOMAIN rows :
         /\ rows'[c].enabled = (c \in Allowed')
         /\ rows'[c].parameter => Needs(rows'[c].action)
  <2> TAKE c \in DOMAIN rows
  <2>1. CASE c = b
    BY <1>1, <2>1 DEF Allowed
  <2>2. CASE c # b
    BY <1>1, <2>2 DEF Allowed, Rows
  <2> QED
    BY <2>1, <2>2
<1> QED
  BY <1>2, <1>3, <1>4 DEF Rows

\* The rest follows if the file stays.
LEMMA FileStays ==
  ASSUME IInv, TypeOK', Rows', UNCHANGED <<file, refused>>,
         \A m \in Mouse : proven[m] \subseteq proven'[m],
         open' => open /\ DOMAIN rows' = DOMAIN rows
  PROVE  IInv'
  BY DEF IInv, WholeFile, RemapsOnlyProven, ParametersFit, TableIsWhole

LEMMA EditStep == IInv /\ Editing => IInv'
<1> SUFFICES ASSUME IInv, NEW b \in Button,
                    \/ \E a \in Action : Chooses(b, a)
                    \/ \E p \in BOOLEAN : Types(b, p)
             PROVE  IInv'
  BY DEF Editing
<1>1. TypeOK /\ Rows /\ b \in DOMAIN rows /\ rows[b] \in Row /\ b \in Allowed
  BY OfTable DEF IInv, TypeOK, Rows, Chooses, Types
<1>2. rows[b].action \in Action /\ rows[b].parameter \in BOOLEAN /\ rows[b].enabled = TRUE
  BY <1>1 DEF Row, Chooses, Types
<1>3. ASSUME NEW a \in Action, Chooses(b, a) PROVE IInv'
  <2> DEFINE row == Shown([action |-> a, parameter |-> rows[b].parameter], TRUE)
  <2>1. row \in Row /\ row.action = a /\ row.enabled = TRUE /\ (row.parameter => Needs(a))
    <3> DEFINE mapping == [action |-> a, parameter |-> rows[b].parameter]
    <3>1. mapping.action = a /\ mapping.parameter = rows[b].parameter
      OBVIOUS
    <3> HIDE DEF mapping
    <3>2. mapping.action \in Action /\ mapping.parameter \in BOOLEAN
      BY <1>2, <3>1
    <3>3. /\ Shown(mapping, TRUE) \in Row /\ Shown(mapping, TRUE).action = a
          /\ Shown(mapping, TRUE).enabled = TRUE
          /\ Shown(mapping, TRUE).parameter => Needs(a)
      BY <3>1, <3>2, ShownFacts
    <3> QED
      BY <3>3 DEF mapping
  <2>2. rows' = [rows EXCEPT ![b] = row]
    BY <1>3 DEF Chooses
  <2> HIDE DEF row
  <2>3. rows' \in Table /\ DOMAIN rows' = DOMAIN rows /\ Rows'
    BY <1>1, <1>3, <2>1, <2>2, RowStep DEF Chooses, dialog, Allowed, Rows
  <2>4. TypeOK'
    BY <1>1, <1>3, <2>3 DEF Chooses, TypeOK, disk, dialog, live
  <2> QED
    BY <1>3, <2>3, <2>4, FileStays DEF Chooses, disk, dialog
<1>4. ASSUME NEW p \in BOOLEAN, Types(b, p) PROVE IInv'
  <2> DEFINE row == [rows[b] EXCEPT !.parameter = p]
  <2>1. row \in Row /\ row.enabled = TRUE /\ (row.parameter => Needs(row.action))
    BY <1>1, <1>2, <1>4 DEF Types, Row
  <2>2. rows' = [rows EXCEPT ![b] = row]
    BY <1>4 DEF Types
  <2> HIDE DEF row
  <2>3. rows' \in Table /\ DOMAIN rows' = DOMAIN rows /\ Rows'
    BY <1>1, <1>4, <2>1, <2>2, RowStep DEF Types, dialog, Allowed, Rows
  <2>4. TypeOK'
    BY <1>1, <1>4, <2>3 DEF Types, TypeOK, disk, dialog, live
  <2> QED
    BY <1>4, <2>3, <2>4, FileStays DEF Types, disk, dialog
<1> QED
  BY <1>3, <1>4

LEMMA ConfirmStep ==
  ASSUME NEW b \in Button, IInv, Confirms(b) PROVE IInv'
<1>1. TypeOK /\ Rows /\ peripheral \in Mouse
  BY DEF IInv, TypeOK
<1>2. /\ confirmed' = confirmed \cup {b} /\ confirmed' \subseteq proven'[peripheral]
      /\ proven' \in [Mouse -> SUBSET Button]
      /\ \A m \in Mouse : proven[m] \subseteq proven'[m]
  BY <1>1 DEF Confirms, TypeOK, Rows
<1>3. UNCHANGED <<file, saves, open, peripheral, key, discovered, monitors, listening,
                  plugged, refused>>
  BY DEF Confirms, disk, dialog, live
<1>4. CASE b \in DOMAIN rows
  <2> DEFINE row == Shown(rows[b], TRUE)
  <2>1. rows[b] \in Row
    BY <1>1, <1>4, OfTable DEF TypeOK
  <2>2. rows[b].action \in Action /\ rows[b].parameter \in BOOLEAN
    BY <2>1 DEF Row
  <2>3. row \in Row /\ row.enabled = TRUE /\ (row.parameter => Needs(row.action))
    BY <2>2, ShownFacts
  <2>4. rows' = [rows EXCEPT ![b] = row]
    BY <1>4 DEF Confirms
  <2> HIDE DEF row
  <2>5. rows' \in Table /\ DOMAIN rows' = DOMAIN rows /\ Rows'
    BY <1>1, <1>2, <1>3, <1>4, <2>3, <2>4, RowStep
  <2>6. TypeOK'
    BY <1>1, <1>2, <1>3, <2>5 DEF TypeOK
  <2> QED
    BY <1>2, <1>3, <2>5, <2>6, FileStays
<1>5. CASE b \notin DOMAIN rows
  <2>1. rows' = rows
    BY <1>5 DEF Confirms
  <2>2. Rows'
    BY <1>1, <1>2, <1>3, <1>5, <2>1 DEF Rows, Allowed
  <2>3. TypeOK'
    BY <1>1, <1>2, <1>3, <2>1 DEF TypeOK
  <2> QED
    BY <1>2, <1>3, <2>1, <2>2, <2>3, FileStays
<1> QED
  BY <1>4, <1>5

\* A closed dialog has an empty table.
LEMMA CloseFacts ==
  ASSUME IInv, Closes PROVE Rows' /\ rows' \in Table /\ ~open'
<1>1. Empty \in [{} -> Row] /\ DOMAIN Empty = {}
  BY DEF Empty
<1>2. Empty \in Table
  BY <1>1, InTable
<1> QED
  BY <1>1, <1>2 DEF Closes, Rows

\* What a save makes of the table.
LEMMA SaveFacts ==
  ASSUME IInv, AllPass
  PROVE  /\ ToSave \in Profile /\ DOMAIN ToSave = DOMAIN rows
         /\ \A b \in DOMAIN rows :
              /\ ToSave[b].parameter = Needs(ToSave[b].action)
              /\ ToSave[b].action # "Default" => b \in Allowed
<1>1. DOMAIN rows \subseteq Button /\ rows \in [DOMAIN rows -> Row]
  BY OfTable DEF IInv, TypeOK
<1>2. \A b \in DOMAIN rows :
         /\ ToSave[b] \in Mapping
         /\ ToSave[b].parameter = Needs(ToSave[b].action)
         /\ ToSave[b].action # "Default" => b \in Allowed
  <2> TAKE b \in DOMAIN rows
  <2>1. rows[b].action \in Action /\ rows[b].parameter \in BOOLEAN
    BY <1>1 DEF Row
  <2>2. CASE b \in Allowed
    <3>1. ToSave[b] = [action |-> rows[b].action, parameter |-> rows[b].parameter]
      BY <2>2 DEF ToSave
    <3>2. rows[b].parameter <=> Needs(rows[b].action)
      BY <2>2 DEF AllPass, Passes, IInv, Rows
    <3>3. ToSave[b].action = rows[b].action /\ ToSave[b].parameter = rows[b].parameter
          /\ ToSave[b] \in Mapping
      BY <2>1, <3>1 DEF Mapping
    <3>4. rows[b].parameter = Needs(rows[b].action)
      BY <2>1, <3>2 DEF Needs
    <3> QED
      BY <2>2, <3>3, <3>4
  <2>3. CASE b \notin Allowed
    <3>1. ToSave[b] = Native
      BY <2>3 DEF ToSave
    <3>2. Native \in Mapping /\ Native.action = "Default" /\ Native.parameter = FALSE
      BY DEF Native, Mapping, Action
    <3>3. Needs("Default") = FALSE
      BY DEF Needs
    <3> QED
      BY <3>1, <3>2, <3>3
  <2> QED
    BY <2>2, <2>3
<1>3. DOMAIN ToSave = DOMAIN rows /\ ToSave \in [DOMAIN rows -> Mapping]
  <2>1. \A b \in DOMAIN rows : ToSave[b] \in Mapping
    BY <1>2
  <2> QED
    BY <2>1 DEF ToSave
<1> QED
  BY <1>1, <1>2, <1>3, InProfile

\* The file that is written has the new profile and otherwise the old ones.
LEMMA WithFacts ==
  ASSUME NEW f \in Files \cup {Missing, Garbled}, NEW k \in Key, NEW p \in Profile
  PROVE  /\ With(f, k, p) \in Files
         /\ k \in DOMAIN With(f, k, p) /\ With(f, k, p)[k] = p
         /\ \A other \in DOMAIN With(f, k, p) \ {k} :
              f \in Files /\ other \in DOMAIN f /\ With(f, k, p)[other] = f[other]
         /\ f \in Files => \A other \in DOMAIN f \ {k} :
              other \in DOMAIN With(f, k, p) /\ With(f, k, p)[other] = f[other]
<1> DEFINE others == IF f \in {Missing, Garbled} THEN {} ELSE DOMAIN f \ {k}
           g == [other \in others \cup {k} |-> IF other = k THEN p ELSE f[other]]
<1>1. With(f, k, p) = g
  BY DEF With
<1>2. /\ others \subseteq Key
      /\ \A other \in others : f \in Files /\ f[other] \in Profile /\ other \in DOMAIN f
      /\ f \in Files => others = DOMAIN f \ {k}
      /\ k \notin others
  BY OfFiles
<1> HIDE DEF others
<1>3. g \in [others \cup {k} -> Profile] /\ others \cup {k} \in SUBSET Key
  BY <1>2
<1>4. g \in Files
  BY <1>3 DEF Files
<1> QED
  BY <1>1, <1>2, <1>4

LEMMA SaveStep == IInv /\ Saves => IInv'
<1> SUFFICES ASSUME IInv, Saves PROVE IInv'
  OBVIOUS
<1> DEFINE f == With(file, key, ToSave)
<1>1. /\ ToSave \in Profile /\ DOMAIN ToSave = DOMAIN rows
      /\ \A b \in DOMAIN rows :
           /\ ToSave[b].parameter = Needs(ToSave[b].action)
           /\ ToSave[b].action # "Default" => b \in Allowed
  BY SaveFacts DEF Saves
<1>2. file \in Files \cup {Missing, Garbled} /\ key \in Key
  BY DEF IInv, TypeOK
<1>3. /\ f \in Files /\ key \in DOMAIN f /\ f[key] = ToSave
      /\ \A other \in DOMAIN f \ {key} :
           file \in Files /\ other \in DOMAIN file /\ f[other] = file[other]
  BY <1>1, <1>2, WithFacts
<1>4. file' = f /\ Closes /\ UNCHANGED <<peripheral, plugged, proven, refused>>
  BY DEF Saves, Closes
<1> HIDE DEF f
<1>5. Rows' /\ rows' \in Table /\ ~open'
  BY <1>4, CloseFacts
<1>6. saves' \in 0..MaxSaves
  BY BoundAssumption DEF Saves, IInv, TypeOK
<1>7. TypeOK'
  BY <1>3, <1>4, <1>5, <1>6 DEF Closes, IInv, TypeOK, Key
<1>8. file' \notin {Missing, Garbled} /\ (file \in Files => file \notin {Missing, Garbled})
  BY <1>3, <1>4, OfFiles
<1>9. WholeFile'
  <2>1. ~refused => DOMAIN rows = Button
    BY DEF Saves, IInv, TableIsWhole
  <2> QED
    BY <1>1, <1>3, <1>4, <1>8, <2>1 DEF IInv, WholeFile
<1>10. ParametersFit'
  BY <1>1, <1>3, <1>4, <1>8 DEF IInv, ParametersFit
<1>11. RemapsOnlyProven'
  <2> SUFFICES ASSUME NEW m \in DOMAIN f \cap Mouse, NEW b \in DOMAIN f[m],
                      b \in Button, f[m][b].action # "Default"
               PROVE  b \in Inferred[m] \cup proven[m]
    BY <1>4 DEF RemapsOnlyProven
  <2>1. CASE m = key
    <3>1. m = peripheral
      BY <2>1, MouseAssumption DEF IInv, Rows
    <3> QED
      BY <1>1, <1>3, <2>1, <3>1 DEF Allowed, IInv, Rows
  <2>2. CASE m # key
    BY <1>3, <1>8, <2>2 DEF IInv, RemapsOnlyProven
  <2> QED
    BY <2>1, <2>2
<1> QED
  BY <1>5, <1>7, <1>9, <1>10, <1>11 DEF IInv, TableIsWhole

LEMMA NextInv == IInv /\ [Next]_vars => IInv'
<1> SUFFICES ASSUME IInv, [Next]_vars PROVE IInv'
  OBVIOUS
<1>1. CASE Damaged
  <2>1. saves' \in 0..MaxSaves /\ file' = Garbled
    BY <1>1, BoundAssumption DEF Damaged, IInv, TypeOK
  <2>2. UNCHANGED <<open, peripheral, key, rows, confirmed, discovered, monitors,
                    listening, plugged, proven, refused>>
    BY <1>1 DEF Damaged, dialog, table, live
  <2> QED
    BY <2>1, <2>2 DEF IInv, TypeOK, Rows, Allowed, WholeFile, RemapsOnlyProven,
                      ParametersFit, TableIsWhole
<1>2. CASE Cancels
  <2>1. Rows' /\ rows' \in Table /\ ~open'
    BY <1>2, CloseFacts DEF Cancels
  <2>2. TypeOK'
    BY <1>2, <2>1 DEF Cancels, Closes, disk, IInv, TypeOK, Key
  <2> QED
    BY <1>2, <2>1, <2>2, FileStays DEF Cancels, Closes, disk
<1>3. CASE Refreshes \/ Toggles \/ SaveRefused \/ \E n \in Node : Unplugs(n) \/ Plugs(n)
  <2>1. Started \subseteq SUBSET discovered
    BY DEF Started, Selections
  <2>2. TypeOK'
    BY <1>3, <2>1 DEF Refreshes, Toggles, SaveRefused, Unplugs, Plugs, disk, dialog,
                      table, live, IInv, TypeOK
  <2>3. UNCHANGED <<file, open, peripheral, key, rows, confirmed, proven, refused>>
    BY <1>3 DEF Refreshes, Toggles, SaveRefused, Unplugs, Plugs, disk, dialog, table
  <2>4. Rows'
    BY <2>3 DEF IInv, Rows, Allowed
  <2> QED
    BY <2>2, <2>3, <2>4, FileStays
<1>4. CASE UNCHANGED vars
  BY <1>4 DEF vars, disk, dialog, table, live, IInv, TypeOK, Rows, Allowed, WholeFile,
              RemapsOnlyProven, ParametersFit, TableIsWhole
<1> QED
  BY <1>1, <1>2, <1>3, <1>4, OpenStep, EditStep, ConfirmStep, SaveStep DEF Next

\* The inductive invariant holds in every reachable state.
THEOREM Invariance == Spec => []IInv
  BY InitInv, NextInv, PTL DEF Spec

-----------------------------------------------------------------------------
\* The variables keep their types.
THEOREM TypeCorrect == Spec => []TypeOK
  BY Invariance, PTL DEF IInv

\* No session ever remaps a button that the mouse is not known to have.
THEOREM OnlyProvenRemapped == Spec => []RemapsOnlyProven
  BY Invariance, PTL DEF IInv

\* No session stores a command without a parameter, or a parameter without one.
THEOREM ParametersBelong == Spec => []ParametersFit
  BY Invariance, PTL DEF IInv

\* Only a load that failed can leave the table without rows.
THEOREM TableOffersAll == Spec => []TableIsWhole
  BY Invariance, PTL DEF IInv

\* A save writes what the unlocked rows show and keeps the other mice.
THEOREM SaveIsShown == Spec => SavedAsShown
<1>1. IInv /\ [Next]_vars =>
        [open /\ ~open' /\ file' # file =>
           /\ DOMAIN file'[key] = DOMAIN rows
           /\ \A b \in DOMAIN rows :
                file'[key][b] = IF rows[b].enabled
                                THEN [action |-> rows[b].action,
                                      parameter |-> rows[b].parameter]
                                ELSE Native
           /\ file \notin {Missing, Garbled} =>
                \A m \in DOMAIN file \ {key} :
                  m \in DOMAIN file' /\ file'[m] = file[m]]_vars
  <2> SUFFICES ASSUME IInv, Next, open, ~open', file' # file
               PROVE  /\ DOMAIN file'[key] = DOMAIN rows
                      /\ \A b \in DOMAIN rows :
                           file'[key][b] = IF rows[b].enabled
                                           THEN [action |-> rows[b].action,
                                                 parameter |-> rows[b].parameter]
                                           ELSE Native
                      /\ file \notin {Missing, Garbled} =>
                           \A m \in DOMAIN file \ {key} :
                             m \in DOMAIN file' /\ file'[m] = file[m]
    OBVIOUS
  <2>1. Saves
    BY DEF Next, Damaged, Opens, Cancels, Editing, Chooses, Types, Unplugs, Plugs,
           Refreshes, Toggles, Confirms, SaveRefused, disk, dialog
  <2>2. /\ file' = With(file, key, ToSave)
        /\ ToSave \in Profile /\ DOMAIN ToSave = DOMAIN rows
    BY <2>1, SaveFacts DEF Saves
  <2>3. file \in Files \cup {Missing, Garbled} /\ key \in Key
    BY DEF IInv, TypeOK
  <2>4. /\ file'[key] = ToSave
        /\ file \in Files => \A m \in DOMAIN file \ {key} :
                               m \in DOMAIN file' /\ file'[m] = file[m]
    BY <2>2, <2>3, WithFacts
  <2>5. \A b \in DOMAIN rows : rows[b].enabled <=> b \in Allowed
    BY DEF IInv, Rows
  <2>6. \A b \in DOMAIN rows :
           ToSave[b] = IF rows[b].enabled
                       THEN [action |-> rows[b].action, parameter |-> rows[b].parameter]
                       ELSE Native
    BY <2>5 DEF ToSave
  <2> QED
    BY <2>2, <2>3, <2>4, <2>6
<1> QED
  BY <1>1, Invariance, PTL DEF Spec, SavedAsShown
=============================================================================

---------------------------- MODULE DisplayScale ----------------------------
(***************************************************************************)
(* checkDisplayScaling: the GUI remembers the scale of every output it has *)
(* seen and makes kscreen-doctor restore it.  The doctor is asked in one   *)
(* process and ordered in another, which runs on its own and names outputs *)
(* by numbers that change with what is plugged in; Qt learns of outputs    *)
(* later than the doctor.  Scales are in percent.                          *)
(***************************************************************************)
EXTENDS GuiProcess, Integers, FiniteSets

CONSTANTS
  Output,    \* names of outputs
  Number,    \* in which order the doctor counts them
  Dense,     \* those of 170 dpi or more
  Similar,   \* pairs of names of which one contains the other
  Scale,     \* for each output, the scales that the desktop or the user sets
  Unknown,   \* no scale remembered
  MaxOrders, \* bound: orders under way
  MaxChanges \* bound: changes from outside

ASSUME OutputAssumption ==
  /\ Dense \subseteq Output /\ Similar \subseteq Output \X Output
  /\ Number \in [Output -> Nat]
  /\ Scale \in [Output -> SUBSET Nat] /\ Unknown \notin Nat

VARIABLES
  plugged,    \* outputs there are
  scale,      \* their scales
  screens,    \* QGuiApplication::screens()
  remembered, \* display/outputScale of the settings
  orders,     \* processes of the doctor under way
  changes     \* how often something outside interfered

scaleVars == <<plugged, scale, screens, remembered, orders, changes>>

Tolerance == 24
Doubled   == 195
Ordinary  == 100
Places    == 1..Cardinality(Output)
Kept      == UNION {Scale[o] : o \in Output} \cup {Ordinary}
Order     == SUBSET (Places \X Kept)

ScaleTypeOK ==
  /\ plugged \subseteq Output /\ screens \subseteq Output
  /\ scale \in [Output -> Kept] /\ remembered \in [Output -> Kept \cup {Unknown}]
  /\ orders \subseteq Order /\ changes \in 0..MaxChanges

ScaleInit ==
  /\ plugged \in SUBSET Output /\ screens = {}
  /\ scale \in {f \in [Output -> Kept] : \A o \in Output :
                 IF o \in plugged THEN f[o] \in Scale[o] ELSE f[o] = Ordinary}
  /\ remembered = [o \in Output |-> Unknown] /\ orders = {} /\ changes = 0

-----------------------------------------------------------------------------
(* From outside                                                            *)

Interferes == changes < MaxChanges /\ changes' = changes + 1

\* The desktop chooses a scale for what is plugged in...
Plugs(o, s) ==
  /\ o \notin plugged /\ Interferes
  /\ plugged' = plugged \cup {o} /\ scale' = [scale EXCEPT ![o] = s]
  /\ UNCHANGED <<screens, remembered, orders>>

Unplugs(o) ==
  /\ o \in plugged /\ Interferes
  /\ plugged' = plugged \ {o} /\ scale' = [scale EXCEPT ![o] = Ordinary]
  /\ UNCHANGED <<screens, remembered, orders>>

\* ... and changes it on its own or for the user.
Rescales(o, s) ==
  /\ o \in plugged /\ Interferes
  /\ scale' = [scale EXCEPT ![o] = s]
  /\ UNCHANGED <<plugged, screens, remembered, orders>>

QtNotices ==
  /\ app = "on" /\ screens # plugged /\ screens' = plugged
  /\ UNCHANGED <<plugged, scale, remembered, orders, changes>>

ScaleLaunches == screens' = plugged /\ UNCHANGED <<plugged, scale, remembered, orders, changes>>
ScaleDies == UNCHANGED scaleVars

-----------------------------------------------------------------------------
(* checkDisplayScaling                                                     *)

Apart(s, t) == s - t > Tolerance \/ t - s > Tolerance

\* The screens whose name is taken for the output's; in the order that Qt has
\* them in, the first one counts.  An output that Qt does not know yet passes for
\* an ordinary one.
TakenFor(o) == {s \in screens : s = o \/ <<s, o>> \in Similar \/ <<o, s>> \in Similar}

Ranks  == {r \in [Output -> Places] : \A o, p \in Output : r[o] = r[p] => o = p}

PassesForDense(o, rank) ==
  \E s \in TakenFor(o) \cap Dense : \A t \in TakenFor(o) : rank[s] <= rank[t]

\* (One that remembers whatever the desktop has chosen.)
AtFirstSightAsIs(o, rank) == scale[o]
AtFirstSight(o, rank) ==
  IF scale[o] >= Doubled /\ ~PassesForDense(o, rank) THEN Ordinary ELSE scale[o]

\* Outputs that are to be put right.  (Only those seen for the first time.)
WrongAtFirst(kept) ==
  {o \in plugged : remembered[o] = Unknown /\ Apart(scale[o], kept[o])}
Wrong(kept) == {o \in plugged : Apart(scale[o], kept[o])}

IdOf(o) == Cardinality({p \in plugged : Number[p] <= Number[o]})

Checks ==
  /\ app = "on" /\ Cardinality(orders) < MaxOrders
  /\ \E rank \in Ranks :
       remembered' = [o \in Output |->
                        IF o \in plugged /\ remembered[o] = Unknown
                        THEN AtFirstSight(o, rank) ELSE remembered[o]]
  /\ orders' = IF Wrong(remembered') = {} THEN orders
               ELSE orders \cup {{<<IdOf(o), remembered'[o]>> : o \in Wrong(remembered')}}
  /\ UNCHANGED <<plugged, scale, screens, changes>>

\* The doctor does what it was told, to the outputs that have the numbers by now...
Obeys(order) ==
  /\ order \in orders /\ orders' = orders \ {order}
  /\ scale' = [o \in Output |->
                 IF o \in plugged /\ \E s \in Kept : <<IdOf(o), s>> \in order
                 THEN CHOOSE s \in Kept : <<IdOf(o), s>> \in order
                 ELSE scale[o]]
  /\ UNCHANGED <<plugged, screens, remembered, changes>>

\* ... or fails, of which nobody takes notice.
Ignores(order) ==
  /\ order \in orders /\ orders' = orders \ {order} /\ Interferes
  /\ UNCHANGED <<plugged, scale, screens, remembered>>

ScaleNext ==
  \/ QtNotices \/ Checks
  \/ \E o \in Output : Unplugs(o) \/ \E s \in Scale[o] : Plugs(o, s) \/ Rescales(o, s)
  \/ \E order \in orders : Obeys(order) \/ Ignores(order)

-----------------------------------------------------------------------------
\* A GUI that stays, in the end left alone by user and desktop, gets every output
\* to the scale it remembers and keeps it there, although orders may fail, come
\* late and reach an output that has inherited a number (checkDisplayScaling).
ScaleSettles ==
  <>[](app = "on") =>
    <>[](\A o \in plugged : remembered[o] # Unknown /\ ~Apart(scale[o], remembered[o]))

\* MainWindow.cpp:1306: "A newly connected ordinary-density display should not
\* silently jump to 200%" - in the end it is never left there, neither by what was
\* remembered of it nor by an order that was meant for another.  Left out are a
\* screen whose name a dense one's contains or is contained in, as "eDP-1" contains
\* "DP-1", and one that was first met so little below 195 % that the jump is within
\* the tolerance and calls for no order (checkDisplayScaling).
Namesakes(o) == {s \in Dense : <<s, o>> \in Similar \/ <<o, s>> \in Similar}
MetJustBelow(o) == remembered[o] \in (Doubled - Tolerance)..(Doubled - 1)
OrdinaryNotDoubled ==
  <>[](app = "on") =>
    <>[](\A o \in plugged \ Dense :
           Namesakes(o) = {} => scale[o] < Doubled \/ MetJustBelow(o))
=============================================================================

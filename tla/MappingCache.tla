---------------------------- MODULE MappingCache ----------------------------
(***************************************************************************)
(* mouse-mappings.json between its two users: the mapping dialog, which    *)
(* reads the file, replaces one mouse's profile and renames a new file     *)
(* over it, and the ActionEngine of another process, which keeps the       *)
(* profile it has loaded for as long as the file's time and size stay the  *)
(* same.  Neither locks, and each may be between two steps of its own when *)
(* the other acts.                                                         *)
(***************************************************************************)
EXTENDS Naturals, FiniteSets

CONSTANTS
  Mouse,      \* deviceKeys
  Profile,    \* what a mouse's mappings can be
  AllDefault, \* the profile of a mouse that has none
  Garbled,    \* a file that does not parse as an array
  Missing,    \* there is no file
  Refused,    \* the result of a load that failed
  MaxWrites   \* bound: times the file is written

ASSUME MouseAssumption == Mouse # {} /\ IsFiniteSet(Mouse)
ASSUME ProfileAssumption == AllDefault \in Profile /\ Refused \notin Profile
ASSUME BoundAssumption == MaxWrites \in Nat

\* A file has a profile for some mice; save() keeps one for each.
Files == UNION {[mice -> Profile] : mice \in SUBSET Mouse}

ASSUME FileAssumption ==
  Garbled \notin Files /\ Missing \notin Files /\ Garbled # Missing

Contents == Files \cup {Garbled, Missing}

VARIABLES
  file,       \* the contents
  modified,   \* time of modification, as the number of writes
  dialog,     \* the save in progress: what it makes of the file it has read
  engine,     \* where the engine's dispatch is
  mouse,      \* the mouse the dispatched event came from
  seen,       \* existence, time and size as the dispatch saw them
  result,     \* what load() returned, and what dispatch() acts on in the end
  cache,      \* cachedProfile_ with cachedDeviceKey_ and what was seen of the file
  during      \* history: contents of the file since the dispatch began

disk     == <<file, modified>>
dispatch == <<engine, mouse, seen, result>>
vars     == <<disk, dialog, dispatch, cache, during>>

NotSaving == [stage |-> "idle"]
NoCache   == [stage |-> "empty"]

\* The size is different for another number of profiles, and may be the same
\* for another profile.
Sizes == 0..Cardinality(Mouse) + 1
Size(f) == IF f \in Files THEN Cardinality(DOMAIN f) ELSE Cardinality(Mouse) + 1

\* What QFileInfo says of the file.
NoStamp == [exists |-> FALSE]
Stamps  == {NoStamp} \cup
  [exists : {TRUE}, modified : 0..MaxWrites, size : Sizes]
Stamp ==
  IF file = Missing THEN NoStamp
  ELSE [exists |-> TRUE, modified |-> modified, size |-> Size(file)]

TypeOK ==
  /\ file \in Contents /\ modified \in 0..MaxWrites
  /\ dialog \in {NotSaving} \cup [stage : {"saving"}, for : Mouse, whole : Files]
  /\ engine \in {"idle", "stat", "load", "store", "done"}
  /\ mouse \in Mouse /\ seen \in Stamps /\ result \in Profile \cup {Refused}
  /\ cache \in {NoCache} \cup
       [stage : {"full"}, mouse : Mouse, seen : Stamps, profile : Profile]
  /\ during \subseteq Contents

AnyMouse == CHOOSE m \in Mouse : TRUE

Init ==
  /\ file \in Contents /\ modified = 0
  /\ dialog = NotSaving
  /\ engine = "idle" /\ mouse = AnyMouse /\ seen = NoStamp /\ result = Refused
  /\ cache = NoCache
  /\ during = {}

\* The file gets new contents and a new time: saves are clicks of a user, and
\* further apart than the ticks of the file system's clock.
Write(f) ==
  /\ modified < MaxWrites /\ modified' = modified + 1
  /\ file' = f
  /\ during' = IF engine \in {"idle", "done"} THEN during ELSE during \cup {f}

-----------------------------------------------------------------------------
(* MouseMappingStore                                                       *)

\* load(): the mouse's own profile; the only profile there is, whoever it was
\* saved for; or all Default.  A file that does not parse fails.
Load(f, m) ==
  IF f = Garbled THEN Refused
  ELSE IF f = Missing THEN AllDefault
  ELSE IF m \in DOMAIN f THEN f[m]
  ELSE IF Cardinality(DOMAIN f) = 1 THEN f[CHOOSE other \in DOMAIN f : TRUE]
  ELSE AllDefault

\* The mice whose profiles save() takes over from the file it finds.
KeptNone(f, m) == {}
Kept(f, m) == IF f \in Files THEN DOMAIN f \ {m} ELSE {}

SaveReads(m, p) ==
  /\ dialog = NotSaving
  /\ dialog' = [stage |-> "saving", for |-> m,
                whole |-> [other \in Kept(file, m) \cup {m} |->
                             IF other = m THEN p ELSE file[other]]]
  /\ UNCHANGED <<disk, dispatch, cache, during>>

\* QSaveFile::commit renames the whole new file over the old one.
SaveCommits ==
  /\ dialog # NotSaving /\ dialog' = NotSaving
  /\ Write(dialog.whole)
  /\ UNCHANGED <<dispatch, cache>>

\* The directory cannot be written to: nothing has happened to the file.
SaveFails ==
  /\ dialog # NotSaving /\ dialog' = NotSaving
  /\ UNCHANGED <<disk, dispatch, cache, during>>

\* An editor leaves the file in a state that does not parse, while nobody saves.
FileDamaged ==
  /\ dialog = NotSaving
  /\ Write(Garbled)
  /\ UNCHANGED <<dialog, dispatch, cache>>

-----------------------------------------------------------------------------
(* ActionEngine::dispatch                                                  *)

DispatchBegins(m) ==
  /\ engine = "idle" /\ engine' = "stat"
  /\ mouse' = m
  /\ during' = {file}
  /\ UNCHANGED <<disk, dialog, seen, result, cache>>

CurrentForAnyMouse == cache # NoCache /\ cache.seen = Stamp
cacheIsCurrent == cache # NoCache /\ cache.seen = Stamp /\ cache.mouse = mouse

\* The file's time and size are taken first; a cache they agree with is used.
StatsFile ==
  /\ engine = "stat"
  /\ IF cacheIsCurrent
     THEN engine' = "done" /\ result' = cache.profile /\ UNCHANGED seen
     ELSE engine' = "load" /\ seen' = Stamp /\ UNCHANGED result
  /\ UNCHANGED <<disk, dialog, mouse, cache, during>>

\* A load that fails refuses the press and leaves the old cache alone.
LoadsFile ==
  /\ engine = "load"
  /\ result' = Load(file, mouse)
  /\ engine' = IF result' = Refused THEN "done" ELSE "store"
  /\ UNCHANGED <<disk, dialog, mouse, seen, cache, during>>

\* The cache keeps what was seen before the load, not what is true after it.
SeenThen == seen

StoresCache ==
  /\ engine = "store" /\ engine' = "done"
  /\ cache' = [stage |-> "full", mouse |-> mouse, seen |-> SeenThen, profile |-> result]
  /\ UNCHANGED <<disk, dialog, mouse, seen, result, during>>

DispatchReturns ==
  /\ engine = "done" /\ engine' = "idle"
  /\ mouse' = AnyMouse /\ seen' = NoStamp /\ result' = Refused /\ during' = {}
  /\ UNCHANGED <<disk, dialog, cache>>

-----------------------------------------------------------------------------
Dialog == SaveCommits \/ SaveFails \/ \E m \in Mouse, p \in Profile : SaveReads(m, p)

Engine == StatsFile \/ LoadsFile \/ StoresCache \/ DispatchReturns
          \/ \E m \in Mouse : DispatchBegins(m)

Next == Dialog \/ FileDamaged \/ Engine

Spec == Init /\ [][Next]_vars

-----------------------------------------------------------------------------
(* Properties                                                              *)

\* A press acts on mappings that its mouse really had between the press and the
\* action, and is refused only when the file did not parse then: the cache is
\* never behind, whatever is saved while the engine looks at the file
\* (dispatch, refreshCacheIfNeeded).
ActsOnTheFile == engine = "done" => \E f \in during : result = Load(f, mouse)

\* However loads, saves and presses interleave, a cache that passes for current
\* is what loading the file now would give (refreshCacheIfNeeded).
CacheIsTheFile ==
  cache # NoCache /\ cache.seen = Stamp => cache.profile = Load(file, cache.mouse)

\* A save for one mouse leaves every other mouse that had a profile with the
\* same one; from a file that does not parse nothing is kept
\* (MouseMappingStore::save).
OthersKept ==
  [][dialog # NotSaving /\ file' # file /\ file \in Files =>
       \A m \in DOMAIN file \ {dialog.for} :
         m \in DOMAIN file' /\ file'[m] = file[m]]_vars
=============================================================================

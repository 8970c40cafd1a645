------------------------ MODULE MappingCache_proofs ------------------------
(***************************************************************************)
(* That the engine's cache never falls behind mouse-mappings.json, for any *)
(* mice, profiles and number of saves, and that a save for one mouse keeps *)
(* the others.                                                             *)
(***************************************************************************)
EXTENDS MappingCache, FiniteSetTheorems, TLAPS

\* What was seen of the file at a time when it had been written n times.
SeenBy(s, n) == s.exists => s.modified <= n

\* What holds between the steps of a dispatch: the file is among the contents it
\* has met, a result came from one of them, and from the present one as long as
\* the file looks the way it did before the load.
Fresh ==
  /\ SeenBy(seen, modified)
  /\ cache # NoCache => SeenBy(cache.seen, modified)
  /\ engine \in {"stat", "load", "store"} => file \in during
  /\ engine = "store" =>
       /\ result # Refused
       /\ \E f \in during : result = Load(f, mouse)
       /\ seen = Stamp => result = Load(file, mouse)

\* The file that is about to be written keeps the other mice of the present one.
KeepsOthers ==
  dialog # NotSaving /\ file \in Files =>
    \A m \in DOMAIN file \ {dialog.for} :
      m \in DOMAIN dialog.whole /\ dialog.whole[m] = file[m]

Inv == TypeOK /\ Fresh /\ ActsOnTheFile /\ CacheIsTheFile /\ KeepsOthers

-----------------------------------------------------------------------------
\* The size of a file is one of Sizes.
LEMMA SizeIsBounded == \A f \in Files : Size(f) \in Sizes
<1> SUFFICES ASSUME NEW f \in Files PROVE Size(f) \in Sizes
  OBVIOUS
<1>1. DOMAIN f \subseteq Mouse
  BY DEF Files
<1>2. /\ IsFiniteSet(DOMAIN f)
      /\ Cardinality(DOMAIN f) <= Cardinality(Mouse)
  BY <1>1, MouseAssumption, FS_Subset
<1>3. Cardinality(DOMAIN f) \in Nat /\ Cardinality(Mouse) \in Nat
  BY <1>2, MouseAssumption, FS_CardinalityType
<1> QED
  BY <1>2, <1>3 DEF Size, Sizes

\* QFileInfo sees a stamp that is not newer than the last write.
LEMMA StampType ==
  ASSUME file \in Contents, modified \in 0..MaxWrites
  PROVE  Stamp \in Stamps /\ SeenBy(Stamp, modified)
<1>1. CASE file = Missing
  BY <1>1 DEF Stamp, Stamps, NoStamp, SeenBy
<1>2. CASE file # Missing
  <2>1. Cardinality(Mouse) \in Nat
    BY MouseAssumption, FS_CardinalityType
  <2>2. Size(file) \in Sizes
    <3>1. CASE file \in Files
      BY <3>1, SizeIsBounded
    <3>2. CASE file \notin Files
      BY <3>2, <2>1 DEF Size, Sizes
    <3> QED
      BY <3>1, <3>2
  <2> QED
    BY <1>2, <2>2, BoundAssumption DEF Stamp, Stamps, NoStamp, SeenBy
<1> QED
  BY <1>1, <1>2

\* load() returns a profile or fails, whatever the file holds.
LEMMA LoadType ==
  ASSUME NEW f \in Contents, NEW m \in Mouse
  PROVE  Load(f, m) \in Profile \cup {Refused}
<1>1. CASE f \in {Garbled, Missing}
  BY <1>1, ProfileAssumption DEF Load
<1>2. CASE f \in Files
  <2>1. PICK mice \in SUBSET Mouse : f \in [mice -> Profile]
    BY <1>2 DEF Files
  <2>2. CASE m \in DOMAIN f
    BY <1>2, <2>1, <2>2, FileAssumption DEF Load
  <2>3. CASE m \notin DOMAIN f /\ Cardinality(DOMAIN f) = 1
    <3>1. IsFiniteSet(DOMAIN f)
      BY <2>1, MouseAssumption, FS_Subset
    <3>2. DOMAIN f # {}
      BY <3>1, <2>3, FS_EmptySet
    <3>3. (CHOOSE other \in DOMAIN f : TRUE) \in DOMAIN f
      BY <3>2
    <3> QED
      BY <1>2, <2>1, <2>3, <3>3, FileAssumption DEF Load
  <2>4. CASE m \notin DOMAIN f /\ Cardinality(DOMAIN f) # 1
    BY <1>2, <2>4, FileAssumption, ProfileAssumption DEF Load
  <2> QED
    BY <2>2, <2>3, <2>4
<1> QED
  BY <1>1, <1>2 DEF Contents

-----------------------------------------------------------------------------
\* It holds when the two processes start, whatever they find on the disk.
LEMMA InitInv == Init => Inv
<1> SUFFICES ASSUME Init PROVE Inv
  OBVIOUS
<1>1. AnyMouse \in Mouse
  BY MouseAssumption DEF AnyMouse
<1>2. NoStamp \in Stamps /\ SeenBy(NoStamp, modified)
  BY DEF Stamps, NoStamp, SeenBy
<1> QED
  BY <1>1, <1>2, BoundAssumption
  DEF Init, Inv, TypeOK, Fresh, ActsOnTheFile, CacheIsTheFile, KeepsOthers, NotSaving,
      NoCache

\* A file that was just written looks like none that was seen before.
LEMMA WriteIsNew ==
  ASSUME NEW f, Write(f), f # Missing, modified \in 0..MaxWrites
  PROVE  \A s \in Stamps : SeenBy(s, modified) => s # Stamp' /\ SeenBy(s, modified')
<1> SUFFICES ASSUME NEW s \in Stamps, SeenBy(s, modified)
             PROVE  s # Stamp' /\ SeenBy(s, modified')
  OBVIOUS
<1>1. modified' = modified + 1 /\ file' = f
  BY DEF Write
<1>2. Stamp' = [exists |-> TRUE, modified |-> modified + 1, size |-> Size(f)']
  BY <1>1 DEF Stamp
<1>3. CASE s = NoStamp
  BY <1>2, <1>3 DEF NoStamp, SeenBy
<1>4. CASE s # NoStamp
  <2>1. s.exists = TRUE /\ s.modified \in 0..MaxWrites
    BY <1>4 DEF Stamps
  <2>2. s.modified <= modified
    BY <2>1 DEF SeenBy
  <2>3. s.modified < modified + 1 /\ s.modified <= modified'
    BY <1>1, <2>1, <2>2, BoundAssumption
  <2>4. Stamp'.modified = modified + 1
    BY <1>2
  <2> QED
    BY <2>1, <2>3, <2>4, BoundAssumption DEF SeenBy
<1> QED
  BY <1>3, <1>4

\* A step that writes the file leaves the engine behind, and it shows.
LEMMA WriteStep ==
  ASSUME Inv, NEW f \in Files \cup {Garbled}, Write(f), UNCHANGED <<dispatch, cache>>,
         dialog' = NotSaving
  PROVE  Inv'
<1> USE DEF dispatch
<1>1. f # Missing
  BY FileAssumption
<1>2. /\ file' = f /\ modified' \in 0..MaxWrites
      /\ during' = IF engine \in {"idle", "done"} THEN during ELSE during \cup {f}
  BY BoundAssumption DEF Inv, TypeOK, Write
<1>3. TypeOK'
  BY <1>2 DEF Inv, TypeOK, Contents
<1>4. seen # Stamp' /\ SeenBy(seen, modified')
  BY <1>1, WriteIsNew DEF Inv, TypeOK, Fresh
<1>5. cache # NoCache => cache.seen # Stamp' /\ SeenBy(cache.seen, modified')
  BY <1>1, WriteIsNew DEF Inv, TypeOK, Fresh
<1>6. during \subseteq during' /\ (engine = "done" => during' = during)
      /\ (engine \in {"stat", "load", "store"} => file' \in during')
  BY <1>2
<1>7. Fresh'
  <2>1. SeenBy(seen', modified') /\ (cache' # NoCache => SeenBy(cache'.seen, modified'))
    BY <1>4, <1>5
  <2>2. engine' \in {"stat", "load", "store"} => file' \in during'
    BY <1>6
  <2>3. engine' = "store" => result' # Refused /\ seen' # Stamp'
    BY <1>4 DEF Inv, Fresh
  <2>4. engine' = "store" => \E g \in during' : result' = Load(g, mouse')
    BY <1>6 DEF Inv, Fresh
  <2> QED
    BY <2>1, <2>2, <2>3, <2>4, <1>4, <1>5 DEF Fresh
<1>8. ActsOnTheFile'
  BY <1>6 DEF Inv, ActsOnTheFile
<1>9. CacheIsTheFile'
  BY <1>5 DEF CacheIsTheFile
<1> QED
  BY <1>3, <1>7, <1>8, <1>9 DEF Inv, KeepsOthers

\* A step of the engine leaves the file alone.
LEMMA EngineStep == Inv /\ Engine => Inv'
<1> SUFFICES ASSUME Inv, Engine PROVE Inv'
  OBVIOUS
<1> USE DEF disk, SeenBy
<1>1. /\ UNCHANGED <<file, modified, dialog>>
      /\ Stamp' = Stamp
  BY DEF Engine, DispatchBegins, StatsFile, LoadsFile, StoresCache, DispatchReturns,
         Stamp, Size
<1>2. Stamp \in Stamps /\ SeenBy(Stamp, modified)
  BY StampType DEF Inv, TypeOK
<1>3. Load(file, mouse) \in Profile \cup {Refused}
  BY LoadType DEF Inv, TypeOK
<1>4. AnyMouse \in Mouse /\ NoStamp \in Stamps /\ SeenBy(NoStamp, modified)
  BY MouseAssumption DEF AnyMouse, Stamps, NoStamp
<1>5. KeepsOthers'
  BY <1>1 DEF Inv, KeepsOthers
<1>6. ASSUME NEW m \in Mouse, DispatchBegins(m) PROVE Inv'
  BY <1>1, <1>6, <1>5 DEF DispatchBegins, Inv, TypeOK, Fresh, ActsOnTheFile, CacheIsTheFile
<1>7. CASE StatsFile
  <2>1. CASE cacheIsCurrent
    <3>1. cache # NoCache /\ cache.profile = Load(file, mouse) /\ cache.profile \in Profile
      BY <2>1 DEF cacheIsCurrent, Inv, TypeOK, CacheIsTheFile
    <3> QED
      BY <1>1, <1>7, <1>5, <2>1, <3>1
      DEF StatsFile, Inv, TypeOK, Fresh, ActsOnTheFile, CacheIsTheFile
  <2>2. CASE ~cacheIsCurrent
    BY <1>1, <1>2, <1>7, <1>5, <2>2
    DEF StatsFile, Inv, TypeOK, Fresh, ActsOnTheFile, CacheIsTheFile
  <2> QED
    BY <2>1, <2>2
<1>8. CASE LoadsFile
  BY <1>1, <1>3, <1>8, <1>5
  DEF LoadsFile, Inv, TypeOK, Fresh, ActsOnTheFile, CacheIsTheFile
<1>9. CASE StoresCache
  <2>1. cache' = [stage |-> "full", mouse |-> mouse, seen |-> seen, profile |-> result]
        /\ cache' # NoCache /\ result \in Profile
    BY <1>9 DEF StoresCache, SeenThen, NoCache, Inv, TypeOK, Fresh
  <2>2. TypeOK'
    BY <1>1, <1>9, <2>1 DEF StoresCache, Inv, TypeOK
  <2>3. Fresh' /\ ActsOnTheFile' /\ CacheIsTheFile'
    BY <1>1, <1>9, <2>1
    DEF StoresCache, Inv, TypeOK, Fresh, ActsOnTheFile, CacheIsTheFile
  <2> QED
    BY <1>5, <2>2, <2>3 DEF Inv
<1>10. CASE DispatchReturns
  BY <1>1, <1>4, <1>10, <1>5
  DEF DispatchReturns, Inv, TypeOK, Fresh, ActsOnTheFile, CacheIsTheFile
<1> QED
  BY <1>6, <1>7, <1>8, <1>9, <1>10 DEF Engine

\* A step of the dialog that does not write changes nothing the engine sees.
LEMMA DialogOnly ==
  ASSUME Inv, UNCHANGED <<disk, dispatch, cache, during>>,
         dialog' \in {NotSaving} \cup [stage : {"saving"}, for : Mouse, whole : Files],
         KeepsOthers'
  PROVE  Inv'
<1>1. Stamp' = Stamp
  BY DEF disk, Stamp, Size
<1> QED
  BY <1>1 DEF disk, dispatch, Inv, TypeOK, Fresh, ActsOnTheFile, CacheIsTheFile

\* What save() makes of a file is a file, and keeps the other mice.
LEMMA SaveType ==
  ASSUME TypeOK, NEW m \in Mouse, NEW p \in Profile, SaveReads(m, p)
  PROVE  /\ dialog' \in [stage : {"saving"}, for : Mouse, whole : Files]
         /\ dialog'.for = m
         /\ \A other \in DOMAIN file \ {m} :
              file \in Files =>
                other \in DOMAIN dialog'.whole /\ dialog'.whole[other] = file[other]
<1> DEFINE whole == [other \in Kept(file, m) \cup {m} |-> IF other = m THEN p ELSE file[other]]
<1>1. dialog' = [stage |-> "saving", for |-> m, whole |-> whole]
  BY DEF SaveReads
<1>2. whole \in Files
  <2>1. CASE file \in Files
    <3>1. PICK mice \in SUBSET Mouse : file \in [mice -> Profile]
      BY <2>1 DEF Files
    <3>2. Kept(file, m) \cup {m} \in SUBSET Mouse
      BY <2>1, <3>1 DEF Kept
    <3>3. whole \in [Kept(file, m) \cup {m} -> Profile]
      BY <2>1, <3>1 DEF Kept
    <3> QED
      BY <3>2, <3>3 DEF Files
  <2>2. CASE file \notin Files
    <3>1. Kept(file, m) = {}
      BY <2>2 DEF Kept
    <3>2. whole \in [{m} -> Profile]
      BY <3>1
    <3> QED
      BY <3>2 DEF Files
  <2> QED
    BY <2>1, <2>2
<1>3. \A other \in DOMAIN file \ {m} :
        file \in Files => other \in DOMAIN whole /\ whole[other] = file[other]
  BY DEF Kept
<1> QED
  BY <1>1, <1>2, <1>3

\* Every step of either process keeps it.
LEMMA NextInv == Inv /\ [Next]_vars => Inv'
<1> SUFFICES ASSUME Inv, [Next]_vars PROVE Inv'
  OBVIOUS
<1>1. CASE Engine
  BY <1>1, EngineStep
<1>2. ASSUME NEW m \in Mouse, NEW p \in Profile, SaveReads(m, p) PROVE Inv'
  <2>1. KeepsOthers'
    BY <1>2, SaveType DEF SaveReads, Inv, KeepsOthers, disk
  <2> QED
    BY <1>2, <2>1, SaveType, DialogOnly DEF SaveReads, Inv
<1>3. CASE SaveFails
  BY <1>3, DialogOnly DEF SaveFails, KeepsOthers
<1>4. CASE SaveCommits
  <2>1. dialog.whole \in Files
    BY <1>4 DEF SaveCommits, Inv, TypeOK
  <2> QED
    BY <1>4, <2>1, WriteStep DEF SaveCommits
<1>5. CASE FileDamaged
  BY <1>5, WriteStep DEF FileDamaged
<1>6. CASE UNCHANGED vars
  BY <1>6, DialogOnly DEF vars, disk, Inv, TypeOK, KeepsOthers
<1> QED
  BY <1>1, <1>2, <1>3, <1>4, <1>5, <1>6 DEF Next, Dialog

\* The inductive invariant holds in every reachable state.
THEOREM Invariance == Spec => []Inv
  BY InitInv, NextInv, PTL DEF Spec

-----------------------------------------------------------------------------
\* The variables keep their types.
THEOREM TypeCorrect == Spec => []TypeOK
  BY Invariance, PTL DEF Inv

\* A press acts on mappings that the file held while it was dispatched, whatever
\* the dialog saved between the engine's look at the file and its load.
THEOREM DispatchIsCurrent == Spec => []ActsOnTheFile
  BY Invariance, PTL DEF Inv

\* A cache that passes for current is what loading the file would give.
THEOREM CacheIsFresh == Spec => []CacheIsTheFile
  BY Invariance, PTL DEF Inv

\* A save for one mouse leaves the others of a file that parses as they were.
THEOREM SaveKeepsOthers == Spec => OthersKept
<1>1. Inv /\ [Next]_vars =>
        [dialog # NotSaving /\ file' # file /\ file \in Files =>
           \A m \in DOMAIN file \ {dialog.for} :
             m \in DOMAIN file' /\ file'[m] = file[m]]_vars
  <2> SUFFICES ASSUME Inv, Next, dialog # NotSaving, file' # file, file \in Files
               PROVE  \A m \in DOMAIN file \ {dialog.for} :
                        m \in DOMAIN file' /\ file'[m] = file[m]
    OBVIOUS
  <2>1. SaveCommits
    BY DEF Next, Dialog, Engine, SaveReads, SaveFails, FileDamaged, DispatchBegins,
           StatsFile, LoadsFile, StoresCache, DispatchReturns, disk
  <2>2. file' = dialog.whole
    BY <2>1 DEF SaveCommits, Write
  <2> QED
    BY <2>2 DEF Inv, KeepsOthers
<1> QED
  BY <1>1, Invariance, PTL DEF Spec, OthersKept
=============================================================================

----------------------- MODULE ActionExecution_proofs -----------------------
(***************************************************************************)
(* Proofs about the execution of actions, for any windows, any number of   *)
(* presses and messages waiting, of failing writes, of changes of the      *)
(* profiles, of fallback tools and of crashes.                             *)
(***************************************************************************)
EXTENDS ActionExecution, SequenceTheorems, TLAPS

MainKey == Shortcut[shortcut].key
Mods    == ToSet(Shortcut[shortcut].modifiers)

\* The events of a frame, all of them key presses, or all of them releases, of
\* the keys in the set.
PressesOf(frame, keys) ==
  /\ frame \in Seq(KeyEvent)
  /\ \A i \in 1..Len(frame) : frame[i].down /\ frame[i].key \in keys
  /\ \A k \in keys : \E i \in 1..Len(frame) : frame[i].key = k
  /\ \A i, j \in 1..Len(frame) : frame[i].key = frame[j].key => i = j

ReleasesOf(frame, keys) ==
  /\ frame \in Seq(KeyEvent)
  /\ \A i \in 1..Len(frame) : ~frame[i].down /\ frame[i].key \in keys
  /\ \A k \in keys : \E i \in 1..Len(frame) : frame[i].key = k

-----------------------------------------------------------------------------
(* The shortcuts and their frames                                          *)

LEMMA ShortcutCases ==
  ASSUME shortcut \in Shortcuts
  PROVE  \/ Shortcut[shortcut] = [modifiers |-> <<"ctrl", "shift">>, key |-> "v"]
         \/ Shortcut[shortcut] = [modifiers |-> <<"ctrl">>, key |-> "v"]
         \/ Shortcut[shortcut] = [modifiers |-> <<"meta">>, key |-> "d"]
  BY DEF Shortcuts, Shortcut

\* The main key of a shortcut is none of its modifiers.
LEMMA ShortcutKeys ==
  ASSUME shortcut \in Shortcuts
  PROVE  MainKey \in Key \ Modifier /\ Mods \subseteq Modifier
<1>1. CASE Shortcut[shortcut] = [modifiers |-> <<"ctrl", "shift">>, key |-> "v"]
  BY <1>1 DEF MainKey, Mods, ToSet, Key, Modifier
<1>2. CASE Shortcut[shortcut] = [modifiers |-> <<"ctrl">>, key |-> "v"]
  BY <1>2 DEF MainKey, Mods, ToSet, Key, Modifier
<1>3. CASE Shortcut[shortcut] = [modifiers |-> <<"meta">>, key |-> "d"]
  BY <1>3 DEF MainKey, Mods, ToSet, Key, Modifier
<1> QED
  BY <1>1, <1>2, <1>3, ShortcutCases

\* The modifiers are a sequence without repetitions.
LEMMA ShortcutModifiers ==
  ASSUME shortcut \in Shortcuts
  PROVE  LET keys == Shortcut[shortcut].modifiers
         IN  /\ keys \in Seq(Key)
             /\ \A i, j \in 1..Len(keys) : keys[i] = keys[j] => i = j
<1>1. CASE Shortcut[shortcut] = [modifiers |-> <<"ctrl", "shift">>, key |-> "v"]
  BY <1>1 DEF Key, Modifier
<1>2. CASE Shortcut[shortcut] = [modifiers |-> <<"ctrl">>, key |-> "v"]
  BY <1>2 DEF Key, Modifier
<1>3. CASE Shortcut[shortcut] = [modifiers |-> <<"meta">>, key |-> "d"]
  BY <1>3 DEF Key, Modifier
<1> QED
  BY <1>1, <1>2, <1>3, ShortcutCases

\* One event for each key, in their order.
LEMMA EventsOfKeys ==
  ASSUME NEW keys \in Seq(Key), NEW down \in BOOLEAN
  PROVE  /\ Events(keys, down) \in Seq(KeyEvent)
         /\ Len(Events(keys, down)) = Len(keys)
         /\ \A i \in 1..Len(keys) :
              Events(keys, down)[i].key = keys[i] /\ Events(keys, down)[i].down = down
<1>1. Events(keys, down) \in Seq(KeyEvent) /\ Len(Events(keys, down)) = Len(keys)
  BY LenProperties DEF Events, KeyEvent
<1>2. ASSUME NEW i \in 1..Len(keys)
      PROVE  Events(keys, down)[i].key = keys[i] /\ Events(keys, down)[i].down = down
  BY DEF Events
<1> QED
  BY <1>1, <1>2

\* A sequence and its reverse have the same elements.
LEMMA ReverseOfKeys ==
  ASSUME NEW keys \in Seq(Key)
  PROVE  /\ Reverse(keys) \in Seq(Key) /\ Len(Reverse(keys)) = Len(keys)
         /\ \A i \in 1..Len(keys) : Reverse(keys)[i] \in ToSet(keys)
         /\ \A k \in ToSet(keys) : \E i \in 1..Len(keys) : Reverse(keys)[i] = k
<1> DEFINE n == Len(keys)
<1>1. n \in Nat /\ DOMAIN keys = 1..n /\ \A i \in 1..n : keys[i] \in Key
  BY LenProperties
<1>2. \A i \in 1..n : (n - i) + 1 \in 1..n /\ (n - ((n - i) + 1)) + 1 = i
  BY <1>1
<1>3. /\ Reverse(keys) \in Seq(Key) /\ Len(Reverse(keys)) = n
      /\ \A i \in 1..n : Reverse(keys)[i] = keys[(n - i) + 1]
  BY <1>1, <1>2 DEF Reverse
<1>4. \A k \in ToSet(keys) : \E i \in 1..n : keys[i] = k
  BY <1>1 DEF ToSet
<1>5. \A i \in 1..n : Reverse(keys)[i] \in ToSet(keys)
  BY <1>1, <1>2, <1>3 DEF ToSet
<1>6. \A i \in 1..n : Reverse(keys)[(n - i) + 1] = keys[i]
  BY <1>2, <1>3
<1> QED
  BY <1>2, <1>3, <1>4, <1>5, <1>6

\* The frames that press, and release, the keys of a sequence.
LEMMA FramesOfKeys ==
  ASSUME NEW keys \in Seq(Key), NEW S,
         \A i \in 1..Len(keys) : keys[i] \in S,
         \A k \in S : \E i \in 1..Len(keys) : keys[i] = k
  PROVE  /\ ReleasesOf(Events(keys, FALSE), S)
         /\ (\A i, j \in 1..Len(keys) : keys[i] = keys[j] => i = j)
               => PressesOf(Events(keys, TRUE), S)
<1> DEFINE released == Events(keys, FALSE)
           pressed  == Events(keys, TRUE)
<1>1. /\ released \in Seq(KeyEvent) /\ Len(released) = Len(keys)
      /\ \A i \in 1..Len(keys) : released[i].key = keys[i] /\ released[i].down = FALSE
  BY EventsOfKeys
<1>2. /\ pressed \in Seq(KeyEvent) /\ Len(pressed) = Len(keys)
      /\ \A i \in 1..Len(keys) : pressed[i].key = keys[i] /\ pressed[i].down = TRUE
  BY EventsOfKeys
<1> HIDE DEF released, pressed
<1>3. ReleasesOf(released, S)
  BY <1>1 DEF ReleasesOf
<1>4. ASSUME \A i, j \in 1..Len(keys) : keys[i] = keys[j] => i = j
      PROVE  PressesOf(pressed, S)
  BY <1>2, <1>4 DEF PressesOf
<1> QED
  BY <1>3, <1>4 DEF released, pressed

LEMMA FrameKeys ==
  ASSUME shortcut \in Shortcuts
  PROVE  /\ PressesOf(ModifierPresses, Mods)
         /\ ReleasesOf(ModifierReleases, Mods)
         /\ PressesOf(KeyPress, {MainKey})
         /\ ReleasesOf(KeyRelease, {MainKey})
<1> DEFINE keys == Shortcut[shortcut].modifiers
           back == Reverse(keys)
           main == <<MainKey>>
<1>1. /\ keys \in Seq(Key) /\ DOMAIN keys = 1..Len(keys)
      /\ \A i, j \in 1..Len(keys) : keys[i] = keys[j] => i = j
  BY ShortcutModifiers, LenProperties
<1>2. /\ back \in Seq(Key)
      /\ \A i \in 1..Len(back) : back[i] \in Mods
      /\ \A k \in Mods : \E i \in 1..Len(back) : back[i] = k
  BY <1>1, ReverseOfKeys DEF Mods
<1>3. /\ \A i \in 1..Len(keys) : keys[i] \in Mods
      /\ \A k \in Mods : \E i \in 1..Len(keys) : keys[i] = k
  BY <1>1 DEF Mods, ToSet
<1>4. /\ main \in Seq(Key) /\ Len(main) = 1 /\ main[1] = MainKey
  BY ShortcutKeys
<1>5. /\ ModifierPresses = Events(keys, TRUE) /\ ModifierReleases = Events(back, FALSE)
      /\ KeyPress = Events(main, TRUE) /\ KeyRelease = Events(main, FALSE)
  BY DEF ModifierPresses, ModifierReleases, KeyPress, KeyRelease, MainKey
<1> HIDE DEF keys, back, main
<1>6. PressesOf(Events(keys, TRUE), Mods)
  BY <1>1, <1>3, FramesOfKeys
<1>7. ReleasesOf(Events(back, FALSE), Mods)
  BY <1>2, FramesOfKeys
<1>8. PressesOf(Events(main, TRUE), {MainKey}) /\ ReleasesOf(Events(main, FALSE), {MainKey})
  <2>1. /\ \A i \in 1..Len(main) : main[i] \in {MainKey}
        /\ \A k \in {MainKey} : \E i \in 1..Len(main) : main[i] = k
        /\ \A i, j \in 1..Len(main) : main[i] = main[j] => i = j
    BY <1>4
  <2> QED
    BY <1>4, <2>1, FramesOfKeys
<1> QED
  BY <1>5, <1>6, <1>7, <1>8

LEMMA ReleaseFrameKeys ==
  ASSUME shortcut \in Shortcuts
  PROVE  ReleasesOf(ReleaseFrame, Mods \cup {MainKey})
<1> DEFINE k == Len(KeyRelease)
           m == Len(ModifierReleases)
<1>1. ReleasesOf(KeyRelease, {MainKey}) /\ ReleasesOf(ModifierReleases, Mods)
  BY FrameKeys
<1>2. /\ ReleaseFrame \in Seq(KeyEvent) /\ Len(ReleaseFrame) = k + m /\ k \in Nat /\ m \in Nat
      /\ \A i \in 1..(k + m) :
           ReleaseFrame[i] = IF i <= k THEN KeyRelease[i] ELSE ModifierReleases[i - k]
  BY <1>1, ConcatProperties, LenProperties DEF ReleaseFrame, ReleasesOf
<1>3. \A i \in 1..k : ReleaseFrame[i] = KeyRelease[i]
  BY <1>2
<1>4. \A i \in 1..m : i + k \in 1..(k + m) /\ ReleaseFrame[i + k] = ModifierReleases[i]
  BY <1>2
<1>5. \A i \in 1..Len(ReleaseFrame) : ~ReleaseFrame[i].down /\ ReleaseFrame[i].key \in Mods \cup {MainKey}
  <2> TAKE i \in 1..Len(ReleaseFrame)
  <2>1. CASE i <= k
    BY <2>1, <1>1, <1>2 DEF ReleasesOf
  <2>2. CASE ~(i <= k)
    <3>1. i - k \in 1..m
      BY <2>2, <1>2
    <3> QED
      BY <2>2, <3>1, <1>1, <1>2 DEF ReleasesOf
  <2> QED
    BY <2>1, <2>2
<1>6. \A x \in Mods \cup {MainKey} : \E i \in 1..Len(ReleaseFrame) : ReleaseFrame[i].key = x
  <2> TAKE x \in Mods \cup {MainKey}
  <2>1. CASE x \in Mods
    <3>1. PICK i \in 1..m : ModifierReleases[i].key = x
      BY <2>1, <1>1 DEF ReleasesOf
    <3>2. i + k \in 1..Len(ReleaseFrame) /\ ReleaseFrame[i + k].key = x
      BY <3>1, <1>2, <1>4
    <3> QED
      BY <3>2
  <2>2. CASE x = MainKey
    <3>1. PICK i \in 1..k : KeyRelease[i].key = x
      BY <2>2, <1>1 DEF ReleasesOf
    <3> QED
      BY <3>1, <1>2, <1>3
  <2> QED
    BY <2>1, <2>2
<1> QED
  BY <1>2, <1>5, <1>6 DEF ReleasesOf

-----------------------------------------------------------------------------
(* What the desktop makes of a frame                                       *)

\* The events of one sequence written after those of another.
LEMMA Joined ==
  ASSUME NEW p \in Seq(KeyEvent), NEW f \in Seq(KeyEvent)
  PROVE  /\ p \o f \in Seq(KeyEvent) /\ Len(p) \in Nat /\ Len(f) \in Nat
         /\ Len(p \o f) = Len(p) + Len(f)
         /\ \A i \in 1..Len(p) : (p \o f)[i] = p[i]
         /\ \A i \in 1..Len(f) : (p \o f)[Len(p) + i] = f[i]
         /\ \A i \in 1..(Len(p) + Len(f)) : i > Len(p) => (p \o f)[i] = f[i - Len(p)]
<1>1. Len(p) \in Nat /\ Len(f) \in Nat
  BY LenProperties
<1>2. /\ p \o f \in Seq(KeyEvent) /\ Len(p \o f) = Len(p) + Len(f)
      /\ \A i \in 1..(Len(p) + Len(f)) :
           (p \o f)[i] = IF i <= Len(p) THEN p[i] ELSE f[i - Len(p)]
  BY ConcatProperties
<1> QED
  BY <1>1, <1>2

LEMMA EventType ==
  ASSUME NEW s \in Seq(KeyEvent), NEW i \in 1..Len(s)
  PROVE  s[i] \in KeyEvent /\ s[i].key \in Key /\ s[i].down \in BOOLEAN
<1>1. s[i] \in KeyEvent
  BY LenProperties
<1> QED
  BY <1>1 DEF KeyEvent

\* A frame of key presses adds its keys to those that are down.
LEMMA PressesGoDown ==
  ASSUME NEW f, NEW keys \in SUBSET Key, PressesOf(f, keys), shown \subseteq Key
  PROVE  DownAfter(f, Len(f)) = shown \cup keys
<1>1. ASSUME NEW k \in keys
      PROVE  k \in DownAfter(f, Len(f))
  <2>1. PICK i \in 1..Len(f) : f[i].key = k
    BY <1>1 DEF PressesOf
  <2>2. f[i].down /\ \A j \in 1..Len(f) : j > i => f[j].key # k
    BY <2>1 DEF PressesOf
  <2> QED
    BY <2>1, <2>2 DEF DownAfter
<1>2. ASSUME NEW k \in shown, k \notin keys
      PROVE  k \in DownAfter(f, Len(f))
  BY <1>2 DEF DownAfter, PressesOf
<1>3. ASSUME NEW k \in DownAfter(f, Len(f)), k \notin shown
      PROVE  k \in keys
  BY <1>3 DEF DownAfter, PressesOf
<1> QED
  BY <1>1, <1>2, <1>3

\* A frame of releases takes its keys away, whatever was written before it, as
\* long as that was about the same keys.
LEMMA ReleasesGoUp ==
  ASSUME NEW p \in Seq(KeyEvent), NEW f, NEW keys \in SUBSET Key, ReleasesOf(f, keys),
         \A i \in 1..Len(p) : p[i].key \in keys, shown \subseteq Key
  PROVE  DownAfter(p \o f, Len(p \o f)) = shown \ keys
<1> DEFINE s == p \o f
<1>1. /\ Len(p) \in Nat /\ Len(f) \in Nat /\ Len(s) = Len(p) + Len(f)
      /\ \A i \in 1..Len(p) : s[i] = p[i]
      /\ \A i \in 1..Len(f) : s[Len(p) + i] = f[i]
      /\ \A i \in 1..Len(s) : i > Len(p) => i - Len(p) \in 1..Len(f) /\ s[i] = f[i - Len(p)]
  BY Joined DEF ReleasesOf
<1> HIDE DEF s
<1>2. \A i \in 1..Len(s) : s[i].key \in keys
  <2> TAKE i \in 1..Len(s)
  <2>1. CASE i \in 1..Len(p)
    BY <1>1, <2>1
  <2>2. CASE i > Len(p)
    BY <1>1, <2>2 DEF ReleasesOf
  <2> QED
    BY <1>1, <2>1, <2>2
<1>3. \A i \in 1..Len(s) : s[i].down => i \in 1..Len(p)
  <2> TAKE i \in 1..Len(s)
  <2>1. CASE i > Len(p)
    BY <1>1, <2>1 DEF ReleasesOf
  <2> QED
    BY <1>1, <2>1
<1>4. ASSUME NEW k \in keys
      PROVE  k \notin DownAfter(s, Len(s))
  <2>1. PICK i \in 1..Len(f) : f[i].key = k
    BY <1>4 DEF ReleasesOf
  <2>2. Len(p) + i \in 1..Len(s) /\ s[Len(p) + i].key = k
    BY <1>1, <2>1
  <2>3. \A j \in 1..Len(s) : s[j].down => Len(p) + i > j
    BY <1>1, <1>3
  <2> QED
    BY <2>2, <2>3 DEF DownAfter
<1>5. ASSUME NEW k \in Key, k \notin keys
      PROVE  k \in DownAfter(s, Len(s)) <=> k \in shown
  BY <1>2, <1>5 DEF DownAfter
<1>6. DownAfter(s, Len(s)) \subseteq Key
  BY DEF DownAfter
<1> QED
  BY <1>4, <1>5, <1>6 DEF s

\* Releases make the desktop do nothing; what was written before them may.
LEMMA StrokesBefore ==
  ASSUME NEW p \in Seq(KeyEvent), NEW f, NEW keys, ReleasesOf(f, keys),
         NEW i \in Strokes(p \o f)
  PROVE  i \in 1..Len(p) /\ p[i].down /\ p[i].key \notin Modifier /\ (p \o f)[i] = p[i]
<1>1. /\ Len(p) \in Nat /\ Len(f) \in Nat /\ Len(p \o f) = Len(p) + Len(f)
      /\ \A j \in 1..Len(p) : (p \o f)[j] = p[j]
      /\ \A j \in 1..Len(p \o f) :
           j > Len(p) => j - Len(p) \in 1..Len(f) /\ (p \o f)[j] = f[j - Len(p)]
  BY Joined DEF ReleasesOf
<1>2. i \in 1..Len(p \o f) /\ (p \o f)[i].down /\ (p \o f)[i].key \notin Modifier
  BY DEF Strokes
<1>3. ~(i > Len(p))
  BY <1>1, <1>2 DEF ReleasesOf
<1> QED
  BY <1>1, <1>2, <1>3

\* As long as no modifier is written, the modifiers that are down stay down.
LEMMA ModifiersStay ==
  ASSUME NEW s \in Seq(KeyEvent), NEW n \in 0..Len(s), shown \subseteq Key,
         \A i \in 1..n : s[i].key \notin Modifier
  PROVE  DownAfter(s, n) \cap Modifier = shown \cap Modifier
  BY DEF DownAfter

-----------------------------------------------------------------------------
(* Types                                                                   *)

\* The phases in which the virtual keyboard is written to.
Framing == {"modifiers", "press", "release", "unmodify", "releaseAll"}

\* While a frame is sent, the keyboard exists; the daemon that runs an action runs.
TypeInv == TypeOK /\ (pc \in Framing => ready) /\ (pc # "idle" => up)

LEMMA InitType == Init => TypeInv
<1>1. [id \in ProfileIds |-> TRUE] \in Contexts
  BY DEF Contexts
<1>2. 0 \in 0..MaxFaults /\ 0 \in 0..MaxEdits /\ 0 \in 0..MaxCrashes /\ 0 \in 0..Fallbacks
  BY BoundAssumption, FallbacksAssumption
<1>3. \A S : <<>> \in Seq(S) /\ Len(<<>>) = 0 /\ 0 <= MaxQueue
  BY BoundAssumption
<1>4. "plain" \in Shortcuts
  BY DEF Shortcuts, Shortcut
<1>5. Init => TypeOK
  BY <1>1, <1>2, <1>3, <1>4 DEF Init, TypeOK, Phases, Requests
<1> QED
  BY <1>5 DEF Init, TypeInv, Framing

\* The frames of a shortcut are sequences of key events.
LEMMA FrameTypes ==
  ASSUME shortcut \in Shortcuts
  PROVE  /\ ModifierPresses \in Seq(KeyEvent) /\ ModifierReleases \in Seq(KeyEvent)
         /\ KeyPress \in Seq(KeyEvent) /\ KeyRelease \in Seq(KeyEvent)
         /\ ReleaseFrame \in Seq(KeyEvent)
  BY FrameKeys, ReleaseFrameKeys DEF PressesOf, ReleasesOf

\* What a frame that gets through leaves behind.
LEMMA GotThroughType ==
  ASSUME TypeOK, NEW frame \in Seq(KeyEvent), GotThrough(frame)
  PROVE  pending' = <<>> /\ shown' \subseteq Key /\ performed' \subseteq Performed
<1> DEFINE s == pending \o frame
<1>1. s \in Seq(KeyEvent)
  BY Joined DEF TypeOK
<1> HIDE DEF s
<1>2. ASSUME NEW i \in Strokes(s)
      PROVE  Stroke(s, i) \in Performed
  <2>1. i \in 1..Len(s)
    BY DEF Strokes
  <2>2. s[i].key \in Key
    BY <1>1, <2>1, EventType
  <2> QED
    BY <2>2 DEF Stroke, Performed, TypeOK
<1>3. performed' = performed \cup {Stroke(s, i) : i \in Strokes(s)}
  BY DEF GotThrough, s
<1>4. performed' \subseteq Performed
  BY <1>2, <1>3 DEF TypeOK
<1>5. DownAfter(s, Len(s)) \subseteq Key
  BY DEF DownAfter
<1> QED
  BY <1>4, <1>5 DEF GotThrough, s

\* A frame that is cut short leaves its first events waiting.
LEMMA CutShortType ==
  ASSUME TypeOK, NEW frame \in Seq(KeyEvent), CutShort(frame)
  PROVE  /\ pending' \in Seq(KeyEvent) /\ faults' \in 0..MaxFaults
         /\ shown' = shown /\ performed' = performed
         /\ \A i \in 1..Len(pending') :
              \/ i \in 1..Len(pending) /\ pending'[i] = pending[i]
              \/ \E j \in 1..Len(frame) : pending'[i] = frame[j]
<1>1. PICK n \in 0..Len(frame) : pending' = pending \o SubSeq(frame, 1, n)
  BY DEF CutShort
<1> DEFINE cutFrame == SubSeq(frame, 1, n)
<1>2. Len(frame) \in Nat /\ \A i \in 1..Len(frame) : frame[i] \in KeyEvent
  BY LenProperties
<1>3. \A i \in 1..n : frame[i] \in KeyEvent
  BY <1>2
<1>4. /\ cutFrame \in Seq(KeyEvent) /\ Len(cutFrame) = n
      /\ \A i \in 1..n : cutFrame[i] = frame[i]
  <2>1. 1 \in Int /\ n \in Int
    BY <1>2
  <2>2. /\ cutFrame \in Seq(KeyEvent) /\ Len(cutFrame) = IF 1 <= n THEN n - 1 + 1 ELSE 0
        /\ \A i \in 1..(n - 1 + 1) : cutFrame[i] = frame[1 + i - 1]
    BY <1>3, <2>1, SubSeqProperties
  <2> QED
    BY <1>2, <2>2
<1> HIDE DEF cutFrame
<1>5. /\ pending \o cutFrame \in Seq(KeyEvent) /\ Len(pending) \in Nat
      /\ Len(pending \o cutFrame) = Len(pending) + n
      /\ \A i \in 1..Len(pending) : (pending \o cutFrame)[i] = pending[i]
      /\ \A i \in 1..(Len(pending) + n) :
           i > Len(pending) => (pending \o cutFrame)[i] = cutFrame[i - Len(pending)]
  BY <1>4, Joined DEF TypeOK
<1>6. pending' = pending \o cutFrame
  BY <1>1 DEF cutFrame
<1>7. ASSUME NEW i \in 1..Len(pending')
      PROVE  \/ i \in 1..Len(pending) /\ pending'[i] = pending[i]
             \/ \E j \in 1..Len(frame) : pending'[i] = frame[j]
  <2>1. CASE i \in 1..Len(pending)
    BY <1>5, <1>6, <2>1
  <2>2. CASE i > Len(pending)
    <3>1. i - Len(pending) \in 1..n
      BY <1>2, <1>5, <1>6, <2>2
    <3>2. pending'[i] = frame[i - Len(pending)] /\ i - Len(pending) \in 1..Len(frame)
      BY <1>2, <1>4, <1>5, <1>6, <2>2, <3>1
    <3> QED
      BY <3>2
  <2> QED
    BY <1>5, <1>6, <2>1, <2>2
<1>8. faults' \in 0..MaxFaults /\ shown' = shown /\ performed' = performed
  BY BoundAssumption DEF CutShort, TypeOK
<1> QED
  BY <1>5, <1>6, <1>7, <1>8

\* One frame of a shortcut, whether it gets through or not.
LEMMA FrameType ==
  ASSUME TypeInv, NEW at, NEW next, NEW frame \in Seq(KeyEvent), Frame(at, frame, next),
         at \in Framing, next \in Framing
  PROVE  TypeInv'
<1>1. ready /\ up
  BY DEF Frame, TypeInv, Framing
<1>2. CASE GotThrough(frame) /\ pc' = next /\ UNCHANGED faults
  <2>1. pending' = <<>> /\ shown' \subseteq Key /\ performed' \subseteq Performed
    BY <1>2, GotThroughType DEF TypeInv
  <2> QED
    BY <1>1, <1>2, <2>1 DEF Frame, TypeInv, TypeOK, desktop, Framing, Phases
<1>3. CASE CutShort(frame) /\ pc' = "releaseAll"
  <2>1. /\ pending' \in Seq(KeyEvent) /\ faults' \in 0..MaxFaults
        /\ shown' = shown /\ performed' = performed
    BY <1>3, CutShortType DEF TypeInv
  <2> QED
    BY <1>1, <1>3, <2>1 DEF Frame, TypeInv, TypeOK, desktop, Framing, Phases
<1> QED
  BY <1>2, <1>3 DEF Frame

\* The profiles after load(), and what a look-up of a shortcut finds.
LEMMA LookUpType ==
  ASSUME TypeOK, NEW w, NEW found \in Contexts \cup {Broken}, LookUp(w, found)
  PROVE  contexts' \in Contexts \cup {Broken}
  BY DEF LookUp, TypeOK

LEMMA ShortcutForType ==
  ASSUME NEW w, NEW found
  PROVE  ShortcutFor(found, w) \subseteq Shortcuts
  BY DEF ShortcutFor, Matching, Shortcuts, Shortcut

LEMMA ActiveWindowType ==
  ASSUME TypeOK, NEW w \in ActiveWindows
  PROVE  w \in Window \cup {NoWindow}
  BY DEF ActiveWindows, TypeOK

\* What execute() decides about a press.
LEMMA ExecuteType ==
  ASSUME TypeOK, ExecuteContext \/ ExecutePlain \/ ExecuteScript
  PROVE  /\ contexts' \in Contexts \cup {Broken}
         /\ pc' \in {"idle", "send", "script"} /\ request' \in Requests
         /\ known' \in Window \cup {NoWindow} /\ shortcut' \in Shortcuts
<1>1. "plain" \in Shortcuts
  BY DEF Shortcuts, Shortcut
<1>2. CASE ExecuteContext
  <2>1. PICK w \in ActiveWindows, found \in Contexts \cup {Broken} :
          /\ LookUp(w, found)
          /\ IF ShortcutFor(found, w) = {} THEN Refuse
             ELSE \E s \in ShortcutFor(found, w) : Send("context", w, s)
    BY <1>2 DEF ExecuteContext
  <2>2. contexts' \in Contexts \cup {Broken} /\ w \in Window \cup {NoWindow}
    BY <2>1, LookUpType, ActiveWindowType
  <2>3. \A s \in ShortcutFor(found, w) : s \in Shortcuts
    BY ShortcutForType
  <2> QED
    BY <2>1, <2>2, <2>3 DEF Refuse, Send, Requests, TypeOK
<1>3. CASE ExecutePlain
  <2>1. contexts' \in Contexts \cup {Broken}
    BY <1>3, LookUpType DEF ExecutePlain, TypeOK
  <2> QED
    BY <1>1, <1>3, <2>1 DEF ExecutePlain, Send, Requests
<1>4. CASE ExecuteScript
  BY <1>4 DEF ExecuteScript, Refuse, Requests, TypeOK
<1> QED
  BY <1>2, <1>3, <1>4

LEMMA HandlePressExecutes ==
  ASSUME TypeOK, HandlePress
  PROVE  /\ ExecuteContext \/ ExecutePlain \/ ExecuteScript
         /\ presses' \in Seq(Requests) /\ Len(presses') <= MaxQueue
<1>1. presses # <<>> /\ presses \in Seq(Requests) /\ Len(presses) <= MaxQueue
  BY DEF HandlePress, TypeOK
<1>2. Head(presses) \in Requests
  BY <1>1, HeadTailProperties
<1>3. Tail(presses) \in Seq(Requests) /\ Len(Tail(presses)) = Len(presses) - 1 /\ Len(presses) \in Nat
  BY <1>1, HeadTailProperties, LenProperties
<1>4. presses' \in Seq(Requests) /\ Len(presses') <= MaxQueue
  BY <1>1, <1>3, BoundAssumption DEF HandlePress
<1> QED
  BY <1>2, <1>4 DEF HandlePress, Requests

\* What a tool does is well typed.
LEMMA ByToolType ==
  ASSUME TypeOK
  PROVE  ByTool \in Performed
<1>1. MainKey \in Key /\ Mods \subseteq Modifier
  BY ShortcutKeys DEF TypeOK
<1> QED
  BY <1>1 DEF ByTool, Performed, TypeOK, MainKey, Mods

\* The actions of Next as one flat disjunction.
Step ==
  \/ EditContexts
  \/ (\E w \in Window \cup {NoWindow} : ActivateWindow(w))
  \/ (\E r \in Requests : Press(r))
  \/ DaemonStarts \/ Crash \/ SetActiveWindow \/ HandlePress
  \/ SendStarts \/ SendModifiers \/ SendPress \/ SendRelease
  \/ SendModifierReleases \/ ReleaseAll
  \/ ScriptKilled \/ ScriptEnds \/ ToolSucceeds \/ ToolFails \/ NoToolLeft \/ Returns

LEMMA NextIsStep == Next => Step
  BY DEF Next, Step, User, Sending, Waiting

LEMMA TypeStep == TypeInv /\ [Next]_vars => TypeInv'
<1> SUFFICES ASSUME TypeInv, [Next]_vars
             PROVE  TypeInv'
  OBVIOUS
<1>0. TypeOK /\ (pc \in Framing => ready) /\ (pc # "idle" => up)
  BY DEF TypeInv
<1> USE DEF TypeInv
<1>1. CASE EditContexts
  <2>1. Edited \subseteq Contexts
    BY DEF Edited
  <2>2. edits' \in 0..MaxEdits
    BY <1>1, BoundAssumption DEF EditContexts, TypeOK
  <2> QED
    BY <1>1, <2>1, <2>2 DEF EditContexts, TypeOK, desktop, thread, keyboard, history
<1>2. ASSUME NEW w \in Window \cup {NoWindow}, ActivateWindow(w)
      PROVE  TypeInv'
  <2>1. Append(inFlight, w) \in Seq(Window \cup {NoWindow}) /\ Len(Append(inFlight, w)) = Len(inFlight) + 1
    BY AppendProperties DEF TypeOK
  <2>2. Len(inFlight) \in Nat
    BY LenProperties DEF TypeOK
  <2>3. inFlight' \in Seq(Window \cup {NoWindow}) /\ Len(inFlight') <= MaxQueue
    BY <1>2, <2>1, <2>2, BoundAssumption DEF ActivateWindow, TypeOK
  <2> QED
    BY <1>2, <2>3 DEF ActivateWindow, TypeOK, thread, keyboard, history, counts
<1>3. ASSUME NEW r \in Requests, Press(r)
      PROVE  TypeInv'
  <2>1. Append(presses, r) \in Seq(Requests) /\ Len(Append(presses, r)) = Len(presses) + 1
    BY AppendProperties DEF TypeOK
  <2>2. Len(presses) \in Nat
    BY LenProperties DEF TypeOK
  <2>3. presses' \in Seq(Requests) /\ Len(presses') <= MaxQueue
    BY <1>3, <2>1, <2>2, BoundAssumption DEF Press
  <2> QED
    BY <1>3, <2>3 DEF Press, TypeOK, desktop, thread, keyboard, history, counts
<1>4. CASE DaemonStarts
  BY <1>4 DEF DaemonStarts, TypeOK, desktop, thread, keyboard, history, counts
<1>5. CASE Crash
  <2>1. \A S : <<>> \in Seq(S) /\ Len(<<>>) = 0 /\ 0 <= MaxQueue
    BY BoundAssumption
  <2>2. "plain" \in Shortcuts /\ "plain" \in Requests
    BY DEF Shortcuts, Shortcut, Requests
  <2>3. crashes' \in 0..MaxCrashes /\ 0 \in 0..Fallbacks
    BY <1>5, BoundAssumption, FallbacksAssumption DEF Crash, TypeOK
  <2> QED
    BY <1>5, <2>1, <2>2, <2>3 DEF Crash, TypeOK, Phases, Framing
<1>6. CASE SetActiveWindow
  <2>1. inFlight # <<>> /\ inFlight \in Seq(Window \cup {NoWindow})
    BY <1>6 DEF SetActiveWindow, TypeOK
  <2>2. /\ Head(inFlight) \in Window \cup {NoWindow}
        /\ Tail(inFlight) \in Seq(Window \cup {NoWindow})
        /\ Len(Tail(inFlight)) = Len(inFlight) - 1 /\ Len(inFlight) \in Nat
    BY <2>1, HeadTailProperties, LenProperties
  <2>3. Len(inFlight') <= MaxQueue
    BY <1>6, <2>2, BoundAssumption DEF SetActiveWindow, TypeOK
  <2> QED
    BY <1>6, <2>2, <2>3
    DEF SetActiveWindow, Identified, TypeOK, thread, keyboard, history, counts
<1>7. CASE HandlePress
  <2>1. /\ contexts' \in Contexts \cup {Broken}
        /\ pc' \in {"idle", "send", "script"} /\ request' \in Requests
        /\ known' \in Window \cup {NoWindow} /\ shortcut' \in Shortcuts
        /\ presses' \in Seq(Requests) /\ Len(presses') <= MaxQueue
    BY <1>0, <1>7, HandlePressExecutes, ExecuteType
  <2> QED
    BY <1>7, <2>1 DEF HandlePress, TypeOK, Phases, Framing, desktop, keyboard, history, counts
<1>8. CASE SendStarts
  <2>1. up /\ pc' \in {"modifiers", "tools"} /\ tools' \in 0..Fallbacks
    BY <1>0, <1>8, FallbacksAssumption DEF SendStarts, TypeOK
  <2>2. ready' \in BOOLEAN /\ (pc' = "modifiers" => ready') /\ (ready => ready')
    BY <1>0, <1>8 DEF SendStarts, TypeOK
  <2> QED
    BY <1>8, <2>1, <2>2 DEF SendStarts, TypeOK, Phases, Framing, desktop, history, counts
<1>9. /\ ModifierPresses \in Seq(KeyEvent) /\ ModifierReleases \in Seq(KeyEvent)
      /\ KeyPress \in Seq(KeyEvent) /\ KeyRelease \in Seq(KeyEvent)
      /\ ReleaseFrame \in Seq(KeyEvent)
  BY <1>0, FrameTypes DEF TypeOK
<1>10. CASE SendModifiers
  BY <1>9, <1>10, FrameType DEF SendModifiers, Framing
<1>11. CASE SendPress
  BY <1>9, <1>11, FrameType DEF SendPress, Framing
<1>12. CASE SendRelease
  BY <1>9, <1>12, FrameType DEF SendRelease, Framing
<1>13. CASE SendModifierReleases
  <2>1. ready /\ up
    BY <1>0, <1>13 DEF SendModifierReleases, Framing
  <2>2. CASE GotThrough(ModifierReleases) /\ pc' = "returning" /\ UNCHANGED <<cut, tools, faults>>
    <3>1. pending' = <<>> /\ shown' \subseteq Key /\ performed' \subseteq Performed
      BY <1>0, <1>9, <2>2, GotThroughType
    <3> QED
      BY <1>13, <2>1, <2>2, <3>1 DEF SendModifierReleases, TypeOK, Phases, Framing, desktop
  <2>3. CASE /\ CutShort(ModifierReleases) /\ pc' = "tools" /\ tools' = Fallbacks /\ cut' = TRUE
    <3>1. /\ pending' \in Seq(KeyEvent) /\ faults' \in 0..MaxFaults
          /\ shown' = shown /\ performed' = performed
      BY <1>0, <1>9, <2>3, CutShortType
    <3> QED
      BY <1>13, <2>1, <2>3, <3>1, FallbacksAssumption
      DEF SendModifierReleases, TypeOK, Phases, Framing, desktop
  <2> QED
    BY <1>13, <2>2, <2>3 DEF SendModifierReleases
<1>14. CASE ReleaseAll
  <2>1. ready /\ up
    BY <1>0, <1>14 DEF ReleaseAll, Framing
  <2>2. CASE GotThrough(ReleaseFrame) /\ UNCHANGED <<cut, faults>>
    <3>1. pending' = <<>> /\ shown' \subseteq Key /\ performed' \subseteq Performed
      BY <1>0, <1>9, <2>2, GotThroughType
    <3> QED
      BY <1>14, <2>1, <2>2, <3>1, FallbacksAssumption
      DEF ReleaseAll, TypeOK, Phases, Framing, desktop
  <2>3. CASE CutShort(ReleaseFrame) /\ cut' = TRUE
    <3>1. /\ pending' \in Seq(KeyEvent) /\ faults' \in 0..MaxFaults
          /\ shown' = shown /\ performed' = performed
      BY <1>0, <1>9, <2>3, CutShortType
    <3> QED
      BY <1>14, <2>1, <2>3, <3>1, FallbacksAssumption
      DEF ReleaseAll, TypeOK, Phases, Framing, desktop
  <2> QED
    BY <1>14, <2>2, <2>3 DEF ReleaseAll
<1>15. CASE ScriptKilled \/ ScriptEnds \/ NoToolLeft
  BY <1>15
  DEF ScriptKilled, ScriptEnds, NoToolLeft, TypeOK, Phases, Framing, desktop, keyboard, history, counts
<1>16. CASE ToolSucceeds
  BY <1>0, <1>16, ByToolType, FallbacksAssumption
  DEF ToolSucceeds, TypeOK, Phases, Framing, desktop, keyboard, counts
<1>17. CASE ToolFails
  BY <1>0, <1>17, ByToolType, FallbacksAssumption
  DEF ToolFails, ToolLeft, TypeOK, Phases, Framing, desktop, keyboard, counts
<1>18. CASE Returns
  <2>1. "plain" \in Shortcuts /\ "plain" \in Requests
    BY DEF Shortcuts, Shortcut, Requests
  <2> QED
    BY <1>18, <2>1, FallbacksAssumption
    DEF Returns, TypeOK, Phases, Framing, desktop, keyboard, counts
<1>19. CASE UNCHANGED vars
  BY <1>19 DEF vars, TypeOK, desktop, thread, keyboard, history, counts
<1> QED
  BY <1>1, <1>2, <1>3, <1>4, <1>5, <1>6, <1>7, <1>8, <1>10, <1>11, <1>12, <1>13, <1>14, <1>15,
     <1>16, <1>17, <1>18, <1>19, NextIsStep DEF Step

\* The type invariant of the execution of actions; and the keyboard exists, and
\* the daemon runs, while a shortcut is being sent.
THEOREM TypeCorrect == Spec => []TypeInv
<1>1. Init => TypeInv
  BY InitType
<1>2. TypeInv /\ [Next]_vars => TypeInv'
  BY TypeStep
<1> QED
  BY <1>1, <1>2, PTL DEF Spec

-----------------------------------------------------------------------------
(* The window of a context-sensitive shortcut                              *)

\* Of the messages on their way the last one names the active window; without
\* any, what the daemon has heard of is that window.  So a shortcut under way was
\* chosen for the active window, or a message about another one is coming.
ContextInv ==
  /\ ~up => inFlight = <<>> /\ identity = NoWindow
  /\ inFlight # <<>> => inFlight[Len(inFlight)] = window
  /\ identity # NoWindow /\ inFlight = <<>> => identity = window
  /\ request = "context" /\ pc \in Framing \cup {"send", "tools"} =>
       known # NoWindow /\ (inFlight # <<>> \/ known = window)
  /\ pc \in {"idle", "script", "send"} => performed = {}
  /\ ContextIsCurrent

\* What the keys did now, they did in the active window.
LEMMA StrokesAreCurrent ==
  ASSUME NEW frame, GotThrough(frame), NEW p \in performed', p \notin performed
  PROVE  p.heard = known /\ p.window = window /\ (inFlight # <<>> => p.news)
<1>1. PICK i \in Strokes(pending \o frame) : p = Stroke(pending \o frame, i)
  BY DEF GotThrough
<1> QED
  BY <1>1 DEF Stroke

\* A step of sending a shortcut, with the request and the desktop as they are.
LEMMA SendingKeepsContext ==
  ASSUME ContextInv, pc \in Framing \cup {"send", "tools"},
         pc' \notin {"idle", "script", "send"},
         UNCHANGED <<desktop, up, identity, request, known>>,
         \A p \in performed' :
           \/ p \in performed
           \/ p.heard = known /\ p.window = window /\ (inFlight # <<>> => p.news)
  PROVE  ContextInv'
<1>1. ContextIsCurrent'
  <2> SUFFICES ASSUME request = "context", NEW p \in performed'
               PROVE  p.heard # NoWindow /\ (p.news \/ p.heard = p.window)
    BY DEF ContextIsCurrent
  <2>1. known # NoWindow /\ (inFlight # <<>> \/ known = window)
    BY DEF ContextInv
  <2>2. CASE p \in performed
    BY <2>2 DEF ContextInv, ContextIsCurrent
  <2>3. CASE p.heard = known /\ p.window = window /\ (inFlight # <<>> => p.news)
    BY <2>1, <2>3
  <2> QED
    BY <2>2, <2>3
<1> QED
  BY <1>1 DEF ContextInv, desktop, Framing

LEMMA FrameKeepsContext ==
  ASSUME ContextInv, NEW at \in Framing, NEW next \in Framing, NEW frame, Frame(at, frame, next)
  PROVE  ContextInv'
<1>1. \A p \in performed' :
        \/ p \in performed
        \/ p.heard = known /\ p.window = window /\ (inFlight # <<>> => p.news)
  BY StrokesAreCurrent DEF Frame, CutShort
<1>2. pc' \in Framing /\ pc \in Framing /\ UNCHANGED <<desktop, up, identity, request, known>>
  BY DEF Frame, Framing
<1> QED
  BY <1>1, <1>2, SendingKeepsContext DEF Framing

\* execute() looks a shortcut up for the window it knows of.
LEMMA ExecuteContextKnows ==
  ASSUME ContextInv, ExecuteContext, pc = "idle"
  PROVE  \/ Refuse
         \/ /\ pc' = "send"
            /\ known' # NoWindow /\ (inFlight # <<>> \/ known' = window)
<1>1. PICK w \in ActiveWindows, found \in Contexts \cup {Broken} :
        /\ LookUp(w, found)
        /\ IF ShortcutFor(found, w) = {} THEN Refuse
           ELSE \E s \in ShortcutFor(found, w) : Send("context", w, s)
  BY DEF ExecuteContext
<1>2. CASE w = NoWindow
  BY <1>1, <1>2 DEF LookUp, ShortcutFor
<1>3. CASE w # NoWindow
  <2>1. inFlight # <<>> \/ w = window
    BY <1>3 DEF ActiveWindows, ContextInv
  <2> QED
    BY <1>1, <1>3, <2>1 DEF Send
<1> QED
  BY <1>2, <1>3

LEMMA ContextStep == TypeInv /\ ContextInv /\ [Next]_vars => ContextInv'
<1> SUFFICES ASSUME TypeInv, ContextInv, [Next]_vars
             PROVE  ContextInv'
  OBVIOUS
<1>0. TypeOK /\ (pc # "idle" => up)
  BY DEF TypeInv
<1>1. CASE EditContexts
  BY <1>1 DEF EditContexts, ContextInv, ContextIsCurrent, desktop, thread, history
<1>2. ASSUME NEW w \in Window \cup {NoWindow}, ActivateWindow(w)
      PROVE  ContextInv'
  <2>1. /\ Append(inFlight, w) # <<>>
        /\ Append(inFlight, w)[Len(Append(inFlight, w))] = w
    BY <1>0, AppendProperties DEF TypeOK
  <2>2. CASE up
    BY <1>2, <2>1, <2>2
    DEF ActivateWindow, ContextInv, ContextIsCurrent, thread, history
  <2>3. CASE ~up
    BY <1>0, <1>2, <2>3
    DEF ActivateWindow, ContextInv, ContextIsCurrent, thread, history, Framing
  <2> QED
    BY <2>2, <2>3
<1>3. ASSUME NEW r \in Requests, Press(r)
      PROVE  ContextInv'
  BY <1>3 DEF Press, ContextInv, ContextIsCurrent, desktop, thread, history
<1>4. CASE DaemonStarts
  BY <1>4 DEF DaemonStarts, ContextInv, ContextIsCurrent, desktop, thread, history
<1>5. CASE Crash
  BY <1>5 DEF Crash, ContextInv, ContextIsCurrent, Framing
<1>6. CASE SetActiveWindow
  <2>1. inFlight # <<>> /\ inFlight \in Seq(Window \cup {NoWindow}) /\ up /\ pc = "idle"
    BY <1>0, <1>6 DEF SetActiveWindow, TypeOK
  <2>2. /\ Tail(inFlight) \in Seq(Window \cup {NoWindow})
        /\ Len(Tail(inFlight)) = Len(inFlight) - 1 /\ Len(inFlight) \in Nat
        /\ \A i \in 1..Len(Tail(inFlight)) : Tail(inFlight)[i] = inFlight[i + 1]
    BY <2>1, HeadTailProperties, LenProperties
  <2>3. CASE Tail(inFlight) = <<>>
    <3>1. Len(inFlight) = 1
      BY <2>2, <2>3
    <3>2. Head(inFlight) = window
      BY <2>1, <3>1 DEF ContextInv
    <3> QED
      BY <1>6, <2>1, <2>3, <3>2
      DEF SetActiveWindow, Identified, ContextInv, ContextIsCurrent, thread, history, Framing
  <2>4. CASE Tail(inFlight) # <<>>
    <3>1. Len(Tail(inFlight)) \in Nat \ {0}
      BY <2>2, <2>4, EmptySeq
    <3>2. Tail(inFlight)[Len(Tail(inFlight))] = window
      BY <2>1, <2>2, <3>1 DEF ContextInv
    <3> QED
      BY <1>6, <2>1, <2>4, <3>2
      DEF SetActiveWindow, ContextInv, ContextIsCurrent, thread, history, Framing
  <2> QED
    BY <2>3, <2>4
<1>7. CASE HandlePress
  <2>1. performed = {} /\ pc = "idle" /\ up /\ UNCHANGED <<desktop, up, identity, performed>>
    BY <1>7 DEF HandlePress, ContextInv, history
  <2>2. CASE ExecuteContext
    BY <2>1, <2>2, ExecuteContextKnows
    DEF Refuse, ContextInv, ContextIsCurrent, desktop, Framing
  <2>3. CASE ExecutePlain
    BY <2>1, <2>3 DEF ExecutePlain, Send, ContextInv, ContextIsCurrent, desktop, Framing
  <2>4. CASE ExecuteScript
    BY <2>1, <2>4 DEF ExecuteScript, Refuse, ContextInv, ContextIsCurrent, desktop, Framing
  <2> QED
    BY <1>0, <1>7, <2>2, <2>3, <2>4, HandlePressExecutes
<1>8. CASE SendStarts
  <2>1. /\ pc = "send" /\ pc' \in {"modifiers", "tools"}
        /\ UNCHANGED <<desktop, up, identity, request, known, performed>>
    BY <1>8 DEF SendStarts, history
  <2> QED
    BY <2>1, SendingKeepsContext
<1>9. CASE SendModifiers
  BY <1>9, FrameKeepsContext DEF SendModifiers, Framing
<1>10. CASE SendPress
  BY <1>10, FrameKeepsContext DEF SendPress, Framing
<1>11. CASE SendRelease
  BY <1>11, FrameKeepsContext DEF SendRelease, Framing
<1>12. CASE SendModifierReleases
  <2>1. \A p \in performed' :
          \/ p \in performed
          \/ p.heard = known /\ p.window = window /\ (inFlight # <<>> => p.news)
    BY <1>12, StrokesAreCurrent DEF SendModifierReleases, CutShort
  <2>2. /\ pc = "unmodify" /\ pc' \in {"returning", "tools"}
        /\ UNCHANGED <<desktop, up, identity, request, known>>
    BY <1>12 DEF SendModifierReleases
  <2> QED
    BY <2>1, <2>2, SendingKeepsContext DEF Framing
<1>13. CASE ReleaseAll
  <2>1. \A p \in performed' :
          \/ p \in performed
          \/ p.heard = known /\ p.window = window /\ (inFlight # <<>> => p.news)
    BY <1>13, StrokesAreCurrent DEF ReleaseAll, CutShort
  <2>2. /\ pc = "releaseAll" /\ pc' = "tools"
        /\ UNCHANGED <<desktop, up, identity, request, known>>
    BY <1>13 DEF ReleaseAll
  <2> QED
    BY <2>1, <2>2, SendingKeepsContext DEF Framing
<1>14. CASE ScriptKilled \/ ScriptEnds \/ NoToolLeft
  BY <1>14
  DEF ScriptKilled, ScriptEnds, NoToolLeft, ContextInv, ContextIsCurrent, desktop, history, Framing
<1>15. CASE ToolSucceeds \/ ToolFails
  <2>1. ByTool.heard = known /\ ByTool.window = window /\ (inFlight # <<>> => ByTool.news)
    BY DEF ByTool
  <2>2. /\ pc = "tools" /\ pc' \in {"tools", "returning"}
        /\ UNCHANGED <<desktop, up, identity, request, known>>
        /\ performed' \in {performed, performed \cup {ByTool}}
    BY <1>15 DEF ToolSucceeds, ToolFails
  <2>3. \A p \in performed' :
          \/ p \in performed
          \/ p.heard = known /\ p.window = window /\ (inFlight # <<>> => p.news)
    BY <2>1, <2>2
  <2> QED
    BY <2>2, <2>3, SendingKeepsContext
<1>16. CASE Returns
  BY <1>16 DEF Returns, ContextInv, ContextIsCurrent, desktop, Framing
<1>17. CASE UNCHANGED vars
  BY <1>17 DEF vars, ContextInv, ContextIsCurrent, desktop, thread, history
<1> QED
  BY <1>1, <1>2, <1>3, <1>4, <1>5, <1>6, <1>7, <1>8, <1>9, <1>10, <1>11, <1>12, <1>13, <1>14,
     <1>15, <1>16, <1>17, NextIsStep DEF Step

\* The keys of a context-sensitive shortcut reach the window it was chosen for,
\* or the daemon is about to hear that the user has switched.
THEOREM ShortcutsAreForTheWindow == Spec => []ContextIsCurrent
<1>1. Init => ContextInv
  BY DEF Init, ContextInv, ContextIsCurrent, Framing
<1>2. TypeInv /\ ContextInv /\ [Next]_vars => ContextInv'
  BY ContextStep
<1>3. ContextInv => ContextIsCurrent
  BY DEF ContextInv
<1> QED
  BY <1>1, <1>2, <1>3, TypeCorrect, PTL DEF Spec

-----------------------------------------------------------------------------
(* The keys of the virtual keyboard                                        *)

\* What is down, and what waits, while a failed shortcut is being released: its
\* own keys only; and a press of its main key waits only where all its modifiers
\* are down and stay so until it.
ReleaseInv ==
  /\ shown \subseteq Mods \cup {MainKey}
  /\ \A i \in 1..Len(pending) :
       /\ pending[i].key \in Mods \cup {MainKey}
       /\ pending[i].down /\ pending[i].key \notin Modifier =>
            /\ shown \cap Modifier = Mods
            /\ \A j \in 1..Len(pending) : pending[j].key \notin Modifier

\* As long as every frame that releases keys got through, the phase says what is
\* down, and only a failure leaves events waiting.
KeyboardInv ==
  ~cut =>
    /\ pc # "releaseAll" => pending = <<>>
    /\ pc \in {"idle", "script", "send", "modifiers", "tools", "returning"} => shown = {}
    /\ pc \in {"press", "unmodify"} => shown = Mods
    /\ pc = "release" => shown = Mods \cup {MainKey}
    /\ pc = "releaseAll" => ReleaseInv
    /\ OnlyWholeShortcuts

\* The desktop has acted on the whole shortcut, and on nothing else.
LEMMA WholeIsEnough ==
  ASSUME KeyboardInv, UNCHANGED <<shortcut, cut>>,
         ~cut => \A p \in performed' : p \in performed \/ (p.key = MainKey /\ p.modifiers = Mods)
  PROVE  OnlyWholeShortcuts'
  BY DEF KeyboardInv, OnlyWholeShortcuts, MainKey, Mods

\* The modifiers go down, and the desktop does not act yet.
LEMMA ModifiersGetThrough ==
  ASSUME TypeOK, pending = <<>>, shown = {}, GotThrough(ModifierPresses)
  PROVE  pending' = <<>> /\ shown' = Mods /\ performed' = performed
<1> DEFINE f == ModifierPresses
<1>1. PressesOf(f, Mods) /\ Mods \subseteq Modifier
  BY FrameKeys, ShortcutKeys DEF TypeOK
<1>2. pending \o f = f
  BY <1>1, ConcatEmptySeq DEF PressesOf
<1> HIDE DEF f
<1>3. DownAfter(f, Len(f)) = Mods
  <2>1. Mods \in SUBSET Key
    BY <1>1 DEF Key
  <2> QED
    BY <1>1, <2>1, PressesGoDown
<1>4. Strokes(f) = {}
  BY <1>1 DEF Strokes, PressesOf
<1> QED
  BY <1>2, <1>3, <1>4 DEF GotThrough, f

\* The main key goes down under the modifiers.
LEMMA KeyGetsThrough ==
  ASSUME TypeOK, pending = <<>>, shown = Mods, GotThrough(KeyPress)
  PROVE  /\ pending' = <<>> /\ shown' = Mods \cup {MainKey}
         /\ \A p \in performed' : p \in performed \/ (p.key = MainKey /\ p.modifiers = Mods)
<1> DEFINE f == KeyPress
<1>1. PressesOf(f, {MainKey}) /\ Mods \subseteq Modifier /\ MainKey \in Key \ Modifier
  BY FrameKeys, ShortcutKeys DEF TypeOK
<1>2. pending \o f = f
  BY <1>1, ConcatEmptySeq DEF PressesOf
<1> HIDE DEF f
<1>3. DownAfter(f, Len(f)) = Mods \cup {MainKey}
  <2>1. {MainKey} \in SUBSET Key /\ shown \subseteq Key
    BY <1>1 DEF TypeOK
  <2> QED
    BY <1>1, <2>1, PressesGoDown
<1>4. ASSUME NEW i \in Strokes(f)
      PROVE  Stroke(f, i).key = MainKey /\ Stroke(f, i).modifiers = Mods
  <2>1. i \in 1..Len(f) /\ f[i].key = MainKey /\ f \in Seq(KeyEvent)
    BY <1>1 DEF Strokes, PressesOf
  <2>2. Len(f) \in Nat /\ i - 1 \in 0..Len(f) /\ \A j \in 1..(i - 1) : j \in 1..Len(f)
    BY <2>1, LenProperties
  <2>3. \A j \in 1..(i - 1) : f[j].key \notin Modifier
    BY <1>1, <2>2 DEF PressesOf
  <2>4. DownAfter(f, i - 1) \cap Modifier = shown \cap Modifier
    BY <2>1, <2>2, <2>3, ModifiersStay DEF TypeOK
  <2> QED
    BY <1>1, <2>1, <2>4 DEF Stroke
<1>5. /\ pending' = <<>> /\ shown' = DownAfter(f, Len(f))
      /\ performed' = performed \cup {Stroke(f, i) : i \in Strokes(f)}
  BY <1>2 DEF GotThrough, f
<1> QED
  BY <1>3, <1>4, <1>5

\* Releases of keys of the shortcut, after events that do no harm.
LEMMA ReleaseGetsThrough ==
  ASSUME TypeOK, ReleaseInv, NEW frame, NEW keys \in SUBSET Key, ReleasesOf(frame, keys),
         \A i \in 1..Len(pending) : pending[i].key \in keys,
         GotThrough(frame)
  PROVE  /\ pending' = <<>> /\ shown' = shown \ keys
         /\ \A p \in performed' : p \in performed \/ (p.key = MainKey /\ p.modifiers = Mods)
<1> DEFINE s == pending \o frame
<1>1. pending \in Seq(KeyEvent) /\ shown \subseteq Key /\ Mods \subseteq Modifier
  BY ShortcutKeys DEF TypeOK
<1>2. DownAfter(s, Len(s)) = shown \ keys
  BY <1>1, ReleasesGoUp
<1>3. ASSUME NEW i \in Strokes(s)
      PROVE  Stroke(s, i).key = MainKey /\ Stroke(s, i).modifiers = Mods
  <2>1. i \in 1..Len(pending) /\ pending[i].down /\ pending[i].key \notin Modifier /\ s[i] = pending[i]
    BY <1>1, StrokesBefore
  <2>2. /\ s \in Seq(KeyEvent) /\ Len(pending) \in Nat /\ Len(frame) \in Nat
        /\ Len(s) = Len(pending) + Len(frame)
        /\ \A j \in 1..Len(pending) : s[j] = pending[j]
    BY <1>1, Joined DEF ReleasesOf
  <2> HIDE DEF s
  <2>3. pending[i].key = MainKey
    BY <1>1, <2>1 DEF ReleaseInv
  <2>4. shown \cap Modifier = Mods /\ \A j \in 1..Len(pending) : pending[j].key \notin Modifier
    BY <2>1 DEF ReleaseInv
  <2>5. i - 1 \in 0..Len(s) /\ \A j \in 1..(i - 1) : s[j].key \notin Modifier
    BY <2>1, <2>2, <2>4
  <2>6. DownAfter(s, i - 1) \cap Modifier = Mods
    BY <1>1, <2>2, <2>4, <2>5, ModifiersStay
  <2> QED
    BY <2>1, <2>3, <2>6 DEF Stroke
<1>4. /\ pending' = <<>> /\ shown' = DownAfter(s, Len(s))
      /\ performed' = performed \cup {Stroke(s, i) : i \in Strokes(s)}
  BY DEF GotThrough
<1> HIDE DEF s
<1> QED
  BY <1>2, <1>3, <1>4

\* A frame of the shortcut that is cut short when nothing was waiting leaves some
\* of its own events.
LEMMA CutFromEmpty ==
  ASSUME TypeOK, pending = <<>>, NEW frame \in Seq(KeyEvent), CutShort(frame)
  PROVE  /\ shown' = shown /\ performed' = performed
         /\ \A i \in 1..Len(pending') : \E j \in 1..Len(frame) : pending'[i] = frame[j]
<1>1. Len(pending) = 0
  BY EmptySeq
<1> QED
  BY <1>1, CutShortType

LEMMA ModifiersKeepKeyboard ==
  ASSUME TypeInv, KeyboardInv, SendModifiers
  PROVE  KeyboardInv'
<1> SUFFICES ASSUME ~cut
             PROVE  KeyboardInv'
  BY DEF SendModifiers, Frame, KeyboardInv
<1>1. /\ pc = "modifiers" /\ pending = <<>> /\ shown = {} /\ UNCHANGED <<shortcut, cut>>
      /\ MainKey' = MainKey /\ Mods' = Mods
  BY DEF SendModifiers, Frame, KeyboardInv, MainKey, Mods
<1>2. PressesOf(ModifierPresses, Mods) /\ Mods \subseteq Modifier
  BY FrameKeys, ShortcutKeys DEF TypeInv, TypeOK
<1>3. CASE GotThrough(ModifierPresses) /\ pc' = "press"
  <2>1. pending' = <<>> /\ shown' = Mods /\ performed' = performed
    BY <1>1, <1>3, ModifiersGetThrough DEF TypeInv
  <2>2. OnlyWholeShortcuts'
    BY <1>1, <2>1, WholeIsEnough
  <2> QED
    BY <1>1, <1>3, <2>1, <2>2 DEF KeyboardInv
<1>4. CASE CutShort(ModifierPresses) /\ pc' = "releaseAll"
  <2>1. /\ shown' = shown /\ performed' = performed
        /\ \A i \in 1..Len(pending') :
             \E j \in 1..Len(ModifierPresses) : pending'[i] = ModifierPresses[j]
    BY <1>1, <1>2, <1>4, CutFromEmpty DEF TypeInv, PressesOf
  <2>2. \A i \in 1..Len(pending') : pending'[i].key \in Mods
    BY <1>2, <2>1 DEF PressesOf
  <2>3. ReleaseInv'
    BY <1>1, <1>2, <2>1, <2>2 DEF ReleaseInv
  <2>4. OnlyWholeShortcuts'
    BY <1>1, <2>1, WholeIsEnough
  <2> QED
    BY <1>4, <2>3, <2>4 DEF KeyboardInv
<1> QED
  BY <1>3, <1>4 DEF SendModifiers, Frame

LEMMA PressKeepsKeyboard ==
  ASSUME TypeInv, KeyboardInv, SendPress
  PROVE  KeyboardInv'
<1> SUFFICES ASSUME ~cut
             PROVE  KeyboardInv'
  BY DEF SendPress, Frame, KeyboardInv
<1>1. /\ pc = "press" /\ pending = <<>> /\ shown = Mods /\ UNCHANGED <<shortcut, cut>>
      /\ MainKey' = MainKey /\ Mods' = Mods
  BY DEF SendPress, Frame, KeyboardInv, MainKey, Mods
<1>2. PressesOf(KeyPress, {MainKey}) /\ Mods \subseteq Modifier /\ MainKey \notin Modifier
  BY FrameKeys, ShortcutKeys DEF TypeInv, TypeOK
<1>3. CASE GotThrough(KeyPress) /\ pc' = "release"
  <2>1. /\ pending' = <<>> /\ shown' = Mods \cup {MainKey}
        /\ \A p \in performed' : p \in performed \/ (p.key = MainKey /\ p.modifiers = Mods)
    BY <1>1, <1>3, KeyGetsThrough DEF TypeInv
  <2>2. OnlyWholeShortcuts'
    BY <1>1, <2>1, WholeIsEnough
  <2> QED
    BY <1>1, <1>3, <2>1, <2>2 DEF KeyboardInv
<1>4. CASE CutShort(KeyPress) /\ pc' = "releaseAll"
  <2>1. /\ shown' = shown /\ performed' = performed
        /\ \A i \in 1..Len(pending') : \E j \in 1..Len(KeyPress) : pending'[i] = KeyPress[j]
    BY <1>1, <1>2, <1>4, CutFromEmpty DEF TypeInv, PressesOf
  <2>2. \A i \in 1..Len(pending') : pending'[i].key = MainKey
    BY <1>2, <2>1 DEF PressesOf
  <2>3. ReleaseInv'
    BY <1>1, <1>2, <2>1, <2>2 DEF ReleaseInv
  <2>4. OnlyWholeShortcuts'
    BY <1>1, <2>1, WholeIsEnough
  <2> QED
    BY <1>4, <2>3, <2>4 DEF KeyboardInv
<1> QED
  BY <1>3, <1>4 DEF SendPress, Frame

LEMMA ReleaseKeepsKeyboard ==
  ASSUME TypeInv, KeyboardInv, SendRelease
  PROVE  KeyboardInv'
<1> SUFFICES ASSUME ~cut
             PROVE  KeyboardInv'
  BY DEF SendRelease, Frame, KeyboardInv
<1>1. /\ pc = "release" /\ pending = <<>> /\ shown = Mods \cup {MainKey} /\ UNCHANGED <<shortcut, cut>>
      /\ MainKey' = MainKey /\ Mods' = Mods
  BY DEF SendRelease, Frame, KeyboardInv, MainKey, Mods
<1>2. ReleasesOf(KeyRelease, {MainKey}) /\ Mods \subseteq Modifier /\ MainKey \in Key \ Modifier
  BY FrameKeys, ShortcutKeys DEF TypeInv, TypeOK
<1>3. CASE GotThrough(KeyRelease) /\ pc' = "unmodify"
  <2>1. ReleaseInv /\ \A i \in 1..Len(pending) : pending[i].key \in {MainKey}
    BY <1>1, EmptySeq DEF ReleaseInv
  <2>2. /\ pending' = <<>> /\ shown' = shown \ {MainKey}
        /\ \A p \in performed' : p \in performed \/ (p.key = MainKey /\ p.modifiers = Mods)
    BY <1>2, <1>3, <2>1, ReleaseGetsThrough DEF TypeInv
  <2>3. OnlyWholeShortcuts' /\ shown' = Mods
    BY <1>1, <1>2, <2>2, WholeIsEnough
  <2> QED
    BY <1>1, <1>3, <2>2, <2>3 DEF KeyboardInv
<1>4. CASE CutShort(KeyRelease) /\ pc' = "releaseAll"
  <2>1. /\ shown' = shown /\ performed' = performed
        /\ \A i \in 1..Len(pending') : \E j \in 1..Len(KeyRelease) : pending'[i] = KeyRelease[j]
    BY <1>1, <1>2, <1>4, CutFromEmpty DEF TypeInv, ReleasesOf
  <2>2. \A i \in 1..Len(pending') : pending'[i].key = MainKey /\ ~pending'[i].down
    BY <1>2, <2>1 DEF ReleasesOf
  <2>3. ReleaseInv'
    BY <1>1, <2>1, <2>2 DEF ReleaseInv
  <2>4. OnlyWholeShortcuts'
    BY <1>1, <2>1, WholeIsEnough
  <2> QED
    BY <1>4, <2>3, <2>4 DEF KeyboardInv
<1> QED
  BY <1>3, <1>4 DEF SendRelease, Frame

LEMMA ModifierReleasesKeepKeyboard ==
  ASSUME TypeInv, KeyboardInv, SendModifierReleases
  PROVE  KeyboardInv'
<1> SUFFICES ASSUME ~cut, ~cut'
             PROVE  KeyboardInv'
  BY DEF SendModifierReleases, KeyboardInv
<1>1. /\ pc = "unmodify" /\ pending = <<>> /\ shown = Mods /\ UNCHANGED <<shortcut, cut>>
      /\ GotThrough(ModifierReleases) /\ pc' = "returning"
  BY DEF SendModifierReleases, KeyboardInv
<1>2. ReleasesOf(ModifierReleases, Mods) /\ Mods \in SUBSET Key
  BY FrameKeys, ShortcutKeys DEF TypeInv, TypeOK, Key
<1>3. ReleaseInv /\ \A i \in 1..Len(pending) : pending[i].key \in Mods
  BY <1>1, EmptySeq DEF ReleaseInv
<1>4. /\ pending' = <<>> /\ shown' = shown \ Mods
      /\ \A p \in performed' : p \in performed \/ (p.key = MainKey /\ p.modifiers = Mods)
  BY <1>1, <1>2, <1>3, ReleaseGetsThrough DEF TypeInv
<1>5. OnlyWholeShortcuts' /\ shown' = {}
  BY <1>1, <1>4, WholeIsEnough
<1> QED
  BY <1>1, <1>4, <1>5 DEF KeyboardInv

LEMMA ReleaseAllKeepsKeyboard ==
  ASSUME TypeInv, KeyboardInv, ReleaseAll
  PROVE  KeyboardInv'
<1> SUFFICES ASSUME ~cut, ~cut'
             PROVE  KeyboardInv'
  BY DEF ReleaseAll, KeyboardInv
<1>1. /\ pc = "releaseAll" /\ ReleaseInv /\ UNCHANGED <<shortcut, cut>>
      /\ GotThrough(ReleaseFrame) /\ pc' = "tools"
  BY DEF ReleaseAll, KeyboardInv
<1>2. ReleasesOf(ReleaseFrame, Mods \cup {MainKey}) /\ Mods \cup {MainKey} \in SUBSET Key
  BY ReleaseFrameKeys, ShortcutKeys DEF TypeInv, TypeOK, Key
<1>3. \A i \in 1..Len(pending) : pending[i].key \in Mods \cup {MainKey}
  BY <1>1 DEF ReleaseInv
<1>4. /\ pending' = <<>> /\ shown' = shown \ (Mods \cup {MainKey})
      /\ \A p \in performed' : p \in performed \/ (p.key = MainKey /\ p.modifiers = Mods)
  BY <1>1, <1>2, <1>3, ReleaseGetsThrough DEF TypeInv
<1>5. OnlyWholeShortcuts' /\ shown' = {}
  BY <1>1, <1>4, WholeIsEnough DEF ReleaseInv
<1> QED
  BY <1>1, <1>4, <1>5 DEF KeyboardInv

\* The other steps do not write to the keyboard.
LEMMA KeyboardStep == TypeInv /\ ContextInv /\ KeyboardInv /\ [Next]_vars => KeyboardInv'
<1> SUFFICES ASSUME TypeInv, ContextInv, KeyboardInv, [Next]_vars
             PROVE  KeyboardInv'
  OBVIOUS
<1>1. CASE EditContexts \/ DaemonStarts \/ SetActiveWindow \/ (\E r \in Requests : Press(r))
           \/ (\E w \in Window \cup {NoWindow} : ActivateWindow(w)) \/ UNCHANGED vars
  <2>1. UNCHANGED <<thread, keyboard, history>>
    BY <1>1 DEF EditContexts, DaemonStarts, SetActiveWindow, Press, ActivateWindow, vars
  <2> QED
    BY <2>1 DEF KeyboardInv, ReleaseInv, OnlyWholeShortcuts, Mods, MainKey, thread, keyboard, history
<1>2. CASE Crash
  BY <1>2 DEF Crash, KeyboardInv, OnlyWholeShortcuts
<1>3. CASE HandlePress
  <2>1. /\ pc = "idle" /\ performed' = {} /\ UNCHANGED <<cut, pending, shown>>
        /\ pc' \in {"idle", "send", "script"}
    BY <1>3, HandlePressExecutes, ExecuteType
    DEF HandlePress, ContextInv, history, keyboard, TypeInv
  <2> QED
    BY <2>1 DEF KeyboardInv, OnlyWholeShortcuts
<1>4. CASE SendStarts
  BY <1>4 DEF SendStarts, KeyboardInv, OnlyWholeShortcuts, history
<1>5. CASE ScriptKilled \/ ScriptEnds \/ NoToolLeft
  BY <1>5
  DEF ScriptKilled, ScriptEnds, NoToolLeft, KeyboardInv, OnlyWholeShortcuts, keyboard, history
<1>6. CASE ToolSucceeds \/ ToolFails
  <2>1. /\ pc = "tools" /\ pc' \in {"tools", "returning"}
        /\ UNCHANGED <<shortcut, cut, pending, shown>>
        /\ performed' \in {performed, performed \cup {ByTool}}
    BY <1>6 DEF ToolSucceeds, ToolFails, keyboard
  <2>2. ~cut => ByTool.key = MainKey /\ ByTool.modifiers = Mods
    BY <2>1 DEF ByTool, KeyboardInv, MainKey, Mods
  <2>3. OnlyWholeShortcuts'
    BY <2>1, <2>2, WholeIsEnough
  <2> QED
    BY <2>1, <2>3 DEF KeyboardInv
<1>7. CASE Returns
  BY <1>7 DEF Returns, KeyboardInv, OnlyWholeShortcuts, keyboard
<1> QED
  BY <1>1, <1>2, <1>3, <1>4, <1>5, <1>6, <1>7, NextIsStep, ModifiersKeepKeyboard,
     PressKeepsKeyboard, ReleaseKeepsKeyboard, ModifierReleasesKeepKeyboard,
     ReleaseAllKeepsKeyboard
  DEF Step

LEMMA KeyboardAlways == Spec => []KeyboardInv
<1>1. Init => ContextInv /\ KeyboardInv
  BY DEF Init, ContextInv, ContextIsCurrent, KeyboardInv, OnlyWholeShortcuts, Framing
<1>2. TypeInv /\ ContextInv /\ KeyboardInv /\ [Next]_vars => ContextInv' /\ KeyboardInv'
  BY ContextStep, KeyboardStep
<1> QED
  BY <1>1, <1>2, TypeCorrect, PTL DEF Spec

\* However its frames fail, a shortcut leaves no key down and no event waiting,
\* unless the frame that was to release the keys failed as well.
THEOREM NoKeyIsLeftDown == Spec => []NothingHeld
<1>1. KeyboardInv => NothingHeld
  BY DEF KeyboardInv, NothingHeld
<1> QED
  BY <1>1, KeyboardAlways, PTL

\* And the desktop never acts on a part of a shortcut.
THEOREM ShortcutsAreWhole == Spec => []OnlyWholeShortcuts
<1>1. KeyboardInv => OnlyWholeShortcuts
  BY DEF KeyboardInv, OnlyWholeShortcuts
<1> QED
  BY <1>1, KeyboardAlways, PTL
=============================================================================

-------------------------- MODULE ActionExecution --------------------------
(***************************************************************************)
(* What becomes of an action in the daemon: the active window as the KWin  *)
(* script reports it over D-Bus, the application profiles, the virtual     *)
(* keyboard that sends a shortcut frame by frame, and the tools it falls   *)
(* back to.  The daemon is one thread: while it sends, waits for a tool or *)
(* a script, it handles neither presses nor D-Bus, but the user goes on.   *)
(***************************************************************************)
EXTENDS Naturals, Sequences, FiniteSets, SequencesExt

CONSTANTS
  Window,       \* windows of the desktop
  Terminal,     \* those whose identity matches a pattern of the terminal profile
  NoWindow,     \* no active window, or none that the daemon has heard of
  Broken,       \* an application-contexts.json that load() fails on
  Uncoded,      \* shortcuts with a key that linuxKeyCode does not know
  Fallbacks,    \* tools the session type can fall back to
  MaxQueue,     \* bound: presses waiting, and D-Bus messages in flight
  MaxFaults,    \* bound: writes to the virtual keyboard that fail
  MaxEdits,     \* bound: changes of the application profiles
  MaxCrashes    \* bound: times the daemon dies

ASSUME WindowAssumption == Terminal \subseteq Window /\ NoWindow \notin Window
ASSUME BoundAssumption ==
  MaxQueue \in Nat /\ MaxFaults \in Nat /\ MaxEdits \in Nat /\ MaxCrashes \in Nat

\* What a mapping asks for: a context-sensitive action (Copy, Paste, Cut, Undo,
\* Redo, Select all, or Ctrl+C and Ctrl+V given as custom shortcuts), any other
\* shortcut, or a script.
Requests == {"context", "plain", "script"}

\* The shortcut of a request by the profile it comes from, modifiers in order.
Shortcut == [
  terminal |-> [modifiers |-> <<"ctrl", "shift">>, key |-> "v"],
  default  |-> [modifiers |-> <<"ctrl">>, key |-> "v"],
  plain    |-> [modifiers |-> <<"meta">>, key |-> "d"]]
Shortcuts == DOMAIN Shortcut
Modifier  == {"ctrl", "shift", "meta"}
Key       == Modifier \cup {"v", "d"}

ASSUME UncodedAssumption == Uncoded \subseteq Shortcuts
ASSUME FallbacksAssumption == Fallbacks \in Nat

\* Profiles of the file that are enabled and disabled; a file of an older
\* release lacks some.
ProfileIds == {"terminal", "default"}
Contexts   == UNION {[ids -> BOOLEAN] : ids \in SUBSET ProfileIds}

ASSUME BrokenAssumption == Broken \notin Contexts

VARIABLES
  window,      \* the active window
  inFlight,    \* SetActiveWindow calls on the session bus
  contexts,    \* application-contexts.json
  presses,     \* presses of mapped buttons that the daemon has not handled
  up,          \* the daemon runs
  identity,    \* activeIdentity
  pc,          \* where the daemon's thread is; "idle" is the event loop
  request, known, shortcut,   \* of the action; known: activeProcessName()
  tools,       \* fallbacks still to be tried
  ready,       \* the virtual keyboard exists
  pending,     \* key events written since the last SYN_REPORT that got through
  shown,       \* keys that the desktop believes to be down on it
  performed,   \* history: what the desktop did because of this request
  cut,         \* history: a frame that was to release keys did not get through
  faults, edits, crashes

desktop  == <<window, inFlight>>
keyboard == <<ready, pending, shown>>
thread   == <<pc, request, known, shortcut, tools>>
history  == <<performed, cut>>
counts   == <<faults, edits, crashes>>
vars     == <<desktop, contexts, presses, up, identity, thread, keyboard, history, counts>>

KeyEvent == [key : Key, down : BOOLEAN]
\* window: where the keys went; heard: what the daemon took for the active
\* window; news: a report of another window was on its way.
Performed == [window : Window \cup {NoWindow}, modifiers : SUBSET Modifier,
              key : Key, heard : Window \cup {NoWindow}, news : BOOLEAN]

Phases == {"idle", "script", "send", "modifiers", "press", "release", "unmodify",
           "releaseAll", "tools", "returning"}

TypeOK ==
  /\ window \in Window \cup {NoWindow}
  /\ inFlight \in Seq(Window \cup {NoWindow}) /\ Len(inFlight) <= MaxQueue
  /\ contexts \in Contexts \cup {Broken}
  /\ presses \in Seq(Requests) /\ Len(presses) <= MaxQueue
  /\ up \in BOOLEAN
  /\ identity \in Window \cup {NoWindow}
  /\ pc \in Phases
  /\ request \in Requests /\ shortcut \in Shortcuts /\ known \in Window \cup {NoWindow}
  /\ tools \in 0..Fallbacks
  /\ ready \in BOOLEAN
  /\ pending \in Seq(KeyEvent) /\ shown \subseteq Key
  /\ performed \subseteq Performed /\ cut \in BOOLEAN
  /\ ~ready => pending = <<>> /\ shown = {}
  /\ faults \in 0..MaxFaults /\ edits \in 0..MaxEdits /\ crashes \in 0..MaxCrashes

Init ==
  /\ window \in Window \cup {NoWindow} /\ inFlight = <<>>
  /\ contexts = [id \in ProfileIds |-> TRUE]
  /\ presses = <<>>
  /\ up = FALSE /\ identity = NoWindow
  /\ pc = "idle" /\ request = "plain" /\ known = NoWindow /\ shortcut = "plain"
  /\ tools = 0
  /\ ready = FALSE /\ pending = <<>> /\ shown = {}
  /\ performed = {} /\ cut = FALSE
  /\ faults = 0 /\ edits = 0 /\ crashes = 0

-----------------------------------------------------------------------------
(* The desktop and the user                                                *)

\* KWin activates w and its script calls SetActiveWindow; without a daemon on
\* the bus the call is lost.
ActivateWindow(w) ==
  /\ Len(inFlight) < MaxQueue
  /\ window' = w
  /\ inFlight' = IF up THEN Append(inFlight, w) ELSE inFlight
  /\ UNCHANGED <<contexts, presses, up, identity, thread, keyboard, history, counts>>

Press(r) ==
  /\ up /\ Len(presses) < MaxQueue
  /\ presses' = Append(presses, r)
  /\ UNCHANGED <<desktop, contexts, up, identity, thread, keyboard, history, counts>>

\* Profiles with one of the two in force: the other is disabled, or missing as in
\* the file of an older release.
Edited == {c \in Contexts : Cardinality({id \in DOMAIN c : c[id]}) = 1}

\* The GUI saves the table of profiles, the file of an older release is put
\* back, or the file is damaged.
EditContexts ==
  /\ edits < MaxEdits
  /\ contexts' \in (Edited \cup {Broken}) \ {contexts}
  /\ edits' = edits + 1
  /\ UNCHANGED <<desktop, presses, up, identity, thread, keyboard, history, faults, crashes>>

-----------------------------------------------------------------------------
(* Context                                                                 *)

\* ContextBridge::SetActiveWindow; an empty identity forgets the last one.
IgnoreEmpty(w) == IF w = NoWindow THEN identity ELSE w
Identified(w) == w

SetActiveWindow ==
  /\ up /\ pc = "idle" /\ inFlight # <<>>
  /\ identity' = Identified(Head(inFlight))
  /\ inFlight' = Tail(inFlight)
  /\ UNCHANGED <<window, contexts, presses, up, thread, keyboard, history, counts>>

\* load(): system profiles that the file lacks are added to it.
Migrated(c) == [id \in ProfileIds |-> IF id \in DOMAIN c THEN c[id] ELSE TRUE]

\* shortcutFor(): the enabled profile that matches, else the enabled default
\* one, else none.
Matching(c, w) ==
  IF w \in Terminal /\ c["terminal"] THEN {"terminal"}
  ELSE IF c["default"] THEN {"default"} ELSE {}

-----------------------------------------------------------------------------
(* The virtual keyboard                                                    *)

\* The keys that the desktop takes to be down after the first n of the events s:
\* the last event of a key decides.
DownAfter(s, n) ==
  {k \in Key : \/ k \in shown /\ \A i \in 1..n : s[i].key # k
              \/ \E i \in 1..n : /\ s[i].key = k /\ s[i].down
                                 /\ \A j \in 1..n : j > i => s[j].key # k}

\* The events among s that make the desktop act: another key than a modifier
\* goes down that was not down before.
Strokes(s) ==
  {i \in 1..Len(s) : s[i].down /\ s[i].key \notin Modifier \cup DownAfter(s, i - 1)}

Stroke(s, i) ==
  [window |-> window, modifiers |-> DownAfter(s, i - 1) \cap Modifier,
   key |-> s[i].key, heard |-> known, news |-> inFlight # <<>>]

\* SYN_REPORT hands over everything that was written before it.
GotThrough(frame) ==
  LET s == pending \o frame
  IN  /\ pending' = <<>>
      /\ shown' = DownAfter(s, Len(s))
      /\ performed' = performed \cup {Stroke(s, i) : i \in Strokes(s)}

\* emitFrame() gives up at the first event, or the SYN_REPORT, that it cannot write.
CutShort(frame) ==
  /\ faults < MaxFaults /\ faults' = faults + 1
  /\ \E n \in 0..Len(frame) : pending' = pending \o SubSeq(frame, 1, n)
  /\ UNCHANGED <<shown, performed>>

Events(keys, down) == [i \in 1..Len(keys) |-> [key |-> keys[i], down |-> down]]

ModifierPresses  == Events(Shortcut[shortcut].modifiers, TRUE)
ModifierReleases == Events(Reverse(Shortcut[shortcut].modifiers), FALSE)
KeyPress         == Events(<<Shortcut[shortcut].key>>, TRUE)
KeyRelease       == Events(<<Shortcut[shortcut].key>>, FALSE)

\* One frame of sendShortcut(): the next one follows, or releaseAll() does.
Frame(at, frame, next) ==
  /\ pc = at
  /\ \/ GotThrough(frame) /\ pc' = next /\ UNCHANGED faults
     \/ CutShort(frame) /\ pc' = "releaseAll"
  /\ UNCHANGED <<desktop, contexts, presses, up, identity, request, known, shortcut, tools,
                 ready, cut, edits, crashes>>

SendModifiersUnchecked ==
  \/ Frame("modifiers", ModifierPresses, "press")
  \/ /\ pc = "modifiers" /\ pc' = "press" /\ CutShort(ModifierPresses)
     /\ UNCHANGED <<desktop, contexts, presses, up, identity, request, known, shortcut, tools,
                    ready, cut, edits, crashes>>
SendModifiers == Frame("modifiers", ModifierPresses, "press")
SendPress     == Frame("press", KeyPress, "release")
SendRelease   == Frame("release", KeyRelease, "unmodify")

\* The last frame has no releaseAll() behind it; the fallbacks follow.
SendModifierReleases ==
  /\ pc = "unmodify"
  /\ \/ GotThrough(ModifierReleases) /\ pc' = "returning" /\ UNCHANGED <<cut, tools, faults>>
     \/ CutShort(ModifierReleases) /\ pc' = "tools" /\ tools' = Fallbacks /\ cut' = TRUE
  /\ UNCHANGED <<desktop, contexts, presses, up, identity, request, known, shortcut,
                 ready, edits, crashes>>

\* After a failure everything is released in one frame, which may fail as well.
ReleaseFrameModifiersOnly == ModifierReleases
ReleaseFrame == KeyRelease \o ModifierReleases

ReleaseAll ==
  /\ pc = "releaseAll" /\ pc' = "tools" /\ tools' = Fallbacks
  /\ \/ GotThrough(ReleaseFrame) /\ UNCHANGED <<cut, faults>>
     \/ CutShort(ReleaseFrame) /\ cut' = TRUE
  /\ UNCHANGED <<desktop, contexts, presses, up, identity, request, known, shortcut,
                 ready, edits, crashes>>

\* sendShortcut() up to its first frame: an unknown key, or a /dev/uinput that
\* refuses the keyboard, leaves the shortcut to the fallbacks.
SendStarts ==
  /\ pc = "send"
  /\ \/ /\ shortcut \notin Uncoded
        /\ ready' = TRUE /\ pc' = "modifiers" /\ UNCHANGED tools
     \/ /\ shortcut \in Uncoded \/ ~ready
        /\ pc' = "tools" /\ tools' = Fallbacks /\ UNCHANGED ready
  /\ UNCHANGED <<desktop, contexts, presses, up, identity, request, known, shortcut,
                 pending, shown, history, counts>>

-----------------------------------------------------------------------------
(* execute() and the fallbacks                                             *)

\* The action is refused, and the event loop goes on.
Refuse == pc' = "idle" /\ UNCHANGED <<request, known, shortcut>>

Send(r, w, s) == pc' = "send" /\ request' = r /\ known' = w /\ shortcut' = s

\* load() writes the profiles it has added, and fails when it cannot.
Loaded(c) ==
  IF c = Broken THEN {Broken}
  ELSE {Migrated(c)} \cup (IF Migrated(c) # c THEN {Broken} ELSE {})

\* activeProcessName(): without an identity kdotool or xdotool is asked, where
\* one is installed and answers in time.
ActiveWindows == IF identity # NoWindow THEN {identity} ELSE {NoWindow, window}

\* shortcutFor() loads the profiles only when it knows of a window.
LookUp(w, found) ==
  IF w = NoWindow THEN found = Broken /\ UNCHANGED contexts
  ELSE /\ found \in Loaded(contexts)
       /\ contexts' = IF found = Broken THEN contexts ELSE found

\* A context-sensitive action has no shortcut without a window and a profile.
ShortcutFor(found, w) == IF found = Broken THEN {} ELSE Matching(found, w)

ExecuteContext ==
  \E w \in ActiveWindows, found \in Contexts \cup {Broken} :
    /\ LookUp(w, found)
    /\ IF ShortcutFor(found, w) = {} THEN Refuse
       ELSE \E s \in ShortcutFor(found, w) : Send("context", w, s)

\* Custom shortcuts are sent as they are; the other actions look for a profile,
\* which has nothing for them, and go on with a shortcut of their own.
ExecutePlain ==
  \E w \in ActiveWindows :
    /\ UNCHANGED contexts \/ \E found \in Contexts \cup {Broken} : LookUp(w, found)
    /\ Send("plain", NoWindow, "plain")

\* A script that is no longer a plain file with an absolute path is refused.
ExecuteScript ==
  /\ UNCHANGED contexts
  /\ \/ Refuse
     \/ pc' = "script" /\ request' = "script" /\ UNCHANGED <<known, shortcut>>

HandlePress ==
  /\ up /\ pc = "idle" /\ presses # <<>>
  /\ presses' = Tail(presses)
  /\ CASE Head(presses) = "context" -> ExecuteContext
       [] Head(presses) = "plain"   -> ExecutePlain
       [] Head(presses) = "script"  -> ExecuteScript
  /\ UNCHANGED <<desktop, up, identity, tools, keyboard, history, counts>>

\* execute() returns; what it knew of the request is gone.
Returns ==
  /\ pc = "returning" /\ pc' = "idle"
  /\ request' = "plain" /\ known' = NoWindow /\ shortcut' = "plain" /\ tools' = 0
  /\ performed' = {}
  /\ UNCHANGED <<desktop, contexts, presses, up, identity, keyboard, cut, counts>>

ScriptEnds ==
  /\ pc = "script" /\ pc' = "returning"
  /\ UNCHANGED <<desktop, contexts, presses, up, identity, request, known, shortcut, tools,
                 keyboard, history, counts>>

\* A process that does not end in time is killed: after ten seconds a script,
\* after 3.5 seconds a tool.
WaitsForever == FALSE
TimesOut == TRUE

ScriptKilled ==
  /\ TimesOut
  /\ pc = "script" /\ pc' = "returning"
  /\ UNCHANGED <<desktop, contexts, presses, up, identity, request, known, shortcut, tools,
                 keyboard, history, counts>>

ToolLeft == tools > 0

\* What a tool makes the desktop do, with the modifiers our keyboard still holds.
ByTool ==
  [window |-> window, key |-> Shortcut[shortcut].key,
   modifiers |-> ToSet(Shortcut[shortcut].modifiers) \cup (shown \cap Modifier),
   heard |-> known, news |-> inFlight # <<>>]

ToolSucceeds ==
  /\ pc = "tools" /\ ToolLeft
  /\ performed' = performed \cup {ByTool}
  /\ pc' = "returning" /\ tools' = 0
  /\ UNCHANGED <<desktop, contexts, presses, up, identity, request, known, shortcut,
                 keyboard, cut, counts>>

\* It is missing, reports an error, or does not end in time, and may have sent
\* the keys all the same; the next one is tried.
ToolFails ==
  /\ pc = "tools" /\ ToolLeft
  /\ performed' \in {performed, performed \cup {ByTool}}
  /\ tools' = tools - 1 /\ pc' = pc
  /\ UNCHANGED <<desktop, contexts, presses, up, identity, request, known, shortcut,
                 keyboard, cut, counts>>

NoToolLeft ==
  /\ pc = "tools" /\ tools = 0 /\ pc' = "returning"
  /\ UNCHANGED <<desktop, contexts, presses, up, identity, request, known, shortcut, tools,
                 keyboard, history, counts>>

-----------------------------------------------------------------------------
(* The daemon process                                                      *)

DaemonStarts ==
  /\ ~up /\ up' = TRUE
  /\ UNCHANGED <<desktop, contexts, presses, identity, thread, keyboard, history, counts>>

\* It dies: its messages are lost, and the kernel destroys its keyboard, which
\* releases every key.
Crash ==
  /\ up /\ crashes < MaxCrashes
  /\ up' = FALSE /\ crashes' = crashes + 1
  /\ inFlight' = <<>> /\ presses' = <<>> /\ identity' = NoWindow
  /\ pc' = "idle" /\ tools' = 0
  /\ ready' = FALSE /\ pending' = <<>> /\ shown' = {}
  /\ request' = "plain" /\ known' = NoWindow /\ shortcut' = "plain"
  /\ performed' = {} /\ cut' = FALSE
  /\ UNCHANGED <<window, contexts, faults, edits>>

User == EditContexts \/ (\E w \in Window \cup {NoWindow} : ActivateWindow(w))
        \/ \E r \in Requests : Press(r)

Sending == SendStarts \/ SendModifiers \/ SendPress \/ SendRelease
           \/ SendModifierReleases \/ ReleaseAll

Waiting == ScriptKilled \/ ToolSucceeds \/ ToolFails \/ NoToolLeft
           \/ Returns

Next == User \/ DaemonStarts \/ Crash \/ SetActiveWindow \/ HandlePress
        \/ Sending \/ Waiting \/ ScriptEnds

\* systemd starts the daemon, its event loop serves both sockets, and a call
\* that has begun goes on.  That a script ends by itself is not assumed.
Fairness ==
  /\ WF_vars(DaemonStarts) /\ WF_vars(SetActiveWindow) /\ WF_vars(HandlePress)
  /\ WF_vars(Sending) /\ WF_vars(Waiting)

Spec == Init /\ [][Next]_vars /\ Fairness

-----------------------------------------------------------------------------
(* Properties                                                              *)

\* Whatever fails on the way, a shortcut leaves no key down on the virtual
\* keyboard, and no event waiting to surface with the next one; unless the
\* frame that was to release the keys did not get through itself (the returns
\* of sendShortcut with and without releaseAll).
NothingHeld == pc \in {"idle", "tools", "returning"} /\ ~cut => shown = {} /\ pending = <<>>

\* The desktop never sees the key of a shortcut with other modifiers than its
\* own, however its frames were cut short: no plain Ctrl+V for Ctrl+Shift+V
\* (sendShortcut, emitFrame, releaseAll).
OnlyWholeShortcuts ==
  ~cut =>
    \A p \in performed :
      /\ p.key = Shortcut[shortcut].key
      /\ p.modifiers = ToSet(Shortcut[shortcut].modifiers)

\* The window that a context-sensitive shortcut was chosen for is the one that
\* its keys reach, unless the user has switched and the report of it was still
\* on its way: nothing but that delay can misdirect a Paste, neither a crash
\* of the daemon nor a desktop without an active window.  Without any window that
\* the daemon knows of there is no shortcut at all (docs/KWIN_CONTEXT_BRIDGE.md:9;
\* README.md:224 promises the ordinary one).
ContextIsCurrent ==
  request = "context" =>
    \A p \in performed :
      p.heard # NoWindow /\ (p.news \/ p.heard = p.window)

\* Every action ends, whatever the tools and scripts it runs do, so that the
\* daemon comes back to its presses and messages.
ActionsEnd == pc # "idle" ~> pc = "idle"
=============================================================================

------------------------ MODULE GrabOwnership_proofs ------------------------
(***************************************************************************)
(* Proofs about who reads the mouse, for any number of dialogs, of         *)
(* restarts and of crashes, with a systemd and a GUI that fail or do not.  *)
(***************************************************************************)
EXTENDS GrabOwnership, FiniteSetTheorems, SequenceTheorems, TLAPS

-----------------------------------------------------------------------------
(* Nodes                                                                   *)

\* The copy that a reader shows of a node, one reader longer.
LEMMA Copies ==
  /\ \A a : Copy(a, Mouse) = <<a>>
  /\ \A a, b : Copy(b, <<a>>) = <<b, a>>
  /\ \A a, b, c : Copy(c, <<b, a>>) = <<c, b, a>>
<1>1. \A a : Copy(a, Mouse) = <<a>>
  BY DEF Copy, Mouse
<1>2. ASSUME NEW a, NEW b
      PROVE  Copy(b, <<a>>) = <<b, a>>
  <2> DEFINE S == {a, b}
             s == <<b>>
             t == <<a>>
             u == <<b, a>>
  <2>1. /\ s \in Seq(S) /\ Len(s) = 1 /\ s[1] = b
        /\ t \in Seq(S) /\ Len(t) = 1 /\ t[1] = a
        /\ u \in Seq(S) /\ Len(u) = 2 /\ u[1] = b /\ u[2] = a
    OBVIOUS
  <2> HIDE DEF S, s, t, u
  <2>2. /\ s \o t \in Seq(S) /\ Len(s \o t) = Len(s) + Len(t)
        /\ \A i \in 1..(Len(s) + Len(t)) : (s \o t)[i] = IF i <= Len(s) THEN s[i] ELSE t[i - Len(s)]
    BY <2>1, ConcatProperties
  <2>3. Len(s \o t) = 2 /\ (s \o t)[1] = b /\ (s \o t)[2] = a
    BY <2>1, <2>2
  <2>4. \A i \in 1..2 : (s \o t)[i] = u[i]
    BY <2>1, <2>3
  <2>5. s \o t = u
    BY <2>1, <2>2, <2>3, <2>4, SeqEqual
  <2> QED
    BY <2>5 DEF Copy, s, t, u
<1>3. ASSUME NEW a, NEW b, NEW c
      PROVE  Copy(c, <<b, a>>) = <<c, b, a>>
  <2> DEFINE S == {a, b, c}
             s == <<c>>
             t == <<b, a>>
             u == <<c, b, a>>
  <2>1. /\ s \in Seq(S) /\ Len(s) = 1 /\ s[1] = c
        /\ t \in Seq(S) /\ Len(t) = 2 /\ t[1] = b /\ t[2] = a
        /\ u \in Seq(S) /\ Len(u) = 3 /\ u[1] = c /\ u[2] = b /\ u[3] = a
    OBVIOUS
  <2> HIDE DEF S, s, t, u
  <2>2. /\ s \o t \in Seq(S) /\ Len(s \o t) = Len(s) + Len(t)
        /\ \A i \in 1..(Len(s) + Len(t)) : (s \o t)[i] = IF i <= Len(s) THEN s[i] ELSE t[i - Len(s)]
    BY <2>1, ConcatProperties
  <2>3. Len(s \o t) = 3 /\ (s \o t)[1] = c /\ (s \o t)[2] = b /\ (s \o t)[3] = a
    BY <2>1, <2>2
  <2>4. \A i \in 1..3 : (s \o t)[i] = u[i]
    BY <2>1, <2>3
  <2>5. s \o t = u
    BY <2>1, <2>2, <2>3, <2>4, SeqEqual
  <2> QED
    BY <2>5 DEF Copy, s, t, u
<1> QED
  BY <1>1, <1>2, <1>3

LEMMA ThroughNodes ==
  /\ Through(Mouse) = {}
  /\ \A a : Through(<<a>>) = {a}
  /\ \A a, b : Through(<<b, a>>) = {a, b}
  /\ \A a, b, c : Through(<<c, b, a>>) = {a, b, c}
  BY DEF Through, Mouse

\* Nodes that went through different numbers of readers are different.
LEMMA NodesDiffer ==
  /\ \A a : <<a>> # Mouse
  /\ \A a, b : <<b, a>> # Mouse
  /\ \A a, b, c : <<c, b, a>> # Mouse
  /\ \A a, b, c : <<c>> # <<b, a>>
  /\ \A a, b, c, d : <<d>> # <<c, b, a>>
  /\ \A a, b, c, d, e : <<e, d>> # <<c, b, a>>
  BY DEF Mouse

LEMMA SizeOfTwo ==
  ASSUME NEW a, NEW b, a # b
  PROVE  IsFiniteSet({a, b}) /\ Cardinality({a, b}) = 2
<1>1. IsFiniteSet({a}) /\ Cardinality({a}) = 1
  BY FS_Singleton
<1>2. {a, b} = {a} \cup {b} /\ b \notin {a}
  OBVIOUS
<1>3. IsFiniteSet({a} \cup {b}) /\ Cardinality({a} \cup {b}) = Cardinality({a}) + 1
  BY <1>1, <1>2, FS_AddElement
<1>4. IsFiniteSet({a, b}) /\ Cardinality({a, b}) = Cardinality({a}) + 1
  BY <1>2, <1>3, Zenon
<1> QED
  BY <1>1, <1>4

LEMMA SizeOfThree ==
  ASSUME NEW a, NEW b, NEW c, a # b, a # c, b # c
  PROVE  Cardinality({a, b, c}) = 3
<1>1. IsFiniteSet({a, b}) /\ Cardinality({a, b}) = 2
  BY SizeOfTwo
<1>2. {a, b, c} = {a, b} \cup {c} /\ c \notin {a, b}
  OBVIOUS
<1>3. Cardinality({a, b} \cup {c}) = Cardinality({a, b}) + 1
  BY <1>1, <1>2, FS_AddElement
<1>4. Cardinality({a, b, c}) = Cardinality({a, b}) + 1
  BY <1>2, <1>3, Zenon
<1> QED
  BY <1>1, <1>4

LEMMA InputNodes ==
  /\ Mouse \in InputNode
  /\ \A a \in Reader : <<a>> \in InputNode
  /\ \A a, b \in Reader : a # b => <<b, a>> \in InputNode
  /\ \A a, b, c \in Reader : a # b /\ a # c /\ b # c => <<c, b, a>> \in InputNode
<1>1. Mouse \in InputNode
  BY ThroughNodes, FS_EmptySet DEF InputNode, Path, Mouse
<1>2. ASSUME NEW a \in Reader
      PROVE  <<a>> \in InputNode
  <2>1. <<a>> \in Path
    BY DEF Path
  <2>2. Through(<<a>>) = {a}
    BY ThroughNodes
  <2>3. Cardinality({a}) = 1
    BY FS_Singleton
  <2>4. Cardinality(Through(<<a>>)) = Len(<<a>>)
    BY <2>2, <2>3
  <2> QED
    BY <2>1, <2>4 DEF InputNode
<1>3. ASSUME NEW a \in Reader, NEW b \in Reader, a # b
      PROVE  <<b, a>> \in InputNode
  <2>1. <<b, a>> \in Path
    BY DEF Path
  <2>2. Through(<<b, a>>) = {a, b}
    BY ThroughNodes
  <2>3. Cardinality({a, b}) = 2
    BY <1>3, SizeOfTwo
  <2>4. Cardinality(Through(<<b, a>>)) = Len(<<b, a>>)
    BY <2>2, <2>3
  <2> QED
    BY <2>1, <2>4 DEF InputNode
<1>4. ASSUME NEW a \in Reader, NEW b \in Reader, NEW c \in Reader, a # b, a # c, b # c
      PROVE  <<c, b, a>> \in InputNode
  <2>1. <<c, b, a>> \in Path
    BY DEF Path
  <2>2. Through(<<c, b, a>>) = {a, b, c}
    BY ThroughNodes
  <2>3. Cardinality({a, b, c}) = 3
    BY <1>4, SizeOfThree
  <2>4. Cardinality(Through(<<c, b, a>>)) = Len(<<c, b, a>>)
    BY <2>2, <2>3
  <2> QED
    BY <2>1, <2>4 DEF InputNode
<1> QED
  BY <1>1, <1>2, <1>3, <1>4

-----------------------------------------------------------------------------
(* Chains of readers                                                       *)

\* Who reads what, with no, one, two and three readers: the first reads the
\* mouse, and each of the others the copy that the one before it shows.
NoReader(o) == \A p \in Reader : o[p] = {}

OneReader(o, a) == \A p \in Reader : o[p] = IF p = a THEN {Mouse} ELSE {}

TwoReaders(o, a, b) ==
  /\ a # b
  /\ \A p \in Reader : o[p] = IF p = a THEN {Mouse} ELSE IF p = b THEN {<<a>>} ELSE {}

ThreeReaders(o, a, b, c) ==
  /\ a # b /\ a # c /\ b # c
  /\ \A p \in Reader :
       o[p] = IF p = a THEN {Mouse} ELSE IF p = b THEN {<<a>>} ELSE IF p = c THEN {<<b, a>>} ELSE {}

Chain(o) ==
  \/ NoReader(o)
  \/ \E a \in Reader : OneReader(o, a)
  \/ \E a, b \in Reader : TwoReaders(o, a, b)
  \/ \E a, b, c \in Reader : ThreeReaders(o, a, b, c)

\* At the end of the chain is the one node that nobody reads; a reader that is
\* not yet part of the chain can be added there.
EndOfChain(t) ==
  /\ t \in InputNode /\ t \in Nodes /\ Nodes \subseteq InputNode
  /\ \A n \in Nodes : Free(n) <=> n = t
  /\ \A n \in Nodes, p \in Reader : p \in Through(n) => own[p] # {}
  /\ \A p \in Reader : p \notin Through(t) => Chain([own EXCEPT ![p] = @ \cup {t}])

LEMMA NodesAre ==
  \A x : x \in Nodes <=> x = Mouse \/ \E p \in Reader : \E n \in own[p] : x = Copy(p, n)
  BY DEF Nodes, Shows

LEMMA EndOfNone ==
  ASSUME own \in [Reader -> SUBSET InputNode], NoReader(own)
  PROVE  EndOfChain(Mouse)
<1>1. \A x : x \in Nodes <=> x = Mouse
  BY NodesAre DEF NoReader
<1>2. ASSUME NEW p \in Reader
      PROVE  Chain([own EXCEPT ![p] = @ \cup {Mouse}])
  <2> DEFINE o == [own EXCEPT ![p] = @ \cup {Mouse}]
  <2>1. OneReader(o, p)
    BY DEF NoReader, OneReader
  <2> QED
    BY <2>1 DEF Chain
<1> QED
  BY <1>1, <1>2, InputNodes, ThroughNodes DEF EndOfChain, NoReader, Free

LEMMA EndOfOne ==
  ASSUME own \in [Reader -> SUBSET InputNode], NEW a \in Reader, OneReader(own, a)
  PROVE  EndOfChain(<<a>>)
<1>1. \A x : x \in Nodes <=> x = Mouse \/ x = <<a>>
  BY NodesAre, Copies DEF OneReader
<1>2. ASSUME NEW p \in Reader, p # a
      PROVE  Chain([own EXCEPT ![p] = @ \cup {<<a>>}])
  <2> DEFINE o == [own EXCEPT ![p] = @ \cup {<<a>>}]
  <2>1. TwoReaders(o, a, p)
    BY <1>2 DEF OneReader, TwoReaders
  <2> QED
    BY <2>1 DEF Chain
<1>3. \A n \in Nodes : Free(n) <=> n = <<a>>
  BY <1>1, NodesDiffer DEF OneReader, Free
<1>4. \A p \in Reader : p \notin Through(<<a>>) => p # a
  BY ThroughNodes
<1>5. \A n \in Nodes, p \in Reader : p \in Through(n) => own[p] # {}
  BY <1>1, ThroughNodes DEF OneReader
<1>6. <<a>> \in Nodes /\ <<a>> \in InputNode /\ Nodes \subseteq InputNode
  BY <1>1, InputNodes
<1> QED
  BY <1>2, <1>3, <1>4, <1>5, <1>6 DEF EndOfChain

LEMMA EndOfTwo ==
  ASSUME own \in [Reader -> SUBSET InputNode], NEW a \in Reader, NEW b \in Reader,
         TwoReaders(own, a, b)
  PROVE  EndOfChain(<<b, a>>)
<1>1. \A x : x \in Nodes <=> x = Mouse \/ x = <<a>> \/ x = <<b, a>>
  BY NodesAre, Copies DEF TwoReaders
<1>2. ASSUME NEW p \in Reader, p # a, p # b
      PROVE  Chain([own EXCEPT ![p] = @ \cup {<<b, a>>}])
  <2> DEFINE o == [own EXCEPT ![p] = @ \cup {<<b, a>>}]
  <2>1. ThreeReaders(o, a, b, p)
    BY <1>2 DEF TwoReaders, ThreeReaders
  <2> QED
    BY <2>1 DEF Chain
<1>3. \A n \in Nodes : Free(n) <=> n = <<b, a>>
  BY <1>1, NodesDiffer DEF TwoReaders, Free
<1>4. \A p \in Reader : p \notin Through(<<b, a>>) => p # a /\ p # b
  BY ThroughNodes
<1>5. \A n \in Nodes, p \in Reader : p \in Through(n) => own[p] # {}
  <2>1. own[a] # {} /\ own[b] # {}
    BY DEF TwoReaders
  <2>2. \A n \in Nodes, p \in Reader : p \in Through(n) => p = a \/ p = b
    BY <1>1, ThroughNodes
  <2> QED
    BY <2>1, <2>2
<1>6. <<b, a>> \in Nodes /\ <<b, a>> \in InputNode /\ Nodes \subseteq InputNode
  BY <1>1, InputNodes DEF TwoReaders
<1> QED
  BY <1>2, <1>3, <1>4, <1>5, <1>6 DEF EndOfChain

LEMMA EndOfThree ==
  ASSUME own \in [Reader -> SUBSET InputNode], NEW a \in Reader, NEW b \in Reader,
         NEW c \in Reader, ThreeReaders(own, a, b, c)
  PROVE  EndOfChain(<<c, b, a>>)
<1>1. \A x : x \in Nodes <=> x = Mouse \/ x = <<a>> \/ x = <<b, a>> \/ x = <<c, b, a>>
  BY NodesAre, Copies DEF ThreeReaders
<1>2. \A p \in Reader : p \in Through(<<c, b, a>>)
  BY ThroughNodes DEF ThreeReaders, Reader
<1>3. \A n \in Nodes : Free(n) <=> n = <<c, b, a>>
  BY <1>1, NodesDiffer DEF ThreeReaders, Free
<1>4. \A n \in Nodes, p \in Reader : p \in Through(n) => own[p] # {}
  <2>1. own[a] # {} /\ own[b] # {} /\ own[c] # {}
    BY DEF ThreeReaders
  <2>2. \A n \in Nodes, p \in Reader : p \in Through(n) => p = a \/ p = b \/ p = c
    BY <1>1, ThroughNodes
  <2> QED
    BY <2>1, <2>2
<1>5. <<c, b, a>> \in Nodes /\ <<c, b, a>> \in InputNode /\ Nodes \subseteq InputNode
  BY <1>1, InputNodes DEF ThreeReaders
<1> QED
  BY <1>2, <1>3, <1>4, <1>5 DEF EndOfChain

LEMMA ChainEnds ==
  ASSUME own \in [Reader -> SUBSET InputNode], Chain(own)
  PROVE  \E t : EndOfChain(t)
  BY EndOfNone, EndOfOne, EndOfTwo, EndOfThree DEF Chain

\* Without p, and without what went through p.
Cut(o, p) == [q \in Reader |-> IF q = p THEN {} ELSE {n \in o[q] : p \notin Through(n)}]

\* A chain that is cut is a chain: of the readers before p.
LEMMA CutChain ==
  ASSUME NEW o, Chain(o), NEW p \in Reader
  PROVE  Chain(Cut(o, p))
<1> DEFINE k == Cut(o, p)
<1>1. \A q \in Reader : k[q] = IF q = p THEN {} ELSE {n \in o[q] : p \notin Through(n)}
  BY DEF Cut
<1> HIDE DEF k
<1>2. CASE NoReader(o)
  <2>1. NoReader(k)
    BY <1>1, <1>2 DEF NoReader
  <2> QED
    BY <2>1 DEF Chain, k
<1>3. ASSUME NEW a \in Reader, OneReader(o, a)
      PROVE  Chain(k)
  <2>1. p = a => NoReader(k)
    BY <1>1, <1>3 DEF OneReader, NoReader
  <2>2. p # a => OneReader(k, a)
    BY <1>1, <1>3, ThroughNodes DEF OneReader
  <2> QED
    BY <2>1, <2>2 DEF Chain
<1>4. ASSUME NEW a \in Reader, NEW b \in Reader, TwoReaders(o, a, b)
      PROVE  Chain(k)
  <2>1. p = a => NoReader(k)
    BY <1>1, <1>4, ThroughNodes DEF TwoReaders, NoReader
  <2>2. p = b => OneReader(k, a)
    BY <1>1, <1>4, ThroughNodes DEF TwoReaders, OneReader
  <2>3. p # a /\ p # b => TwoReaders(k, a, b)
    BY <1>1, <1>4, ThroughNodes DEF TwoReaders
  <2> QED
    BY <2>1, <2>2, <2>3 DEF Chain
<1>5. ASSUME NEW a \in Reader, NEW b \in Reader, NEW c \in Reader, ThreeReaders(o, a, b, c)
      PROVE  Chain(k)
  <2>1. p = a => NoReader(k)
    BY <1>1, <1>5, ThroughNodes DEF ThreeReaders, NoReader
  <2>2. p = b => OneReader(k, a)
    BY <1>1, <1>5, ThroughNodes DEF ThreeReaders, OneReader
  <2>3. p = c => TwoReaders(k, a, b)
    BY <1>1, <1>5, ThroughNodes DEF ThreeReaders, TwoReaders
  <2>4. p \in {a, b, c}
    BY <1>5 DEF ThreeReaders, Reader
  <2> QED
    BY <2>1, <2>2, <2>3, <2>4 DEF Chain
<1> QED
  BY <1>2, <1>3, <1>4, <1>5 DEF Chain, k

LEMMA CutOwn ==
  ASSUME own \in [Reader -> SUBSET InputNode], NEW p \in Reader
  PROVE  /\ StoppedOwn(p) = Cut(own, p)
         /\ StoppedOwn(p) \in [Reader -> SUBSET InputNode]
         /\ StoppedOwn(p)[p] = {}
         /\ \A q \in Reader : StoppedOwn(p)[q] \subseteq own[q]
         /\ StoppedDead(p) \in [Reader -> BOOLEAN]
  BY DEF StoppedOwn, StoppedDead, Cut

-----------------------------------------------------------------------------
(* The inductive invariant                                                 *)

\* The readers form one chain, and none of them is about to read what went
\* through itself.
ReadersInv ==
  /\ own \in [Reader -> SUBSET InputNode] /\ dead \in [Reader -> BOOLEAN]
  /\ todo \in [Reader -> SUBSET InputNode] /\ listed \subseteq InputNode
  /\ Chain(own)
  /\ \A p \in Reader : \A n \in todo[p] : p \notin Through(n)
  /\ \A n \in listed : "dialog" \notin Through(n)

ThreadTypes ==
  /\ unit \in {"inactive", "activating", "active"}
  /\ job \in {"none", "stop", "restart"}
  /\ gui \in GuiStates
  /\ return \in {"idle", "dialog", "closed"}
  /\ verdict \in BOOLEAN /\ waited \in BOOLEAN
  /\ crashes \in 0..MaxCrashes /\ dialogs \in 0..MaxDialogs
  /\ restarts \in 0..MaxRestarts

\* The dialog's monitor reads only while the dialog exists.
DialogInv ==
  own["dialog"] # {} \/ todo["dialog"] # {} =>
    \/ gui \in {"dialog", "closing", "restarting", "closed"}
    \/ gui \in {"check", "act", "starting"} /\ return \in {"dialog", "closed"}

InDialog == gui = "dialog" \/ (gui \in {"check", "act", "starting"} /\ return = "dialog")

\* A unit that is not active reads nothing; the stop that the dialog asks for is
\* either pending or done, and done for good once the GUI has seen it.
StopInv ==
  /\ unit # "active" => own["daemon"] = {} /\ todo["daemon"] = {}
  /\ gui = "stopping" => job = "stop" \/ (job = "none" /\ unit = "inactive")
  /\ InDialog /\ waited => unit = "inactive" /\ job = "none"

Inv == ReadersInv /\ ThreadTypes /\ DialogInv /\ StopInv

LEMMA ReaderNames == {"daemon", "gui", "dialog"} = Reader
  BY DEF Reader

\* A reader that stops, or starts on some nodes that did not go through it,
\* leaves a chain behind.
LEMMA StartKeepsReaders ==
  ASSUME ReadersInv, NEW p \in Reader, NEW found \in SUBSET InputNode,
         \A n \in found : p \notin Through(n),
         StartReader(p, found), listed' \subseteq InputNode,
         \A n \in listed' : "dialog" \notin Through(n)
  PROVE  /\ ReadersInv'
         /\ own'[p] = {} /\ todo'[p] = found
         /\ \A q \in Reader : own'[q] \subseteq own[q] /\ (q # p => todo'[q] = todo[q])
<1>1. /\ own' = Cut(own, p) /\ own' \in [Reader -> SUBSET InputNode] /\ own'[p] = {}
      /\ \A q \in Reader : own'[q] \subseteq own[q]
      /\ dead' \in [Reader -> BOOLEAN]
  BY CutOwn DEF StartReader, ReadersInv
<1>2. Chain(own')
  BY <1>1, CutChain DEF ReadersInv
<1>3. /\ todo' \in [Reader -> SUBSET InputNode] /\ todo'[p] = found
      /\ \A q \in Reader : q # p => todo'[q] = todo[q]
  BY DEF StartReader, ReadersInv
<1>4. \A q \in Reader : \A n \in todo'[q] : q \notin Through(n)
  BY <1>3 DEF ReadersInv
<1> QED
  BY <1>1, <1>2, <1>3, <1>4 DEF ReadersInv

LEMMA StopKeepsReaders ==
  ASSUME ReadersInv, NEW p \in Reader, StopReader(p), listed' \subseteq InputNode,
         \A n \in listed' : "dialog" \notin Through(n)
  PROVE  /\ ReadersInv'
         /\ own'[p] = {} /\ todo'[p] = {}
         /\ \A q \in Reader : own'[q] \subseteq own[q] /\ (q # p => todo'[q] = todo[q])
<1>1. StartReader(p, {})
  BY DEF StopReader, StartReader
<1>2. {} \in SUBSET InputNode /\ \A n \in {} : p \notin Through(n)
  OBVIOUS
<1> QED
  BY <1>1, <1>2, StartKeepsReaders

\* What a reader finds when it enumerates the nodes.
LEMMA FoundNodes ==
  ASSUME ReadersInv, NEW p \in Reader
  PROVE  /\ LeftFor(p) \in SUBSET InputNode
         /\ \A n \in LeftFor(p) : p \notin Through(n)
         /\ \A n \in LeftFor(p), q \in Reader : q \in Through(n) => own[q] # {}
<1>1. PICK t : EndOfChain(t)
  BY ChainEnds DEF ReadersInv
<1> QED
  BY <1>1 DEF EndOfChain, LeftFor

\* A monitor that starts extends the chain, or starts nothing.
LEMMA TryKeepsReaders ==
  ASSUME ReadersInv, NEW p \in Reader, NEW n \in InputNode, TryNode(p, n)
  PROVE  /\ ReadersInv'
         /\ \A q \in Reader : todo'[q] \subseteq todo[q] /\ (q # p => own'[q] = own[q])
         /\ todo[p] # {}
<1>1. PICK t : EndOfChain(t)
  BY ChainEnds DEF ReadersInv
<1>2. n \in todo[p] /\ p \notin Through(n) /\ todo[p] # {}
  BY DEF TryNode, ReadersInv
<1>3. /\ todo' \in [Reader -> SUBSET InputNode] /\ dead' = dead /\ listed' = listed
      /\ \A q \in Reader : todo'[q] \subseteq todo[q]
  BY DEF TryNode, ReadersInv
<1>4. CASE n \in Nodes /\ Free(n)
  <2>1. n = t /\ t \in InputNode
    BY <1>1, <1>4 DEF EndOfChain
  <2>2. own' = [own EXCEPT ![p] = @ \cup {t}]
    BY <1>4, <2>1 DEF TryNode
  <2>3. Chain(own')
    BY <1>1, <1>2, <2>1, <2>2 DEF EndOfChain
  <2> QED
    BY <1>2, <1>3, <2>1, <2>2, <2>3 DEF ReadersInv
<1>5. CASE ~(n \in Nodes /\ Free(n))
  <2>1. own' = own
    BY <1>5 DEF TryNode
  <2> QED
    BY <1>2, <1>3, <2>1 DEF ReadersInv
<1> QED
  BY <1>4, <1>5

\* When the GUI dies, the chain is cut twice.
LEMMA GuiCrashKeepsReaders ==
  ASSUME ReadersInv, GuiCrashes
  PROVE  /\ ReadersInv'
         /\ own'["dialog"] = {} /\ todo'["dialog"] = {}
         /\ own'["daemon"] \subseteq own["daemon"] /\ todo'["daemon"] = todo["daemon"]
<1> DEFINE k == Cut(own, "gui")
<1>1. own \in [Reader -> SUBSET InputNode] /\ "gui" \in Reader /\ "dialog" \in Reader
  BY DEF ReadersInv, Reader
<1>2. StoppedOwn("gui") = k /\ k \in [Reader -> SUBSET InputNode] /\ k["gui"] = {}
      /\ \A q \in Reader : k[q] \subseteq own[q]
  BY <1>1, CutOwn
<1> HIDE DEF k
<1>3. own' = [k EXCEPT !["dialog"] = {}, !["daemon"] = {n \in @ : "dialog" \notin Through(n)}]
  BY <1>2 DEF GuiCrashes
<1>4. own' = Cut(k, "dialog")
  BY <1>2, <1>3 DEF Cut, Reader
<1>5. Chain(k) /\ Chain(own')
  BY <1>1, <1>4, CutChain DEF ReadersInv, k
<1>6. /\ own' \in [Reader -> SUBSET InputNode] /\ own'["dialog"] = {}
      /\ own'["daemon"] \subseteq own["daemon"]
  BY <1>2, <1>3 DEF Reader
<1>7. /\ dead' \in [Reader -> BOOLEAN] /\ listed' = {}
      /\ todo' \in [Reader -> SUBSET InputNode]
      /\ todo'["gui"] = {} /\ todo'["dialog"] = {} /\ todo'["daemon"] = todo["daemon"]
  BY DEF GuiCrashes, ReadersInv, Reader
<1>8. \A q \in Reader : \A n \in todo'[q] : q \notin Through(n)
  BY <1>7 DEF ReadersInv, Reader
<1> QED
  BY <1>5, <1>6, <1>7, <1>8 DEF ReadersInv

-----------------------------------------------------------------------------
(* Every step keeps it                                                     *)

\* The actions of Next as one flat disjunction.
Step ==
  \/ UnitStarts \/ JobRuns \/ DaemonScans \/ DaemonCrashes
  \/ (\E p \in Reader, n \in InputNode : TryNode(p, n))
  \/ CheckDaemon \/ ActOnVerdict \/ RuntimeStarted \/ DialogOpens
  \/ RestartDaemon \/ RestartWaited \/ DialogDestroyed
  \/ GuiLaunches \/ TrayRestart \/ OpenDialog
  \/ RefreshDevices \/ LiveMonitorStarts \/ LiveMonitorStops
  \/ SaveRefused \/ DialogSaved \/ DialogRejected \/ GuiCrashes

LEMMA NextIsStep == Next => Step
<1>1. \A n \in InputNode : TryNode("daemon", n) => Step
  BY DEF Step, Reader
<1>2. \A p \in {"gui", "dialog"}, n \in InputNode : TryNode(p, n) => Step
  BY DEF Step, Reader
<1> QED
  BY <1>1, <1>2 DEF Next, Step, Systemd, DaemonSteps, GuiSteps, User

LEMMA InitInv == Init => Inv
<1> SUFFICES ASSUME Init
             PROVE  Inv
  OBVIOUS
<1>1. Chain(own)
  BY DEF Init, Chain, NoReader
<1>2. ReadersInv
  BY <1>1 DEF Init, ReadersInv
<1>3. ThreadTypes
  <2>1. 0 \in 0..MaxCrashes /\ 0 \in 0..MaxDialogs /\ 0 \in 0..MaxRestarts
    BY BoundAssumption
  <2>2. unit \in {"inactive", "activating", "active"}
    BY DEF Init
  <2> QED
    BY <2>1, <2>2 DEF Init, ThreadTypes, GuiStates
<1> QED
  BY <1>2, <1>3 DEF Init, Inv, DialogInv, StopInv, InDialog, Reader

\* Steps that leave the readers alone.
LEMMA ReadersUnchanged == ReadersInv /\ UNCHANGED readers => ReadersInv'
  BY DEF ReadersInv, readers

LEMMA SystemdSteps ==
  ASSUME Inv, UnitStarts \/ JobRuns \/ DaemonScans \/ DaemonCrashes
  PROVE  Inv'
<1> USE DEF Inv
<1>0. "daemon" \in Reader /\ "dialog" \in Reader /\ "daemon" # "dialog"
  BY DEF Reader
<1>1. CASE UnitStarts
  BY <1>1, ReadersUnchanged
  DEF UnitStarts, ThreadTypes, DialogInv, StopInv, InDialog, readers, thread, counts
<1>2. CASE JobRuns
  <2>1. /\ ReadersInv' /\ own'["daemon"] = {} /\ todo'["daemon"] = {}
        /\ own'["dialog"] \subseteq own["dialog"] /\ todo'["dialog"] = todo["dialog"]
    BY <1>0, <1>2, StopKeepsReaders DEF JobRuns, ReadersInv
  <2>2. ThreadTypes'
    BY <1>2 DEF JobRuns, ThreadTypes, thread, counts
  <2>3. DialogInv'
    BY <1>2, <2>1 DEF JobRuns, DialogInv, thread
  <2>4. StopInv'
    BY <1>2, <2>1 DEF JobRuns, StopInv, InDialog, thread
  <2> QED
    BY <2>1, <2>2, <2>3, <2>4
<1>3. CASE DaemonScans
  <2>1. LeftFor("daemon") \in SUBSET InputNode /\ \A n \in LeftFor("daemon") : "daemon" \notin Through(n)
    BY <1>0, FoundNodes
  <2>2. /\ ReadersInv'
        /\ own'["dialog"] \subseteq own["dialog"] /\ todo'["dialog"] = todo["dialog"]
    BY <1>0, <1>3, <2>1, StartKeepsReaders DEF DaemonScans, ReadersInv
  <2>3. ThreadTypes' /\ DialogInv' /\ StopInv'
    BY <1>3, <2>2
    DEF DaemonScans, ThreadTypes, DialogInv, StopInv, InDialog, systemd, thread, counts
  <2> QED
    BY <2>2, <2>3
<1>4. CASE DaemonCrashes
  <2>1. /\ ReadersInv' /\ own'["daemon"] = {} /\ todo'["daemon"] = {}
        /\ own'["dialog"] \subseteq own["dialog"] /\ todo'["dialog"] = todo["dialog"]
    BY <1>0, <1>4, StopKeepsReaders DEF DaemonCrashes, ReadersInv
  <2>2. ThreadTypes'
    BY <1>4, BoundAssumption DEF DaemonCrashes, ThreadTypes, thread
  <2>3. DialogInv' /\ StopInv'
    BY <1>4, <2>1 DEF DaemonCrashes, DialogInv, StopInv, InDialog, thread
  <2> QED
    BY <2>1, <2>2, <2>3
<1> QED
  BY <1>1, <1>2, <1>3, <1>4

LEMMA TrySteps ==
  ASSUME Inv, NEW p \in Reader, NEW n \in InputNode, TryNode(p, n)
  PROVE  Inv'
<1>1. /\ ReadersInv' /\ todo[p] # {}
      /\ \A q \in Reader : todo'[q] \subseteq todo[q] /\ (q # p => own'[q] = own[q])
  BY TryKeepsReaders DEF Inv
<1>2. UNCHANGED <<unit, job, gui, return, verdict, waited, crashes, dialogs, restarts>>
  BY DEF TryNode, systemd, thread, counts
<1>3. ThreadTypes'
  BY <1>2 DEF Inv, ThreadTypes
<1>4. DialogInv'
  BY <1>1, <1>2 DEF Inv, DialogInv, Reader
<1>5. StopInv'
  BY <1>1, <1>2 DEF Inv, StopInv, InDialog, Reader
<1> QED
  BY <1>1, <1>3, <1>4, <1>5 DEF Inv

\* The GUI thread, as far as it touches no reader.
LEMMA QuietGuiSteps ==
  ASSUME Inv,
         \/ CheckDaemon \/ RuntimeStarted \/ RestartDaemon \/ RestartWaited
         \/ GuiLaunches \/ TrayRestart \/ OpenDialog \/ DialogRejected
  PROVE  Inv'
<1>1. UNCHANGED readers
  BY DEF CheckDaemon, RuntimeStarted, RestartDaemon, RestartWaited, GuiLaunches, TrayRestart,
         OpenDialog, DialogRejected
<1>2. ReadersInv'
  BY <1>1, ReadersUnchanged DEF Inv
<1>3. ThreadTypes'
  <2> USE BoundAssumption DEF Inv, ThreadTypes, GuiStates, systemd, counts
  <2>1. CASE CheckDaemon
    BY <2>1, FlagAssumption DEF CheckDaemon
  <2>2. CASE TrayRestart
    BY <2>2 DEF TrayRestart
  <2>3. CASE OpenDialog
    BY <2>3 DEF OpenDialog
  <2>4. CASE RestartDaemon
    BY <2>4 DEF RestartDaemon, RestartJob
  <2>5. CASE RuntimeStarted \/ RestartWaited \/ GuiLaunches \/ DialogRejected
    BY <2>5 DEF RuntimeStarted, RestartWaited, GuiLaunches, DialogRejected
  <2> QED
    BY <2>1, <2>2, <2>3, <2>4, <2>5
<1>4. DialogInv'
  BY <1>1
  DEF Inv, ThreadTypes, GuiStates, DialogInv, readers, CheckDaemon, RuntimeStarted, RestartDaemon,
      RestartWaited, GuiLaunches, TrayRestart, OpenDialog, DialogRejected, DialogWaits
<1>5. StopInv'
  <2> USE <1>1 DEF Inv, ThreadTypes, StopInv, InDialog, readers, systemd
  <2>1. CASE OpenDialog
    BY <2>1 DEF OpenDialog
  <2>2. CASE CheckDaemon
    BY <2>2 DEF CheckDaemon
  <2>5. CASE RuntimeStarted
    <3>1. /\ gui = "starting" /\ gui' = return /\ return' = return /\ return # "stopping"
          /\ UNCHANGED <<unit, job, waited>>
      BY <2>5 DEF RuntimeStarted
    <3> QED
      BY <3>1
  <2>3. CASE RestartDaemon \/ RestartWaited \/ GuiLaunches
    BY <2>3 DEF RestartDaemon, RestartWaited, GuiLaunches
  <2>4. CASE TrayRestart \/ DialogRejected
    BY <2>4 DEF TrayRestart, DialogRejected
  <2> QED
    BY <2>1, <2>2, <2>3, <2>4, <2>5
<1> QED
  BY <1>2, <1>3, <1>4, <1>5 DEF Inv

\* The GUI's own controller, and the live monitor of the dialog.
LEMMA ReadingGuiSteps ==
  ASSUME Inv,
         \/ ActOnVerdict \/ DialogOpens \/ RefreshDevices \/ LiveMonitorStarts
         \/ LiveMonitorStops \/ SaveRefused \/ DialogSaved \/ DialogDestroyed
  PROVE  Inv'
<1>0. "daemon" \in Reader /\ "dialog" \in Reader /\ "gui" \in Reader
  BY DEF Reader
<1>1. ReadersInv /\ listed \in SUBSET InputNode /\ \A n \in listed : "dialog" \notin Through(n)
  BY DEF Inv, ReadersInv
<1>2. CASE ActOnVerdict
  <2>1. /\ ReadersInv'
        /\ \A q \in Reader : own'[q] \subseteq own[q] /\ (q # "gui" => todo'[q] = todo[q])
    <3>1. LeftFor("gui") \in SUBSET InputNode /\ \A n \in LeftFor("gui") : "gui" \notin Through(n)
      BY <1>0, <1>1, FoundNodes
    <3>2. CASE verdict
      BY <1>0, <1>1, <1>2, <3>2, StopKeepsReaders DEF ActOnVerdict
    <3>3. CASE ~verdict
      BY <1>0, <1>1, <1>2, <3>1, <3>3, StartKeepsReaders DEF ActOnVerdict
    <3> QED
      BY <3>2, <3>3
  <2>2. /\ gui = "act" /\ gui' \in {"starting", return} /\ return' = return
        /\ UNCHANGED <<unit, job, verdict, waited, crashes, dialogs, restarts>>
    BY <1>2 DEF ActOnVerdict, systemd, counts
  <2>3. ThreadTypes'
    BY <2>2 DEF Inv, ThreadTypes, GuiStates
  <2>4. DialogInv'
    BY <1>0, <2>1, <2>2 DEF Inv, DialogInv, ThreadTypes
  <2>5. StopInv'
    BY <1>0, <2>1, <2>2 DEF Inv, StopInv, InDialog, ThreadTypes
  <2> QED
    BY <2>1, <2>3, <2>4, <2>5 DEF Inv
<1>3. CASE DialogOpens
  <2>1. own["dialog"] = {}
    BY <1>3 DEF DialogOpens, Inv, DialogInv
  <2>2. LeftFor("gui") \in SUBSET InputNode /\ \A n \in LeftFor("gui") : "dialog" \notin Through(n)
    BY <1>0, <1>1, <2>1, FoundNodes
  <2>3. /\ ReadersInv'
        /\ \A q \in Reader : own'[q] \subseteq own[q] /\ (q # "gui" => todo'[q] = todo[q])
    BY <1>0, <1>1, <1>3, <2>2, StopKeepsReaders DEF DialogOpens
  <2>4. /\ gui = "stopping" /\ gui' = "dialog" /\ waited' = (job = "none" /\ unit # "active")
        /\ UNCHANGED <<unit, job, return, verdict, crashes, dialogs, restarts>>
    BY <1>3 DEF DialogOpens, StopFinished, systemd, counts
  <2>5. ThreadTypes' /\ DialogInv'
    BY <2>4 DEF Inv, ThreadTypes, GuiStates, DialogInv
  <2>6. StopInv'
    BY <1>0, <2>3, <2>4 DEF Inv, StopInv, InDialog
  <2> QED
    BY <2>3, <2>5, <2>6 DEF Inv
<1>4. CASE RefreshDevices \/ LiveMonitorStarts \/ LiveMonitorStops \/ SaveRefused \/ DialogSaved
  <2>1. /\ ReadersInv'
        /\ \A q \in Reader : own'[q] \subseteq own[q] /\ (q # "dialog" => todo'[q] = todo[q])
    <3>1. LeftFor("dialog") \in SUBSET InputNode /\ \A n \in LeftFor("dialog") : "dialog" \notin Through(n)
      BY <1>0, <1>1, FoundNodes
    <3>2. CASE RefreshDevices
      BY <1>0, <1>1, <3>1, <3>2, StopKeepsReaders DEF RefreshDevices
    <3>3. CASE LiveMonitorStops \/ DialogSaved
      BY <1>0, <1>1, <3>3, StopKeepsReaders DEF LiveMonitorStops, DialogSaved
    <3>4. CASE LiveMonitorStarts \/ SaveRefused
      BY <1>0, <1>1, <3>4, StartKeepsReaders DEF LiveMonitorStarts, SaveRefused
    <3> QED
      BY <1>4, <3>2, <3>3, <3>4
  <2>2. /\ gui = "dialog" /\ gui' \in {"dialog", "closing"}
        /\ UNCHANGED <<unit, job, return, verdict, waited, crashes, dialogs, restarts>>
    BY <1>4
    DEF RefreshDevices, LiveMonitorStarts, LiveMonitorStops, SaveRefused, DialogSaved, DialogWaits,
        systemd, thread, counts
  <2>3. ThreadTypes' /\ DialogInv'
    BY <2>2 DEF Inv, ThreadTypes, GuiStates, DialogInv
  <2>4. StopInv'
    BY <1>0, <2>1, <2>2 DEF Inv, StopInv, InDialog
  <2> QED
    BY <2>1, <2>3, <2>4 DEF Inv
<1>5. CASE DialogDestroyed
  <2>1. /\ ReadersInv' /\ own'["dialog"] = {} /\ todo'["dialog"] = {}
        /\ \A q \in Reader : own'[q] \subseteq own[q] /\ (q # "dialog" => todo'[q] = todo[q])
    BY <1>0, <1>1, <1>5, StopKeepsReaders DEF DialogDestroyed, DestructorStops
  <2>2. /\ gui = "closed" /\ gui' = "idle"
        /\ UNCHANGED <<unit, job, return, verdict, waited, crashes, dialogs, restarts>>
    BY <1>5 DEF DialogDestroyed, systemd, counts
  <2>3. ThreadTypes' /\ DialogInv'
    BY <2>1, <2>2 DEF Inv, ThreadTypes, GuiStates, DialogInv
  <2>4. StopInv'
    BY <1>0, <2>1, <2>2 DEF Inv, StopInv, InDialog
  <2> QED
    BY <2>1, <2>3, <2>4 DEF Inv
<1> QED
  BY <1>2, <1>3, <1>4, <1>5

LEMMA InvStep == Inv /\ [Next]_vars => Inv'
<1> SUFFICES ASSUME Inv, [Next]_vars
             PROVE  Inv'
  OBVIOUS
<1>1. CASE GuiCrashes
  <2>1. /\ ReadersInv' /\ own'["dialog"] = {} /\ todo'["dialog"] = {}
        /\ own'["daemon"] \subseteq own["daemon"] /\ todo'["daemon"] = todo["daemon"]
    BY <1>1, GuiCrashKeepsReaders DEF Inv
  <2>2. ThreadTypes'
    BY <1>1 DEF GuiCrashes, Inv, ThreadTypes, GuiStates, systemd, counts
  <2>3. DialogInv' /\ StopInv'
    BY <1>1, <2>1 DEF GuiCrashes, Inv, DialogInv, StopInv, InDialog, systemd
  <2> QED
    BY <2>1, <2>2, <2>3 DEF Inv
<1>2. CASE UNCHANGED vars
  BY <1>2, ReadersUnchanged
  DEF vars, Inv, ThreadTypes, DialogInv, StopInv, InDialog, readers, systemd, thread, counts
<1> QED
  BY <1>1, <1>2, NextIsStep, SystemdSteps, TrySteps, QuietGuiSteps, ReadingGuiSteps DEF Step

LEMMA InvAlways == Spec => []Inv
<1> QED
  BY InitInv, InvStep, PTL DEF Spec

-----------------------------------------------------------------------------
(* Theorems                                                                *)

\* The type invariant: readers only ever read nodes that did not go through
\* themselves, so no chain of copies grows beyond the readers there are.
THEOREM TypeCorrect == Spec => []TypeOK
<1>1. Inv => TypeOK
  BY DEF Inv, ReadersInv, ThreadTypes, TypeOK
<1> QED
  BY <1>1, InvAlways, PTL

\* However the daemon, the GUI and the dialog come and go, exactly one node is
\* left for the desktop.
THEOREM OnePointer == Spec => []PointerVisible
<1>1. ASSUME Inv
      PROVE  PointerVisible
  <2>1. PICK t : EndOfChain(t)
    BY <1>1, ChainEnds DEF Inv, ReadersInv
  <2>2. {n \in Nodes : Free(n)} = {t}
    BY <2>1 DEF EndOfChain
  <2> QED
    BY <2>2, FS_Singleton DEF PointerVisible
<1> QED
  BY <1>1, InvAlways, PTL

\* The daemon that was stopped for a dialog stays out of its way.
THEOREM DialogAlone == Spec => []DialogWithoutDaemon
<1>1. Inv => DialogWithoutDaemon
  BY DEF Inv, StopInv, InDialog, DialogWithoutDaemon
<1> QED
  BY <1>1, InvAlways, PTL
=============================================================================

-------------------------- MODULE SemaphoresProofs --------------------------
(***************************************************************************)
(* The semaphore list for any names, any memory and any order of calls.     *)
(* The tail never moves, so the list never gets longer than two nodes.      *)
(* From that follow its types, that no listed node is ever free, how a name *)
(* can be there twice, and who loses an open semaphore.                     *)
(***************************************************************************)
EXTENDS Semaphores, TLAPS

Second == node[head].nextNode

\* The inductive invariant: the shape of the list, and its nodes allocated.
Shape ==
    /\ tail = head
    /\ head # Null => head \in used
    /\ head # Null /\ Second # Null =>
          /\ Second \in used /\ Second # head
          /\ node[Second].nextNode = Null

Inv == TypeOK /\ Shape

\* The types of the pieces that a step reads.
LEMMA TypesOf ==
    ASSUME TypeOK, NEW n \in Nodes
    PROVE  /\ node[n] \in SemNodes
           /\ node[n].name \in Names /\ node[n].value \in 0..MaxValue
           /\ node[n].nextNode \in Pointers
BY DEF TypeOK, SemNodes

\* A list of this shape consists of the first node and its successor.
LEMMA ListedIsShort ==
    ASSUME Inv, head # Null
    PROVE  /\ head \in Nodes /\ head \in From(head) /\ head \in Listed
           /\ Second # Null => Second \in Nodes /\ Second \in Listed /\ Second \in From(Second)
           /\ Listed = From(head)
           /\ Listed \subseteq {head, Second} \ {Null}
<1>1. head \in Nodes
  BY DEF Inv, TypeOK, Pointers
<1>2. Second \in Pointers
  BY <1>1, TypesOf DEF Inv, Second
<1>3. head \in From(head)
  BY <1>1 DEF From
<1>4. ASSUME Second # Null
      PROVE  Second \in Nodes /\ Second \in From(head) /\ Second \in From(Second)
  <2>1. Second \in Nodes
    BY <1>2, <1>4 DEF Pointers
  <2>2. ASSUME NEW S \in SUBSET Nodes, head \in S, Closed(S)
        PROVE  Second \in S
    BY <1>4, <2>2 DEF Closed, Second
  <2> QED
    BY <2>1, <2>2 DEF From
<1>5. From(head) \subseteq {head, Second} \ {Null}
  <2> DEFINE S == {head, Second} \ {Null}
  <2>1. S \in SUBSET Nodes
    BY <1>1, <1>2 DEF Pointers
  <2>2. Closed(S)
    <3>1. ASSUME NEW n \in S
          PROVE  node[n].nextNode \in S \cup {Null}
      <4>1. CASE n = head
        BY <4>1 DEF Second
      <4>2. CASE n = Second /\ n # Null
        BY <4>2 DEF Inv, Shape
      <4> QED
        BY <4>1, <4>2, <3>1
    <3> HIDE DEF S
    <3> QED
      BY <3>1 DEF Closed
  <2>3. head \in S
    OBVIOUS
  <2> HIDE DEF S
  <2>4. From(head) \subseteq S
    BY <2>1, <2>2, <2>3 DEF From
  <2> QED
    BY <2>4 DEF S
<1> QED
  BY <1>1, <1>3, <1>4, <1>5 DEF Listed

\* semClose starts from the first node or from its successor, in front of the
\* node with the name or at the end.
LEMMA BeforeIsListed ==
    ASSUME Inv, head # Null, NEW s \in Names
    PROVE  /\ BeforeClosed(s) \in {head, Second} \ {Null}
           /\ \/ node[BeforeClosed(s)].nextNode = Null
              \/ node[node[BeforeClosed(s)].nextNode].name = s
<1> DEFINE S == {n \in Listed : \/ node[n].nextNode = Null
                                \/ node[node[n].nextNode].name = s}
<1>1. PICK n \in S : S \subseteq From(n)
  <2>1. CASE Second = Null
    <3>1. head \in S
      BY <2>1, ListedIsShort DEF Second
    <3>2. S \subseteq From(head)
      BY ListedIsShort
    <3> QED
      BY <3>1, <3>2
  <2>2. CASE Second # Null /\ head \in S
    <3>1. S \subseteq From(head)
      BY ListedIsShort
    <3> QED
      BY <2>2, <3>1
  <2>3. CASE Second # Null /\ head \notin S
    <3>1. Second \in S
      BY <2>3, ListedIsShort DEF Inv, Shape
    <3>2. S \subseteq {Second}
      BY <2>3, ListedIsShort
    <3>3. S \subseteq From(Second)
      BY <2>3, <3>2, ListedIsShort
    <3> QED
      BY <3>1, <3>3
  <2> QED
    BY <2>1, <2>2, <2>3
<1>2. BeforeClosed(s) = (CHOOSE m \in S : S \subseteq From(m))
  BY DEF BeforeClosed, First
<1>3. S \subseteq {head, Second} \ {Null}
  BY ListedIsShort
<1>4. \A m \in S : node[m].nextNode = Null \/ node[node[m].nextNode].name = s
  OBVIOUS
<1> HIDE DEF S
<1>5. (CHOOSE m \in S : S \subseteq From(m)) \in S
  BY <1>1
<1> QED
  BY <1>2, <1>3, <1>4, <1>5

-----------------------------------------------------------------------------
(* Every call keeps the invariant.                                          *)

LEMMA InitInv == Init => Inv
<1> SUFFICES ASSUME Init PROVE Inv
  OBVIOUS
<1>1. hung \in BOOLEAN
  BY DEF Init
<1>2. node \in [Nodes -> SemNodes]
  BY MaxValueAssumption DEF Init, SemNodes, Pointers
<1> QED
  BY <1>1, <1>2, NullAssumption DEF Init, Inv, Shape, TypeOK, Pointers

\* A node that semOpen has filled in.
LEMMA NewNodeType ==
    ASSUME NEW s \in Names, NEW v \in 0..MaxValue
    PROVE  [name |-> s, value |-> v, nextNode |-> Null] \in SemNodes
BY DEF SemNodes, Pointers

LEMMA CreateFirstInv ==
    ASSUME Inv, NEW s \in Names, NEW v \in 0..MaxValue, NEW new \in Nodes \ used,
           CreateFirst(s, v, new)
    PROVE  Inv'
<1>1. TypeOK'
  BY NewNodeType DEF CreateFirst, Inv, TypeOK, Pointers
<1>2. Shape'
  <2>1. node'[new].nextNode = Null
    BY DEF CreateFirst, Inv, TypeOK
  <2> QED
    BY <2>1 DEF CreateFirst, Shape, Second
<1> QED
  BY <1>1, <1>2 DEF Inv

LEMMA CreateLaterInv ==
    ASSUME Inv, NEW s \in Names, NEW v \in 0..MaxValue, NEW new \in Nodes \ used,
           CreateLater(s, v, new)
    PROVE  Inv'
<1>1. head \in Nodes /\ new # head /\ tail = head /\ head \in used
  BY DEF CreateLater, Inv, TypeOK, Shape, Pointers
<1>2. /\ node'[new] = [name |-> s, value |-> v, nextNode |-> Null]
      /\ node'[head] = [node[head] EXCEPT !.nextNode = new]
      /\ \A n \in Nodes \ {new, head} : node'[n] = node[n]
  BY <1>1 DEF CreateLater
<1>3. [node[head] EXCEPT !.nextNode = new] \in SemNodes
  BY <1>1, TypesOf DEF Inv, SemNodes, Pointers
<1>4. TypeOK'
  <2>1. node' \in [Nodes -> SemNodes]
    BY <1>2, <1>3, NewNodeType, TypesOf DEF CreateLater, Inv
  <2> QED
    BY <2>1 DEF CreateLater, Inv, TypeOK
<1>5. Shape'
  <2>1. node'[head].nextNode = new
    BY <1>1, <1>2, TypesOf DEF Inv, SemNodes
  <2>2. node'[new].nextNode = Null
    BY <1>2
  <2> QED
    BY <1>1, <2>1, <2>2 DEF CreateLater, Shape, Second
<1> QED
  BY <1>4, <1>5 DEF Inv

\* A step that changes nothing but the value of one node.
LEMMA ValueChangeInv ==
    ASSUME Inv, NEW sem \in Nodes, NEW v \in 0..MaxValue,
           node' = [node EXCEPT ![sem].value = v],
           UNCHANGED <<head, tail, used, opened, hung>>
    PROVE  Inv'
<1>1. node[sem] \in SemNodes
  BY TypesOf DEF Inv
<1>2. /\ [node[sem] EXCEPT !.value = v] \in SemNodes
      /\ [node[sem] EXCEPT !.value = v].nextNode = node[sem].nextNode
  BY <1>1 DEF SemNodes
<1>3. \A n \in Nodes : node'[n] = IF n = sem THEN [node[n] EXCEPT !.value = v] ELSE node[n]
  BY DEF Inv, TypeOK
<1>4. \A n \in Nodes : node'[n].nextNode = node[n].nextNode
  BY <1>2, <1>3
<1>5. TypeOK'
  <2>1. node' \in [Nodes -> SemNodes]
    BY <1>2, <1>3, TypesOf DEF Inv, TypeOK
  <2> QED
    BY <2>1 DEF Inv, TypeOK
<1>6. Shape'
  <2>1. CASE head = Null
    BY <2>1 DEF Inv, Shape
  <2>2. CASE head # Null
    <3>1. head \in Nodes /\ (Second # Null => Second \in Nodes)
      BY <2>2, ListedIsShort
    <3>2. Second' = Second
      BY <3>1, <1>4 DEF Second
    <3>3. Second # Null => node'[Second].nextNode = Null
      BY <3>1, <1>4, <2>2 DEF Inv, Shape
    <3> QED
      BY <3>2, <3>3 DEF Inv, Shape
  <2> QED
    BY <2>1, <2>2
<1> QED
  BY <1>5, <1>6 DEF Inv

LEMMA SameInv ==
    Inv /\ UNCHANGED <<head, tail, node, used, hung>> /\ opened' \in SUBSET Names => Inv'
BY DEF Inv, TypeOK, Shape, Second

LEMMA SemWaitInv ==
    ASSUME Inv, NEW s \in Names, semWait(s)
    PROVE  Inv'
<1> DEFINE sem == getSemById(s)
<1>0. /\ UNCHANGED <<head, tail, used, opened, hung>>
      /\ node' = IF sem = Null \/ node[sem].value = 0 THEN node
                 ELSE [node EXCEPT ![sem].value = @ - 1]
  BY DEF semWait
<1> HIDE DEF sem
<1>1. CASE node' = node
  BY <1>0, <1>1, SameInv DEF Inv, TypeOK
<1>2. CASE node' # node
  <2>1. /\ node' = [node EXCEPT ![sem].value = @ - 1]
        /\ node[sem].value # 0 /\ sem \in Nodes
    BY <1>0, <1>2 DEF Inv, TypeOK
  <2>2. node[sem].value - 1 \in 0..MaxValue
    BY <2>1, TypesOf, MaxValueAssumption DEF Inv
  <2> QED
    BY <1>0, <2>1, <2>2, ValueChangeInv
<1> QED
  BY <1>1, <1>2

LEMMA SemPostInv ==
    ASSUME Inv, NEW s \in Names, semPost(s)
    PROVE  Inv'
<1> DEFINE sem == getSemById(s)
<1>0. /\ UNCHANGED <<head, tail, used, opened, hung>>
      /\ sem # Null => node[sem].value < MaxValue
      /\ node' = IF sem = Null THEN node ELSE [node EXCEPT ![sem].value = @ + 1]
  BY DEF semPost
<1> HIDE DEF sem
<1>1. CASE node' = node
  BY <1>0, <1>1, SameInv DEF Inv, TypeOK
<1>2. CASE node' # node
  <2>1. /\ node' = [node EXCEPT ![sem].value = @ + 1]
        /\ node[sem].value < MaxValue /\ sem \in Nodes
    BY <1>0, <1>2 DEF Inv, TypeOK
  <2>2. node[sem].value + 1 \in 0..MaxValue
    BY <2>1, TypesOf, MaxValueAssumption DEF Inv
  <2> QED
    BY <1>0, <2>1, <2>2, ValueChangeInv
<1> QED
  BY <1>1, <1>2

LEMMA SemCloseInv ==
    ASSUME Inv, NEW s \in Names, semClose(s)
    PROVE  Inv'
<1> DEFINE before == BeforeClosed(s)
           toClose == node[before].nextNode
<1>0. /\ head # Null /\ UNCHANGED <<head, tail>> /\ opened' = opened \ {s}
      /\ IF toClose = Null THEN UNCHANGED <<node, used, hung>>
         ELSE /\ node' = [node EXCEPT ![before].nextNode = node[toClose].nextNode]
              /\ used' = used \ {node[toClose].nextNode}
      /\ hung' = hung \/ hung' = TRUE
  BY DEF semClose
<1>1. before \in {head, Second} \ {Null}
  BY <1>0, BeforeIsListed
<1> HIDE DEF before
<1>2. CASE toClose = Null
  BY <1>0, <1>2, SameInv DEF Inv, TypeOK
<1>3. CASE toClose # Null
  <2>1. before = head /\ toClose = Second
    BY <1>0, <1>1, <1>3 DEF Inv, Shape, Second
  <2>2. node[toClose].nextNode = Null /\ Second # Null
    BY <1>0, <1>3, <2>1 DEF Inv, Shape
  <2>3. /\ node' = [node EXCEPT ![head].nextNode = Null]
        /\ used' = used \ {Null}
    BY <1>0, <1>3, <2>1, <2>2
  <2>4. used' = used
    BY <2>3, NullAssumption DEF Inv, TypeOK
  <2>5. head \in Nodes
    BY <1>0, ListedIsShort
  <2>6. node'[head] = [node[head] EXCEPT !.nextNode = Null]
    BY <2>3, <2>5 DEF Inv, TypeOK
  <2>7. /\ [node[head] EXCEPT !.nextNode = Null] \in SemNodes
        /\ [node[head] EXCEPT !.nextNode = Null].nextNode = Null
    BY <2>5, TypesOf DEF Inv, SemNodes, Pointers
  <2>8. TypeOK'
    <3>1. node' \in [Nodes -> SemNodes]
      BY <2>3, <2>7 DEF Inv, TypeOK
    <3> QED
      BY <1>0, <2>4, <3>1 DEF Inv, TypeOK
  <2>9. Shape'
    BY <1>0, <2>4, <2>6, <2>7 DEF Inv, Shape, Second
  <2> QED
    BY <2>8, <2>9 DEF Inv
<1> QED
  BY <1>2, <1>3

LEMMA NextInv == Inv /\ [Next]_vars => Inv'
<1> SUFFICES ASSUME Inv, [Next]_vars PROVE Inv'
  OBVIOUS
<1>1. ASSUME NEW s \in Names, NEW v \in 0..MaxValue, semOpen(s, v)
      PROVE  Inv'
  <2>1. CASE AlreadyOpen(s)
    BY <2>1, SameInv DEF AlreadyOpen, Inv, TypeOK
  <2>2. CASE \E new \in Nodes \ used : CreateFirst(s, v, new) \/ CreateLater(s, v, new)
    BY <2>2, CreateFirstInv, CreateLaterInv
  <2> QED
    BY <1>1, <2>1, <2>2 DEF semOpen
<1>2. CASE UNCHANGED vars
  BY <1>2, SameInv DEF vars, Inv, TypeOK
<1> QED
  BY <1>1, <1>2, SemWaitInv, SemPostInv, SemCloseInv DEF Next

\* The inductive invariant: the shape of the list is kept by all four calls.
THEOREM ListInvariant == Spec => []Inv
BY InitInv, NextInv, PTL DEF Spec

\* The variables keep their types; in particular no value goes below zero.
THEOREM SemaphoreTypes == Spec => []TypeOK
<1>1. Inv => TypeOK
  BY DEF Inv
<1> QED
  BY <1>1, ListInvariant, PTL

\* No node of the list is ever free.
THEOREM ListIsAllocated == Spec => []ListedAreAllocated
<1>1. Inv => ListedAreAllocated
  <2>1. CASE head = Null
    BY <2>1 DEF ListedAreAllocated, Listed
  <2>2. ASSUME Inv, head # Null PROVE Listed \subseteq used
    BY <2>2, ListedIsShort DEF Inv, Shape
  <2> QED
    BY <2>1, <2>2 DEF ListedAreAllocated
<1> QED
  BY <1>1, ListInvariant, PTL

-----------------------------------------------------------------------------
(* How a name comes into the list twice.                                    *)

BothHave(s) == head # Null /\ Second # Null /\ node[head].name = s /\ node[Second].name = s

TwiceShort == Inv => \A s \in Names : Twice(s) <=> BothHave(s)

LEMMA TwiceIsShort == TwiceShort
<1> SUFFICES ASSUME Inv, NEW s \in Names PROVE Twice(s) <=> BothHave(s)
  BY DEF TwiceShort
<1>1. CASE head = Null
  BY <1>1 DEF Twice, BothHave, Listed
<1>2. CASE head # Null
  <2>1. Twice(s) => BothHave(s)
    BY <1>2, ListedIsShort DEF Twice, BothHave
  <2>2. BothHave(s) => Twice(s)
    BY <1>2, ListedIsShort DEF Twice, BothHave, Inv, Shape
  <2> QED
    BY <2>1, <2>2
<1> QED
  BY <1>1, <1>2

LEMMA TwiceIsShortNext == TwiceShort'
BY TwiceIsShort, PTL

\* Calls that change neither the names nor the links.
LEMMA SameNames ==
    ASSUME Inv, Inv', head' = head, NEW s \in Names, Twice(s)',
           \A n \in Nodes : node'[n].name = node[n].name /\ node'[n].nextNode = node[n].nextNode
    PROVE  Twice(s)
<1>1. BothHave(s)'
  BY TwiceIsShortNext DEF TwiceShort
<1>2. head # Null
  BY <1>1 DEF BothHave
<1>3. head \in Nodes /\ (Second # Null => Second \in Nodes)
  BY <1>2, ListedIsShort
<1>4. Second' = Second
  BY <1>3 DEF Second
<1>5. BothHave(s)
  BY <1>1, <1>3, <1>4 DEF BothHave
<1> QED
  BY <1>5, TwiceIsShort DEF TwiceShort

\* Whatever is opened and closed: semOpen lets a name in a second time only when it
\* is that of the last semaphore, which it does not compare.
THEOREM TwiceIsFromLast == Spec => TwiceFromLast
<1> DEFINE LastHas(s) == \E n \in Listed : node[n].nextNode = Null /\ node[n].name = s
           Compared == \A s \in Names : Twice(s)' /\ ~Twice(s) => LastHas(s)
<1>1. Inv /\ Inv' /\ [Next]_vars => [Compared]_vars
  <2> SUFFICES ASSUME Inv, Inv', Next, NEW s \in Names, Twice(s)', ~Twice(s)
               PROVE  LastHas(s)
    OBVIOUS
  <2>1. BothHave(s)' /\ ~BothHave(s)
    BY TwiceIsShort, TwiceIsShortNext DEF TwiceShort
  <2>2. ASSUME NEW t \in Names, NEW v \in 0..MaxValue, semOpen(t, v)
        PROVE  LastHas(s)
    <3>1. ~AlreadyOpen(t)
      <4>1. SUFFICES ASSUME AlreadyOpen(t) PROVE FALSE
        OBVIOUS
      <4>2. head' = head /\ node' = node
        BY <4>1 DEF AlreadyOpen
      <4> QED
        BY <2>1, <4>2 DEF BothHave, Second
    <3>2. PICK new \in Nodes \ used : CreateFirst(t, v, new) \/ CreateLater(t, v, new)
      BY <2>2, <3>1 DEF semOpen
    <3>3. ~CreateFirst(t, v, new)
      <4>1. SUFFICES ASSUME CreateFirst(t, v, new) PROVE FALSE
        OBVIOUS
      <4>2. head' = new /\ node'[new].nextNode = Null
        BY <4>1 DEF CreateFirst, Inv, TypeOK
      <4> QED
        BY <2>1, <4>2 DEF BothHave, Second
    <3>4. /\ head # Null /\ head' = head /\ tail = head /\ ~FoundByOpen(t)
          /\ head \in Nodes /\ new # head
          /\ node'[new] = [name |-> t, value |-> v, nextNode |-> Null]
          /\ node'[head] = [node[head] EXCEPT !.nextNode = new]
      BY <3>2, <3>3, ListedIsShort DEF CreateLater, Inv, Shape
    <3>5. Second' = new /\ node'[head].name = node[head].name
      BY <3>4, TypesOf DEF Inv, SemNodes, Second
    <3>6. t = s /\ node[head].name = s
      BY <2>1, <3>4, <3>5 DEF BothHave
    <3>7. node[head].nextNode = Null
      BY <3>4, <3>6, ListedIsShort DEF FoundByOpen
    <3> QED
      BY <3>4, <3>6, <3>7, ListedIsShort
  <2>3. ASSUME NEW t \in Names, semWait(t) \/ semPost(t)
        PROVE  FALSE
    <3>1. head' = head
      BY <2>3 DEF semWait, semPost
    <3>2. PICK sem, v : node' = node \/ node' = [node EXCEPT ![sem].value = v]
      BY <2>3 DEF semWait, semPost
    <3>3. ASSUME NEW n \in Nodes
          PROVE  node'[n].name = node[n].name /\ node'[n].nextNode = node[n].nextNode
      <4>1. node'[n] = node[n] \/ node'[n] = [node[n] EXCEPT !.value = v]
        BY <3>2 DEF Inv, TypeOK
      <4> QED
        BY <4>1, TypesOf DEF Inv, SemNodes
    <3> QED
      BY <3>1, <3>3, SameNames
  <2>4. ASSUME NEW t \in Names, semClose(t)
        PROVE  FALSE
    <3> DEFINE before == BeforeClosed(t)
               toClose == node[before].nextNode
    <3>1. /\ head # Null /\ head' = head
          /\ IF toClose = Null THEN node' = node
             ELSE node' = [node EXCEPT ![before].nextNode = node[toClose].nextNode]
      BY <2>4 DEF semClose
    <3>2. before \in {head, Second} \ {Null}
      BY <3>1, BeforeIsListed
    <3> HIDE DEF before
    <3>3. CASE toClose = Null
      BY <2>1, <3>1, <3>3 DEF BothHave, Second
    <3>4. CASE toClose # Null
      <4>1. before = head /\ toClose = Second /\ node[toClose].nextNode = Null
        BY <3>1, <3>2, <3>4 DEF Inv, Shape, Second
      <4>2. node'[head] = [node[head] EXCEPT !.nextNode = Null] /\ head \in Nodes
        BY <3>1, <3>4, <4>1, ListedIsShort DEF Inv, TypeOK
      <4>3. Second' = Null
        BY <3>1, <4>2, TypesOf DEF Inv, SemNodes, Second
      <4> QED
        BY <2>1, <4>3 DEF BothHave
    <3> QED
      BY <3>3, <3>4
  <2> QED
    BY <2>2, <2>3, <2>4 DEF Next
<1> QED
  BY <1>1, ListInvariant, PTL DEF Spec, TwiceFromLast

-----------------------------------------------------------------------------
(* Who loses an open semaphore.                                             *)

HasName(s) == \/ node[head].name = s
              \/ Second # Null /\ node[Second].name = s

\* A name is in the list when the first node or its successor has it.
NamesShort ==
    Inv => \A s \in Names :
        (\E n \in Listed : node[n].name = s) <=> head # Null /\ HasName(s)

LEMMA NamedShort == NamesShort
<1> SUFFICES ASSUME Inv, NEW s \in Names
             PROVE  (\E n \in Listed : node[n].name = s) <=> head # Null /\ HasName(s)
  BY DEF NamesShort
<1>1. CASE head = Null
  BY <1>1 DEF Listed
<1>2. CASE head # Null
  BY <1>2, ListedIsShort DEF HasName
<1> QED
  BY <1>1, <1>2

LEMMA NamedShortNext == NamesShort'
BY NamedShort, PTL

\* An open semaphore leaves the list only when semOpen puts another one there.
THEOREM OpenIsCutOff == Spec => OnlyOpenCutsOff
<1> DEFINE Kept(s) == \/ (\E n \in Listed : node[n].name = s)'
                      \/ \E n \in used' \ used : node'[n].name # s
           Keeps   == \A s \in opened \cap opened' :
                          (\E n \in Listed : node[n].name = s) => Kept(s)
<1>1. Inv /\ Inv' /\ [Next]_vars => [Keeps]_vars
  <2> SUFFICES ASSUME Inv, Inv', Next, NEW s \in opened \cap opened',
                      \E n \in Listed : node[n].name = s
               PROVE  Kept(s)
    OBVIOUS
  <2>0. s \in Names /\ head # Null /\ HasName(s)
    BY NamedShort DEF NamesShort, Inv, TypeOK
  <2>1. head \in Nodes /\ (Second # Null => Second \in Nodes)
    BY <2>0, ListedIsShort
  <2>2. ASSUME head' = head, HasName(s)'
        PROVE  Kept(s)
    BY <2>0, <2>2, NamedShortNext DEF NamesShort
  <2> HIDE DEF Kept
  <2>3. ASSUME head' = head, \A n \in Nodes : /\ node'[n].name = node[n].name
                                              /\ node'[n].nextNode = node[n].nextNode
        PROVE  Kept(s)
    BY <2>0, <2>1, <2>2, <2>3 DEF HasName, Second
  <2>4. ASSUME NEW t \in Names, NEW v \in 0..MaxValue, semOpen(t, v)
        PROVE  Kept(s)
    <3>1. CASE AlreadyOpen(t)
      BY <2>3, <3>1 DEF AlreadyOpen
    <3>2. ASSUME NEW new \in Nodes \ used, CreateLater(t, v, new)
          PROVE  Kept(s)
      <4>1. /\ new \in used' \ used /\ head' = head
            /\ tail = head /\ new # head
            /\ node'[new] = [name |-> t, value |-> v, nextNode |-> Null]
        BY <2>0, <2>1, <3>2 DEF CreateLater, Inv, Shape
      <4>2. CASE t # s
        BY <4>1, <4>2 DEF Kept
      <4>3. CASE t = s
        <5>1. node'[head] = [node[head] EXCEPT !.nextNode = new]
          BY <2>1, <3>2, <4>1 DEF CreateLater
        <5>2. node'[head].nextNode = new
          BY <2>1, <5>1, TypesOf DEF Inv, SemNodes
        <5>3. Second' = new /\ new # Null
          BY <4>1, <5>2, NullAssumption DEF Second
        <5> QED
          BY <2>2, <4>1, <4>3, <5>3 DEF HasName
      <4> QED
        BY <4>2, <4>3
    <3> QED
      BY <2>0, <2>4, <3>1, <3>2 DEF semOpen, CreateFirst
  <2>5. ASSUME NEW t \in Names, semWait(t) \/ semPost(t)
        PROVE  Kept(s)
    <3>1. head' = head
      BY <2>5 DEF semWait, semPost
    <3>2. PICK sem, v : node' = node \/ node' = [node EXCEPT ![sem].value = v]
      BY <2>5 DEF semWait, semPost
    <3>3. ASSUME NEW n \in Nodes
          PROVE  node'[n].name = node[n].name /\ node'[n].nextNode = node[n].nextNode
      <4>1. node'[n] = node[n] \/ node'[n] = [node[n] EXCEPT !.value = v]
        BY <3>2 DEF Inv, TypeOK
      <4> QED
        BY <4>1, TypesOf DEF Inv, SemNodes
    <3> QED
      BY <2>3, <3>1, <3>3
  <2>6. ASSUME NEW t \in Names, semClose(t)
        PROVE  Kept(s)
    <3> DEFINE before == BeforeClosed(t)
               toClose == node[before].nextNode
    <3>0. /\ head' = head /\ opened' = opened \ {t}
          /\ IF toClose = Null THEN node' = node
             ELSE node' = [node EXCEPT ![before].nextNode = node[toClose].nextNode]
      BY <2>6 DEF semClose
    <3>1. /\ before \in {head, Second} \ {Null}
          /\ toClose = Null \/ node[toClose].name = t
      BY <2>0, BeforeIsListed
    <3> HIDE DEF before
    <3>2. CASE toClose = Null
      BY <2>3, <3>0, <3>2
    <3>3. CASE toClose # Null
      <4>1. before = head /\ toClose = Second
        BY <2>0, <3>1, <3>3 DEF Inv, Shape, Second
      <4>2. node[head].name = s
        BY <2>0, <3>0, <3>1, <3>3, <4>1 DEF HasName
      <4>3. node'[head] = [node[head] EXCEPT !.nextNode = node[toClose].nextNode]
        BY <2>1, <3>0, <3>3, <4>1 DEF Inv, TypeOK
      <4>4. node'[head].name = s
        BY <2>1, <4>2, <4>3, TypesOf DEF Inv, SemNodes
      <4> QED
        BY <2>2, <3>0, <4>4 DEF HasName
    <3> QED
      BY <3>2, <3>3
  <2> QED
    BY <2>4, <2>5, <2>6 DEF Next
<1> QED
  BY <1>1, ListInvariant, PTL DEF Spec, OnlyOpenCutsOff

=============================================================================

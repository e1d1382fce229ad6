------------------------- MODULE CommandLineProofs -------------------------
(* That no shift stays behind, and who runs in the foreground, for every set   *)
(* of keys, lines, commands and children.                                      *)
EXTENDS CommandLine, TLAPS

\* shiftKey is the parity of the shifts that are down, until one repeats.
ShiftInv ==
    /\ shiftKey \in BOOLEAN
    /\ ~repeated => (shiftKey <=> ~("L_SHIFT" \in held <=> "R_SHIFT" \in held))

\* The steps that leave the modifiers alone.
ModifiersKept == UNCHANGED <<shiftKey, held, repeated>>

LEMMA InitShift == Init => ShiftInv
  BY DEF Init, keyboardInit, ShiftInv

\* Every key, pressed, released or held.
LEMMA KeyboardShift == ShiftInv /\ keyboardNext => ShiftInv'
<1> SUFFICES ASSUME ShiftInv, keyboardNext PROVE ShiftInv'
  OBVIOUS
<1>1. ASSUME NEW key \in Modifiers, ModifierDown(key) PROVE ShiftInv'
  <2>1. CASE key \in Shifts
    BY <1>1, <2>1 DEF ShiftInv, ModifierDown, Toggle, Shifts
  <2>2. CASE key \notin Shifts
    BY <1>1, <2>2 DEF ShiftInv, ModifierDown, Toggle, Shifts, Modifiers
  <2> QED BY <2>1, <2>2
<1>2. ASSUME NEW key \in Modifiers, ModifierUp(key) PROVE ShiftInv'
  <2>1. CASE key \in Shifts
    BY <1>2, <2>1 DEF ShiftInv, ModifierUp, Toggle, Shifts
  <2>2. CASE key \notin Shifts
    BY <1>2, <2>2 DEF ShiftInv, ModifierUp, Toggle, Shifts, Modifiers
  <2> QED BY <2>1, <2>2
<1>3. ASSUME NEW key \in Modifiers, ModifierAgain(key) PROVE ShiftInv'
  BY <1>3 DEF ShiftInv, ModifierAgain, Toggle
<1>4. CASE capsLock
  BY <1>4 DEF ShiftInv, capsLock
<1>5. ASSUME NEW key \in Keys, addKey(key) PROVE ShiftInv'
  BY <1>5 DEF ShiftInv, addKey
<1> QED
  BY <1>1, <1>2, <1>3, <1>4, <1>5 DEF keyboardNext

\* The shell and its children do not touch the modifiers.
LEMMA ShellKeepsModifiers ==
  ASSUME Next, ~keyboardNext PROVE ModifiersKept
<1>1. CASE ReadKey
  BY <1>1 DEF ReadKey, ModifiersKept
<1>2. CASE ForkSingle \/ ForkFirst \/ ForkSecond
  BY <1>2 DEF ForkSingle, ForkFirst, ForkSecond, ModifiersKept, keyboardVars
<1>3. CASE Resume \/ WaitReturns \/ Prompt
  BY <1>3 DEF Resume, WaitReturns, Prompt, ModifiersKept, keyboardVars
<1>4. ASSUME NEW c \in Children, ChildArguments(c) \/ ChildCopy(c) \/ ChildExecve(c) \/ ChildEnds(c)
      PROVE  ModifiersKept
  BY <1>4 DEF ChildArguments, ChildCopy, ChildExecve, ChildEnds, ModifiersKept, keyboardVars
<1> QED
  BY <1>1, <1>2, <1>3, <1>4 DEF Next

\* A shift that is not down does not shift, whatever the keys, the shell and its
\* children do in between, as long as none repeats its make code.
THEOREM ModifiersReleasedHolds == Spec => []ModifiersReleased
<1>1. ShiftInv /\ [Next]_vars => ShiftInv'
  <2> SUFFICES ASSUME ShiftInv, [Next]_vars PROVE ShiftInv'
    OBVIOUS
  <2>1. CASE keyboardNext
    BY <2>1, KeyboardShift
  <2>2. CASE Next /\ ~keyboardNext
    BY <2>2, ShellKeepsModifiers DEF ShiftInv, ModifiersKept
  <2>3. CASE UNCHANGED vars
    BY <2>3 DEF ShiftInv, vars, keyboardVars
  <2> QED BY <2>1, <2>2, <2>3
<1>2. ShiftInv => ModifiersReleased
  BY DEF ShiftInv, ModifiersReleased, Shifts
<1> QED
  BY <1>1, <1>2, InitShift, PTL DEF Spec

-----------------------------------------------------------------------------
(* Who runs beside the shell.                                               *)

ChildTypes ==
    \A c \in Children :
        \/ child[c] = NoChild
        \/ /\ child[c].pc \in {"arguments", "copy", "copied", "running"}
           /\ {"pc", "piped", "asked"} \subseteq DOMAIN child[c]
           /\ child[c].piped \in BOOLEAN /\ child[c].asked \in BOOLEAN
           /\ child[c].pc = "running" => child[c].background \in BOOLEAN

\* A typed & and isBackground are one thing: both end at the prompt.
ShellTypes ==
    /\ isBackground \in BOOLEAN /\ ampersand = isBackground
    /\ child = [c \in Children |-> child[c]]
    /\ "at" \in DOMAIN pc
    /\ ChildTypes

\* Where the shell has started nothing for its line.
Asking == {"read", "single", "first", "prompt"}

\* The shell need not wait for `c`.
Unawaited(c) == child[c].background \/ (child[c].piped /\ child[c].asked)

\* As long as the shell has not overtaken a child, those that have not reached
\* their program belong to this line; so does a program that is to be waited for,
\* and there is neither when the shell goes back to the prompt.
ShellInv ==
    /\ ShellTypes
    /\ ~overtaken =>
        /\ \A c \in Starting : child[c].asked = isBackground
        /\ \A c \in Running : ~child[c].piped => child[c].background = child[c].asked
        /\ \A c \in Running : Unawaited(c) \/ child[c].asked = isBackground
        /\ pc.at \in Asking => \A c \in Alive : c \in Running /\ Unawaited(c)

\* What ShellInv says of one child, when nobody was overtaken.
ChildInv(c) ==
    /\ c \in Starting => child[c].asked = isBackground
    /\ c \in Running => /\ ~child[c].piped => child[c].background = child[c].asked
                        /\ Unawaited(c) \/ child[c].asked = isBackground
    /\ pc.at \in Asking /\ c \in Alive => c \in Running /\ Unawaited(c)

LEMMA ByChild ==
    ShellInv <=> ShellTypes /\ (~overtaken => \A c \in Children : ChildInv(c))
BY DEF ShellInv, ChildInv, Starting, Running, Alive

LEMMA InitShell == Init => ShellInv
BY DEF Init, ShellInv, ShellTypes, ChildTypes, Starting, Running, Alive

\* The keyboard, and everything that leaves the children and the shell alone.
LEMMA SameShell ==
    ASSUME ShellInv, UNCHANGED <<isBackground, ampersand, child, pc, overtaken>>
    PROVE  ShellInv'
BY DEF ShellInv, ShellTypes, ChildTypes, Starting, Running, Alive, Unawaited

LEMMA ReadKeyShell ==
    ASSUME ShellInv, ReadKey
    PROVE  ShellInv'
<1>1. /\ UNCHANGED <<child, overtaken>> /\ pc.at = "read"
      /\ isBackground' \in BOOLEAN /\ ampersand' = isBackground'
      /\ pc' = pc \/ pc' = Parsed(lastCommand')
  <2> DEFINE c == Head(stdin)
  <2>1. UNCHANGED <<child, overtaken>> /\ pc.at = "read"
    BY DEF ReadKey
  <2>2. \/ UNCHANGED <<isBackground, ampersand, pc>>
        \/ NewLine \/ Backspace \/ Ampersand \/ Put(" ", 3) \/ Put(c, 1)
    BY DEF ReadKey
  <2> QED
    BY <2>1, <2>2 DEF NewLine, Backspace, Ampersand, Put, ShellInv, ShellTypes
<1>2. "at" \in DOMAIN pc' /\ pc'.at \in Asking
  BY <1>1 DEF Parsed, Asking, ShellInv, ShellTypes
<1>3. ~overtaken => \A c \in Alive : c \in Running /\ Unawaited(c)
  BY <1>1 DEF ShellInv, Asking
<1> QED
  BY <1>1, <1>2, <1>3 DEF ShellInv, ShellTypes, ChildTypes, Starting, Running, Alive, Unawaited

\* A child is forked for the line.
LEMMA ForkShell ==
    ASSUME ShellInv, NEW record, NEW then, Fork(record, then),
           record.pc \in {"arguments", "copy"}, {"pc", "piped", "asked"} \subseteq DOMAIN record,
           record.piped \in BOOLEAN, record.asked = ampersand,
           "at" \in DOMAIN then, then.at \notin Asking,
           UNCHANGED <<isBackground, ampersand, overtaken>>
    PROVE  ShellInv'
<1>1. PICK f \in Children : child' = [child EXCEPT ![f] = record]
  BY DEF Fork
<1>2. \A c \in Children : child'[c] = IF c = f THEN record ELSE child[c]
  BY <1>1 DEF ShellInv, ShellTypes
<1>3. pc' = then
  BY DEF Fork
<1>4. ShellTypes'
  BY <1>1, <1>2, <1>3 DEF ShellInv, ShellTypes, ChildTypes
<1>5. ASSUME ~overtaken, NEW c \in Children
      PROVE  ChildInv(c)'
  <2>1. ChildInv(c)
    BY <1>5, ByChild
  <2>2. CASE c = f
    BY <1>2, <1>3, <2>2 DEF ChildInv, Starting, Running, Alive, ShellInv, ShellTypes, NoChild
  <2>3. CASE c # f
    BY <1>2, <1>3, <2>1, <2>3 DEF ChildInv, Starting, Running, Alive, Unawaited
  <2> QED
    BY <2>2, <2>3
<1> QED
  BY <1>4, <1>5 DEF ShellInv, ChildInv, Starting, Running, Alive

LEMMA ForksShell ==
    ASSUME ShellInv, ForkSingle \/ ForkFirst \/ ForkSecond
    PROVE  ShellInv'
<1>1. CASE ForkSingle
  <2> DEFINE record == [pc |-> "arguments", idx |-> pc.idx, piped |-> FALSE,
                        meant |-> Arguments(typed), asked |-> ampersand]
  <2>1. Fork(record, [at |-> "yield"]) /\ UNCHANGED <<isBackground, ampersand, overtaken>>
    BY <1>1 DEF ForkSingle
  <2>2. /\ record.pc \in {"arguments", "copy"} /\ {"pc", "piped", "asked"} \subseteq DOMAIN record
        /\ record.piped \in BOOLEAN /\ record.asked = ampersand
    OBVIOUS
  <2>3. "at" \in DOMAIN [at |-> "yield"] /\ [at |-> "yield"].at \notin Asking
    BY DEF Asking
  <2> HIDE DEF record
  <2> QED
    BY <2>1, <2>2, <2>3, ForkShell
<1>2. CASE ForkFirst
  <2> DEFINE record == [pc |-> "copy", idx |-> pc.idx, piped |-> TRUE,
                        argsc |-> Len(Arguments(StringAt(lastCommand, 0))),
                        meant |-> Arguments(typed), asked |-> ampersand]
             then == [pc EXCEPT !.at = "between"]
  <2>1. Fork(record, then) /\ UNCHANGED <<isBackground, ampersand, overtaken>>
    BY <1>2 DEF ForkFirst
  <2>2. /\ record.pc \in {"arguments", "copy"} /\ {"pc", "piped", "asked"} \subseteq DOMAIN record
        /\ record.piped \in BOOLEAN /\ record.asked = ampersand
    OBVIOUS
  <2>3. "at" \in DOMAIN then /\ then.at \notin Asking
    BY DEF Asking, ShellInv, ShellTypes
  <2> HIDE DEF record, then
  <2> QED
    BY <2>1, <2>2, <2>3, ForkShell
<1>3. CASE ForkSecond
  <2> DEFINE record == [pc |-> "copy", idx |-> pc.jdx, piped |-> TRUE,
                        argsc |-> Len(Arguments(StringAt(lastCommand, pc.second))),
                        meant |-> Arguments(Second(typed)), asked |-> ampersand]
  <2>1. Fork(record, [at |-> "yield"]) /\ UNCHANGED <<isBackground, ampersand, overtaken>>
    BY <1>3 DEF ForkSecond
  <2>2. /\ record.pc \in {"arguments", "copy"} /\ {"pc", "piped", "asked"} \subseteq DOMAIN record
        /\ record.piped \in BOOLEAN /\ record.asked = ampersand
    OBVIOUS
  <2>3. "at" \in DOMAIN [at |-> "yield"] /\ [at |-> "yield"].at \notin Asking
    BY DEF Asking
  <2> HIDE DEF record
  <2> QED
    BY <2>1, <2>2, <2>3, ForkShell
<1> QED
  BY <1>1, <1>2, <1>3

\* After yield: back to the prompt only when every child runs beside the shell.
LEMMA ResumeShell ==
    ASSUME ShellInv, Resume
    PROVE  ShellInv'
<1>1. /\ UNCHANGED <<isBackground, ampersand, child>>
      /\ overtaken' = (overtaken \/ \E c \in Starting : isBackground \/ child[c].piped)
      /\ "at" \in DOMAIN pc'
      /\ pc'.at \in Asking => isBackground
  BY DEF Resume, Asking, ShellInv, ShellTypes
<1>2. ShellTypes'
  BY <1>1 DEF ShellInv, ShellTypes, ChildTypes
<1>3. ASSUME ~overtaken', NEW c \in Children
      PROVE  ChildInv(c)'
  <2>1. ChildInv(c)
    BY <1>1, <1>3, ByChild
  <2>2. pc'.at \in Asking /\ c \in Alive => c \in Running /\ Unawaited(c)
    <3>1. SUFFICES ASSUME pc'.at \in Asking, c \in Alive
                   PROVE  c \in Running /\ Unawaited(c)
      OBVIOUS
    <3>2. c \in Running
      BY <1>1, <1>3, <3>1 DEF Starting
    <3>3. /\ ~child[c].piped => child[c].background = child[c].asked
          /\ Unawaited(c) \/ child[c].asked = isBackground
      BY <2>1, <3>2 DEF ChildInv
    <3>4. child[c].piped \in BOOLEAN /\ child[c].asked \in BOOLEAN
      BY <3>1 DEF ShellInv, ShellTypes, ChildTypes, Alive
    <3> QED
      BY <1>1, <3>1, <3>2, <3>3, <3>4 DEF Unawaited, ShellInv, ShellTypes
  <2> QED
    BY <1>1, <2>1, <2>2 DEF ChildInv, Starting, Running, Alive, Unawaited
<1> QED
  BY <1>2, <1>3 DEF ShellInv, ChildInv, Starting, Running, Alive

LEMMA WaitReturnsShell ==
    ASSUME ShellInv, WaitReturns
    PROVE  ShellInv'
<1>1. /\ UNCHANGED <<isBackground, ampersand, child, overtaken>>
      /\ "at" \in DOMAIN pc'
      /\ \A c \in Alive : c \in Running /\ child[c].background
  BY DEF WaitReturns
<1> QED
  BY <1>1 DEF ShellInv, ShellTypes, ChildTypes, Starting, Running, Alive, Unawaited

LEMMA PromptShell ==
    ASSUME ShellInv, Prompt
    PROVE  ShellInv'
<1>1. /\ UNCHANGED <<child, overtaken>> /\ pc.at = "prompt"
      /\ isBackground' = FALSE /\ ampersand' = FALSE /\ "at" \in DOMAIN pc'
  BY DEF Prompt
<1>2. ~overtaken => \A c \in Alive : c \in Running /\ Unawaited(c)
  BY <1>1 DEF ShellInv, Asking
<1> QED
  BY <1>1, <1>2 DEF ShellInv, ShellTypes, ChildTypes, Starting, Running, Alive, Unawaited

\* A child copies its arguments: it stays as it is, but for what it is at.
LEMMA CopiesShell ==
    ASSUME ShellInv, NEW c \in Children, ChildArguments(c) \/ ChildCopy(c)
    PROVE  ShellInv'
<1>1. PICK record, field, value :
         /\ child' = [child EXCEPT ![c] = With([child[c] EXCEPT !.pc = record], field, value)]
         /\ record \in {"copy", "copied"} /\ field \in {"argsc", "argv"}
  BY DEF ChildArguments, ChildCopy, ShellInv, ShellTypes
<1>2. /\ child[c].pc \in {"arguments", "copy"} /\ UNCHANGED <<isBackground, ampersand, pc, overtaken>>
  BY DEF ChildArguments, ChildCopy
<1>3. /\ {"pc", "piped", "asked"} \subseteq DOMAIN child[c]
      /\ child[c].piped \in BOOLEAN /\ child[c].asked \in BOOLEAN
      /\ c \in Starting
  BY <1>2 DEF ShellInv, ShellTypes, ChildTypes, NoChild, Starting, Running, Alive
<1>4. /\ child'[c].pc = record /\ {"pc", "piped", "asked"} \subseteq DOMAIN child'[c]
      /\ child'[c].piped = child[c].piped /\ child'[c].asked = child[c].asked
      /\ \A d \in Children \ {c} : child'[d] = child[d]
  BY <1>1, <1>3 DEF With, ShellInv, ShellTypes
<1>5. child'[c] # NoChild
  BY <1>1, <1>4 DEF NoChild
<1>6. ShellTypes'
  BY <1>1, <1>2, <1>3, <1>4 DEF ShellInv, ShellTypes, ChildTypes
<1>7. ASSUME ~overtaken, NEW d \in Children
      PROVE  ChildInv(d)'
  <2>1. ChildInv(d)
    BY <1>7, ByChild
  <2>2. CASE d = c
    BY <1>1, <1>2, <1>3, <1>4, <1>5, <2>1, <2>2 DEF ChildInv, Starting, Running, Alive
  <2>3. CASE d # c
    BY <1>2, <1>4, <2>1, <2>3 DEF ChildInv, Starting, Running, Alive, Unawaited
  <2> QED
    BY <2>2, <2>3
<1> QED
  BY <1>2, <1>6, <1>7 DEF ShellInv, ChildInv, Starting, Running, Alive

LEMMA ExecveShell ==
    ASSUME ShellInv, NEW c \in Children, ChildExecve(c)
    PROVE  ShellInv'
<1>1. /\ child' = [child EXCEPT ![c] = Program(c, isBackground /\ ~child[c].piped)]
      /\ child[c].pc = "copied" /\ UNCHANGED <<isBackground, ampersand, pc, overtaken>>
  BY DEF ChildExecve
<1>2. /\ child[c].piped \in BOOLEAN /\ child[c].asked \in BOOLEAN
      /\ c \in Starting
  BY <1>1 DEF ShellInv, ShellTypes, ChildTypes, NoChild, Starting, Running, Alive
<1>3. /\ child'[c] = Program(c, isBackground /\ ~child[c].piped)
      /\ \A d \in Children \ {c} : child'[d] = child[d]
  BY <1>1 DEF ShellInv, ShellTypes
<1>4. ShellTypes'
  BY <1>1, <1>2, <1>3 DEF ShellInv, ShellTypes, ChildTypes, Program
<1>5. ASSUME ~overtaken, NEW d \in Children
      PROVE  ChildInv(d)'
  <2>1. ChildInv(d)
    BY <1>5, ByChild
  <2>2. CASE d = c
    <3>1. child[c].asked = isBackground /\ isBackground \in BOOLEAN /\ pc.at \notin Asking
      BY <1>2, <2>1, <2>2 DEF ChildInv, Starting, ShellInv, ShellTypes
    <3> QED
      BY <1>1, <1>2, <1>3, <2>2, <3>1 DEF ChildInv, Starting, Running, Alive, Unawaited, Program
  <2>3. CASE d # c
    BY <1>1, <1>3, <2>1, <2>3 DEF ChildInv, Starting, Running, Alive, Unawaited
  <2> QED
    BY <2>2, <2>3
<1> QED
  BY <1>1, <1>4, <1>5 DEF ShellInv, ChildInv, Starting, Running, Alive

LEMMA EndsShell ==
    ASSUME ShellInv, NEW c \in Children, ChildEnds(c)
    PROVE  ShellInv'
<1>1. /\ child' = [child EXCEPT ![c] = NoChild]
      /\ UNCHANGED <<isBackground, ampersand, pc, overtaken>>
  BY DEF ChildEnds
<1>2. /\ child'[c] = NoChild
      /\ \A d \in Children \ {c} : child'[d] = child[d]
  BY <1>1 DEF ShellInv, ShellTypes
<1>3. ShellTypes'
  BY <1>1, <1>2 DEF ShellInv, ShellTypes, ChildTypes
<1> QED
  BY <1>1, <1>2, <1>3 DEF ShellInv, Starting, Running, Alive, Unawaited

LEMMA NextShell == ShellInv /\ [Next]_vars => ShellInv'
<1> SUFFICES ASSUME ShellInv, [Next]_vars PROVE ShellInv'
  OBVIOUS
<1>1. CASE UNCHANGED vars \/ (keyboardNext /\ UNCHANGED shellVars)
  BY <1>1, SameShell DEF vars, shellVars
<1> QED
  BY <1>1, ReadKeyShell, ForksShell, ResumeShell, WaitReturnsShell, PromptShell,
     CopiesShell, ExecveShell, EndsShell DEF Next

\* The inductive invariant of the shell and its children: who is in the foreground,
\* who holds the keyboard, and what the shell still has to wait for.
THEOREM ShellInvariant == Spec => []ShellInv
BY InitShell, NextShell, PTL DEF Spec

\* While the shell reads the keyboard, no program in the foreground reads it too.
THEOREM ShellReadsAloneHolds == Spec => []ShellReadsAlone
<1>1. ShellInv => ShellReadsAlone
  BY DEF ShellInv, ShellReadsAlone, Asking, Unawaited
<1> QED
  BY <1>1, ShellInvariant, PTL

\* A program without a pipe is in the background exactly when the user said so.
THEOREM WaitsForForegroundHolds == Spec => []WaitsForForeground
<1>1. ShellInv => WaitsForForeground
  BY DEF ShellInv, WaitsForForeground
<1> QED
  BY <1>1, ShellInvariant, PTL

=============================================================================

---------------------------- MODULE CommandLine ----------------------------
(***************************************************************************)
(* sh.c: the shell reads a line from the keyboard and starts its commands.  *)
(* The children share the memory of the shell until execve, so the line,    *)
(* the arguments and isBackground are read by processes that run at the     *)
(* same time as the shell.                                                  *)
(***************************************************************************)
EXTENDS Keyboard, SequencesExt

CONSTANTS LineLength,  \* cells of lastCommand that are cleared and written
          Commands,    \* commandsName, each of one letter
          MAX_ARGS_COUNT,
          Children     \* processes of the shell

ASSUME LineAssumption == LineLength \in Nat \ {0} /\ MAX_ARGS_COUNT \in Nat \ {0}

VARIABLES lastCommand, bufferCount, isBackground, lastArguments,
          pc,          \* what the shell is at
          child,       \* its processes
          typed,       \* the line, as the user sees it
          ampersand,   \* the user has typed an & since the prompt
          overtaken    \* the shell went on before a process had its arguments

shellVars == <<lastCommand, bufferCount, isBackground, lastArguments, pc, child,
               typed, ampersand, overtaken>>

Cells == 0..(LineLength - 1)
NUL == "NUL"
Blank == [c \in Cells |-> NUL]
NoCommand == "none"
NoChild == [pc |-> "none"]

\* The string that begins at `p`.
StringAt(cells, p) ==
    LET ends == {c \in Cells : c >= p /\ cells[c] = NUL}
    IN  [i \in 1..(IF ends = {} THEN LineLength - p
                   ELSE (CHOOSE e \in ends : \A f \in ends : e <= f) - p) |-> cells[p + i - 1]]

-----------------------------------------------------------------------------
(* Words, commands and arguments.                                           *)

IsWordStart(s, i) == s[i] # " " /\ (i = 1 \/ s[i - 1] = " ")

WordStarts(s) == SetToSortSeq({i \in DOMAIN s : IsWordStart(s, i)}, <)

WordEnd(s, i) == CHOOSE e \in i..Len(s) : (e = Len(s) \/ s[e + 1] = " ") /\ \A j \in i..e : s[j] # " "

\* The words that strtok gives getArguments: up to one with a |, and the one
\* behind the last that there is room for.
Scanned(s) ==
    LET starts == WordStarts(s)
        bars == {n \in DOMAIN starts : s[starts[n]] = "|"}
        last == IF bars = {} THEN Len(starts) ELSE CHOOSE n \in bars : \A m \in bars : n <= m
    IN  SubSeq(starts, 1, IF last > MAX_ARGS_COUNT + 1 THEN MAX_ARGS_COUNT + 1 ELSE last)

\* The arguments in a string.
Arguments(s) ==
    LET words == SelectSeq(Scanned(s), LAMBDA i : s[i] # "|")
        count == IF Len(words) > MAX_ARGS_COUNT THEN MAX_ARGS_COUNT ELSE Len(words)
    IN  [n \in 1..count |-> SubSeq(s, words[n], WordEnd(s, words[n]))]

\* getArguments: strtok ends the words in the line.
getArguments(p) ==
    LET s == StringAt(lastCommand, p)
        cut == {p + WordEnd(s, i) : i \in {j \in ToSet(Scanned(s)) : WordEnd(s, j) < Len(s)}}
    IN  /\ lastArguments' = [n \in 1..MAX_ARGS_COUNT |->
                               IF n \in DOMAIN Arguments(s) THEN Arguments(s)[n] ELSE lastArguments[n]]
        /\ lastCommand' = [c \in Cells |-> IF c \in cut THEN NUL ELSE lastCommand[c]]

checkCommand(s) ==
    IF s # <<>> /\ s[1] \in Commands /\ (Len(s) = 1 \/ s[2] = " ") THEN s[1] ELSE NoCommand

\* What follows the first | and one cell more.
Second(s) ==
    LET bars == {i \in DOMAIN s : s[i] = "|"}
    IN  IF bars = {} THEN <<>>
        ELSE LET bar == CHOOSE i \in bars : \A j \in bars : i <= j
             IN  SubSeq(s, bar + 2, Len(s))

\* Where secondCommand points to, in the line before getArguments; -1 is NULL.
SecondAt(cells) ==
    LET s == StringAt(cells, 0)
        bars == {i \in DOMAIN s : s[i] = "|"}
    IN  IF bars = {} THEN -1 ELSE 1 + CHOOSE i \in bars : \A j \in bars : i <= j

-----------------------------------------------------------------------------
(* awaitCommand.                                                            *)

\* The line gets a character `n` times.
Put(c, n) ==
    /\ lastCommand' = [i \in Cells |-> IF i >= bufferCount /\ i < bufferCount + n THEN c ELSE lastCommand[i]]
    /\ bufferCount' = bufferCount + n
    /\ typed' = typed \o [i \in 1..n |-> c]
    /\ UNCHANGED <<isBackground, ampersand, pc>>

Backspace ==
    /\ IF bufferCount > 0
       THEN /\ lastCommand' = [lastCommand EXCEPT ![bufferCount] = NUL]
            /\ bufferCount' = bufferCount - 1
            /\ typed' = SubSeq(typed, 1, Len(typed) - 1)
       ELSE UNCHANGED <<lastCommand, bufferCount, typed>>
    /\ UNCHANGED <<isBackground, ampersand, pc>>

\* The & is not part of the line, and backspace does not take it back.
Ampersand ==
    /\ isBackground' = TRUE /\ ampersand' = TRUE
    /\ UNCHANGED <<lastCommand, bufferCount, typed, pc>>

\* Where the shell goes from a complete line.  (An invalid command is told, and
\* then comes the next prompt.)
Parsed(cells) ==
    LET at == SecondAt(cells)
        idx == checkCommand(StringAt(cells, 0))
        jdx == IF at = -1 THEN NoCommand ELSE checkCommand(StringAt(cells, at))
    IN  CASE idx = NoCommand -> [at |-> "prompt"]
          [] idx # NoCommand /\ jdx = NoCommand -> [at |-> "single", idx |-> idx]
          [] OTHER -> [at |-> "first", idx |-> idx, jdx |-> jdx, second |-> at]

\* Mutant: the line is not ended.
NewLineOpen ==
    /\ bufferCount' = 0
    /\ pc' = Parsed(lastCommand)
    /\ UNCHANGED <<lastCommand, isBackground, typed, ampersand>>

\* The line is complete.
NewLine ==
    /\ lastCommand' = [lastCommand EXCEPT ![bufferCount] = NUL]
    /\ bufferCount' = 0
    /\ pc' = Parsed(lastCommand')
    /\ UNCHANGED <<isBackground, typed, ampersand>>

\* What a read of one byte leaves in the buffer: the end of the input is taken only
\* when nothing is behind it.  Otherwise it stays, and every read ends at it.
afterRead == IF Head(stdin) = NUL /\ Len(stdin) > 1 THEN stdin ELSE Tail(stdin)

\* getChar and what the loop does with the character: an arrow and the end of the
\* input are -1, which the loop drops.
ReadKey ==
    /\ pc.at = "read" /\ stdin # <<>>
    /\ stdin' = afterRead
    /\ LET c == Head(stdin)
       IN  CASE c \in {"-1", NUL} -> UNCHANGED <<lastCommand, bufferCount, isBackground, typed, ampersand, pc>>
             [] c = "enter" -> NewLine
             [] c = "erase" -> Backspace
             [] c = "&"  -> Ampersand
             [] c = "tab" -> Put(" ", 3)
             [] OTHER    -> Put(c, 1)
    /\ UNCHANGED <<lock, shiftKey, leftCntrl, held, repeated, lastArguments, child, overtaken>>

-----------------------------------------------------------------------------
(* runProgram.                                                              *)

\* A child is forked for a command; `meant` is what the user wants it to get.
Fork(record, then) ==
    /\ \E c \in Children : child[c] = NoChild /\ child' = [child EXCEPT ![c] = record]
    /\ pc' = then

ForkSingle ==
    /\ pc.at = "single"
    /\ Fork([pc |-> "arguments", idx |-> pc.idx, piped |-> FALSE,
             meant |-> Arguments(typed), asked |-> ampersand], [at |-> "yield"])
    /\ UNCHANGED <<keyboardVars, lastCommand, bufferCount, isBackground, lastArguments,
                   typed, ampersand, overtaken>>

ForkFirst ==
    /\ pc.at = "first"
    /\ getArguments(0)
    /\ Fork([pc |-> "copy", idx |-> pc.idx, piped |-> TRUE,
             argsc |-> Len(Arguments(StringAt(lastCommand, 0))),
             meant |-> Arguments(typed), asked |-> ampersand], [pc EXCEPT !.at = "between"])
    /\ UNCHANGED <<keyboardVars, bufferCount, isBackground, typed, ampersand, overtaken>>

ForkSecond ==
    /\ pc.at = "second"
    /\ getArguments(pc.second)
    /\ Fork([pc |-> "copy", idx |-> pc.jdx, piped |-> TRUE,
             argsc |-> Len(Arguments(StringAt(lastCommand, pc.second))),
             meant |-> Arguments(Second(typed)), asked |-> ampersand], [at |-> "yield"])
    /\ UNCHANGED <<keyboardVars, bufferCount, isBackground, typed, ampersand, overtaken>>

Alive == {c \in Children : child[c] # NoChild}
Running == {c \in Alive : child[c].pc = "running"}
Starting == Alive \ Running

\* _yield returns.
Resume ==
    /\ pc.at \in {"between", "yield"}
    /\ pc' = IF pc.at = "between" THEN [pc EXCEPT !.at = "second"]
             ELSE [at |-> IF isBackground THEN "prompt" ELSE "wait"]
    /\ overtaken' = (overtaken \/ \E c \in Starting : isBackground \/ child[c].piped)
    /\ UNCHANGED <<keyboardVars, lastCommand, bufferCount, isBackground, lastArguments,
                   child, typed, ampersand>>

\* Mutant: it returns when a child has ended.
WaitReturnsEarly ==
    /\ pc.at = "wait"
    /\ Alive # Children
    /\ pc' = [at |-> "prompt"]
    /\ UNCHANGED <<keyboardVars, lastCommand, bufferCount, isBackground, lastArguments,
                   child, typed, ampersand, overtaken>>

\* _wait returns when no child in the foreground is left.
WaitReturns ==
    /\ pc.at = "wait"
    /\ \A c \in Alive : c \in Running /\ child[c].background
    /\ pc' = [at |-> "prompt"]
    /\ UNCHANGED <<keyboardVars, lastCommand, bufferCount, isBackground, lastArguments,
                   child, typed, ampersand, overtaken>>

\* The end of the loop of sh, and the beginning of awaitCommand.
Prompt ==
    /\ pc.at = "prompt"
    /\ isBackground' = FALSE
    /\ lastCommand' = Blank
    /\ typed' = <<>> /\ ampersand' = FALSE
    /\ pc' = [at |-> "read"]
    /\ UNCHANGED <<keyboardVars, bufferCount, lastArguments, child, overtaken>>

-----------------------------------------------------------------------------
(* The children, until execve and after it.                                 *)

\* The record with a field that it may not have yet.
With(record, field, value) ==
    [f \in DOMAIN record \cup {field} |-> IF f = field THEN value ELSE record[f]]

ChildArguments(c) ==
    /\ child[c].pc = "arguments"
    /\ getArguments(0)
    /\ child' = [child EXCEPT ![c] =
          With([@ EXCEPT !.pc = "copy"], "argsc", Len(Arguments(StringAt(lastCommand, 0))))]
    /\ UNCHANGED <<keyboardVars, bufferCount, isBackground, pc, typed, ampersand, overtaken>>

ChildCopy(c) ==
    /\ child[c].pc = "copy"
    /\ child' = [child EXCEPT ![c] =
          With([@ EXCEPT !.pc = "copied"], "argv", SubSeq(lastArguments, 1, child[c].argsc))]
    /\ UNCHANGED <<keyboardVars, lastCommand, bufferCount, isBackground, lastArguments,
                   pc, typed, ampersand, overtaken>>

\* What is left to say of a process that runs its program.
Program(c, background) ==
    [pc |-> "running", background |-> background, piped |-> child[c].piped, asked |-> child[c].asked]

\* Mutant: every program goes to the background.
ChildExecveAll(c) ==
    /\ child[c].pc = "copied"
    /\ child' = [child EXCEPT ![c] = Program(c, TRUE)]
    /\ UNCHANGED <<keyboardVars, lastCommand, bufferCount, isBackground, lastArguments,
                   pc, typed, ampersand, overtaken>>

\* _setToBackground, of a command without a pipe, and execve.
ChildExecve(c) ==
    /\ child[c].pc = "copied"
    /\ child' = [child EXCEPT ![c] = Program(c, isBackground /\ ~child[c].piped)]
    /\ UNCHANGED <<keyboardVars, lastCommand, bufferCount, isBackground, lastArguments,
                   pc, typed, ampersand, overtaken>>

\* A program ends, or is killed.
ChildEnds(c) ==
    /\ child[c].pc = "running"
    /\ child' = [child EXCEPT ![c] = NoChild]
    /\ UNCHANGED <<keyboardVars, lastCommand, bufferCount, isBackground, lastArguments,
                   pc, typed, ampersand, overtaken>>

Init ==
    /\ keyboardInit
    /\ lastCommand = Blank /\ bufferCount = 0 /\ isBackground = FALSE
    /\ lastArguments = [n \in 1..MAX_ARGS_COUNT |-> <<>>]
    /\ pc = [at |-> "read"]
    /\ child = [c \in Children |-> NoChild]
    /\ typed = <<>> /\ ampersand = FALSE /\ overtaken = FALSE

\* Bound: the user types no more than the line holds.
InLine == \A i \in DOMAIN stdin' :
    \/ stdin'[i] \in {"enter", "erase", "&", "-1", NUL}
    \/ bufferCount + (IF stdin'[i] = "tab" THEN 3 ELSE 1) < LineLength

Next ==
    \/ keyboardNext /\ InLine /\ UNCHANGED shellVars
    \/ ReadKey
    \/ ForkSingle \/ ForkFirst \/ ForkSecond
    \/ Resume \/ WaitReturns \/ Prompt
    \/ \E c \in Children : ChildArguments(c) \/ ChildCopy(c) \/ ChildExecve(c) \/ ChildEnds(c)

vars == <<keyboardVars, shellVars>>

Spec == Init /\ [][Next]_vars

-----------------------------------------------------------------------------
(* Properties.                                                              *)

TypeOK ==
    /\ bufferCount \in Cells
    /\ isBackground \in BOOLEAN /\ lock \in BOOLEAN /\ shiftKey \in BOOLEAN /\ leftCntrl \in BOOLEAN
    /\ DOMAIN lastCommand = Cells
    /\ pc.at \in {"read", "single", "first", "between", "second", "yield", "wait", "prompt"}

\* The line stays in its cells, and every program is started with the words of the
\* line that the user sees when enter is pressed: those of its side of the |,
\* nothing of an earlier line, of the other side, or of what was erased.  It is so
\* however the processes are interleaved, until the shell goes on from yield before
\* a child in the background or of a pipe, whose arguments it then changes, has
\* copied them.
ArgumentsArrive ==
    /\ TypeOK
    /\ ~overtaken => \A c \in Alive : child[c].pc = "copied" =>
        child[c].argv = child[c].meant /\ <<child[c].idx>> = child[c].meant[1]

\* While the shell reads the keyboard, nobody in the foreground reads it too:
\* every program was started in the background, or in a pipe behind which an &
\* was typed (of which the shell does not wait, but which stays in front).
ShellReadsAlone ==
    ~overtaken /\ pc.at = "read" =>
        \A c \in Alive : c \in Running /\ (child[c].background \/ (child[c].piped /\ child[c].asked))

\* The shell does not wait for a program in the background, and a program that
\* the shell waits for is not in the background.
WaitsForForeground ==
    ~overtaken => \A c \in Running : ~child[c].piped => child[c].background = child[c].asked

=============================================================================

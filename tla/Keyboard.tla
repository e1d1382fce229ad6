------------------------------ MODULE Keyboard ------------------------------
(***************************************************************************)
(* keyboard.c: the scan codes of the keyboard become characters in the      *)
(* buffer of the standard input.  A key that is pressed sends its make code *)
(* and, after a while, sends it again and again; a key that is released     *)
(* sends its break code.                                                    *)
(***************************************************************************)
EXTENDS Integers, Sequences, FiniteSets

CONSTANTS Keys,      \* the keys with a character
          KEYS,      \* the characters of a key: without and with the caps lock
          SHIFTED    \* the same with a shift

Shifts == {"L_SHIFT", "R_SHIFT"}
Modifiers == Shifts \cup {"L_CNTRL"}
Arrows == {"up", "left", "right", "down"}

ASSUME KeyboardAssumption == Keys \cap (Modifiers \cup {"capslock"}) = {}

VARIABLES lock, shiftKey, leftCntrl,
          stdin,     \* what the buffer holds
          held,      \* the modifier keys that are down
          repeated   \* a modifier sent its make code again

keyboardVars == <<lock, shiftKey, leftCntrl, stdin, held, repeated>>

toBuff(c) == stdin' = Append(stdin, c)

\* Mutant: only the left shift is released.
ToggleLeft(key) ==
    IF key \in Shifts
    THEN shiftKey' = (IF key = "R_SHIFT" /\ key \in held THEN shiftKey ELSE ~shiftKey) /\ UNCHANGED leftCntrl
    ELSE leftCntrl' = ~leftCntrl /\ UNCHANGED shiftKey

\* addKey of the make or the break code of a modifier.
Toggle(key) ==
    IF key \in Shifts THEN shiftKey' = ~shiftKey /\ UNCHANGED leftCntrl
    ELSE leftCntrl' = ~leftCntrl /\ UNCHANGED shiftKey

ModifierDown(key) ==
    /\ key \notin held
    /\ held' = held \cup {key}
    /\ Toggle(key)
    /\ UNCHANGED <<lock, stdin, repeated>>

ModifierUp(key) ==
    /\ key \in held
    /\ held' = held \ {key}
    /\ Toggle(key)
    /\ UNCHANGED <<lock, stdin, repeated>>

ModifierAgain(key) ==
    /\ key \in held
    /\ Toggle(key)
    /\ repeated' = TRUE
    /\ UNCHANGED <<lock, stdin, held>>

capsLock ==
    /\ lock' = ~lock
    /\ UNCHANGED <<shiftKey, leftCntrl, stdin, held, repeated>>

Item(key) == (IF shiftKey THEN SHIFTED ELSE KEYS)[key][IF lock THEN 2 ELSE 1]

\* addKey of any other key that is mapped.  With control, c ends the foreground
\* process and d is the end of the input; an arrow is -1 for who reads it, and
\* a tab with a shift is nothing.
addKey(key) ==
    /\ IF leftCntrl /\ key = "c" THEN UNCHANGED stdin
       ELSE IF leftCntrl /\ key = "d" THEN toBuff("NUL")
       ELSE IF key = "tab" /\ shiftKey THEN UNCHANGED stdin
       ELSE toBuff(IF key \in Arrows THEN "-1" ELSE Item(key))
    /\ UNCHANGED <<lock, shiftKey, leftCntrl, held, repeated>>

keyboardInit ==
    /\ lock = FALSE /\ shiftKey = FALSE /\ leftCntrl = FALSE
    /\ stdin = <<>> /\ held = {} /\ repeated = FALSE

\* Bound: a key is used when the character before it has been read, or when that
\* is the end of the input, behind which it may come.
keyboardNext ==
    /\ stdin \in {<<>>, <<"NUL">>}
    /\ \/ \E key \in Modifiers : ModifierDown(key) \/ ModifierUp(key) \/ ModifierAgain(key)
       \/ capsLock
       \/ \E key \in Keys : addKey(key)

\* A shift that is not down does not shift, however the keys were pressed and
\* released, as long as none is held so long that it repeats its make code.
ModifiersReleased ==
    ~repeated /\ held \cap Shifts = {} => ~shiftKey

=============================================================================

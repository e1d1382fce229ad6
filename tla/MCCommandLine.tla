--------------------------- MODULE MCCommandLine ---------------------------
(* CommandLine with the commands c and d, on lines of seven characters:   *)
(* "c d", "c | d c" and what is like them.                                   *)
EXTENDS CommandLine

MCKEYS == [c |-> <<"c", "C">>, d |-> <<"d", "D">>, space |-> <<" ", " ">>, backslash |-> <<"\\", "\\">>,
           seven |-> <<"7", "7">>, enter |-> <<"enter", "enter">>, backspace |-> <<"erase", "erase">>,
           tab |-> <<"tab", "tab">>, up |-> <<"u", "u">>]
MCSHIFTED == [MCKEYS EXCEPT !.c = <<"C", "c">>, !.d = <<"D", "d">>, !.backslash = <<"|", "|">>,
                            !.seven = <<"&", "&">>]

Alike == Permutations(Children)

\* Words have one letter, spaces come one by one or as a tab, and control, the
\* right shift and caps lock are only used on the first line.  What happens
\* after a repeated make code is left out; and when a process was overtaken,
\* no next line is typed.  Beside a program in the background lines are short.
Letters == {"c", "d"}
Bounded ==
    /\ ~repeated
    /\ lock \/ ~(held \subseteq {"L_SHIFT"}) =>
          typed = <<>> /\ lastCommand = Blank /\ pc.at = "read" /\ Alive = {}
    /\ \A i \in DOMAIN typed : typed[i] \in Letters \cup {" ", "|"}
    /\ \A i \in 1..(Len(typed) - 1) :
          /\ " " \in {typed[i], typed[i + 1]}
          /\ typed[i] = " " /\ typed[i + 1] = " " => Len(typed) >= 3
    /\ overtaken => bufferCount = 0
    /\ pc.at = "read" /\ Alive # {} => bufferCount <= 3

=============================================================================

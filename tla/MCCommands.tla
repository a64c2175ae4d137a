------------------------------ MODULE MCCommands ------------------------------
(* Small instances of Commands for TLC. *)
EXTENDS Commands

CONSTANTS
    MaxLine,    \* bound: characters of a line
    MaxText     \* bound: characters of a length

\* every line of letters and spaces
AllLines == {Append(s, Nul) : s \in BoundedSeq({Space, "x"}, MaxLine)}

\* Every token of some digits and of the other characters.
AllTexts == BoundedSeq({0, 1, 6, 9, Tab, Plus, Minus, Letter}, MaxText) \ {<<>>}
=============================================================================

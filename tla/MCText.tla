------------------------------- MODULE MCText -------------------------------
(***************************************************************************)
(* An instance of Text for TLC: messages and topics of control sequences   *)
(* and of wide runes to cut, and stored bodies with mentions, letters that *)
(* change their width among them.                                          *)
(***************************************************************************)
EXTENDS Text

ControlRunes == {"esc", "csi8", "ctl", "bel", "blank", "[", "]", "\\", "(", "a", "."}
CutRunes == {"esc", "[", "wide", "Shrink", "blank", "@", "a"}
MentionRunes == {"@", "a", "b", "A", ".", "Grow", "Shrink"}

MCInputs ==
    {[call |-> "send", runes |-> ControlRunes, length |-> 5],
     [call |-> "send", runes |-> CutRunes, length |-> 6],
     [call |-> "topic", runes |-> CutRunes, length |-> 5],
     [call |-> "show", runes |-> MentionRunes, length |-> 6]}
=============================================================================

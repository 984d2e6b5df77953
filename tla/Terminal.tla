------------------------------ MODULE Terminal ------------------------------
(***************************************************************************)
(* What a cleaned text has to be: what is shown of it by a reader in the   *)
(* manner of a terminal, that takes one rune at a time, keeps a mode, and  *)
(* looks neither back nor ahead; less the blanks at its end.               *)
(***************************************************************************)
EXTENDS Runes

VARIABLES text,   \* what is read
          place,  \* of the next rune
          mode,   \* what that rune will be part of; "over" after the last, then "end"
          shown   \* the runes shown so far

vars == <<text, place, mode, shown>>

\* The parameter bytes of a charset or a string are not looked at but for its end.
NextMode(m, r) ==
    CASE m = "text" -> IF r = "esc" THEN "esc" ELSE IF r = "csi8" THEN "csi" ELSE "text"
      [] m = "esc" -> IF r = "[" THEN "csi"
                      ELSE IF r = "]" THEN "string" ELSE IF r = "(" THEN "charset" ELSE "text"
      [] m = "csi" -> IF r \in Final THEN "text" ELSE "csi"
      [] m = "charset" -> "text"
      [] m = "string" -> IF r = "bel" THEN "text" ELSE IF r = "esc" THEN "string_esc" ELSE "string"
      [] m = "string_esc" -> IF r \in {"bel", "\\"} THEN "text"
                             ELSE IF r = "esc" THEN "string_esc" ELSE "string"

\* The end of the text ends everything.
ModeAt(s, p, m) == IF p > Len(s) THEN "over" ELSE m

Init ==
    /\ text = <<>>
    /\ place = 1
    /\ mode = "end"
    /\ shown = <<>>

NewText ==
    /\ mode = "end"
    /\ text' \in Seq(Rune)
    /\ place' = 1
    /\ mode' = ModeAt(text', 1, "text")
    /\ shown' = <<>>

Read ==
    /\ mode \notin {"over", "end"}
    /\ place' = place + 1
    /\ mode' = ModeAt(text, place + 1, NextMode(mode, text[place]))
    /\ shown' = IF mode = "text" /\ text[place] \notin Controls
                THEN Append(shown, text[place]) ELSE shown
    /\ UNCHANGED text

End ==
    /\ mode = "over"
    /\ mode' = "end"
    /\ \E k \in 0 .. Len(shown) : EndsAt(shown, k) /\ shown' = SubSeq(shown, 1, k)
    /\ UNCHANGED <<text, place>>

Next == NewText \/ Read \/ End

Spec == Init /\ [][Next]_vars
=============================================================================

----------------------------- MODULE Sanitizer ------------------------------
(***************************************************************************)
(* SanitizeUserText and the functions it skips control sequences with, one *)
(* turn of a loop at a time (src/internal/domain/types.go:98-181).  It is  *)
(* called with any text, any number of times.                              *)
(*                                                                         *)
(* The code indexes runes from 0, the model from 1.  A function that skips *)
(* returns the place of the last rune it skips, and the loop of            *)
(* SanitizeUserText adds one: both are one step here.                      *)
(***************************************************************************)
EXTENDS Runes

VARIABLES text,  \* runes
          pc,    \* the loop that looks at the rune next, or "done"
          i,     \* the place of that rune
          out    \* what has been written to the strings.Builder

sanitizerVars == <<text, pc, i, out>>

\* "main" is the loop of SanitizeUserText, "switch" skipEscape behind an escape,
\* "csi" skipControlSequence (and the same loop in skipEscape), "string"
\* skipStringControl, "last" the second rune of a `return i + 1`.
Loops == {"main", "switch", "csi", "string", "last"}

SanitizerInit ==
    /\ text = <<>>
    /\ pc = "done"
    /\ i = 1
    /\ out = <<>>

SanitizeUserText(s) ==
    /\ pc = "done"
    /\ text' = s
    /\ pc' = "main"
    /\ i' = 1
    /\ out' = <<>>

At(loop, runes) == pc = loop /\ i =< Len(text) /\ text[i] \in runes

\* Skip this rune, and look at the next one in a loop.
GoTo(loop) == pc' = loop /\ i' = i + 1 /\ UNCHANGED <<text, out>>

\* A loop that skips has run out of runes, and returns len(runes)-1.
NothingEnds(loop) ==
    /\ pc = loop
    /\ i > Len(text)
    /\ i' = Len(text) + 1
    /\ pc' = "main"
    /\ UNCHANGED <<text, out>>

\* An escape that is the last rune is returned at once.
Escape == At("main", {"esc"}) /\ GoTo(IF i = Len(text) THEN "main" ELSE "switch")

ControlSequence == At("main", {"csi8"}) /\ GoTo("csi")

Drop == At("main", Controls \ {"esc", "csi8"}) /\ GoTo("main")

Keep ==
    /\ At("main", Rune \ Controls)
    /\ out' = Append(out, text[i])
    /\ i' = i + 1
    /\ UNCHANGED <<text, pc>>

skipEscape ==
    /\ At("switch", Rune)
    /\ GoTo(CASE text[i] = "[" -> "csi"
              [] text[i] = "]" -> "string"
              [] text[i] = "(" -> IF i < Len(text) THEN "last" ELSE "main"
              [] OTHER -> "main")

skipControlSequence ==
    \/ At("csi", Final) /\ GoTo("main")
    \/ At("csi", Rune \ Final) /\ GoTo("csi")
    \/ NothingEnds("csi")

\* Does the string end with the rune at i and the one behind it?
Terminator_AnyEscape == text[i] = "esc" /\ i < Len(text)
Terminator == text[i] = "esc" /\ i < Len(text) /\ text[i + 1] = "\\"

skipStringControl ==
    \/ At("string", {"bel"}) /\ GoTo("main")
    \/ At("string", Rune \ {"bel"}) /\ GoTo(IF Terminator THEN "last" ELSE "string")
    \/ NothingEnds("string")

SkipLast == At("last", Rune) /\ GoTo("main")

\* return strings.TrimRight(...)
Return ==
    /\ pc = "main"
    /\ i > Len(text)
    /\ pc' = "done"
    /\ \E k \in 0 .. Len(out) : EndsAt(out, k) /\ out' = SubSeq(out, 1, k)
    /\ UNCHANGED <<text, i>>

SanitizerStep ==
    \/ Escape \/ ControlSequence \/ Drop \/ Keep
    \/ skipEscape \/ skipControlSequence \/ skipStringControl \/ SkipLast
    \/ Return

SanitizerNext == (text' \in Seq(Rune) /\ SanitizeUserText(text')) \/ SanitizerStep

SanitizerSpec == SanitizerInit /\ [][SanitizerNext]_sanitizerVars

-----------------------------------------------------------------------------
(* Properties                                                              *)

\* The mode a terminal is in before the rune at i.
Mode ==
    CASE pc = "done" -> "end"
      [] pc # "done" /\ i > Len(text) -> "over"
      [] pc = "main" /\ i =< Len(text) -> "text"
      [] pc = "switch" /\ i =< Len(text) -> "esc"
      [] pc = "csi" /\ i =< Len(text) -> "csi"
      [] pc = "string" /\ i =< Len(text) -> IF text[i - 1] = "esc" THEN "string_esc" ELSE "string"
      [] pc = "last" /\ i =< Len(text) -> IF text[i - 1] = "(" THEN "charset" ELSE "string_esc"

Reader == INSTANCE Terminal WITH place <- i, mode <- Mode, shown <- out

\* What is left of a text is what a reader of control sequences shows of it,
\* without blanks at the end: no part of a sequence is left, whatever its form
\* and whether or not it ends, and nothing outside of one is lost
\* (types.go:98-181).
SanitizedAsRead == Reader!Spec

IsClean(s) ==
    /\ \A j \in DOMAIN s : s[j] \notin Controls
    /\ s # <<>> => s[Len(s)] # "blank"

\* What is returned is clean, and a clean text is returned as it is: cleaning
\* again, as InsertRoomMessage does with what updateChat has cleaned already,
\* changes nothing (types.go:102-129, app.go:538, store.go:404).
CleanedOnce == pc = "done" => IsClean(out) /\ (IsClean(text) => out = text)
=============================================================================

----------------------------- MODULE TextProofs -----------------------------
(***************************************************************************)
(* Proofs about the sanitizer and the mentions, for texts of any length    *)
(* and handles of any length.                                              *)
(***************************************************************************)
EXTENDS Sanitizer, Mentions, SequenceTheorems, TLAPS

-----------------------------------------------------------------------------
(* The loops of the sanitizer.  SanitizerTypeOK says where each loop is: it *)
(* looks at a rune behind the one that began the sequence, and a string    *)
(* that would end here has been left for "last" already.                   *)
BackslashAhead == i =< Len(text) /\ text[i] = "\\"

WhereLoopsAre ==
    /\ pc \in {"switch", "csi", "string", "last"} => i > 1
    /\ pc \in {"switch", "last"} => i =< Len(text)
    /\ pc = "string" => ~(text[i - 1] = "esc" /\ BackslashAhead)
    /\ pc = "last" => text[i - 1] = "(" \/ (text[i - 1] = "esc" /\ BackslashAhead)

SanitizerTypeOK ==
    /\ text \in Seq(Rune)
    /\ pc \in Loops \union {"done"}
    /\ i \in 1 .. Len(text) + 1
    /\ out \in Seq(Rune \ Controls)

SanitizerInv == SanitizerTypeOK /\ WhereLoopsAre

LEMMA Classes ==
    /\ Controls \subseteq Rune /\ Final \subseteq Rune /\ Handle \subseteq Rune
    /\ "blank" \in Rune \ Controls
BY DEF Controls, Final, Handle, Rune

LEMMA RuneAt ==
    ASSUME NEW s \in Seq(Rune), NEW k \in 1 .. Len(s) PROVE s[k] \in Rune
OBVIOUS

LEMMA SanitizerInitInv == SanitizerInit => SanitizerInv
BY DEF SanitizerInit, SanitizerInv, SanitizerTypeOK, WhereLoopsAre, Loops

\* The call and the steps that go on to the next rune.
LEMMA GoToType ==
    ASSUME SanitizerTypeOK, i =< Len(text), NEW loop \in Loops, GoTo(loop)
    PROVE  SanitizerTypeOK'
BY DEF SanitizerTypeOK, GoTo

LEMMA SanitizerStepInv == SanitizerInv /\ [SanitizerNext]_sanitizerVars => SanitizerInv'
<1> SUFFICES ASSUME SanitizerInv, [SanitizerNext]_sanitizerVars PROVE SanitizerInv'
  OBVIOUS
<1> USE DEF SanitizerInv
<1> USE Classes
<1>1. CASE text' \in Seq(Rune) /\ SanitizeUserText(text')
  BY <1>1 DEF SanitizeUserText, SanitizerTypeOK, WhereLoopsAre, Loops
<1>2. CASE Escape
  <2>1. SanitizerTypeOK'
    BY <1>2, GoToType DEF Escape, At, Loops
  <2> QED BY <1>2, <2>1 DEF Escape, At, GoTo, WhereLoopsAre, SanitizerTypeOK
<1>3. CASE ControlSequence
  <2>1. SanitizerTypeOK'
    BY <1>3, GoToType DEF ControlSequence, At, Loops
  <2> QED BY <1>3, <2>1 DEF ControlSequence, At, GoTo, WhereLoopsAre, SanitizerTypeOK
<1>4. CASE Drop
  <2>1. SanitizerTypeOK'
    BY <1>4, GoToType DEF Drop, At, Loops
  <2> QED BY <1>4, <2>1 DEF Drop, At, GoTo, WhereLoopsAre, SanitizerTypeOK
<1>5. CASE Keep
  <2>1. out' \in Seq(Rune \ Controls)
    BY <1>5, AppendProperties DEF Keep, At, SanitizerTypeOK
  <2> QED BY <1>5, <2>1 DEF Keep, At, WhereLoopsAre, SanitizerTypeOK
<1>6. CASE skipEscape
  <2>1. SanitizerTypeOK'
    BY <1>6, GoToType DEF skipEscape, At, Loops
  <2> QED BY <1>6, <2>1 DEF skipEscape, At, GoTo, WhereLoopsAre, SanitizerTypeOK
<1>7. CASE skipControlSequence
  <2>1. CASE NothingEnds("csi")
    BY <2>1 DEF NothingEnds, WhereLoopsAre, SanitizerTypeOK, Loops
  <2>2. ASSUME NEW loop \in {"main", "csi"}, pc = "csi", i =< Len(text), GoTo(loop)
        PROVE  SanitizerInv'
    <3>1. SanitizerTypeOK'
      BY <2>2, GoToType DEF Loops
    <3> QED BY <2>2, <3>1 DEF GoTo, WhereLoopsAre, SanitizerTypeOK
  <2> QED BY <1>7, <2>1, <2>2 DEF skipControlSequence, At
<1>8. CASE skipStringControl
  <2>1. CASE NothingEnds("string")
    BY <2>1 DEF NothingEnds, WhereLoopsAre, SanitizerTypeOK, Loops
  <2>2. CASE At("string", {"bel"}) /\ GoTo("main")
    <3>1. SanitizerTypeOK'
      BY <2>2, GoToType DEF At, Loops
    <3> QED BY <2>2, <3>1 DEF At, GoTo, WhereLoopsAre, SanitizerTypeOK
  <2>3. CASE At("string", Rune \ {"bel"}) /\ GoTo(IF Terminator THEN "last" ELSE "string")
    <3>1. SanitizerTypeOK'
      BY <2>3, GoToType DEF At, Loops
    <3>2. CASE Terminator
      BY <2>3, <3>1, <3>2 DEF At, GoTo, Terminator, WhereLoopsAre, BackslashAhead, SanitizerTypeOK
    <3>3. CASE ~Terminator
      BY <2>3, <3>1, <3>3 DEF At, GoTo, Terminator, WhereLoopsAre, BackslashAhead, SanitizerTypeOK
    <3> QED BY <3>2, <3>3
  <2> QED BY <1>8, <2>1, <2>2, <2>3 DEF skipStringControl
<1>9. CASE SkipLast
  <2>1. SanitizerTypeOK'
    BY <1>9, GoToType DEF SkipLast, At, Loops
  <2> QED BY <1>9, <2>1 DEF SkipLast, At, GoTo, WhereLoopsAre, SanitizerTypeOK
<1>10. CASE Return
  <2>1. PICK k \in 0 .. Len(out) : out' = SubSeq(out, 1, k)
    BY <1>10 DEF Return
  <2>2. out' \in Seq(Rune \ Controls)
    BY <2>1, SubSeqProperties DEF SanitizerTypeOK
  <2> QED BY <1>10, <2>2 DEF Return, WhereLoopsAre, SanitizerTypeOK
<1>11. CASE UNCHANGED sanitizerVars
  BY <1>11 DEF sanitizerVars, WhereLoopsAre, BackslashAhead, SanitizerTypeOK
<1> QED
  BY <1>1, <1>2, <1>3, <1>4, <1>5, <1>6, <1>7, <1>8, <1>9, <1>10, <1>11
  DEF SanitizerNext, SanitizerStep

-----------------------------------------------------------------------------
(* The sanitizer against the terminal.  Each step is a stutter or what the *)
(* terminal does with one rune: only the last step of a text, which takes  *)
(* the blanks off, is of another kind.                                     *)

LEMMA SameRunes ==
    /\ Reader!Rune = Rune /\ Reader!Controls = Controls /\ Reader!Final = Final
    /\ \A s, k : Reader!EndsAt(s, k) = EndsAt(s, k)
BY DEF Reader!Rune, Reader!Controls, Reader!Final, Reader!Handle, Reader!EndsAt,
       Rune, Controls, Final, Handle, EndsAt

\* Skipping a rune is reading it, if the loop it leads to is the terminal's
\* next mode and the rune is not shown.
LEMMA GoToReads ==
    ASSUME SanitizerInv, pc # "done", i =< Len(text), NEW loop \in Loops, GoTo(loop),
           Mode = "text" => text[i] \in Controls,
           i < Len(text) => Mode' = Reader!NextMode(Mode, text[i])
    PROVE  Reader!Read
<1>1. Mode \notin {"over", "end"}
  BY DEF Mode, SanitizerInv, SanitizerTypeOK, Loops
<1>2. Mode' = Reader!ModeAt(text, i + 1, Reader!NextMode(Mode, text[i]))
  <2>1. CASE i < Len(text)
    BY <2>1 DEF Reader!ModeAt, SanitizerInv, SanitizerTypeOK
  <2>2. CASE i = Len(text)
    BY <2>2 DEF Reader!ModeAt, Mode, GoTo, SanitizerInv, SanitizerTypeOK, Loops
  <2> QED BY <2>1, <2>2 DEF SanitizerInv, SanitizerTypeOK
<1> QED BY <1>1, <1>2, SameRunes DEF Reader!Read, GoTo

LEMMA SkipEscapeReads ==
    ASSUME SanitizerInv, SanitizerInv', skipEscape PROVE Reader!Read
<1> USE DEF SanitizerInv
<1>1. pc = "switch" /\ i =< Len(text) /\ Mode = "esc"
  BY DEF skipEscape, At, Mode
<1>2. PICK loop \in Loops :
        /\ GoTo(loop)
        /\ loop = CASE text[i] = "[" -> "csi" [] text[i] = "]" -> "string"
                    [] text[i] = "(" -> IF i < Len(text) THEN "last" ELSE "main"
                    [] OTHER -> "main"
  BY DEF skipEscape, Loops
<1>3. ASSUME i < Len(text) PROVE Mode' = Reader!NextMode("esc", text[i])
  <2>1. pc' = loop /\ i' - 1 = i /\ i' =< Len(text') /\ text' = text
    BY <1>2, <1>3 DEF GoTo, SanitizerTypeOK
  <2> QED BY <1>2, <1>3, <2>1 DEF Mode, Reader!NextMode
<1> QED BY <1>1, <1>2, <1>3, GoToReads

LEMMA SkipStringReads ==
    ASSUME SanitizerInv, SanitizerInv', skipStringControl, ~NothingEnds("string")
    PROVE  Reader!Read
<1> USE DEF SanitizerInv
<1>1. pc = "string" /\ i =< Len(text) /\ text[i] \in Rune /\ i > 1
      /\ Mode = IF text[i - 1] = "esc" THEN "string_esc" ELSE "string"
  BY Classes DEF skipStringControl, At, Mode, WhereLoopsAre, SanitizerTypeOK, Controls
<1>2. CASE text[i] = "bel"
  <2>1. GoTo("main")
    BY <1>2 DEF skipStringControl, At
  <2>2. i < Len(text) => Mode' = "text"
    BY <2>1 DEF GoTo, Mode, SanitizerTypeOK
  <2> QED BY <1>1, <1>2, <2>1, <2>2, GoToReads DEF Reader!NextMode, Loops
<1>3. CASE Terminator
  <2>1. GoTo("last") /\ text[i] = "esc"
    BY <1>3 DEF skipStringControl, At, Terminator
  <2>2. i < Len(text) => Mode' = "string_esc"
    BY <2>1 DEF GoTo, Mode, SanitizerTypeOK
  <2> QED BY <1>1, <2>1, <2>2, GoToReads DEF Reader!NextMode, Loops
<1>4. CASE text[i] # "bel" /\ ~Terminator
  <2>1. GoTo("string")
    BY <1>4 DEF skipStringControl, At
  <2>2. i < Len(text) => Mode' = IF text[i] = "esc" THEN "string_esc" ELSE "string"
    BY <2>1 DEF GoTo, Mode, SanitizerTypeOK
  <2>3. text[i - 1] = "esc" => text[i] # "\\"
    BY <1>1 DEF WhereLoopsAre, BackslashAhead
  <2> QED BY <1>1, <1>4, <2>1, <2>2, <2>3, GoToReads DEF Reader!NextMode, Loops
<1> QED BY <1>2, <1>3, <1>4 DEF Terminator

LEMMA SanitizerStepReads ==
    SanitizerInv /\ SanitizerInv' /\ [SanitizerNext]_sanitizerVars => [Reader!Next]_(Reader!vars)
<1> SUFFICES ASSUME SanitizerInv, SanitizerInv', [SanitizerNext]_sanitizerVars
             PROVE  [Reader!Next]_(Reader!vars)
  OBVIOUS
<1> USE DEF SanitizerInv
<1>1. CASE text' \in Seq(Rune) /\ SanitizeUserText(text')
  <2>1. Mode = "end" /\ Mode' = Reader!ModeAt(text', 1, "text")
    BY <1>1 DEF SanitizeUserText, Mode, Reader!ModeAt, SanitizerTypeOK
  <2> QED BY <1>1, <2>1, SameRunes DEF SanitizeUserText, Reader!NewText, Reader!Next
<1>2. CASE Escape
  <2>1. pc = "main" /\ i =< Len(text) /\ text[i] = "esc" /\ Mode = "text"
        /\ GoTo(IF i = Len(text) THEN "main" ELSE "switch")
    BY <1>2 DEF Escape, At, Mode
  <2>2. i < Len(text) => Mode' = "esc"
    BY <2>1 DEF GoTo, Mode, SanitizerTypeOK
  <2>3. Reader!Read
    BY <2>1, <2>2, GoToReads DEF Reader!NextMode, Loops, Controls
  <2> QED BY <2>3 DEF Reader!Next
<1>3. CASE ControlSequence
  <2>1. pc = "main" /\ i =< Len(text) /\ text[i] = "csi8" /\ Mode = "text" /\ GoTo("csi")
    BY <1>3 DEF ControlSequence, At, Mode
  <2>2. i < Len(text) => Mode' = "csi"
    BY <2>1 DEF GoTo, Mode, SanitizerTypeOK
  <2>3. Reader!Read
    BY <2>1, <2>2, GoToReads DEF Reader!NextMode, Loops, Controls
  <2> QED BY <2>3 DEF Reader!Next
<1>4. CASE Drop
  <2>1. pc = "main" /\ i =< Len(text) /\ text[i] \in Controls \ {"esc", "csi8"}
        /\ Mode = "text" /\ GoTo("main")
    BY <1>4 DEF Drop, At, Mode
  <2>2. i < Len(text) => Mode' = "text"
    BY <2>1 DEF GoTo, Mode, SanitizerTypeOK
  <2>3. Reader!Read
    BY <2>1, <2>2, GoToReads DEF Reader!NextMode, Loops
  <2> QED BY <2>3 DEF Reader!Next
<1>5. CASE Keep
  <2>1. pc = "main" /\ i =< Len(text) /\ text[i] \notin Controls /\ Mode = "text"
    BY <1>5 DEF Keep, At, Mode
  <2>2. Reader!NextMode("text", text[i]) = "text"
    BY <2>1 DEF Reader!NextMode, Controls
  <2>3. Mode' = Reader!ModeAt(text, i + 1, "text")
    BY <1>5, <2>1 DEF Keep, Mode, Reader!ModeAt, SanitizerTypeOK
  <2> QED BY <1>5, <2>1, <2>2, <2>3, SameRunes DEF Keep, Reader!Read, Reader!Next
<1>6. CASE skipEscape
  BY <1>6, SkipEscapeReads DEF Reader!Next
<1>7. CASE skipControlSequence
  <2>1. CASE NothingEnds("csi")
    BY <2>1 DEF NothingEnds, Mode, Reader!vars, SanitizerTypeOK
  <2>2. ASSUME NEW loop \in {"main", "csi"}, At("csi", Rune), GoTo(loop),
               loop = IF text[i] \in Final THEN "main" ELSE "csi"
        PROVE  Reader!Read
    <3>1. pc = "csi" /\ i =< Len(text) /\ Mode = "csi"
      BY <2>2 DEF At, Mode
    <3>2. i < Len(text) => Mode' = IF text[i] \in Final THEN "text" ELSE "csi"
      BY <2>2 DEF GoTo, Mode, SanitizerTypeOK
    <3> QED BY <2>2, <3>1, <3>2, GoToReads, SameRunes DEF Reader!NextMode, Loops
  <2> QED BY <1>7, <2>1, <2>2, Classes DEF skipControlSequence, At, Reader!Next
<1>8. CASE skipStringControl
  <2>1. CASE NothingEnds("string")
    BY <2>1 DEF NothingEnds, Mode, Reader!vars, SanitizerTypeOK
  <2> QED BY <1>8, <2>1, SkipStringReads DEF Reader!Next
<1>9. CASE SkipLast
  <2>1. pc = "last" /\ i =< Len(text) /\ GoTo("main")
        /\ Mode = (IF text[i - 1] = "(" THEN "charset" ELSE "string_esc")
        /\ (text[i - 1] = "(" \/ text[i] = "\\")
    BY <1>9 DEF SkipLast, At, Mode, WhereLoopsAre, BackslashAhead
  <2>2. i < Len(text) => Mode' = "text"
    BY <2>1 DEF GoTo, Mode, SanitizerTypeOK
  <2>3. Reader!Read
    BY <2>1, <2>2, GoToReads DEF Reader!NextMode, Loops
  <2> QED BY <2>3 DEF Reader!Next
<1>10. CASE Return
  <2>1. Mode = "over" /\ Mode' = "end"
    BY <1>10 DEF Return, Mode, SanitizerTypeOK
  <2> QED BY <1>10, <2>1, SameRunes DEF Return, Reader!End, Reader!Next
<1>11. CASE UNCHANGED sanitizerVars
  BY <1>11 DEF sanitizerVars, Mode, Reader!vars
<1> QED
  BY <1>1, <1>2, <1>3, <1>4, <1>5, <1>6, <1>7, <1>8, <1>9, <1>10, <1>11
  DEF SanitizerNext, SanitizerStep

\* Whatever the text and however long, what the sanitizer leaves of it is what
\* a terminal shows of it (types.go:98-181).
THEOREM TextIsReadAlike == SanitizerSpec => SanitizedAsRead
<1>1. SanitizerInit => Reader!Init
  BY DEF SanitizerInit, Reader!Init, Mode
<1> QED
  BY <1>1, SanitizerInitInv, SanitizerStepInv, SanitizerStepReads, PTL
  DEF SanitizerSpec, SanitizedAsRead, Reader!Spec

-----------------------------------------------------------------------------
(* Cleaning twice.  A clean text never leaves the main loop, which copies   *)
(* it rune by rune.                                                        *)
CopiedSoFar ==
    IsClean(text) =>
        /\ pc \in {"main", "done"}
        /\ pc = "main" => out = SubSeq(text, 1, i - 1)
        /\ pc = "done" => out = text

CleanedInv == (pc = "done" => IsClean(out)) /\ CopiedSoFar

LEMMA CleanedInit == SanitizerInit => CleanedInv
BY DEF SanitizerInit, CleanedInv, CopiedSoFar, IsClean

\* One more rune of a copy.
LEMMA CopyGrows ==
    ASSUME NEW s \in Seq(Rune), NEW k \in 1 .. Len(s)
    PROVE  Append(SubSeq(s, 1, k - 1), s[k]) = SubSeq(s, 1, k)
BY AppendProperties, SubSeqProperties

LEMMA CleanedStep ==
    SanitizerInv /\ CleanedInv /\ [SanitizerNext]_sanitizerVars => CleanedInv'
<1> SUFFICES ASSUME SanitizerInv, CleanedInv, [SanitizerNext]_sanitizerVars
             PROVE  CleanedInv'
  OBVIOUS
<1> USE DEF SanitizerInv, CleanedInv
<1>1. CASE text' \in Seq(Rune) /\ SanitizeUserText(text')
  <2>1. SubSeq(text', 1, 1 - 1) = <<>>
    BY <1>1, SubSeqProperties
  <2> QED BY <1>1, <2>1 DEF SanitizeUserText, CopiedSoFar
<1>2. ASSUME pc' # "done", text' = text, ~IsClean(text) PROVE CleanedInv'
  BY <1>2 DEF CopiedSoFar
<1>3. ASSUME pc = "main", i =< Len(text), text[i] \in Controls PROVE ~IsClean(text)
  BY <1>3 DEF IsClean, SanitizerTypeOK
<1>4. CASE Escape \/ ControlSequence \/ Drop
  <2>1. pc' # "done" /\ text' = text /\ pc = "main" /\ i =< Len(text) /\ text[i] \in Controls
    BY <1>4 DEF Escape, ControlSequence, Drop, At, GoTo, Controls
  <2> QED BY <1>2, <1>3, <2>1
<1>5. CASE skipEscape \/ skipControlSequence \/ skipStringControl \/ SkipLast
  <2>1. pc' # "done" /\ text' = text /\ pc \notin {"main", "done"}
    BY <1>5 DEF skipEscape, skipControlSequence, skipStringControl, SkipLast, At, GoTo, NothingEnds
  <2> QED BY <1>2, <2>1 DEF CopiedSoFar
<1>6. CASE Keep
  <2>1. pc = "main" /\ pc' = "main" /\ text' = text /\ i \in 1 .. Len(text) /\ i' - 1 = i
        /\ out' = Append(out, text[i])
    BY <1>6 DEF Keep, At, SanitizerTypeOK
  <2>2. Append(SubSeq(text, 1, i - 1), text[i]) = SubSeq(text, 1, i)
    BY <2>1, CopyGrows DEF SanitizerTypeOK
  <2> QED BY <2>1, <2>2 DEF CopiedSoFar
<1>7. CASE Return
  <2>1. PICK k \in 0 .. Len(out) : EndsAt(out, k) /\ out' = SubSeq(out, 1, k)
    BY <1>7 DEF Return
  <2>2. out' \in Seq(Rune \ Controls) /\ Len(out') = k
        /\ \A j \in 1 .. k : out'[j] = out[j]
    BY <2>1, SubSeqProperties DEF SanitizerTypeOK
  <2>3. IsClean(out')
    BY <2>1, <2>2 DEF IsClean, EndsAt
  <2>4. ASSUME IsClean(text) PROVE out' = text
    <3>1. out = text
      <4>1. out = SubSeq(text, 1, Len(text))
        BY <1>7, <2>4 DEF Return, CopiedSoFar, SanitizerTypeOK
      <4> QED BY <4>1, SubSeqProperties DEF SanitizerTypeOK
    <3>2. k = Len(text)
      <4>1. CASE k < Len(text)
        <5>1. Len(text) \in k + 1 .. Len(out) /\ text # <<>>
          BY <3>1, <4>1 DEF SanitizerTypeOK
        <5>2. text[Len(text)] = "blank"
          BY <2>1, <3>1, <5>1 DEF EndsAt
        <5> QED BY <2>4, <5>1, <5>2 DEF IsClean
      <4> QED BY <3>1, <4>1 DEF SanitizerTypeOK
    <3> QED BY <2>1, <3>1, <3>2, SubSeqProperties DEF SanitizerTypeOK
  <2> QED BY <1>7, <2>3, <2>4 DEF Return, CopiedSoFar
<1>8. CASE UNCHANGED sanitizerVars
  BY <1>8 DEF sanitizerVars, CopiedSoFar
<1> QED
  BY <1>1, <1>4, <1>5, <1>6, <1>7, <1>8 DEF SanitizerNext, SanitizerStep

\* Cleaning a text once is enough: a message is cleaned in the composer and
\* again when it is stored, and the second time changes nothing but what the
\* cut in between has left (types.go:102-129, app.go:538, store.go:404).
THEOREM CleanedOnceForAll == SanitizerSpec => []CleanedOnce
<1>1. CleanedInv => CleanedOnce
  BY DEF CleanedInv, CopiedSoFar, CleanedOnce
<1> QED
  BY <1>1, SanitizerInitInv, SanitizerStepInv, CleanedInit, CleanedStep, PTL
  DEF SanitizerSpec

-----------------------------------------------------------------------------
(* Mentions.  Up to where the search has come, found are the handles       *)
(* mentioned before.                                                       *)
MentionsTypeOK ==
    /\ said \in Seq(Rune)
    /\ at \in 1 .. Len(said) + 1
    /\ found \in Seq(Seq(Rune))

FoundSoFar ==
    /\ {found[k] : k \in DOMAIN found} = Mentioned(lower, at)
    /\ \A j, k \in DOMAIN found : found[j] = found[k] => j = k

MentionsInv == MentionsTypeOK /\ FoundSoFar

LEMMA LoweredType ==
    ASSUME NEW s \in Seq(Rune)
    PROVE  Lowered(s) \in Seq(Rune) /\ Len(Lowered(s)) = Len(s)
<1>1. \A r \in Rune : LowerRune(r) \in Rune
  BY DEF LowerRune, Rune, Controls, Final, Handle
<1>2. Lowered(s) \in [1 .. Len(s) -> Rune]
  BY <1>1 DEF Lowered
<1> QED BY <1>2

LEMMA MentionedMember ==
    ASSUME NEW s, NEW to, NEW h
    PROVE  h \in Mentioned(s, to) <=>
             \E p \in 1 .. Len(s), n \in MinHandle .. MaxHandle :
                p < to /\ IsMatch(s, p, n) /\ h = HandleAt(s, p, n)
<1> DEFINE Matches == {m \in (1 .. Len(s)) \X (MinHandle .. MaxHandle) :
                         m[1] < to /\ IsMatch(s, m[1], m[2])}
<1>1. h \in Mentioned(s, to) <=> \E m \in Matches : h = HandleAt(s, m[1], m[2])
  BY DEF Mentioned
<1>2. ASSUME NEW m \in Matches, h = HandleAt(s, m[1], m[2])
      PROVE  \E p \in 1 .. Len(s), n \in MinHandle .. MaxHandle :
                p < to /\ IsMatch(s, p, n) /\ h = HandleAt(s, p, n)
  <2>1. m[1] \in 1 .. Len(s) /\ m[2] \in MinHandle .. MaxHandle
    OBVIOUS
  <2> QED BY <1>2, <2>1
<1>3. ASSUME NEW p \in 1 .. Len(s), NEW n \in MinHandle .. MaxHandle,
             p < to, IsMatch(s, p, n), h = HandleAt(s, p, n)
      PROVE  \E m \in Matches : h = HandleAt(s, m[1], m[2])
  <2>1. <<p, n>> \in Matches
    BY <1>3
  <2> QED BY <1>3, <2>1
<1> QED BY <1>1, <1>2, <1>3

\* A match is as long as it can be, so there is one at most at a place.
LEMMA OneMatch ==
    ASSUME NEW s \in Seq(Rune), NEW p \in 1 .. Len(s),
           NEW n \in Nat, NEW m \in Nat, IsMatch(s, p, n), IsMatch(s, p, m)
    PROVE  n = m
<1>0. MinHandle \in Nat /\ MaxHandle \in Nat
  BY MentionsAssumption DEF MentionsAssumption
<1>1. ASSUME NEW x \in Nat, NEW y \in Nat, x < y, IsMatch(s, p, x), IsMatch(s, p, y) PROVE FALSE
  <2>1. x < MaxHandle /\ p + x < Len(s) /\ p + x + 1 \in p + 1 .. p + y
    BY <1>0, <1>1 DEF IsMatch
  <2>2. s[p + x + 1] \in Handle
    BY <1>1, <2>1 DEF IsMatch
  <2> QED BY <1>1, <2>1, <2>2 DEF IsMatch
<1> QED BY <1>1

\* What a match takes holds no other mention: a handle has no @.
LEMMA NoneInside ==
    ASSUME NEW s \in Seq(Rune), NEW p \in 1 .. Len(s), NEW n \in Nat, IsMatch(s, p, n),
           NEW q \in p + 1 .. p + n
    PROVE  ~MentionAt(s, q)
<1>1. s[q] \in Handle
  BY DEF IsMatch
<1> QED BY <1>1 DEF MentionAt, IsMatch, Handle

LEMMA MentionedGrows ==
    ASSUME NEW s \in Seq(Rune), NEW from \in 1 .. Len(s) + 1,
           NEW p \in from .. Len(s), NEW n \in MinHandle .. MaxHandle, IsMatch(s, p, n),
           \A q \in from .. p - 1 : ~MentionAt(s, q)
    PROVE  Mentioned(s, p + n + 1) = Mentioned(s, from) \union {HandleAt(s, p, n)}
<1>0. MinHandle \in Nat \ {0} /\ MaxHandle \in Nat
  BY MentionsAssumption DEF MentionsAssumption
<1>1. ASSUME NEW h \in Mentioned(s, p + n + 1) PROVE h \in Mentioned(s, from) \union {HandleAt(s, p, n)}
  <2>1. PICK q \in 1 .. Len(s), m \in MinHandle .. MaxHandle :
           q < p + n + 1 /\ IsMatch(s, q, m) /\ h = HandleAt(s, q, m)
    BY MentionedMember
  <2>2. CASE q < from
    BY <2>1, <2>2, MentionedMember
  <2>3. CASE q \in from .. p - 1
    BY <2>1, <2>3 DEF MentionAt
  <2>4. CASE q = p
    <3>1. m = n
      BY <1>0, <2>1, <2>4, OneMatch
    <3> QED BY <2>1, <2>4, <3>1
  <2>5. CASE q \in p + 1 .. p + n
    <3>1. ~MentionAt(s, q)
      BY <1>0, <2>5, NoneInside
    <3> QED BY <2>1, <3>1 DEF MentionAt
  <2> QED BY <1>0, <2>1, <2>2, <2>3, <2>4, <2>5
<1>2. ASSUME NEW h \in Mentioned(s, from) PROVE h \in Mentioned(s, p + n + 1)
  <2>1. PICK q \in 1 .. Len(s), m \in MinHandle .. MaxHandle :
           q < from /\ IsMatch(s, q, m) /\ h = HandleAt(s, q, m)
    BY MentionedMember
  <2>2. q < p + n + 1
    BY <1>0, <2>1
  <2> QED BY <2>1, <2>2, MentionedMember
<1>3. HandleAt(s, p, n) \in Mentioned(s, p + n + 1)
  <2>1. p < p + n + 1 /\ p \in 1 .. Len(s)
    BY <1>0
  <2> QED BY <2>1, MentionedMember
<1> QED BY <1>1, <1>2, <1>3

LEMMA MentionsInitInv == MentionsInit => MentionsInv
<1> SUFFICES ASSUME MentionsInit PROVE MentionsInv
  OBVIOUS
<1>1. MentionsTypeOK
  BY DEF MentionsInit, MentionsTypeOK
<1>2. \A h : h \notin Mentioned(lower, at)
  <2>1. lower \in Seq(Rune) /\ Len(lower) = 0
    BY <1>1, LoweredType DEF lower, MentionsInit, MentionsTypeOK
  <2> QED BY <2>1, MentionedMember
<1> QED BY <1>1, <1>2 DEF MentionsInit, MentionsInv, FoundSoFar

LEMMA MentionsStepInv == MentionsInv /\ [MentionsNext]_mentionVars => MentionsInv'
<1> SUFFICES ASSUME MentionsInv, [MentionsNext]_mentionVars PROVE MentionsInv'
  OBVIOUS
<1> USE DEF MentionsInv
<1>1. CASE said' \in Seq(Rune) /\ ParseMentions(said')
  <2>1. MentionsTypeOK'
    BY <1>1 DEF ParseMentions, MentionsTypeOK
  <2>2. \A h : h \notin Mentioned(lower', 1)
    BY MentionedMember
  <2> QED BY <1>1, <2>1, <2>2 DEF ParseMentions, FoundSoFar
<1>2. CASE NextMatch
  <2>1. PICK p \in at .. Len(lower), n \in MinHandle .. MaxHandle :
          /\ IsMatch(lower, p, n)
          /\ \A q \in at .. p - 1 : ~MentionAt(lower, q)
          /\ at' = p + n + 1
          /\ found' = AddNew(HandleAt(lower, p, n))
          /\ UNCHANGED said
    BY <1>2 DEF NextMatch
  <2> DEFINE h == HandleAt(lower, p, n)
  <2>2. lower \in Seq(Rune) /\ Len(lower) = Len(said) /\ lower' = lower
    BY <2>1, LoweredType DEF MentionsTypeOK, lower
  <2>3. p \in 1 .. Len(lower) /\ n \in Nat \ {0} /\ p + n =< Len(lower)
    BY <2>1, <2>2, MentionsAssumption DEF MentionsTypeOK, IsMatch, MentionsAssumption
  <2>4. h \in Seq(Rune)
    BY <2>2, <2>3, SubSeqProperties DEF HandleAt
  <2>5. MentionsTypeOK'
    <3>1. found' \in Seq(Seq(Rune))
      BY <2>1, <2>4, AppendProperties DEF AddNew, MentionsTypeOK
    <3> QED BY <2>1, <2>2, <2>3, <3>1 DEF MentionsTypeOK
  <2>6. Mentioned(lower, p + n + 1) = Mentioned(lower, at) \union {h}
    BY <2>1, <2>2, MentionedGrows DEF MentionsTypeOK
  <2>7. /\ {found'[k] : k \in DOMAIN found'} = {found[k] : k \in DOMAIN found} \union {h}
        /\ \A j, k \in DOMAIN found' : found'[j] = found'[k] => j = k
    <3>1. CASE \E k \in DOMAIN found : found[k] = h
      BY <2>1, <3>1 DEF AddNew, FoundSoFar
    <3>2. CASE ~\E k \in DOMAIN found : found[k] = h
      <4>1. found' = Append(found, h)
        BY <2>1, <3>2 DEF AddNew
      <4>2. /\ DOMAIN found' = DOMAIN found \union {Len(found) + 1}
            /\ \A k \in DOMAIN found : found'[k] = found[k]
            /\ found'[Len(found) + 1] = h
            /\ Len(found) + 1 \notin DOMAIN found
        BY <2>4, <4>1 DEF MentionsTypeOK
      <4> HIDE DEF h
      <4> QED BY <3>2, <4>2 DEF FoundSoFar
    <3> QED BY <3>1, <3>2
  <2> QED BY <2>1, <2>2, <2>5, <2>6, <2>7 DEF FoundSoFar
<1>3. CASE UNCHANGED mentionVars
  BY <1>3 DEF mentionVars, MentionsTypeOK, FoundSoFar, lower
<1> QED BY <1>1, <1>2, <1>3 DEF MentionsNext

\* Whatever the text and the lengths of handles: the handles that are found are
\* those mentioned anywhere in it, in any case, each once (store.go:868-882).
THEOREM AllMentionsFound == MentionsSpec => []MentionsFound
<1>1. MentionsInv => MentionsFound
  <2> SUFFICES ASSUME MentionsInv, Parsed
               PROVE  /\ {found[k] : k \in DOMAIN found} = Mentioned(Lowered(said), Len(said) + 1)
                      /\ \A j, k \in DOMAIN found : found[j] = found[k] => j = k
    BY DEF MentionsFound
  <2>1. lower \in Seq(Rune) /\ Len(lower) = Len(said) /\ lower = Lowered(said)
    BY LoweredType DEF MentionsInv, MentionsTypeOK, lower
  <2>2. ASSUME NEW h PROVE h \in Mentioned(lower, at) <=> h \in Mentioned(lower, Len(said) + 1)
    <3>1. ASSUME NEW p \in 1 .. Len(lower), NEW n \in MinHandle .. MaxHandle, IsMatch(lower, p, n)
          PROVE  p < at /\ p < Len(said) + 1
      BY <2>1, <3>1 DEF MentionsInv, MentionsTypeOK, Parsed, MentionAt
    <3> QED BY <3>1, MentionedMember
  <2> QED BY <2>1, <2>2 DEF MentionsInv, FoundSoFar
<1> QED BY <1>1, MentionsInitInv, MentionsStepInv, PTL DEF MentionsSpec
=============================================================================

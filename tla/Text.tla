------------------------------- MODULE Text ---------------------------------
(***************************************************************************)
(* What happens to the text a user types: it is cleaned of control         *)
(* sequences, cut to a size in bytes, searched for the handles it mentions, *)
(* cleaned and cut once more when it is stored, and highlighted when it is *)
(* shown (src/internal/tui/app.go, commands.go,                            *)
(* src/internal/store/store.go).  The two loops are those of Sanitizer and *)
(* Mentions.                                                               *)
(*                                                                         *)
(* A rune is one of the classes of Runes; Go strings are sequences of      *)
(* bytes, the k-th byte of rune r being <<r, k>>.                          *)
(*                                                                         *)
(* Definitions named X_Variant stand before X and are used by nothing here:*)
(* they are the mistakes a property is shown to detect when one replaces X.*)
(***************************************************************************)
EXTENDS Sanitizer, Mentions, FiniteSets, SequencesExt

CONSTANTS Inputs,        \* BOUND: records [call, runes, length], what each call is given
          MaxBody,       \* bytes of a message (2000)
          MaxTopic       \* bytes of a topic (200)

ASSUME TextAssumption ==
    /\ \A input \in Inputs : input.length \in Nat /\ input.runes \subseteq Rune
    /\ MaxBody \in Nat /\ MaxTopic \in Nat

VARIABLES stage,      \* what is done with the text, or "idle"
          clean,      \* history: what the composer's text was cleaned to
          body,       \* the body that is sent, then stored, in bytes
          mentioned   \* the handles that are notified

message == <<stage, clean, body, mentioned>>
vars == <<message, sanitizerVars, mentionVars>>

-----------------------------------------------------------------------------
(* Runes and bytes                                                         *)

Width(r) ==
    CASE r \in {"wide", "bad", "grown", "Shrink"} -> 3
      [] r \in {"csi8", "Grow"} -> 2
      [] OTHER -> 1
MaxWidth == 3

Bytes(r) == [k \in 1 .. Width(r) |-> <<r, k>>]
Encode(s) == FlattenSeq([k \in DOMAIN s |-> Bytes(s[k])])

\* []rune(b): a byte that begins no whole rune becomes U+FFFD.
RECURSIVE Decode(_)
Decode(b) ==
    IF b = <<>> THEN <<>>
    ELSE IF IsPrefix(Bytes(b[1][1]), b)
         THEN <<b[1][1]>> \o Decode(SubSeq(b, Width(b[1][1]) + 1, Len(b)))
         ELSE <<"bad">> \o Decode(Tail(b))

\* strings.ToLower
Lower(b) == Encode(Lowered(Decode(b)))

\* b[:n], if there is more.
Truncate_OneMore(b, n) == SubSeq(b, 1, IF Len(b) =< n THEN Len(b) ELSE n + 1)
Truncate(b, n) == SubSeq(b, 1, IF Len(b) =< n THEN Len(b) ELSE n)

-----------------------------------------------------------------------------
(* Highlighting                                                            *)

\* The code before and after a highlighted mention; "self" before one's own.
Mark(m) == <<m, 1>>
Marks == {Mark("on"), Mark("self"), Mark("off")}

\* A slice out of range: the program panics.
Panicked == <<<<"panic", 1>>>>

\* The places where needle is found.  It begins with an @ and has no other, so
\* they do not overlap.
Places_FirstOnly(b, needle) ==
    LET all == {k \in 1 .. Len(b) - Len(needle) + 1 : SubSeq(b, k, k + Len(needle) - 1) = needle}
    IN  {k \in all : \A j \in all : k =< j}
Places(b, needle) ==
    {k \in 1 .. Len(b) - Len(needle) + 1 : SubSeq(b, k, k + Len(needle) - 1) = needle}

\* All of one handle.  The places are those in the lower-case text.
Needle(h) == Encode(<<"@">> \o h)

HighlightOne(b, h, selfHandle) ==
    LET size == Len(Needle(h))
        starts == Places(Lower(b), Needle(h))
        before == IF h = selfHandle THEN Mark("self") ELSE Mark("on")
        Around(k) == (IF k \in starts THEN <<before>> ELSE <<>>)
                     \o <<b[k]>>
                     \o (IF k - size + 1 \in starts THEN <<Mark("off")>> ELSE <<>>)
    IN  IF \E k \in starts : k + size - 1 > Len(b) THEN Panicked
        ELSE FlattenSeq([k \in DOMAIN b |-> Around(k)])

\* The handles are those ParseMentions has found in the body.
highlightMentions_Once(b, selfHandle) ==
    IF found = <<>> THEN b ELSE HighlightOne(b, found[1], selfHandle)
highlightMentions(b, selfHandle) ==
    LET Highlight(shown, h) == IF shown = Panicked THEN shown ELSE HighlightOne(shown, h, selfHandle)
    IN  FoldLeft(Highlight, b, found)

-----------------------------------------------------------------------------
(* The calls                                                               *)

Texts(call) ==
    UNION {UNION {[1 .. n -> input.runes] : n \in 0 .. input.length} :
             input \in {input \in Inputs : input.call = call}}

Init ==
    /\ stage = "idle"
    /\ clean = <<>>
    /\ body = <<>>
    /\ mentioned = <<>>
    /\ SanitizerInit
    /\ MentionsInit

\* updateChat, on enter; the text has no blanks around it (strings.TrimSpace).
Compose ==
    /\ stage = "idle"
    /\ stage' = "composed"
    /\ \E s \in Texts("send") :
         /\ s # <<>> => s[1] # "blank" /\ s[Len(s)] # "blank"
         /\ SanitizeUserText(s)
    /\ UNCHANGED <<clean, body, mentioned, mentionVars>>

\* sendCurrent: cut, then parsed.
sendCurrent_ParsedFirst ==
    /\ stage = "composed"
    /\ pc = "done"
    /\ out # <<>>
    /\ clean' = out
    /\ body' = Truncate(Encode(out), MaxBody)
    /\ ParseMentions(out)
    /\ stage' = "sent"
    /\ UNCHANGED <<mentioned, sanitizerVars>>
sendCurrent ==
    /\ stage = "composed"
    /\ pc = "done"
    /\ out # <<>>
    /\ clean' = out
    /\ body' = Truncate(Encode(out), MaxBody)
    /\ ParseMentions(Decode(body'))
    /\ stage' = "sent"
    /\ UNCHANGED <<mentioned, sanitizerVars>>

\* InsertRoomMessage; InsertDM is the same, without mentions.
InsertRoomMessage ==
    /\ stage = "sent"
    /\ Parsed
    /\ mentioned' = found
    /\ SanitizeUserText(Decode(body))
    /\ stage' = "inserting"
    /\ UNCHANGED <<clean, body, mentionVars>>

Store ==
    /\ stage = "inserting"
    /\ pc = "done"
    /\ out # <<>>
    /\ body' = Truncate(Encode(out), MaxBody)
    /\ stage' = "stored"
    /\ UNCHANGED <<clean, mentioned, sanitizerVars, mentionVars>>

\* A stored body is shown.
View ==
    /\ stage = "stored"
    /\ ParseMentions(Decode(body))
    /\ stage' = "shown"
    /\ UNCHANGED <<clean, body, mentioned, sanitizerVars>>

\* A body of any length, stored before.
Load ==
    /\ stage = "idle"
    /\ \E s \in Texts("show") : body' = Encode(s)
    /\ stage' = "stored"
    /\ UNCHANGED <<clean, mentioned, sanitizerVars, mentionVars>>

\* /topic: cut, then cleaned by SetTopic.
SetTopic ==
    /\ stage = "idle"
    /\ \E s \in Texts("topic") : SanitizeUserText(Decode(Truncate(Encode(s), MaxTopic)))
    /\ stage' = "topic"
    /\ UNCHANGED <<clean, body, mentioned, mentionVars>>

Clean == SanitizerStep /\ UNCHANGED <<message, mentionVars>>
Match == NextMatch /\ UNCHANGED <<message, sanitizerVars>>

Next ==
    \/ Compose \/ sendCurrent \/ InsertRoomMessage \/ Store
    \/ SetTopic
    \/ Load \/ View
    \/ Clean \/ Match

Spec == Init /\ [][Next]_vars

-----------------------------------------------------------------------------
(* Properties                                                              *)

\* A text that has been through the composer.
Sent == clean # <<>>

\* Cutting at a byte may cut a rune in two.  A stored body fits, and reads as
\* the clean text up to the cut, and then as replacements for the bytes of one
\* rune, although it is cleaned and cut twice.  A topic, that is cut before it
\* is cleaned, may even be longer than its limit, by what replacements are
\* longer than the bytes they replace (app.go:577-579, store.go:404-410,
\* 462-468; commands.go:111-115, store.go:347-350).
CutsFit ==
    /\ stage = "stored" /\ Sent =>
         LET read == Decode(body)
             whole == SelectSeq(read, LAMBDA r : r # "bad")
         IN  /\ Len(body) =< MaxBody
             /\ IsPrefix(whole, clean) /\ IsPrefix(whole, read)
             /\ Len(read) - Len(whole) < MaxWidth
    /\ stage = "topic" /\ pc = "done" =>
         Len(Encode(out)) =< MaxTopic + (MaxWidth - 1) * (MaxWidth - 1)

\* Who is notified of a message are those whose mention is highlighted in it:
\* neither the cut nor the second cleaning takes a mention out of the body or
\* makes one of it, once the notified are known (app.go:577-593, 345,
\* store.go:404-410).
NotifiedAreShown == stage = "shown" /\ Sent /\ Parsed => mentioned = found

\* What is shown is in front of a reader once its mentions are known.
Shown == stage = "shown" /\ Parsed
ShownText == Decode(body)

\* Where a mention of h begins in s.
Begins(s, p, h) ==
    \E n \in MinHandle .. MaxHandle : IsMatch(s, p, n) /\ HandleAt(s, p, n) = h

KeepsWidth(s) == \A k \in DOMAIN s : Width(LowerRune(s[k])) = Width(s[k])

\* The marks that stand right before place p.
MarksBefore(b, p) ==
    {b[j] : j \in {k \in 1 .. p - 1 : \A l \in k .. p - 1 : b[l] \in Marks}}

Bare(b) == SelectSeq(b, LAMBDA y : y \notin Marks)
PlaceOf(b, p) == Len(Decode(Bare(SubSeq(b, 1, p))))

\* Highlighting adds marks and changes nothing else, and marks the @ of every
\* mention and no other.  Exception: letters whose lower case has another
\* width, after which places in the lower-case text are not those of the text
\* (app.go:344-376).
HighlightKeepsText ==
    Shown /\ KeepsWidth(ShownText) =>
        LET marked == highlightMentions(body, <<"a">>)
        IN  /\ marked # Panicked
            /\ Bare(marked) = body
            /\ Cardinality({k \in DOMAIN marked : marked[k] = Mark("off")})
                 = Cardinality({k \in DOMAIN marked : marked[k] \in Marks \ {Mark("off")}})
            /\ \A k \in DOMAIN marked : marked[k] = <<"@", 1>> =>
                 (MentionAt(lower, PlaceOf(marked, k))
                    <=> MarksBefore(marked, k) \ {Mark("off")} # {})

\* A user's own handle stands out wherever it is mentioned.  Exception: the
\* handle of another who is mentioned first begins it, and breaks it up
\* (app.go:344-376).
OwnMentionStandsOut ==
    Shown /\ KeepsWidth(ShownText) =>
        \A me \in {<<"a">>, <<"a", "a">>} :
            ~(\E j, k \in DOMAIN found : j < k /\ found[k] = me /\ IsPrefix(found[j], me)) =>
               LET marked == highlightMentions(body, me)
               IN  \A k \in DOMAIN marked : marked[k] = <<"@", 1>> =>
                     (Begins(lower, PlaceOf(marked, k), me)
                        => Mark("self") \in MarksBefore(marked, k))
=============================================================================

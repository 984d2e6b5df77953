------------------------------ MODULE Mentions ------------------------------
(***************************************************************************)
(* ParseMentions, one match of its regular expression at a time            *)
(* (src/internal/store/store.go:866-882).  It is called with any text, any *)
(* number of times.                                                        *)
(***************************************************************************)
EXTENDS Runes

CONSTANTS MinHandle,     \* 3
          MaxHandle      \* 20

ASSUME MentionsAssumption ==
    MinHandle \in Nat \ {0} /\ MaxHandle \in Nat /\ MinHandle =< MaxHandle

VARIABLES said,   \* the text, in runes
          at,     \* where FindAllStringSubmatch goes on
          found   \* out

mentionVars == <<said, at, found>>

\* strings.ToLower
LowerRune(r) ==
    CASE r = "A" -> "a" [] r = "Shrink" -> "a" [] r = "Grow" -> "grown" [] OTHER -> r
Lowered(s) == [k \in DOMAIN s |-> LowerRune(s[k])]

lower_CaseKept == said
lower == Lowered(said)

\* @([a-z0-9_-]{3,20}) matches at place p with a handle of n runes, as long as
\* it can be.
IsMatch(s, p, n) ==
    /\ n \in MinHandle .. MaxHandle
    /\ p + n =< Len(s)
    /\ s[p] = "@"
    /\ \A k \in p + 1 .. p + n : s[k] \in Handle
    /\ ~(n < MaxHandle /\ p + n < Len(s) /\ s[p + n + 1] \in Handle)

MentionAt(s, p) == \E n \in MinHandle .. MaxHandle : IsMatch(s, p, n)
HandleAt(s, p, n) == SubSeq(s, p + 1, p + n)

MentionsInit ==
    /\ said = <<>>
    /\ at = 1
    /\ found = <<>>

\* No more matches.
Parsed == \A p \in at .. Len(lower) : ~MentionAt(lower, p)

ParseMentions(s) ==
    /\ Parsed
    /\ said' = s
    /\ at' = 1
    /\ found' = <<>>

AddNew(h) == IF \E k \in DOMAIN found : found[k] = h THEN found ELSE Append(found, h)

NextMatch ==
    \E p \in at .. Len(lower), n \in MinHandle .. MaxHandle :
        /\ IsMatch(lower, p, n)
        /\ \A q \in at .. p - 1 : ~MentionAt(lower, q)
        /\ at' = p + n + 1
        /\ found' = AddNew(HandleAt(lower, p, n))
        /\ UNCHANGED said

MentionsNext == (said' \in Seq(Rune) /\ ParseMentions(said')) \/ NextMatch

MentionsSpec == MentionsInit /\ [][MentionsNext]_mentionVars

-----------------------------------------------------------------------------
(* Properties                                                              *)

\* The handles mentioned in s before place p.
Mentioned(s, p) ==
    {HandleAt(s, m[1], m[2]) :
        m \in {m \in (1 .. Len(s)) \X (MinHandle .. MaxHandle) :
                m[1] < p /\ IsMatch(s, m[1], m[2])}}

\* The handles are those that follow an @ anywhere in the text, in any case and
\* each once: what a match takes hides no other mention (store.go:868-882).
MentionsFound ==
    Parsed =>
        /\ {found[k] : k \in DOMAIN found} = Mentioned(Lowered(said), Len(said) + 1)
        /\ \A j, k \in DOMAIN found : found[j] = found[k] => j = k
=============================================================================

------------------------------- MODULE Runes --------------------------------
(***************************************************************************)
(* The classes of runes that the functions on user text tell apart         *)
(* (src/internal/domain/types.go, src/internal/store/store.go).            *)
(*                                                                         *)
(* "esc" is U+001B, "csi8" U+009B, "bel" U+0007, "ctl" any other control   *)
(* rune; "blank" a newline, a tab or a space; "]" also P, ^ and _; "(" also *)
(* ).  Of the printable ones "a" and "b" may be in a handle, "A" is an     *)
(* upper-case "a", "." is below 0x40 and not in handles, "wide" has three  *)
(* bytes.  "Grow" and "Shrink" are letters whose lower case has more, or   *)
(* fewer, bytes (U+023A, that becomes "grown"; U+212A, the Kelvin sign,    *)
(* that becomes an ASCII k).  "bad" is U+FFFD.                             *)
(***************************************************************************)
EXTENDS Integers, Sequences

Controls == {"esc", "csi8", "bel", "ctl"}
Handle == {"a", "b"}

\* 0x40 to 0x7e, where a control sequence ends.
Final == {"[", "\\", "]", "@", "a", "b", "A"}

Rune ==
    Controls \union Handle \union Final
      \union {"blank", "(", ".", "wide", "Grow", "grown", "Shrink", "bad"}

\* What strings.TrimRight keeps of s is its first k runes.
EndsAt(s, k) ==
    /\ k > 0 => s[k] # "blank"
    /\ \A j \in k + 1 .. Len(s) : s[j] = "blank"
=============================================================================

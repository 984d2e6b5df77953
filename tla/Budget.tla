------------------------------- MODULE Budget -------------------------------
(***************************************************************************)
(* What a rate limiter promises the code that asks it                      *)
(* (src/internal/rate/rate.go): every key has a credit that grows with     *)
(* time up to a full burst, a call is admitted when the credit covers it   *)
(* and then pays for it, and is refused only when the credit does not.     *)
(* How many buckets there are, when one is created and when an idle one is *)
(* swept cannot be seen from the answers, with one exception: a call that  *)
(* was waiting for its answer while its key had its whole credit may be    *)
(* "pardoned", answered from a bucket that is no longer the key's.         *)
(***************************************************************************)
EXTENDS Integers

CONSTANTS Callers,  \* goroutines that ask, one call at a time
          Keys,     \* user ids, fingerprints, addresses
          KeyOf,    \* the key each caller asks for
          Cap,      \* calls a full burst admits
          Per       \* clock ticks in which an empty credit fills up again

\* Units: a call costs Per, a tick brings Cap, and a full credit is Cap * Per.
Full == Cap * Per

VARIABLES credit,   \* [key -> credit]
          answer,   \* [caller -> the answer it got, or that it waits for one]
          pardoned  \* the callers that wait for an answer nobody pays for

vars == <<credit, answer, pardoned>>

Init ==
    /\ credit = [k \in Keys |-> Full]
    /\ answer = [c \in Callers |-> "none"]
    /\ pardoned = {}

Pending(K) == {c \in Callers : answer[c] = "pending" /\ KeyOf[c] \in K}

Ask(c) ==
    /\ answer[c] # "pending"
    /\ answer' = [answer EXCEPT ![c] = "pending"]
    /\ \E K \in SUBSET {k \in Keys : credit[k] = Full} :
          pardoned' = pardoned \union Pending(K)
    /\ UNCHANGED credit

Admit(c) ==
    /\ c \notin pardoned
    /\ answer[c] = "pending"
    /\ credit[KeyOf[c]] >= Per
    /\ credit' = [credit EXCEPT ![KeyOf[c]] = @ - Per]
    /\ answer' = [answer EXCEPT ![c] = "yes"]
    /\ UNCHANGED pardoned

Refuse(c) ==
    /\ c \notin pardoned
    /\ answer[c] = "pending"
    /\ credit[KeyOf[c]] < Per
    /\ answer' = [answer EXCEPT ![c] = "no"]
    /\ UNCHANGED <<credit, pardoned>>

Pardon(c) ==
    /\ c \in pardoned
    /\ \E a \in {"yes", "no"} : answer' = [answer EXCEPT ![c] = a]
    /\ pardoned' = pardoned \ {c}
    /\ UNCHANGED credit

Tick ==
    /\ credit' = [k \in Keys |-> IF credit[k] + Cap > Full THEN Full ELSE credit[k] + Cap]
    /\ UNCHANGED <<answer, pardoned>>

Next ==
    \/ \E c \in Callers : Ask(c) \/ Admit(c) \/ Refuse(c) \/ Pardon(c)
    \/ Tick

Spec == Init /\ [][Next]_vars
=============================================================================

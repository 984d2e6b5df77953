----------------------------- MODULE RateLimit ------------------------------
(***************************************************************************)
(* The token buckets behind both limits of the server                      *)
(* (src/internal/rate/rate.go): 20 connections a minute for an address,    *)
(* and a configured number of sends per 10 seconds for a user              *)
(* (src/internal/ssh/server.go).                                           *)
(*                                                                         *)
(* Limiter.Allow works in two steps.  Look is its section under Limiter.mu,*)
(* which sweeps buckets nobody asked for in a while and finds or creates   *)
(* the caller's; Take is Bucket.Allow, under the bucket's own mutex, after *)
(* Limiter.mu was released.  Other callers and the clock come in between.  *)
(*                                                                         *)
(* Tokens are counted in units that make refills whole: a call costs Per,  *)
(* a tick of the clock brings Cap, and a full bucket holds Cap * Per.      *)
(* Bucket.last is kept as the ticks gone by since.                         *)
(***************************************************************************)
EXTENDS Integers

CONSTANTS Callers,    \* goroutines that ask, one call at a time
          Keys,       \* "u:<id>", fingerprints, remote addresses
          KeyOf,      \* the key each caller asks for
          Buckets,    \* BOUND: buckets in memory at any time
          NoBucket,   \* no bucket
          Cap,        \* Limiter.cap: calls a full bucket admits
          Per,        \* Limiter.per, in ticks
          MaxLag,     \* BOUND: ticks between reading the clock and locking
          Watched,    \* the key whose answers the window counts
          MaxWindow   \* BOUND: ticks a window lasts

ASSUME RateAssumption ==
    /\ KeyOf \in [Callers -> Keys]
    /\ NoBucket \notin Buckets
    /\ Cap \in Nat \ {0}
    /\ Per \in Nat \ {0}
    /\ MaxLag \in Nat
    /\ Watched \in Keys
    /\ MaxWindow \in Nat

VARIABLES
    table,    \* Limiter.buckets: [key -> bucket or NoBucket]
    tokens,   \* Bucket.tokens: [bucket -> units]
    idle,     \* [bucket -> ticks since Bucket.last, up to what a sweep asks]
    held,     \* [caller -> the bucket it got and has not asked yet]
    answer    \* [caller -> what its last finished call returned]

\* History, read by properties only: what Watched was granted since some
\* moment, and how much of it came from buckets no longer in the table.
VARIABLES elapsed, count, strays

window == <<elapsed, count, strays>>
vars == <<table, tokens, idle, held, answer, elapsed, count, strays>>

Full == Cap * Per

IdleCap == 2 * Per + MaxLag + 1

TypeOK ==
    /\ table \in [Keys -> Buckets \union {NoBucket}]
    /\ tokens \in [Buckets -> 0 .. Full]
    /\ idle \in [Buckets -> 0 .. IdleCap]
    /\ held \in [Callers -> Buckets \union {NoBucket}]
    /\ answer \in [Callers -> {"none", "yes", "no"}]
    /\ elapsed \in 0 .. MaxWindow
    /\ count \in Nat
    /\ strays \in 0 .. count

Init ==
    /\ table = [k \in Keys |-> NoBucket]
    /\ tokens = [b \in Buckets |-> 0]
    /\ idle = [b \in Buckets |-> 0]
    /\ held = [c \in Callers |-> NoBucket]
    /\ answer = [c \in Callers |-> "none"]
    /\ elapsed = 0
    /\ count = 0
    /\ strays = 0

-----------------------------------------------------------------------------
(* The sweep                                                               *)

Stale_TooSoon(b, lag) == b # NoBucket /\ 2 * idle[b] >= Per + 2 * lag

\* idle > 2*l.per, by a clock read lag ticks before the lock was taken.
Stale(b, lag) == b # NoBucket /\ idle[b] > 2 * Per + lag

Kept(lag) == [k \in Keys |-> IF Stale(table[k], lag) THEN NoBucket ELSE table[k]]

\* Go collects a bucket that neither the table nor a caller refers to.
Unused(b) ==
    /\ \A k \in Keys : table[k] # b
    /\ \A c \in Callers : held[c] # b

Spare == CHOOSE b \in Buckets : Unused(b)

\* The ticks since b was last asked; for one collected, none.
Aged(b) == IF Unused(b) THEN 0 ELSE IF idle[b] < IdleCap THEN idle[b] + 1 ELSE idle[b]

-----------------------------------------------------------------------------
(* The steps of Limiter.Allow, and the clock                               *)

Find(c, lag) ==
    /\ Kept(lag)[KeyOf[c]] # NoBucket
    /\ table' = Kept(lag)
    /\ held' = [held EXCEPT ![c] = Kept(lag)[KeyOf[c]]]
    /\ UNCHANGED <<tokens, idle>>

Create(c, lag) ==
    /\ Kept(lag)[KeyOf[c]] = NoBucket
    /\ \E b \in Buckets : Unused(b)
    /\ table' = [Kept(lag) EXCEPT ![KeyOf[c]] = Spare]
    /\ held' = [held EXCEPT ![c] = Spare]
    /\ tokens' = [tokens EXCEPT ![Spare] = Full]
    /\ idle' = [idle EXCEPT ![Spare] = 0]

Look(c) ==
    /\ held[c] = NoBucket
    /\ \E lag \in 0 .. MaxLag : Find(c, lag) \/ Create(c, lag)
    /\ answer' = [answer EXCEPT ![c] = "none"]
    /\ UNCHANGED window

\* What b holds once the time since its last call is paid in.
Refill_WholeTokens(b) ==
    LET t == tokens[b] + ((idle[b] * Cap) \div Per) * Per
    IN  IF t > Full THEN Full ELSE t

Refill(b) ==
    LET t == tokens[b] + idle[b] * Cap
    IN  IF t > Full THEN Full ELSE t

Admit(c) ==
    LET b == held[c]
    IN  /\ Refill(b) >= Per
        /\ tokens' = [tokens EXCEPT ![b] = Refill(b) - Per]
        /\ answer' = [answer EXCEPT ![c] = "yes"]
        /\ IF KeyOf[c] = Watched
           THEN /\ count' = count + 1
                /\ strays' = IF table[Watched] = b THEN strays ELSE strays + 1
           ELSE UNCHANGED <<count, strays>>

Refuse_LosesRefill(c) ==
    /\ Refill(held[c]) < Per
    /\ answer' = [answer EXCEPT ![c] = "no"]
    /\ UNCHANGED <<tokens, count, strays>>

Refuse(c) ==
    /\ Refill(held[c]) < Per
    /\ tokens' = [tokens EXCEPT ![held[c]] = Refill(held[c])]
    /\ answer' = [answer EXCEPT ![c] = "no"]
    /\ UNCHANGED <<count, strays>>

Take(c) ==
    /\ held[c] # NoBucket
    /\ Admit(c) \/ Refuse(c)
    /\ idle' = [idle EXCEPT ![held[c]] = 0]
    /\ held' = [held EXCEPT ![c] = NoBucket]
    /\ UNCHANGED <<table, elapsed>>

\* Time passes for every bucket in use.
Age ==
    /\ idle' = [b \in Buckets |-> Aged(b)]
    /\ tokens' = [b \in Buckets |-> IF Unused(b) THEN 0 ELSE tokens[b]]

Tick ==
    /\ elapsed < MaxWindow
    /\ elapsed' = elapsed + 1
    /\ Age
    /\ UNCHANGED <<table, held, answer, count, strays>>

\* Time passes, and another window is looked at from then on.
NewWindow ==
    /\ Age
    /\ elapsed' = 0
    /\ count' = 0
    /\ strays' = 0
    /\ UNCHANGED <<table, held, answer>>

Next ==
    \/ \E c \in Callers : Look(c) \/ Take(c)
    \/ Tick
    \/ NewWindow

Clock == Tick \/ NewWindow

\* The clock goes on, and a goroutine on its way through Allow gets there.
Fairness ==
    /\ WF_vars(Clock)
    /\ \A c \in Callers : WF_vars(Take(c))

Spec == Init /\ [][Next]_vars /\ Fairness

-----------------------------------------------------------------------------
(* Properties                                                              *)

\* A window of t ticks, wherever it starts, admits at most a burst and what t
\* ticks refill: refills in steps of any size, the cap and the sweep of idle
\* buckets never add to it.  The exceptions are calls that found their bucket
\* and were overtaken by a sweep before they asked it (rate.go:55-72).
WindowBound == (count - strays) * Per =< Full + elapsed * Cap

\* A bucket that gave out is refilled however often it is asked meanwhile: a
\* key whose calls keep coming is not refused for ever (Bucket.Allow keeps
\* fractions of a token, and keeps the refill when it refuses).
AskedAgain(k) == []<><<\E c \in Callers : KeyOf[c] = k /\ Take(c)>>_vars

AdmittedAgain(k) == []<><<\E c \in Callers : KeyOf[c] = k /\ Take(c) /\ Admit(c)>>_vars

KeepsAdmitting == \A k \in Keys : AskedAgain(k) => AdmittedAgain(k)

\* The limiter keeps the promise of Budget: sweeping a bucket, creating one,
\* and taking the answer in a step of its own cannot be told from the answers.
CreditOf(k) == IF table[k] = NoBucket THEN Full ELSE Refill(table[k])

AnswerOf(c) == IF held[c] # NoBucket THEN "pending" ELSE answer[c]

Overtaken == {c \in Callers : held[c] # NoBucket /\ table[KeyOf[c]] # held[c]}

B == INSTANCE Budget WITH credit   <- [k \in Keys |-> CreditOf(k)],
                          answer   <- [c \in Callers |-> AnswerOf(c)],
                          pardoned <- Overtaken

BudgetSpec == B!Spec
=============================================================================

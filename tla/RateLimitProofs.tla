-------------------------- MODULE RateLimitProofs ---------------------------
(***************************************************************************)
(* For every number of callers, keys and buckets, every capacity and every *)
(* period: the token buckets keep the window bound, and Allow in two steps *)
(* implements a budget per key (RateLimit.tla, Budget.tla).                *)
(***************************************************************************)
EXTENDS RateLimit, TLAPS

-----------------------------------------------------------------------------
(* What a bucket holds                                                     *)

LEMMA FullBurst == Full \in Nat /\ Per =< Full
BY RateAssumption DEF Full

\* In the time of one period a bucket fills up, whatever was in it.
LEMMA FullAfterPer ==
  ASSUME NEW i \in Nat, i >= Per
  PROVE  i * Cap >= Full
<1>1. PICK d \in Nat : i = Per + d
  <2>1. i - Per \in Nat /\ i = Per + (i - Per)
    BY RateAssumption
  <2> QED  BY <2>1
<1>2. i * Cap = Cap * Per + d * Cap
  BY <1>1, RateAssumption
<1>3. d * Cap \in Nat /\ Cap * Per \in Nat
  BY RateAssumption
<1> QED  BY <1>2, <1>3 DEF Full

LEMMA RefillWithinFull ==
  ASSUME TypeOK, NEW b \in Buckets
  PROVE  Refill(b) \in 0 .. Full
<1>1. tokens[b] \in Nat /\ idle[b] \in Nat
  BY DEF TypeOK
<1>2. idle[b] * Cap \in Nat
  BY <1>1, RateAssumption
<1> QED  BY <1>1, <1>2, FullBurst DEF Refill

LEMMA RestedIsFull ==
  ASSUME TypeOK, NEW b \in Buckets, idle[b] >= Per
  PROVE  Refill(b) = Full
<1>1. tokens[b] \in Nat /\ idle[b] \in Nat /\ tokens[b] =< Full
  BY FullBurst DEF TypeOK
<1>2. idle[b] * Cap \in Nat /\ idle[b] * Cap >= Full
  BY <1>1, FullAfterPer, RateAssumption
<1> QED  BY <1>1, <1>2, FullBurst DEF Refill

\* A sweep takes full buckets only.
LEMMA StaleIsFull ==
  ASSUME TypeOK, NEW k \in Keys, NEW lag \in 0 .. MaxLag, Stale(table[k], lag)
  PROVE  CreditOf(k) = Full
<1>1. table[k] \in Buckets /\ idle[table[k]] \in Nat /\ idle[table[k]] > 2 * Per + lag
  BY DEF TypeOK, Stale
<1>2. idle[table[k]] >= Per
  BY <1>1, RateAssumption
<1> QED  BY <1>1, <1>2, RestedIsFull DEF CreditOf

LEMMA CreditWithinFull ==
  ASSUME TypeOK, NEW k \in Keys
  PROVE  CreditOf(k) \in 0 .. Full
BY RefillWithinFull, FullBurst DEF CreditOf, TypeOK

-----------------------------------------------------------------------------
(* Types                                                                   *)

LEMMA KeptType ==
  ASSUME TypeOK, NEW lag \in 0 .. MaxLag
  PROVE  Kept(lag) \in [Keys -> Buckets \union {NoBucket}]
BY DEF Kept, TypeOK

LEMMA InitTypeOK == Init => TypeOK
BY RateAssumption, FullBurst DEF Init, TypeOK, IdleCap

LEMMA AgeType ==
  ASSUME TypeOK, Age
  PROVE  tokens' \in [Buckets -> 0 .. Full] /\ idle' \in [Buckets -> 0 .. IdleCap]
<1>1. IdleCap \in Nat
  BY RateAssumption DEF IdleCap
<1>2. ASSUME NEW b \in Buckets PROVE Aged(b) \in 0 .. IdleCap
  BY <1>1 DEF TypeOK, Aged
<1> QED  BY <1>2, FullBurst DEF Age, TypeOK

LEMMA NextTypeOK == TypeOK /\ [Next]_vars => TypeOK'
<1> SUFFICES ASSUME TypeOK, [Next]_vars PROVE TypeOK'
  OBVIOUS
<1>1. ASSUME NEW c \in Callers, Look(c) PROVE TypeOK'
  <2>1. PICK lag \in 0 .. MaxLag : Find(c, lag) \/ Create(c, lag)
    BY <1>1 DEF Look
  <2>2. Kept(lag) \in [Keys -> Buckets \union {NoBucket}] /\ KeyOf[c] \in Keys
    BY KeptType, RateAssumption
  <2>3. 0 \in 0 .. IdleCap /\ Full \in 0 .. Full
    BY RateAssumption, FullBurst DEF IdleCap
  <2>4. /\ table' \in [Keys -> Buckets \union {NoBucket}]
        /\ held' \in [Callers -> Buckets \union {NoBucket}]
        /\ tokens' \in [Buckets -> 0 .. Full]
        /\ idle' \in [Buckets -> 0 .. IdleCap]
    <3>1. CASE Find(c, lag)
      BY <3>1, <2>2 DEF Find, TypeOK
    <3>2. CASE Create(c, lag)
      <4>1. Spare \in Buckets
        BY <3>2 DEF Create, Spare
      <4> QED  BY <3>2, <4>1, <2>2, <2>3 DEF Create, TypeOK
    <3> QED  BY <2>1, <3>1, <3>2
  <2> QED  BY <2>4, <1>1 DEF Look, TypeOK, window
<1>2. ASSUME NEW c \in Callers, Take(c) PROVE TypeOK'
  <2>1. held[c] \in Buckets
    BY <1>2 DEF Take, TypeOK
  <2>2. Refill(held[c]) \in 0 .. Full
    BY <2>1, RefillWithinFull
  <2>3. CASE Admit(c)
    <3>1. Refill(held[c]) - Per \in 0 .. Full
      BY <2>2, <2>3, FullBurst, RateAssumption DEF Admit
    <3>2. count' \in Nat /\ strays' \in 0 .. count'
      BY <2>3 DEF Admit, TypeOK
    <3>3. idle' \in [Buckets -> 0 .. IdleCap]
      BY <1>2, RateAssumption DEF Take, TypeOK, IdleCap
    <3> QED  BY <1>2, <2>3, <3>1, <3>2, <3>3 DEF Admit, Take, TypeOK
  <2>4. CASE Refuse(c)
    <3>1. idle' \in [Buckets -> 0 .. IdleCap]
      BY <1>2, RateAssumption DEF Take, TypeOK, IdleCap
    <3> QED  BY <1>2, <2>2, <2>4, <3>1 DEF Refuse, Take, TypeOK
  <2> QED  BY <1>2, <2>3, <2>4 DEF Take
<1>3. CASE Tick
  BY <1>3, AgeType, RateAssumption DEF Tick, TypeOK
<1>4. CASE NewWindow
  BY <1>4, AgeType, RateAssumption DEF NewWindow, TypeOK
<1>5. CASE UNCHANGED vars
  BY <1>5 DEF vars, TypeOK
<1> QED  BY <1>1, <1>2, <1>3, <1>4, <1>5 DEF Next

\* Every variable keeps its type; in particular no bucket ever holds more
\* than its capacity (the cap in Bucket.Allow).
THEOREM TypeCorrect == Spec => []TypeOK
<1>1. Spec => Init /\ [][Next]_vars
  BY DEF Spec
<1> QED  BY <1>1, InitTypeOK, NextTypeOK, PTL

-----------------------------------------------------------------------------
(* Which bucket is whose                                                   *)

\* No two keys share a bucket, and a caller's bucket is its key's if anyone's.
Links ==
    /\ \A j, k \in Keys : table[j] = table[k] /\ table[j] # NoBucket => j = k
    /\ \A c \in Callers, k \in Keys :
          held[c] # NoBucket /\ table[k] = held[c] => k = KeyOf[c]

IInv == TypeOK /\ Links

LEMMA SpareUnused ==
  ASSUME \E b \in Buckets : Unused(b)
  PROVE  Spare \in Buckets /\ Unused(Spare)
BY DEF Spare

LEMMA NextLinks == IInv /\ [Next]_vars => Links'
<1> SUFFICES ASSUME IInv, [Next]_vars PROVE Links'
  OBVIOUS
<1>1. ASSUME NEW c \in Callers, Look(c) PROVE Links'
  <2>1. PICK lag \in 0 .. MaxLag : Find(c, lag) \/ Create(c, lag)
    BY <1>1 DEF Look
  <2>2. \A k \in Keys : Kept(lag)[k] \in {table[k], NoBucket}
    BY DEF Kept
  <2>3. Kept(lag) \in [Keys -> Buckets \union {NoBucket}] /\ KeyOf[c] \in Keys
    BY KeptType, RateAssumption DEF IInv
  <2>4. CASE Find(c, lag)
    BY <2>4, <2>2, <2>3 DEF Find, Links, IInv, TypeOK
  <2>5. CASE Create(c, lag)
    <3>1. Spare \in Buckets /\ Unused(Spare) /\ Spare # NoBucket
      BY <2>5, SpareUnused, RateAssumption DEF Create
    <3>2. \A k \in Keys : table'[k] = IF k = KeyOf[c] THEN Spare ELSE Kept(lag)[k]
      BY <2>5, <2>3 DEF Create
    <3>3. \A d \in Callers : held'[d] = IF d = c THEN Spare ELSE held[d]
      BY <2>5 DEF Create, IInv, TypeOK
    <3>4. /\ \A k \in Keys : Kept(lag)[k] # Spare
          /\ \A d \in Callers : held[d] # Spare
      BY <2>2, <3>1 DEF Unused
    <3> QED  BY <2>2, <3>1, <3>2, <3>3, <3>4 DEF Links, IInv
  <2> QED  BY <2>1, <2>4, <2>5
<1>2. ASSUME NEW c \in Callers, Take(c) PROVE Links'
  BY <1>2 DEF Take, Links, IInv, TypeOK
<1>3. CASE Tick
  BY <1>3 DEF Tick, Links, IInv
<1>4. CASE NewWindow
  BY <1>4 DEF NewWindow, Links, IInv
<1>5. CASE UNCHANGED vars
  BY <1>5 DEF vars, Links, IInv
<1> QED  BY <1>1, <1>2, <1>3, <1>4, <1>5 DEF Next

LEMMA InvariantHolds == Spec => []IInv
<1>1. Init => IInv
  BY InitTypeOK, RateAssumption DEF Init, IInv, Links
<1>2. IInv /\ [Next]_vars => IInv'
  BY NextTypeOK, NextLinks DEF IInv
<1>3. Spec => Init /\ [][Next]_vars
  BY DEF Spec
<1> QED  BY <1>1, <1>2, <1>3, PTL

-----------------------------------------------------------------------------
(* What each step does to the credit of a key                              *)

LEMMA LookKeepsCredit ==
  ASSUME IInv, NEW c \in Callers, Look(c), NEW k \in Keys
  PROVE  CreditOf(k)' = CreditOf(k)
<1>1. PICK lag \in 0 .. MaxLag : Find(c, lag) \/ Create(c, lag)
  BY DEF Look
<1>2. Kept(lag) \in [Keys -> Buckets \union {NoBucket}] /\ KeyOf[c] \in Keys
  BY KeptType, RateAssumption DEF IInv
<1>3. \/ Kept(lag)[k] = table[k]
      \/ Kept(lag)[k] = NoBucket /\ CreditOf(k) = Full
  BY StaleIsFull DEF Kept, IInv
<1>4. CASE Find(c, lag)
  BY <1>3, <1>4 DEF Find, CreditOf, Refill
<1>5. CASE Create(c, lag)
  <2>1. Spare \in Buckets /\ Unused(Spare) /\ Spare # NoBucket
    BY <1>5, SpareUnused, RateAssumption DEF Create
  <2>2. CASE k = KeyOf[c]
    <3>1. CreditOf(k) = Full
      BY <1>3, <1>5, <2>2 DEF Create, CreditOf
    <3>2. tokens'[Spare] = Full /\ idle'[Spare] = 0
      BY <1>5, <2>1 DEF Create, IInv, TypeOK
    <3>3. table'[k] = Spare
      BY <1>2, <1>5, <2>2 DEF Create
    <3>4. CreditOf(k)' = Full
      BY <2>1, <3>2, <3>3, FullBurst, RateAssumption DEF CreditOf, Refill
    <3> QED  BY <3>1, <3>4
  <2>3. CASE k # KeyOf[c]
    <3>1. table'[k] = Kept(lag)[k]
      BY <1>2, <1>5, <2>3 DEF Create
    <3>2. CASE table'[k] = NoBucket
      BY <1>3, <3>1, <3>2 DEF CreditOf
    <3>3. CASE table'[k] # NoBucket
      <4>1. table'[k] = table[k] /\ table[k] \in Buckets /\ table[k] # Spare
        BY <1>2, <1>3, <2>1, <3>1, <3>3 DEF IInv, TypeOK, Unused
      <4>2. tokens'[table[k]] = tokens[table[k]] /\ idle'[table[k]] = idle[table[k]]
        BY <1>5, <4>1 DEF Create, IInv, TypeOK
      <4> QED  BY <4>1, <4>2 DEF CreditOf, Refill
    <3> QED  BY <3>2, <3>3
  <2> QED  BY <2>2, <2>3
<1> QED  BY <1>1, <1>4, <1>5

\* A call pays from the bucket it holds, and so from its key's or nobody's.
LEMMA TakePaysOnce ==
  ASSUME IInv, NEW c \in Callers, Take(c), NEW k \in Keys
  PROVE  CreditOf(k)' = IF table[k] = held[c] /\ Admit(c)
                        THEN CreditOf(k) - Per ELSE CreditOf(k)
<1>1. held[c] \in Buckets /\ table' = table
  BY DEF Take, IInv, TypeOK
<1>2. Refill(held[c]) \in 0 .. Full
  BY <1>1, RefillWithinFull DEF IInv
<1>3. CASE table[k] # held[c]
  <2>1. CASE table[k] = NoBucket
    BY <1>1, <1>3, <2>1 DEF CreditOf
  <2>2. CASE table[k] # NoBucket
    <3>1. table[k] \in Buckets
      BY <2>2 DEF IInv, TypeOK
    <3>2. tokens'[table[k]] = tokens[table[k]] /\ idle'[table[k]] = idle[table[k]]
      BY <1>1, <1>3, <3>1 DEF Take, Admit, Refuse, IInv, TypeOK
    <3> QED  BY <1>1, <1>3, <3>2 DEF CreditOf, Refill
  <2> QED  BY <2>1, <2>2
<1>4. CASE table[k] = held[c]
  <2>1. table[k] # NoBucket
    BY <1>1, <1>4, RateAssumption
  <2>2. PICK b \in Buckets : b = held[c]
    BY <1>1
  <2>3. idle'[b] = 0
    BY <2>2 DEF Take, IInv, TypeOK
  <2>4. tokens'[b] = IF Admit(c) THEN Refill(b) - Per ELSE Refill(b)
    BY <2>2 DEF Take, Admit, Refuse, IInv, TypeOK
  <2>5. tokens'[b] \in 0 .. Full
    BY <2>2, NextTypeOK DEF Next, IInv, TypeOK
  <2>6. Refill(b)' = tokens'[b]
    BY <2>3, <2>5, FullBurst, RateAssumption DEF Refill
  <2> QED  BY <1>1, <1>4, <2>1, <2>2, <2>4, <2>6 DEF CreditOf
<1> QED  BY <1>3, <1>4

LEMMA AgeAddsCap ==
  ASSUME IInv, Age, UNCHANGED table, NEW k \in Keys
  PROVE  CreditOf(k)' = IF CreditOf(k) + Cap > Full THEN Full ELSE CreditOf(k) + Cap
<1>1. CASE table[k] = NoBucket
  BY <1>1, FullBurst, RateAssumption DEF CreditOf
<1>2. CASE table[k] # NoBucket
  <2> DEFINE b == table[k]
  <2>1. b \in Buckets /\ ~Unused(b)
    BY <1>2 DEF IInv, TypeOK, Unused
  <2>2. tokens'[b] = tokens[b] /\ idle'[b] = IF idle[b] < IdleCap THEN idle[b] + 1 ELSE idle[b]
    BY <2>1 DEF Age, Aged
  <2>3. tokens[b] \in Nat /\ idle[b] \in 0 .. IdleCap /\ IdleCap \in Nat /\ IdleCap > Per
    BY <2>1, FullBurst, RateAssumption DEF IInv, TypeOK, IdleCap
  <2>4. CASE idle[b] < IdleCap
    <3>1. (idle[b] + 1) * Cap = idle[b] * Cap + Cap /\ idle[b] * Cap \in Nat
      BY <2>3, RateAssumption
    <3> QED  BY <1>2, <2>2, <2>3, <2>4, <3>1, FullBurst, RateAssumption DEF CreditOf, Refill
  <2>5. CASE ~(idle[b] < IdleCap)
    <3>1. Refill(b) = Full
      BY <2>1, <2>3, <2>5, RestedIsFull, RateAssumption DEF IInv
    <3>2. Refill(b)' = Refill(b)
      BY <2>2, <2>5 DEF Refill
    <3> QED  BY <1>2, <3>1, <3>2, FullBurst, RateAssumption DEF CreditOf
  <2> QED  BY <2>4, <2>5
<1> QED  BY <1>1, <1>2

-----------------------------------------------------------------------------
(* The window                                                              *)

\* What has been granted and what could be granted now stay within what the
\* window brought: WindowBound alone is not inductive, because a full bucket
\* could grant a burst at any time.
Paid == (count - strays) * Per + CreditOf(Watched) =< Full + elapsed * Cap

LEMMA InitPaid == Init => Paid
BY FullBurst, RateAssumption DEF Init, Paid, CreditOf

LEMMA NextPaid == IInv /\ Paid /\ [Next]_vars => Paid'
<1> SUFFICES ASSUME IInv, Paid, [Next]_vars PROVE Paid'
  OBVIOUS
<1>a. CreditOf(Watched) \in 0 .. Full /\ Watched \in Keys /\ Cap \in Nat /\ Per \in Nat
  BY CreditWithinFull, RateAssumption DEF IInv
<1>b. count \in Nat /\ strays \in Nat /\ elapsed \in Nat /\ Full \in Nat
  BY FullBurst, RateAssumption DEF IInv, TypeOK
<1>1. ASSUME NEW c \in Callers, Look(c) PROVE Paid'
  <2>1. CreditOf(Watched)' = CreditOf(Watched)
    BY <1>1, <1>a, LookKeepsCredit
  <2> QED  BY <1>1, <2>1 DEF Look, window, Paid
<1>2. ASSUME NEW c \in Callers, Take(c) PROVE Paid'
  <2>1. CreditOf(Watched)' = IF table[Watched] = held[c] /\ Admit(c)
                             THEN CreditOf(Watched) - Per ELSE CreditOf(Watched)
    BY <1>2, <1>a, TakePaysOnce
  <2>2. elapsed' = elapsed
    BY <1>2 DEF Take
  <2>3. CASE Admit(c) /\ KeyOf[c] = Watched /\ table[Watched] = held[c]
    <3>1. count' = count + 1 /\ strays' = strays
      BY <2>3 DEF Admit
    <3>2. (count' - strays') * Per = (count - strays) * Per + Per
      BY <3>1, <1>a, <1>b
    <3>3. (count - strays) * Per \in Int /\ elapsed * Cap \in Int
      BY <1>a, <1>b
    <3>4. CreditOf(Watched)' = CreditOf(Watched) - Per
      BY <2>1, <2>3
    <3> HIDE DEF Full
    <3>5. ((count - strays) * Per + Per) + (CreditOf(Watched) - Per)
            = (count - strays) * Per + CreditOf(Watched)
      BY <3>3, <1>a
    <3> QED  BY <2>2, <3>2, <3>4, <3>5 DEF Paid
  <2>4. CASE ~(Admit(c) /\ KeyOf[c] = Watched /\ table[Watched] = held[c])
    <3>1. count' - strays' = count - strays
      BY <1>2, <1>b, <2>4 DEF Take, Admit, Refuse
    <3>2. CreditOf(Watched)' =< CreditOf(Watched)
      BY <1>a, <2>1
    <3>3. CreditOf(Watched)' \in Int /\ (count - strays) * Per \in Int /\ elapsed * Cap \in Int
      BY <1>a, <1>b, <2>1
    <3> QED  BY <1>a, <1>b, <2>2, <3>1, <3>2, <3>3 DEF Paid
  <2> QED  BY <2>3, <2>4
<1>3. CASE Tick
  <2>1. CreditOf(Watched)' = IF CreditOf(Watched) + Cap > Full THEN Full ELSE CreditOf(Watched) + Cap
    BY <1>3, <1>a, AgeAddsCap DEF Tick
  <2>2. CreditOf(Watched)' =< CreditOf(Watched) + Cap /\ CreditOf(Watched)' \in Int
    BY <1>a, <1>b, <2>1
  <2>3. elapsed' * Cap = elapsed * Cap + Cap /\ elapsed * Cap \in Int
    BY <1>3, <1>a, <1>b DEF Tick
  <2>4. (count - strays) * Per \in Int /\ (count' - strays') * Per = (count - strays) * Per
    BY <1>3, <1>a, <1>b DEF Tick
  <2> QED  BY <1>a, <1>b, <2>2, <2>3, <2>4 DEF Paid
<1>4. CASE NewWindow
  <2>1. CreditOf(Watched)' \in 0 .. Full
    BY <1>4, <1>a, <1>b, AgeAddsCap DEF NewWindow
  <2> QED  BY <1>4, <1>a, <1>b, <2>1 DEF NewWindow, Paid
<1>5. CASE UNCHANGED vars
  BY <1>5 DEF vars, Paid, CreditOf, Refill
<1> QED  BY <1>1, <1>2, <1>3, <1>4, <1>5 DEF Next

\* A window of t ticks grants at most a burst and what t ticks refill, apart
\* from calls overtaken by a sweep (Limiter.Allow, Bucket.Allow).
THEOREM WindowBounded == Spec => []WindowBound
<1>1. IInv /\ Paid => WindowBound
  <2> SUFFICES ASSUME IInv, Paid PROVE WindowBound
    OBVIOUS
  <2>1. CreditOf(Watched) \in Nat
    BY CreditWithinFull, RateAssumption DEF IInv
  <2>2. (count - strays) * Per \in Int /\ elapsed * Cap \in Int /\ Full \in Int
    BY FullBurst, RateAssumption DEF IInv, TypeOK
  <2> QED  BY <2>1, <2>2 DEF Paid, WindowBound
<1>2. Spec => Init /\ [][Next]_vars
  BY DEF Spec
<1> QED  BY <1>1, <1>2, InvariantHolds, InitPaid, NextPaid, PTL

-----------------------------------------------------------------------------
(* The budget                                                              *)

LEMMA BudgetInit == Init => B!Init
BY RateAssumption DEF Init, B!Init, CreditOf, AnswerOf, Overtaken, Full, B!Full

LEMMA LookAsks ==
  ASSUME IInv, NEW c \in Callers, Look(c)
  PROVE  B!Ask(c)
<1>1. PICK lag \in 0 .. MaxLag : Find(c, lag) \/ Create(c, lag)
  BY DEF Look
<1> DEFINE K == {k \in Keys : Stale(table[k], lag)}
<1>2. held[c] = NoBucket /\ held' \in [Callers -> Buckets \union {NoBucket}]
      /\ held'[c] \in Buckets /\ \A d \in Callers : d # c => held'[d] = held[d]
  <2>1. held[c] = NoBucket /\ held \in [Callers -> Buckets \union {NoBucket}]
    BY DEF Look, IInv, TypeOK
  <2>2. PICK b \in Buckets : held' = [held EXCEPT ![c] = b]
    <3>1. CASE Find(c, lag)
      BY <3>1, KeptType, RateAssumption DEF Find, IInv
    <3>2. CASE Create(c, lag)
      BY <3>2, SpareUnused DEF Create
    <3> QED  BY <1>1, <3>1, <3>2
  <2> QED  BY <2>1, <2>2
<1>3. K \in SUBSET {k \in Keys : CreditOf(k) = Full}
  BY StaleIsFull DEF IInv
<1>4. table'[KeyOf[c]] = held'[c]
  BY <1>1, KeptType, RateAssumption DEF Find, Create, IInv, TypeOK
<1>5. ASSUME NEW d \in Callers, d # c, held[d] # NoBucket
      PROVE  table'[KeyOf[d]] = held[d] <=> table[KeyOf[d]] = held[d] /\ KeyOf[d] \notin K
  <2>1. KeyOf[d] \in Keys /\ held[d] \in Buckets
    BY <1>5, RateAssumption DEF IInv, TypeOK
  <2>2. Kept(lag)[KeyOf[d]] = IF KeyOf[d] \in K THEN NoBucket ELSE table[KeyOf[d]]
    BY <2>1 DEF Kept
  <2>3. CASE Find(c, lag)
    BY <1>5, <2>1, <2>2, <2>3 DEF Find
  <2>4. CASE Create(c, lag)
    <3>1. Unused(Spare) /\ Spare # held[d]
      BY <1>5, <2>1, <2>4, SpareUnused DEF Create, Unused
    <3>2. table'[KeyOf[d]] = IF KeyOf[d] = KeyOf[c] THEN Spare ELSE Kept(lag)[KeyOf[d]]
      BY <2>1, <2>4, KeptType DEF Create, IInv
    <3>3. KeyOf[d] = KeyOf[c] => Kept(lag)[KeyOf[d]] = NoBucket
      BY <2>4 DEF Create
    <3> QED  BY <1>5, <2>2, <3>1, <3>2, <3>3
  <2> QED  BY <1>1, <2>3, <2>4
<1>6. Overtaken' = Overtaken \union {d \in Callers : AnswerOf(d) = "pending" /\ KeyOf[d] \in K}
  <2>1. \A d \in Callers : AnswerOf(d) = "pending" <=> held[d] # NoBucket
    BY DEF AnswerOf, IInv, TypeOK
  <2>2. \A d \in Callers : d \in Overtaken' <=> held'[d] # NoBucket /\ table'[KeyOf[d]] # held'[d]
    BY DEF Overtaken
  <2> QED  BY <1>2, <1>4, <1>5, <2>1, <2>2 DEF Overtaken
<1>7. [k \in Keys |-> CreditOf(k)]' = [k \in Keys |-> CreditOf(k)]
  BY LookKeepsCredit
<1>8. [d \in Callers |-> AnswerOf(d)]' = [[d \in Callers |-> AnswerOf(d)] EXCEPT ![c] = "pending"]
  BY <1>2, RateAssumption DEF AnswerOf, Look, IInv, TypeOK
<1>9. AnswerOf(c) # "pending"
  BY <1>2 DEF AnswerOf, IInv, TypeOK
<1> HIDE DEF K
<1> QED  BY <1>3, <1>6, <1>7, <1>8, <1>9 DEF B!Ask, B!Pending, B!Full, Full

LEMMA TakeAnswers ==
  ASSUME IInv, NEW c \in Callers, Take(c)
  PROVE  B!Admit(c) \/ B!Refuse(c) \/ B!Pardon(c)
<1> DEFINE credit == [k \in Keys |-> CreditOf(k)]
           reply  == [d \in Callers |-> AnswerOf(d)]
<1>a. KeyOf[c] \in Keys /\ held[c] \in Buckets /\ held[c] # NoBucket /\ table' = table
  BY RateAssumption DEF Take, IInv, TypeOK
<1>b. reply[c] = "pending" /\ reply' = [reply EXCEPT ![c] = answer'[c]]
  BY <1>a DEF AnswerOf, Take, Admit, Refuse, IInv, TypeOK
<1>c. answer'[c] = IF Admit(c) THEN "yes" ELSE "no"
  BY DEF Take, Admit, Refuse, IInv, TypeOK
<1>d. Overtaken' = Overtaken \ {c}
  <2>1. \A d \in Callers : held'[d] = IF d = c THEN NoBucket ELSE held[d]
    BY DEF Take, IInv, TypeOK
  <2> QED  BY <1>a, <2>1 DEF Overtaken
<1>e. \A k \in Keys : credit'[k] = IF table[k] = held[c] /\ Admit(c)
                                    THEN credit[k] - Per ELSE credit[k]
  BY TakePaysOnce
<1>1. CASE c \in Overtaken
  <2>1. \A k \in Keys : table[k] # held[c]
    BY <1>1, <1>a DEF Overtaken, Links, IInv
  <2>2. credit' = credit
    BY <1>e, <2>1
  <2> HIDE DEF credit, reply
  <2>3. B!Pardon(c)
    BY <1>1, <1>b, <1>c, <1>d, <2>2 DEF B!Pardon, credit, reply
  <2> QED  BY <2>3
<1>2. CASE c \notin Overtaken
  <2>1. table[KeyOf[c]] = held[c] /\ \A k \in Keys : table[k] = held[c] <=> k = KeyOf[c]
    BY <1>2, <1>a DEF Overtaken, Links, IInv
  <2>2. credit[KeyOf[c]] = Refill(held[c]) /\ Refill(held[c]) \in 0 .. Full
    BY <1>a, <2>1, RefillWithinFull DEF CreditOf, IInv
  <2>3. Overtaken' = Overtaken
    BY <1>2, <1>d
  <2>4. CASE Admit(c)
    <3>1. credit' = [credit EXCEPT ![KeyOf[c]] = @ - Per]
      BY <1>e, <2>1, <2>4
    <3>2. credit[KeyOf[c]] >= Per /\ answer'[c] = "yes"
      BY <1>c, <2>2, <2>4 DEF Admit
    <3> HIDE DEF credit, reply
    <3>3. B!Admit(c)
      BY <1>2, <1>b, <2>3, <3>1, <3>2 DEF B!Admit, credit, reply
    <3> QED  BY <3>3
  <2>5. CASE ~Admit(c)
    <3>1. Refuse(c)
      BY <2>5 DEF Take
    <3>2. credit' = credit
      BY <1>e, <2>5
    <3>3. credit[KeyOf[c]] < Per /\ answer'[c] = "no"
      BY <1>c, <2>2, <2>5, <3>1 DEF Refuse
    <3> HIDE DEF credit, reply
    <3>4. B!Refuse(c)
      BY <1>2, <1>b, <2>3, <3>2, <3>3 DEF B!Refuse, credit, reply
    <3> QED  BY <3>4
  <2> QED  BY <2>4, <2>5
<1> QED  BY <1>1, <1>2

LEMMA ClockTicks ==
  ASSUME IInv, Tick \/ NewWindow
  PROVE  B!Tick
<1>1. Age /\ UNCHANGED <<table, held, answer>>
  BY DEF Tick, NewWindow
<1>2. \A k \in Keys : CreditOf(k)' = IF CreditOf(k) + Cap > Full THEN Full ELSE CreditOf(k) + Cap
  BY <1>1, AgeAddsCap
<1>3. [c \in Callers |-> AnswerOf(c)]' = [c \in Callers |-> AnswerOf(c)] /\ Overtaken' = Overtaken
  BY <1>1 DEF AnswerOf, Overtaken
<1> QED  BY <1>2, <1>3 DEF B!Tick, B!Full, Full

\* Limiter.Allow, in two steps and with its sweep, gives the answers that a
\* budget per key gives in one.
THEOREM ImplementsBudget == Spec => BudgetSpec
<1>1. IInv /\ [Next]_vars => [B!Next]_(B!vars)
  <2> SUFFICES ASSUME IInv, [Next]_vars PROVE [B!Next]_(B!vars)
    OBVIOUS
  <2>1. ASSUME NEW c \in Callers, Look(c) PROVE B!Next
    BY <2>1, LookAsks DEF B!Next
  <2>2. ASSUME NEW c \in Callers, Take(c) PROVE B!Next
    BY <2>2, TakeAnswers DEF B!Next
  <2>3. CASE Tick \/ NewWindow
    BY <2>3, ClockTicks DEF B!Next
  <2>4. CASE UNCHANGED vars
    BY <2>4 DEF vars, B!vars, CreditOf, Refill, AnswerOf, Overtaken
  <2> QED  BY <2>1, <2>2, <2>3, <2>4 DEF Next
<1>2. Spec => Init /\ [][Next]_vars
  BY DEF Spec
<1> QED  BY <1>1, <1>2, BudgetInit, InvariantHolds, PTL DEF BudgetSpec, B!Spec
=============================================================================

-------------------------- MODULE RateLimiterProofs --------------------------
(***************************************************************************)
(* What the request budget guarantees for every number of keys and         *)
(* threads, every limit and every window length.                           *)
(***************************************************************************)
EXTENDS RateLimiter, TLAPS

USE BudgetAssumption, NameAssumption

Accepted(k, m) == live[k][m] + background[k][m]

\* The accepted calls of the current minute are all in the key's counter, the
\* counter of a minute that has not begun is empty, and no minute is over; but
\* for the minutes in which the cache failed to count the key.
KeyCounted ==
    \A k \in Keys :
        /\ Reliable(k, minute) => Accepted(k, minute) <= Count(k)
        /\ \A m \in Minutes :
            /\ Reliable(k, m) => /\ Accepted(k, m) <= KeyLimit
                                 /\ background[k][m] <= BackgroundLimit
            /\ m > minute => live[k][m] = 0 /\ background[k][m] = 0

\* The same for the budget all keys share.
GlobalCounted ==
    /\ Reliable(Global, minute) => granted[minute] <= Count(Global)
    /\ \A m \in Minutes :
        /\ Reliable(Global, m) => granted[m] <= GlobalLimit
        /\ m > minute => granted[m] = 0

\* What the open reserving blocks of a thread restore: the outermost one
\* restores "live", every other one "background".
PriorsStacked ==
    \A t \in Threads :
        /\ flag[t] <=> priors[t] # <<>>
        /\ \A i \in 1..Len(priors[t]) : priors[t][i] <=> i # 1

-----------------------------------------------------------------------------

\* An entry of the current minute is never older than two windows, so expires_in
\* cannot take a counter away while its window lasts.
EntriesCurrent == \A b \in Budgets : Current(b) <=> window[b].stamp = minute

LEMMA CurrentEntry == TypeOK => EntriesCurrent
<1> SUFFICES ASSUME TypeOK, NEW b \in Budgets
             PROVE  Current(b) <=> window[b].stamp = minute
  BY DEF EntriesCurrent
<1>1. window[b].stamp \in Nat /\ window[b].born \in 0..(WindowTicks - 1)
      /\ minute \in Nat /\ second \in 0..(WindowTicks - 1)
  BY DEF TypeOK, Entry, Minutes
<1>2. ASSUME window[b].stamp = minute
      PROVE  Age(b) < 2 * WindowTicks
  <2>1. (minute - window[b].stamp) * WindowTicks = 0
    BY <1>1, <1>2
  <2>2. Age(b) = second - window[b].born
    BY <1>1, <2>1 DEF Age
  <2>3. QED
    BY <1>1, <2>2
<1>3. QED
  BY <1>2 DEF Current

LEMMA CountIsNat ==
    ASSUME TypeOK, NEW b \in Budgets
    PROVE  Count(b) \in Nat
BY DEF TypeOK, Entry, Count

\* One increment adds one to its own counter and to no other.
LEMMA IncrementCounts ==
    ASSUME TypeOK, TypeOK', UNCHANGED clock, NEW b \in Budgets, Increment(b)
    PROVE  /\ Count(b)' = Count(b) + 1
           /\ \A c \in Budgets \ {b} : Count(c)' = Count(c)
<1>1. window' = [window EXCEPT ![b] =
                   [stamp |-> minute,
                    born  |-> IF Current(b) THEN window[b].born ELSE second,
                    count |-> Count(b) + 1]]
  BY DEF Increment
<1>2. window'[b].stamp = minute /\ window'[b].count = Count(b) + 1
  BY <1>1 DEF TypeOK
<1>3. \A c \in Budgets \ {b} : window'[c] = window[c]
  BY <1>1 DEF TypeOK
<1>4. minute' = minute /\ second' = second
  BY DEF clock
<1>5. Current(b)'
  <2>1. window'[b].stamp \in Nat /\ window'[b].born \in 0..(WindowTicks - 1)
        /\ minute \in Nat /\ second \in 0..(WindowTicks - 1)
    BY <1>4 DEF TypeOK, Entry, Minutes
  <2>2. (minute - minute) * WindowTicks = 0
    BY <2>1
  <2>3. Age(b)' = second - window'[b].born
    BY <1>2, <1>4, <2>1, <2>2 DEF Age
  <2>4. QED
    BY <1>2, <1>4, <2>1, <2>3 DEF Current
<1>6. Count(b)' = Count(b) + 1
  BY <1>2, <1>5 DEF Count
<1>7. \A c \in Budgets \ {b} : Count(c)' = Count(c)
  BY <1>3, <1>4 DEF Count, Current, Age
<1>8. QED
  BY <1>6, <1>7

-----------------------------------------------------------------------------

LEMMA IncrementType ==
    ASSUME TypeOK, NEW b \in Budgets, Increment(b)
    PROVE  window' \in [Budgets -> Entry]
<1>1. Count(b) + 1 \in Nat
  BY CountIsNat
<1>2. QED
  BY <1>1 DEF Increment, TypeOK, Entry

LEMMA AcceptType ==
    ASSUME TypeOK, NEW t \in Threads, NEW k \in Keys, Accept(t, k)
    PROVE  /\ live' \in [Keys -> [Minutes -> Nat]]
           /\ background' \in [Keys -> [Minutes -> Nat]]
<1> USE DEF TypeOK
<1>1. live' \in [Keys -> [Minutes -> Nat]]
  <2>1. live[k][minute] + 1 \in Nat
    OBVIOUS
  <2>2. [live[k] EXCEPT ![minute] = @ + 1] \in [Minutes -> Nat]
    BY <2>1
  <2>3. CASE flag[t]
    BY <2>3 DEF Accept
  <2>4. CASE ~flag[t]
    <3>1. live' = [live EXCEPT ![k] = [live[k] EXCEPT ![minute] = @ + 1]]
      BY <2>4 DEF Accept
    <3>2. QED
      BY <2>2, <3>1
  <2>5. QED
    BY <2>3, <2>4
<1>2. background' \in [Keys -> [Minutes -> Nat]]
  <2>1. background[k][minute] + 1 \in Nat
    OBVIOUS
  <2>2. [background[k] EXCEPT ![minute] = @ + 1] \in [Minutes -> Nat]
    BY <2>1
  <2>3. CASE ~flag[t]
    BY <2>3 DEF Accept
  <2>4. CASE flag[t]
    <3>1. background' =
            [background EXCEPT ![k] = [background[k] EXCEPT ![minute] = @ + 1]]
      BY <2>4 DEF Accept
    <3>2. QED
      BY <2>2, <3>1
  <2>5. QED
    BY <2>3, <2>4
<1>3. QED
  BY <1>1, <1>2

LEMMA MiscountType ==
    ASSUME TypeOK, NEW b \in Budgets, Miscount(b)
    PROVE  uncounted' \subseteq Budgets \X Minutes /\ faults' \in Nat
BY DEF TypeOK, Miscount

LEMMA TypeStep ==
    ASSUME TypeOK, [Next]_vars
    PROVE  TypeOK'
<1> USE DEF TypeOK
<1>1. CASE Tick
  <2>1. minute' \in Minutes /\ second' \in 0..(WindowTicks - 1)
    BY <1>1 DEF Tick, Minutes
  <2>2. QED
    BY <1>1, <2>1 DEF Tick, blocks, history, failures
<1>2. ASSUME NEW t \in Threads, EnterBlock(t) PROVE TypeOK'
  BY <1>2 DEF EnterBlock, clock, history, failures
<1>3. ASSUME NEW t \in Threads, LeaveBlock(t) PROVE TypeOK'
  <2>1. priors[t] \in Seq(BOOLEAN) /\ Len(priors[t]) \in Nat \ {0}
    BY <1>3 DEF LeaveBlock
  <2>2. priors[t][Len(priors[t])] \in BOOLEAN
    BY <2>1
  <2>3. SubSeq(priors[t], 1, Len(priors[t]) - 1) \in Seq(BOOLEAN)
    BY <2>1
  <2>4. QED
    BY <1>3, <2>2, <2>3 DEF LeaveBlock, clock, history, failures
<1>4. ASSUME NEW t \in Threads, NEW k \in Keys, KeyAccepted(t, k) PROVE TypeOK'
  <2>1. window' \in [Budgets -> Entry]
    BY <1>4, IncrementType DEF KeyAccepted, Budgets
  <2>2. live' \in [Keys -> [Minutes -> Nat]] /\ background' \in [Keys -> [Minutes -> Nat]]
    BY <1>4, AcceptType DEF KeyAccepted
  <2>3. QED
    BY <1>4, <2>1, <2>2 DEF KeyAccepted, Accept, clock, blocks, failures
<1>5. ASSUME NEW t \in Threads, NEW k \in Keys, KeyRefused(t, k) PROVE TypeOK'
  <2>1. window' \in [Budgets -> Entry]
    BY <1>5, IncrementType DEF KeyRefused, Budgets
  <2>2. QED
    BY <1>5, <2>1 DEF KeyRefused, clock, blocks, failures
<1>6. ASSUME NEW t \in Threads, GlobalAccepted(t) PROVE TypeOK'
  <2>1. window' \in [Budgets -> Entry]
    BY <1>6, IncrementType DEF GlobalAccepted, Budgets
  <2>2. granted' \in [Minutes -> Nat]
    BY <1>6 DEF GlobalAccepted, Grant
  <2>3. QED
    BY <1>6, <2>1, <2>2 DEF GlobalAccepted, Grant, clock, blocks, failures
<1>7. ASSUME NEW t \in Threads, GlobalRefused(t) PROVE TypeOK'
  <2>1. window' \in [Budgets -> Entry]
    BY <1>7, IncrementType DEF GlobalRefused, Budgets
  <2>2. QED
    BY <1>7, <2>1 DEF GlobalRefused, clock, blocks, history, failures
<1>8. CASE UNCHANGED vars
  BY <1>8 DEF vars
<1>9. ASSUME NEW t \in Threads, NEW k \in Keys, KeyUncounted(t, k) PROVE TypeOK'
  <2>1. uncounted' \subseteq Budgets \X Minutes /\ faults' \in Nat
    BY <1>9, MiscountType DEF KeyUncounted, Budgets
  <2>2. live' \in [Keys -> [Minutes -> Nat]] /\ background' \in [Keys -> [Minutes -> Nat]]
    BY <1>9, AcceptType DEF KeyUncounted
  <2>3. QED
    BY <1>9, <2>1, <2>2 DEF KeyUncounted, Accept, clock, blocks
<1>10. ASSUME NEW t \in Threads, GlobalUncounted(t) PROVE TypeOK'
  <2>1. uncounted' \subseteq Budgets \X Minutes /\ faults' \in Nat
    BY <1>10, MiscountType DEF GlobalUncounted, Budgets
  <2>2. granted' \in [Minutes -> Nat]
    BY <1>10 DEF GlobalUncounted, Grant
  <2>3. QED
    BY <1>10, <2>1, <2>2 DEF GlobalUncounted, Grant, clock, blocks
<1>11. ASSUME NEW b \in Budgets, Evict(b) PROVE TypeOK'
  <2>1. uncounted' \subseteq Budgets \X Minutes /\ faults' \in Nat
    BY <1>11, MiscountType DEF Evict
  <2>2. window' \in [Budgets -> Entry]
    <3>1. window[b] \in Entry /\ window' = [window EXCEPT ![b] = [window[b] EXCEPT !.count = 0]]
      BY <1>11 DEF Evict
    <3>2. [window[b] EXCEPT !.count = 0] \in Entry
      BY <3>1 DEF Entry
    <3>3. QED
      BY <3>1, <3>2
  <2>3. QED
    BY <1>11, <2>1, <2>2 DEF Evict, clock, blocks, history
<1>12. QED
  BY <1>1, <1>2, <1>3, <1>4, <1>5, <1>6, <1>7, <1>8, <1>9, <1>10, <1>11 DEF Next

\* Every reachable state is well typed.
THEOREM TypeCorrect == Spec => []TypeOK
<1>1. Init => TypeOK
  BY DEF Init, TypeOK, Entry, Minutes
<1>2. TypeOK /\ [Next]_vars => TypeOK'
  BY TypeStep
<1>3. QED
  BY <1>1, <1>2, PTL DEF Spec

-----------------------------------------------------------------------------

\* A step that leaves the clock and the cache alone leaves every count alone.
LEMMA CountsUnchanged ==
    ASSUME UNCHANGED clock, UNCHANGED window, NEW b \in Budgets
    PROVE  Count(b)' = Count(b)
BY DEF clock, Count, Current, Age

\* While the minute lasts the clock takes nothing from a counter.
LEMMA TickCounts ==
    ASSUME TypeOK, TypeOK', UNCHANGED window, minute' = minute, NEW b \in Budgets
    PROVE  Count(b)' = Count(b)
<1>1. EntriesCurrent /\ EntriesCurrent'
  <2>1. TypeOK' => EntriesCurrent'
    BY CurrentEntry, PTL
  <2>2. QED
    BY <2>1, CurrentEntry
<1>2. QED
  BY <1>1 DEF EntriesCurrent, Count

-----------------------------------------------------------------------------

\* An accepted call adds one to the history of its kind, its key and its minute.
LEMMA AcceptAdds ==
    ASSUME TypeOK, NEW t \in Threads, NEW k \in Keys, Accept(t, k)
    PROVE  \A c \in Keys, m \in Minutes :
              /\ live'[c][m] = live[c][m]
                    + IF c = k /\ m = minute /\ ~flag[t] THEN 1 ELSE 0
              /\ background'[c][m] = background[c][m]
                    + IF c = k /\ m = minute /\ flag[t] THEN 1 ELSE 0
<1> SUFFICES ASSUME NEW c \in Keys, NEW m \in Minutes
             PROVE  /\ live'[c][m] = live[c][m]
                          + IF c = k /\ m = minute /\ ~flag[t] THEN 1 ELSE 0
                    /\ background'[c][m] = background[c][m]
                          + IF c = k /\ m = minute /\ flag[t] THEN 1 ELSE 0
  OBVIOUS
<1>1. /\ live \in [Keys -> [Minutes -> Nat]] /\ background \in [Keys -> [Minutes -> Nat]]
      /\ live[c][m] \in Nat /\ background[c][m] \in Nat
  BY DEF TypeOK
<1>2. CASE flag[t]
  <2>1. /\ live' = live
        /\ background' = [background EXCEPT ![k] = [background[k] EXCEPT ![minute] = @ + 1]]
    BY <1>2 DEF Accept
  <2>2. background'[c] = IF c = k THEN [background[k] EXCEPT ![minute] = @ + 1]
                                  ELSE background[c]
    BY <1>1, <2>1
  <2>3. CASE c = k
    BY <1>1, <1>2, <2>1, <2>2, <2>3
  <2>4. CASE c # k
    BY <1>1, <2>1, <2>2, <2>4
  <2>5. QED
    BY <2>3, <2>4
<1>3. CASE ~flag[t]
  <2>1. /\ background' = background
        /\ live' = [live EXCEPT ![k] = [live[k] EXCEPT ![minute] = @ + 1]]
    BY <1>3 DEF Accept
  <2>2. live'[c] = IF c = k THEN [live[k] EXCEPT ![minute] = @ + 1] ELSE live[c]
    BY <1>1, <2>1
  <2>3. CASE c = k
    BY <1>1, <1>3, <2>1, <2>2, <2>3
  <2>4. CASE c # k
    BY <1>1, <2>1, <2>2, <2>4
  <2>5. QED
    BY <2>3, <2>4
<1>4. QED
  BY <1>2, <1>3

\* A miscount takes nothing from anybody else's counter.
LEMMA EvictCounts ==
    ASSUME TypeOK, TypeOK', NEW b \in Budgets, Evict(b)
    PROVE  \A c \in Budgets \ {b} : Count(c)' = Count(c)
BY DEF Evict, clock, Count, Current, Age, TypeOK

LEMMA MiscountMarks ==
    ASSUME NEW b \in Budgets, Miscount(b), minute' = minute
    PROVE  /\ ~Reliable(b, minute)'
           /\ \A c \in Budgets, m \in Minutes : Reliable(c, m)' => Reliable(c, m)
BY DEF Miscount, Reliable

IInv == TypeOK /\ KeyCounted /\ GlobalCounted

LEMMA IInvInit == Init => IInv
BY DEF Init, IInv, TypeOK, Entry, Minutes, KeyCounted, GlobalCounted, Accepted,
       Count, Current, Age, Budgets

LEMMA KeyCountedStep ==
    ASSUME TypeOK, TypeOK', KeyCounted, [Next]_vars
    PROVE  KeyCounted'
<1> USE DEF KeyCounted, Accepted
<1>0. \A k \in Keys : k \in Budgets /\ k # Global /\ Count(k) \in Nat
  BY CountIsNat DEF Budgets
<1>a. minute \in Minutes /\ minute' \in Minutes /\ Minutes \subseteq Nat
  BY DEF TypeOK, Minutes
<1>b. ASSUME NEW k \in Keys, NEW m \in Minutes
      PROVE  live[k][m] \in Nat /\ background[k][m] \in Nat
  BY DEF TypeOK
<1>c. ASSUME uncounted' = uncounted
      PROVE  \A b \in Budgets, m \in Minutes : Reliable(b, m)' <=> Reliable(b, m)
  BY <1>c DEF Reliable
<1>1. CASE Tick
  <2>1. UNCHANGED <<window, live, background, uncounted>>
    BY <1>1 DEF Tick, history, failures
  <2>2. CASE minute' = minute
    BY <1>0, <1>a, <1>b, <1>c, <2>1, <2>2, TickCounts
  <2>3. CASE minute' = minute + 1
    <3>1. \A k \in Keys : Count(k)' \in Nat
      <4>1. \A b \in Budgets : Count(b)' \in Nat
        BY DEF TypeOK, Entry, Count
      <4>2. QED
        BY <4>1 DEF Budgets
    <3>2. ASSUME NEW k \in Keys
          PROVE  live[k][minute'] = 0 /\ background[k][minute'] = 0
      BY <1>a, <2>3
    <3>3. ASSUME NEW k \in Keys, NEW m \in Minutes, m > minute'
          PROVE  live[k][m] = 0 /\ background[k][m] = 0
      BY <1>a, <2>3, <3>3
    <3>4. QED
      BY <1>0, <1>b, <1>c, <2>1, <3>1, <3>2, <3>3
  <2>4. QED
    BY <1>1, <2>2, <2>3 DEF Tick
<1>2. ASSUME UNCHANGED <<clock, window, live, background, uncounted>>
      PROVE  KeyCounted'
  <2>1. \A k \in Keys : Count(k)' = Count(k)
    BY <1>0, <1>2, CountsUnchanged
  <2>2. QED
    BY <1>0, <1>a, <1>c, <1>2, <2>1 DEF clock
<1>3. ASSUME NEW t \in Threads, NEW k \in Keys, KeyAccepted(t, k)
      PROVE  KeyCounted'
  <2>1. /\ minute' = minute /\ uncounted' = uncounted /\ Count(k)' = Count(k) + 1
        /\ \A c \in Keys \ {k} : Count(c)' = Count(c)
    BY <1>0, <1>3, IncrementCounts DEF KeyAccepted, Accept, clock, failures
  <2>2. Count(k) + 1 <= KeyLimit /\ (flag[t] => Count(k) + 1 <= BackgroundLimit)
    BY <1>0, <1>3 DEF KeyAccepted, Limit
  <2>3. Accept(t, k)
    BY <1>3 DEF KeyAccepted
  <2>4. CASE flag[t]
    BY <1>0, <1>a, <1>b, <1>c, <2>1, <2>2, <2>3, <2>4, AcceptAdds
  <2>5. CASE ~flag[t]
    BY <1>0, <1>a, <1>b, <1>c, <2>1, <2>2, <2>3, <2>5, AcceptAdds
  <2>6. QED
    BY <2>4, <2>5
<1>4. ASSUME NEW t \in Threads, NEW k \in Keys, KeyRefused(t, k)
      PROVE  KeyCounted'
  <2>1. /\ minute' = minute /\ uncounted' = uncounted /\ Count(k)' = Count(k) + 1
        /\ \A c \in Keys \ {k} : Count(c)' = Count(c)
    BY <1>0, <1>4, IncrementCounts DEF KeyRefused, clock, failures
  <2>2. live' = live /\ background' = background
    BY <1>4 DEF KeyRefused
  <2>3. QED
    BY <1>0, <1>a, <1>b, <1>c, <2>1, <2>2
<1>5. ASSUME NEW t \in Threads, GlobalAccepted(t) \/ GlobalRefused(t)
      PROVE  KeyCounted'
  <2>1. UNCHANGED <<clock, live, background, uncounted>> /\ Increment(Global)
    BY <1>5 DEF GlobalAccepted, Grant, GlobalRefused, history, failures
  <2>2. \A k \in Keys : Count(k)' = Count(k)
    BY <1>0, <2>1, IncrementCounts DEF Budgets
  <2>3. QED
    BY <1>0, <1>a, <1>c, <2>1, <2>2 DEF clock
<1>6. ASSUME NEW t \in Threads, NEW k \in Keys, KeyUncounted(t, k)
      PROVE  KeyCounted'
  <2>1. /\ minute' = minute /\ Accept(t, k) /\ Miscount(k)
        /\ \A c \in Keys : Count(c)' = Count(c)
    BY <1>0, <1>6, CountsUnchanged DEF KeyUncounted, Accept, clock
  <2>2. /\ ~Reliable(k, minute)'
        /\ \A c \in Keys, m \in Minutes : Reliable(c, m)' => Reliable(c, m)
    BY <1>0, <2>1, MiscountMarks
  <2>3. \A c \in Keys, m \in Minutes : c # k \/ m # minute =>
           live'[c][m] = live[c][m] /\ background'[c][m] = background[c][m]
    BY <1>b, <2>1, AcceptAdds
  <2>4. QED
    BY <1>0, <1>a, <1>b, <2>1, <2>2, <2>3
<1>7. ASSUME NEW t \in Threads, GlobalUncounted(t)
      PROVE  KeyCounted'
  <2>1. UNCHANGED <<clock, window, live, background>> /\ Miscount(Global)
    BY <1>7 DEF GlobalUncounted, Grant
  <2>2. \A c \in Keys, m \in Minutes : Reliable(c, m)' => Reliable(c, m)
    BY <1>0, <2>1, MiscountMarks DEF Budgets, clock
  <2>3. \A k \in Keys : Count(k)' = Count(k)
    BY <1>0, <2>1, CountsUnchanged
  <2>4. QED
    BY <1>a, <2>1, <2>2, <2>3 DEF clock
<1>8. ASSUME NEW b \in Budgets, Evict(b)
      PROVE  KeyCounted'
  <2>1. UNCHANGED <<live, background>> /\ minute' = minute /\ Miscount(b)
    BY <1>8 DEF Evict, history, clock
  <2>2. /\ ~Reliable(b, minute)'
        /\ \A c \in Keys, m \in Minutes : Reliable(c, m)' => Reliable(c, m)
    BY <1>0, <2>1, MiscountMarks
  <2>3. \A c \in Keys \ {b} : Count(c)' = Count(c)
    BY <1>0, <1>8, EvictCounts
  <2>4. QED
    BY <1>a, <2>1, <2>2, <2>3
<1>9. QED
  BY <1>1, <1>2, <1>3, <1>4, <1>5, <1>6, <1>7, <1>8
  DEF Next, EnterBlock, LeaveBlock, vars, clock, history, failures

LEMMA GlobalCountedStep ==
    ASSUME TypeOK, TypeOK', GlobalCounted, [Next]_vars
    PROVE  GlobalCounted'
<1> USE DEF GlobalCounted
<1>0. Global \in Budgets /\ Count(Global) \in Nat /\ Keys \subseteq Budgets \ {Global}
  BY CountIsNat DEF Budgets
<1>a. minute \in Minutes /\ minute' \in Minutes /\ Minutes \subseteq Nat
      /\ granted \in [Minutes -> Nat]
  BY DEF TypeOK, Minutes
<1>c. ASSUME uncounted' = uncounted
      PROVE  \A m \in Minutes : Reliable(Global, m)' <=> Reliable(Global, m)
  BY <1>c DEF Reliable
<1>1. CASE Tick
  <2>1. UNCHANGED <<window, granted, uncounted>>
    BY <1>1 DEF Tick, history, failures
  <2>2. CASE minute' = minute
    BY <1>0, <1>a, <1>c, <2>1, <2>2, TickCounts
  <2>3. CASE minute' = minute + 1
    <3>1. Count(Global)' \in Nat
      BY <1>0 DEF TypeOK, Entry, Count
    <3>2. QED
      BY <1>a, <1>c, <2>1, <2>3, <3>1
  <2>4. QED
    BY <1>1, <2>2, <2>3 DEF Tick
<1>2. ASSUME UNCHANGED <<clock, window, granted, uncounted>>
      PROVE  GlobalCounted'
  <2>1. Count(Global)' = Count(Global)
    BY <1>0, <1>2, CountsUnchanged
  <2>2. QED
    BY <1>a, <1>c, <1>2, <2>1 DEF clock
<1>3. ASSUME NEW t \in Threads, NEW k \in Keys, KeyAccepted(t, k) \/ KeyRefused(t, k)
      PROVE  GlobalCounted'
  <2>1. UNCHANGED <<clock, granted, uncounted>> /\ Increment(k)
    BY <1>3 DEF KeyAccepted, Accept, KeyRefused, failures
  <2>2. Count(Global)' = Count(Global)
    BY <1>0, <2>1, IncrementCounts
  <2>3. QED
    BY <1>a, <1>c, <2>1, <2>2 DEF clock
<1>4. ASSUME NEW t \in Threads, GlobalAccepted(t)
      PROVE  GlobalCounted'
  <2>1. /\ minute' = minute /\ uncounted' = uncounted
        /\ Count(Global)' = Count(Global) + 1 /\ Count(Global) + 1 <= GlobalLimit
    BY <1>0, <1>4, IncrementCounts DEF GlobalAccepted, Grant, clock, failures
  <2>2. \A m \in Minutes :
           granted'[m] = granted[m] + IF m = minute THEN 1 ELSE 0
    BY <1>a, <1>4 DEF GlobalAccepted, Grant
  <2>3. QED
    BY <1>0, <1>a, <1>c, <2>1, <2>2
<1>5. ASSUME NEW t \in Threads, GlobalRefused(t)
      PROVE  GlobalCounted'
  <2>1. /\ minute' = minute /\ granted' = granted /\ uncounted' = uncounted
        /\ Count(Global)' = Count(Global) + 1
    BY <1>0, <1>5, IncrementCounts DEF GlobalRefused, clock, history, failures
  <2>2. QED
    BY <1>0, <1>a, <1>c, <2>1
<1>6. ASSUME NEW t \in Threads, NEW k \in Keys, KeyUncounted(t, k)
      PROVE  GlobalCounted'
  <2>1. UNCHANGED <<clock, window, granted>> /\ Miscount(k) /\ minute' = minute
    BY <1>6 DEF KeyUncounted, Accept, clock
  <2>2. \A m \in Minutes : Reliable(Global, m)' => Reliable(Global, m)
    BY <1>0, <2>1, MiscountMarks
  <2>3. Count(Global)' = Count(Global)
    BY <1>0, <2>1, CountsUnchanged
  <2>4. QED
    BY <1>a, <2>1, <2>2, <2>3
<1>7. ASSUME NEW t \in Threads, GlobalUncounted(t)
      PROVE  GlobalCounted'
  <2>1. /\ Miscount(Global) /\ minute' = minute
        /\ granted' = [granted EXCEPT ![minute] = @ + 1]
    BY <1>7 DEF GlobalUncounted, Grant, clock
  <2>2. /\ ~Reliable(Global, minute)'
        /\ \A m \in Minutes : Reliable(Global, m)' => Reliable(Global, m)
    BY <1>0, <2>1, MiscountMarks
  <2>3. \A m \in Minutes \ {minute} : granted'[m] = granted[m]
    BY <1>a, <2>1
  <2>4. QED
    BY <1>a, <2>1, <2>2, <2>3
<1>8. ASSUME NEW b \in Budgets, Evict(b)
      PROVE  GlobalCounted'
  <2>1. granted' = granted /\ minute' = minute /\ Miscount(b)
    BY <1>8 DEF Evict, history, clock
  <2>2. /\ ~Reliable(b, minute)'
        /\ \A m \in Minutes : Reliable(Global, m)' => Reliable(Global, m)
    BY <1>0, <2>1, MiscountMarks
  <2>3. b # Global => Count(Global)' = Count(Global)
    BY <1>0, <1>8, EvictCounts
  <2>4. QED
    BY <1>a, <2>1, <2>2, <2>3
<1>9. QED
  BY <1>1, <1>2, <1>3, <1>4, <1>5, <1>6, <1>7, <1>8
  DEF Next, EnterBlock, LeaveBlock, vars, clock, history, failures

\* The counters bound what was accepted, in every reachable state.
THEOREM Counted == Spec => []IInv
<1>1. IInv /\ [Next]_vars => IInv'
  BY TypeStep, KeyCountedStep, GlobalCountedStep DEF IInv
<1>2. QED
  BY IInvInit, <1>1, PTL DEF Spec

\* acquire!: a key never carries more accepted calls in a minute than its
\* budget, nor more background calls than theirs, for any number of threads.
THEOREM KeyBudgetHolds == Spec => []KeyBudget
<1>1. IInv => KeyBudget
  BY DEF IInv, KeyCounted, KeyBudget, Accepted
<1>2. QED
  BY Counted, <1>1, PTL

\* acquire!: the calls of one minute never exceed the global cap.
THEOREM GlobalBudgetHolds == Spec => []GlobalBudget
<1>1. IInv => GlobalBudget
  BY DEF IInv, GlobalCounted, GlobalBudget
<1>2. QED
  BY Counted, <1>1, PTL

\* Two consecutive minutes together stay under Torn's own limit, because
\* REQUESTS_PER_MINUTE is at most half of TORN_HARD_LIMIT.
THEOREM WithinHardLimitHolds == Spec => []WithinHardLimit
<1>1. IInv => WithinHardLimit
  <2> SUFFICES ASSUME IInv, NEW k \in Keys, NEW m \in Minutes, m + 1 \in Minutes,
                      Reliable(k, m), Reliable(k, m + 1)
               PROVE  live[k][m] + background[k][m]
                        + live[k][m + 1] + background[k][m + 1] <= TornHardLimit
    BY DEF WithinHardLimit
  <2>1. /\ live[k][m] \in Nat /\ background[k][m] \in Nat
        /\ live[k][m + 1] \in Nat /\ background[k][m + 1] \in Nat
    BY DEF IInv, TypeOK
  <2>2. /\ live[k][m] + background[k][m] <= KeyLimit
        /\ live[k][m + 1] + background[k][m + 1] <= KeyLimit
    BY DEF IInv, KeyCounted, Accepted
  <2>3. QED
    BY <2>1, <2>2
<1>2. QED
  BY Counted, <1>1, PTL

\* remaining: the figure shown never promises more than the budget has left.
THEOREM RemainingIsHonestHolds == Spec => []RemainingIsHonest
<1>1. IInv => RemainingIsHonest
  <2> SUFFICES ASSUME IInv, NEW k \in Keys, Reliable(k, minute)
               PROVE  live[k][minute] + background[k][minute] + Remaining(k) <= KeyLimit
    BY DEF RemainingIsHonest
  <2>1. Count(k) \in Nat
    BY CountIsNat DEF IInv, Budgets
  <2>2. live[k][minute] \in Nat /\ background[k][minute] \in Nat
    BY DEF IInv, TypeOK
  <2>3. /\ live[k][minute] + background[k][minute] <= Count(k)
        /\ live[k][minute] + background[k][minute] <= KeyLimit
    BY DEF IInv, TypeOK, KeyCounted, Accepted
  <2>4. QED
    BY <2>1, <2>2, <2>3 DEF Remaining
<1>2. QED
  BY Counted, <1>1, PTL

-----------------------------------------------------------------------------

LEMMA PriorsStackedStep ==
    ASSUME TypeOK, PriorsStacked, [Next]_vars
    PROVE  PriorsStacked'
<1> USE DEF PriorsStacked
<1>0. flag \in [Threads -> BOOLEAN] /\ priors \in [Threads -> Seq(BOOLEAN)]
  BY DEF TypeOK
<1>1. ASSUME NEW t \in Threads, EnterBlock(t)
      PROVE  PriorsStacked'
  <2>1. priors'[t] = Append(priors[t], flag[t]) /\ flag'[t] = TRUE
        /\ \A u \in Threads \ {t} : priors'[u] = priors[u] /\ flag'[u] = flag[u]
    BY <1>0, <1>1 DEF EnterBlock
  <2>2. priors[t] \in Seq(BOOLEAN) /\ Len(priors[t]) \in Nat
        /\ (flag[t] <=> Len(priors[t]) # 0)
    BY <1>0
  <2>3. Len(priors'[t]) = Len(priors[t]) + 1 /\ priors'[t] # <<>>
        /\ priors'[t][Len(priors[t]) + 1] = flag[t]
        /\ \A i \in 1..Len(priors[t]) : priors'[t][i] = priors[t][i]
    BY <1>0, <2>1, <2>2
  <2>4. \A i \in 1..Len(priors'[t]) : priors'[t][i] <=> i # 1
    BY <2>2, <2>3
  <2>5. QED
    BY <2>1, <2>3, <2>4
<1>2. ASSUME NEW t \in Threads, LeaveBlock(t)
      PROVE  PriorsStacked'
  <2> DEFINE n == Len(priors[t])
  <2>1. priors[t] \in Seq(BOOLEAN) /\ n \in Nat \ {0}
    BY <1>0, <1>2 DEF LeaveBlock
  <2>2. priors'[t] = SubSeq(priors[t], 1, n - 1) /\ flag'[t] = priors[t][n]
        /\ \A u \in Threads \ {t} : priors'[u] = priors[u] /\ flag'[u] = flag[u]
    BY <1>0, <1>2 DEF LeaveBlock
  <2>3. flag'[t] <=> n # 1
    <3>1. n \in 1..Len(priors[t])
      BY <2>1
    <3>2. priors[t][n] <=> n # 1
      BY <3>1, Zenon
    <3>3. QED
      BY <2>2, <3>2, Zenon
  <2>4. Len(priors'[t]) = n - 1
        /\ \A i \in 1..(n - 1) : priors'[t][i] = priors[t][i]
    BY <2>1, <2>2
  <2>5. priors'[t] # <<>> <=> n # 1
    <3>1. priors'[t] \in Seq(BOOLEAN)
      BY <2>1, <2>2
    <3>2. priors'[t] = <<>> <=> Len(priors'[t]) = 0
      BY <3>1
    <3>3. QED
      BY <2>1, <2>4, <3>2
  <2>6. \A i \in 1..Len(priors'[t]) : priors'[t][i] <=> i # 1
    BY <2>1, <2>4
  <2>7. QED
    BY <2>2, <2>3, <2>5, <2>6
<1>3. ASSUME UNCHANGED blocks
      PROVE  PriorsStacked'
  BY <1>3 DEF blocks
<1>4. QED
  BY <1>1, <1>2, <1>3 DEF Next, Tick, KeyAccepted, KeyRefused, GlobalAccepted,
     GlobalRefused, KeyUncounted, GlobalUncounted, Evict, Accept, Grant, vars, blocks

\* reserving_headroom_for_live_traffic: a thread is in background mode exactly
\* while it is inside a reserving block, however deeply blocks nest.
THEOREM HeadroomFlagIsScoped == Spec => []HeadroomFlagScoped
<1>1. Init => PriorsStacked
  BY DEF Init, PriorsStacked
<1>2. TypeOK /\ PriorsStacked /\ [Next]_vars => PriorsStacked'
  BY PriorsStackedStep
<1>3. PriorsStacked => HeadroomFlagScoped
  BY DEF PriorsStacked, HeadroomFlagScoped
<1>4. QED
  BY TypeCorrect, <1>1, <1>2, <1>3, PTL DEF Spec
=============================================================================

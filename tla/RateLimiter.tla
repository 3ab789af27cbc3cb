----------------------------- MODULE RateLimiter -----------------------------
(***************************************************************************)
(* The client-side request budget of TornApi::RateLimiter.  Every caller   *)
(* of the Torn API, on every thread of every process, goes through         *)
(* acquire! before any HTTP happens; the counters live in Rails.cache.     *)
(* A budget window is one clock minute.  acquire! is two atomic cache      *)
(* increments (the key's window, then the global one) with nothing holding *)
(* them together: the clock may roll over between them, and a charge is    *)
(* never given back when the call is refused.                              *)
(***************************************************************************)
EXTENDS Integers, Sequences

CONSTANTS
    Keys,             \* api keys
    Threads,          \* web and job threads
    Global,           \* names the budget shared by all keys
    NoKey,            \* "this thread is not inside acquire!"
    KeyLimit,         \* REQUESTS_PER_MINUTE
    BackgroundLimit,  \* BACKGROUND_REQUESTS_PER_MINUTE
    GlobalLimit,      \* GLOBAL_REQUESTS_PER_MINUTE
    TornHardLimit,    \* TORN_HARD_LIMIT
    WindowTicks,      \* WINDOW_SECONDS
    MaxMinute,        \* bound: last minute the clock reaches
    MaxCharges,       \* bound: charges against one budget in one minute
    MaxDepth,         \* bound: nested reserving blocks on one thread
    MaxFaults         \* bound: charges the cache does not take or does not keep

ASSUME BudgetAssumption ==
    /\ KeyLimit \in Nat /\ BackgroundLimit \in Nat \ {0} /\ GlobalLimit \in Nat \ {0}
    /\ TornHardLimit \in Nat
    /\ BackgroundLimit <= KeyLimit
    /\ 2 * KeyLimit <= TornHardLimit   \* REQUESTS_PER_MINUTE = TORN_HARD_LIMIT / 2
    /\ WindowTicks \in Nat \ {0} /\ MaxMinute \in Nat
    /\ MaxCharges \in Nat /\ MaxDepth \in Nat /\ MaxFaults \in Nat
ASSUME NameAssumption == Global \notin Keys /\ NoKey \notin Keys

VARIABLES
    minute, second,   \* the clock: Time.current.to_i is minute * WindowTicks + second
    window,           \* newest cache entry of each budget
    flag,             \* Thread.current[:torn_api_reserve_headroom], nil read as FALSE
    priors,           \* per thread, the values the enclosing reserving blocks restore
    acquiring,        \* the key a thread has charged while the global charge is due
    live,             \* history: live acquires accepted by the key window, per minute
    background,       \* history: the same for background acquires
    starved,          \* history: keys that refused live traffic its reserved share
    granted,          \* history: acquires that returned true, per minute
    uncounted,        \* history: the budgets, by minute, the cache failed to count
    faults            \* history: how often it failed

clock == <<minute, second>>
blocks == <<flag, priors>>
history == <<live, background, starved, granted>>
failures == <<uncounted, faults>>
vars == <<minute, second, window, flag, priors, acquiring,
          live, background, starved, granted, uncounted, faults>>

Budgets == Keys \cup {Global}
Minutes == 0..MaxMinute

Entry == [stamp: Minutes, born: 0..(WindowTicks - 1), count: Nat]

TypeOK ==
    /\ minute \in Minutes /\ second \in 0..(WindowTicks - 1)
    /\ window \in [Budgets -> Entry]
    /\ flag \in [Threads -> BOOLEAN]
    /\ priors \in [Threads -> Seq(BOOLEAN)]
    /\ acquiring \in [Threads -> Keys \cup {NoKey}]
    /\ live \in [Keys -> [Minutes -> Nat]]
    /\ background \in [Keys -> [Minutes -> Nat]]
    /\ starved \in SUBSET Keys
    /\ granted \in [Minutes -> Nat]
    /\ uncounted \subseteq Budgets \X Minutes
    /\ faults \in Nat

Init ==
    /\ minute = 0 /\ second = 0
    /\ window = [b \in Budgets |-> [stamp |-> 0, born |-> 0, count |-> 0]]
    /\ flag = [t \in Threads |-> FALSE]
    /\ priors = [t \in Threads |-> <<>>]
    /\ acquiring = [t \in Threads |-> NoKey]
    /\ live = [k \in Keys |-> [m \in Minutes |-> 0]]
    /\ background = [k \in Keys |-> [m \in Minutes |-> 0]]
    /\ starved = {}
    /\ granted = [m \in Minutes |-> 0]
    /\ uncounted = {} /\ faults = 0

-----------------------------------------------------------------------------
(* Rails.cache, as increment and current use it.  The entry's name carries *)
(* the minute, so an entry of another minute is another entry; one that    *)
(* is older than expires_in (two windows) is gone.                         *)

Age(b) == (minute - window[b].stamp) * WindowTicks + second - window[b].born

Current(b) == window[b].stamp = minute /\ Age(b) < 2 * WindowTicks

Count(b) == IF Current(b) THEN window[b].count ELSE 0

\* Mutant: the stamp rounds up instead of down.
IncrementCeil(b) ==
    window' = [window EXCEPT ![b] =
        [stamp |-> minute + 1, born |-> second, count |-> Count(b) + 1]]

Increment(b) ==
    window' = [window EXCEPT ![b] =
        [stamp |-> minute,
         born  |-> IF Current(b) THEN window[b].born ELSE second,
         count |-> Count(b) + 1]]

\* The cache does not count a charge against b, or drops b's counter.
Miscount(b) ==
    /\ faults < MaxFaults /\ faults' = faults + 1
    /\ uncounted' = uncounted \cup {<<b, minute>>}

\* Mutant: the two limits are swapped.
LimitSwapped(t) == IF flag[t] THEN KeyLimit ELSE BackgroundLimit

Limit(t) == IF flag[t] THEN BackgroundLimit ELSE KeyLimit

\* remaining: the unused part of a key's budget, shown on the admin pages.
Remaining(k) == IF Count(k) < KeyLimit THEN KeyLimit - Count(k) ELSE 0

-----------------------------------------------------------------------------

Tick ==
    /\ \/ second + 1 < WindowTicks /\ second' = second + 1 /\ minute' = minute
       \/ second + 1 = WindowTicks /\ minute < MaxMinute
          /\ second' = 0 /\ minute' = minute + 1
    /\ UNCHANGED <<window, blocks, acquiring, history, failures>>

\* reserving_headroom_for_live_traffic, up to its yield.
EnterBlock(t) ==
    /\ acquiring[t] = NoKey
    /\ Len(priors[t]) < MaxDepth
    /\ priors' = [priors EXCEPT ![t] = Append(@, flag[t])]
    /\ flag' = [flag EXCEPT ![t] = TRUE]
    /\ UNCHANGED <<clock, window, acquiring, history, failures>>

\* Mutant: the ensure clause clears the flag instead of restoring it.
LeaveBlockClears(t) ==
    /\ acquiring[t] = NoKey
    /\ priors[t] # <<>>
    /\ flag' = [flag EXCEPT ![t] = FALSE]
    /\ priors' = [priors EXCEPT ![t] = SubSeq(@, 1, Len(@) - 1)]
    /\ UNCHANGED <<clock, window, acquiring, history, failures>>

\* Its ensure clause: taken on a return and on a raise alike.
LeaveBlock(t) ==
    /\ acquiring[t] = NoKey
    /\ priors[t] # <<>>
    /\ flag' = [flag EXCEPT ![t] = priors[t][Len(priors[t])]]
    /\ priors' = [priors EXCEPT ![t] = SubSeq(@, 1, Len(@) - 1)]
    /\ UNCHANGED <<clock, window, acquiring, history, failures>>

\* The key's window lets a thread go on to the global one.
Accept(t, k) ==
    /\ acquiring' = [acquiring EXCEPT ![t] = k]
    /\ IF flag[t]
       THEN background' = [background EXCEPT ![k][minute] = @ + 1] /\ UNCHANGED live
       ELSE live' = [live EXCEPT ![k][minute] = @ + 1] /\ UNCHANGED background
    /\ UNCHANGED <<clock, blocks, starved, granted>>

\* The global window does.
Grant(t) ==
    /\ granted' = [granted EXCEPT ![minute] = @ + 1]
    /\ acquiring' = [acquiring EXCEPT ![t] = NoKey]
    /\ UNCHANGED <<clock, blocks, live, background, starved>>

\* acquire!, first increment: within the limit the thread goes on ...
KeyAccepted(t, k) ==
    /\ acquiring[t] = NoKey
    /\ Count(k) < MaxCharges
    /\ Count(k) + 1 <= Limit(t)
    /\ Increment(k)
    /\ Accept(t, k)
    /\ UNCHANGED failures

\* ... over it RateLimitError is raised, and the charge stays.
KeyRefused(t, k) ==
    /\ acquiring[t] = NoKey
    /\ Count(k) < MaxCharges
    /\ Count(k) + 1 > Limit(t)
    /\ Increment(k)
    /\ starved' = IF ~flag[t] /\ live[k][minute] < KeyLimit - BackgroundLimit
                  THEN starved \cup {k} ELSE starved
    /\ UNCHANGED <<clock, blocks, acquiring, live, background, granted, failures>>

\* Mutant: the global cap is compared before the increment.
GlobalAcceptedOneMore(t) ==
    /\ acquiring[t] # NoKey
    /\ Count(Global) <= GlobalLimit
    /\ Increment(Global)
    /\ Grant(t)
    /\ UNCHANGED failures

\* acquire!, second increment, in whatever minute the thread gets to it.
GlobalAccepted(t) ==
    /\ acquiring[t] # NoKey
    /\ Count(Global) + 1 <= GlobalLimit
    /\ Increment(Global)
    /\ Grant(t)
    /\ UNCHANGED failures

GlobalRefused(t) ==
    /\ acquiring[t] # NoKey
    /\ Count(Global) + 1 > GlobalLimit
    /\ Increment(Global)
    /\ acquiring' = [acquiring EXCEPT ![t] = NoKey]
    /\ UNCHANGED <<clock, blocks, history, failures>>

\* A cache that cannot increment returns nil, which is taken for a count of 1: the
\* call goes through, on the key's window ...
KeyUncounted(t, k) ==
    /\ acquiring[t] = NoKey
    /\ Miscount(k)
    /\ Accept(t, k)
    /\ UNCHANGED window

\* ... or on the global one.
GlobalUncounted(t) ==
    /\ acquiring[t] # NoKey
    /\ Miscount(Global)
    /\ Grant(t)
    /\ UNCHANGED window

\* Solid Cache drops its oldest entries when it is full: the window counts anew.
Evict(b) ==
    /\ Count(b) > 0
    /\ Miscount(b)
    /\ window' = [window EXCEPT ![b].count = 0]
    /\ UNCHANGED <<clock, blocks, acquiring, history>>

Next ==
    \/ Tick
    \/ \E t \in Threads :
        \/ EnterBlock(t)
        \/ LeaveBlock(t)
        \/ \E k \in Keys : KeyAccepted(t, k) \/ KeyRefused(t, k)
        \/ GlobalAccepted(t)
        \/ GlobalRefused(t)
        \/ (\E k \in Keys : KeyUncounted(t, k)) \/ GlobalUncounted(t)
    \/ \E b \in Budgets : Evict(b)

Spec == Init /\ [][Next]_vars

-----------------------------------------------------------------------------

\* The cache has counted every charge against b in minute m.
Reliable(b, m) == <<b, m>> \notin uncounted

\* Within one minute a key carries at most its budget, live and background
\* traffic together, and background traffic alone stays under its own limit,
\* whatever the interleaving of the threads' increments; unless the cache failed
\* to count that key in that minute ("treat as unlimited").
KeyBudget ==
    \A k \in Keys, m \in Minutes : Reliable(k, m) =>
        /\ live[k][m] + background[k][m] <= KeyLimit
        /\ background[k][m] <= BackgroundLimit

\* The calls allowed out of this server in one minute respect the global cap,
\* although the key's charge and the global one may fall in different minutes,
\* and whatever the cache failed to count against the keys.
GlobalBudget == \A m \in Minutes : Reliable(Global, m) => granted[m] <= GlobalLimit

\* Any stretch of time one window long touches at most two minutes, so halving
\* Torn's limit keeps a key under it across a window boundary.
WithinHardLimit ==
    \A k \in Keys, m \in Minutes :
        m + 1 \in Minutes /\ Reliable(k, m) /\ Reliable(k, m + 1) =>
            live[k][m] + background[k][m] + live[k][m + 1] + background[k][m + 1]
                <= TornHardLimit

\* A thread is in background mode exactly while it is inside a reserving block,
\* nested blocks and raised RateLimitErrors included (a web thread that runs a
\* job with perform_now must come out of it as a live thread).
HeadroomFlagScoped == \A t \in Threads : flag[t] <=> priors[t] # <<>>

\* What remaining promises for the current minute is never more than what the
\* accepted calls have left of the budget.
RemainingIsHonest ==
    \A k \in Keys : Reliable(k, minute) =>
        live[k][minute] + background[k][minute] + Remaining(k) <= KeyLimit

\* "Background jobs leave the top 15% of each key's budget for live web
\* traffic": a live call is never refused by its key's window before live
\* traffic has had the part of the budget that background traffic leaves.
HeadroomForLive == starved = {}
=============================================================================

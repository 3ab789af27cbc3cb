---------------------------- MODULE MCRateLimiter ----------------------------
(* RateLimiter with the symmetry TLC may use: keys and threads are alike.  *)
EXTENDS RateLimiter, TLC

Symmetry == Permutations(Keys) \cup Permutations(Threads)

\* No guard reads starved, and only HeadroomForLive speaks of it.
Unstarved == <<minute, second, window, flag, priors, acquiring, live, background,
               granted, uncounted, faults>>

\* The cache fails in the first minute, if it does; one thread at most, in one block,
\* makes background calls then and later.
EarlyFaults ==
    faults > 0 => /\ uncounted \subseteq Budgets \X {0}
                  /\ \A t \in Threads : Len(priors[t]) <= 1
                  /\ \A t, u \in Threads : priors[t] = <<>> \/ priors[u] = <<>> \/ t = u
=============================================================================

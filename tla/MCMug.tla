-------------------------------- MODULE MCMug --------------------------------
(***************************************************************************)
(* The two parts of mugging in the userscript share the key and nothing     *)
(* else.  It is enough to explore each, with a key that comes and goes,     *)
(* while the other is as it started.                                        *)
(***************************************************************************)
EXTENDS MugHelper

TabAtRest == logs = <<>> /\ button /\ result = NoResult /\ \A w \in Walks : walk[w] = NoWalk
WindowAtRest ==
    /\ url = "none" /\ shown = "none" /\ rows = <<>> /\ \A i \in Items : price[i] = "none"
    /\ \A f \in Fetches : fetch[f] = "none"
    /\ \A r \in Runs : run[r] = NoRun

MCSpec == Init /\ [][Next /\ (TabAtRest' \/ WindowAtRest')]_vars /\ Fairness
=============================================================================

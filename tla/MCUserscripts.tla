---------------------------- MODULE MCUserscripts ----------------------------
(***************************************************************************)
(* The chat dock and the recruiter's search are userscripts of their own,   *)
(* which share no variable, nor do their servers: it is enough to explore   *)
(* each while the other is as it started.  Some filters match two companies *)
(* on a first page and nothing on a second one.                             *)
(***************************************************************************)
EXTENDS ChatDock, RecruiterSearch, TLC

MCFound == "wide" :> (0 :> {1, 2} @@ 1 :> {}) @@ "narrow" :> (0 :> {2} @@ 1 :> {})

MCVars == <<vars, searchVars>>
MCInit == Init /\ SearchInit /\ filters = "wide"

ChatAtRest == Init /\ kind = "public" /\ ~member /\ ~hasKey
SearchAtRest == events = 0

MCSpec ==
    /\ MCInit
    /\ [][\/ SearchAtRest /\ Next /\ UNCHANGED searchVars
          \/ ChatAtRest /\ SearchNext /\ UNCHANGED vars]_MCVars
=============================================================================

-------------------------------- MODULE MugLogs --------------------------------
(***************************************************************************)
(* The Mugging tab's walk through the player's mugging log.  Torn gives a   *)
(* page of the newest mugs up to a moment, and the userscript follows the   *)
(* pages back until the start date, a short page, the end of the log or its *)
(* own limit, while the player may go on mugging.  What a walk found        *)
(* replaces the result kept in localStorage.                                *)
(***************************************************************************)
EXTENDS Integers, Sequences, FiniteSets, FiniteSetsExt

CONSTANTS
    PageLimit,    \* PAGE_LIMIT
    MaxPages,     \* MAX_PAGES
    LastMoment,   \* bound: moments there are
    MaxMugs,      \* bound: entries of the log
    MaxWalks      \* bound: walks under way together

ASSUME MugLogsAssumption ==
    /\ PageLimit \in Nat \ {0} /\ MaxPages \in Nat \ {0}
    /\ LastMoment \in Nat /\ MaxMugs \in Nat /\ MaxWalks \in Nat

VARIABLES
    logs,        \* moments of the player's mugs, in the order of their ids
    key,         \* tm_mug_key: the player's Full Access key
    button,      \* fetchBtn is enabled
    walk,        \* the calls of runFetch
    result       \* tm_mug_logs

logVars == <<logs, key, button, walk, result>>

Moments == 0..LastMoment
Mugs == 1..MaxMugs
Walks == 1..MaxWalks
Walk == [pc : {"idle", "asking"}, start : Moments, end : Moments, to : Moments,
         page : 1..MaxPages, begun : 0..MaxMugs, seen : SUBSET Mugs]
NoWalk == [pc |-> "idle", start |-> 0, end |-> 0, to |-> 0, page |-> 1, begun |-> 0, seen |-> {}]
\* given_up: the walk was ended by its page limit.  begun: the mugs there were
\* when it began (history).
Result == [stored : BOOLEAN, start : Moments, end : Moments, begun : 0..MaxMugs,
           found : SUBSET Mugs, given_up : BOOLEAN]
NoResult == [stored |-> FALSE, start |-> 0, end |-> 0, begun |-> 0, found |-> {}, given_up |-> FALSE]

LogsTypeOK ==
    /\ logs \in Seq(Moments) /\ Len(logs) <= MaxMugs
    /\ key \in BOOLEAN /\ button \in BOOLEAN
    /\ walk \in [Walks -> Walk] /\ result \in Result

LogsInit ==
    /\ logs = <<>> /\ key = TRUE /\ button = TRUE
    /\ walk = [w \in Walks |-> NoWalk] /\ result = NoResult

-----------------------------------------------------------------------------
(* The player and the Mugging tab.                                         *)

\* Time does not go back, and endTs is not later than the moment of the fetch.
Mug(t) ==
    /\ Len(logs) < MaxMugs
    /\ \A i \in DOMAIN logs : logs[i] <= t
    /\ \A w \in Walks : walk[w].end <= t
    /\ logs' = Append(logs, t)
    /\ UNCHANGED <<key, button, walk, result>>

\* runFetch, with dates in order.
RunFetch(w, start, end) ==
    /\ key /\ button /\ walk[w].pc = "idle" /\ start <= end
    /\ button' = FALSE
    /\ walk' = [walk EXCEPT ![w] = [pc |-> "asking", start |-> start, end |-> end, to |-> end,
                                     page |-> 1, begun |-> Len(logs), seen |-> {}]]
    /\ UNCHANGED <<logs, key, result>>

\* "Remove key", and a key connected again: the tab is rendered anew, with a
\* button of its own, and a walk under way goes on.
RemoveKey ==
    /\ key /\ key' = FALSE /\ result' = NoResult
    /\ UNCHANGED <<logs, button, walk>>
Connect ==
    /\ ~key /\ key' = TRUE /\ button' = TRUE
    /\ UNCHANGED <<logs, walk, result>>

\* Another part of the userscript, or another fetch, finds that Torn rejects it.
KeyRejected ==
    /\ key /\ key' = FALSE
    /\ UNCHANGED <<logs, button, walk, result>>

-----------------------------------------------------------------------------
(* MugLogs.fetch.                                                          *)

\* Mutant: the next page is asked for up to the moment before the oldest.
BeforeOldest(page) == Min({logs[i] : i \in page}) - 1

Oldest(page) == Min({logs[i] : i \in page})

\* The mugs the result is made of.
Between(mugs, start, end) == {i \in mugs : start <= logs[i] /\ logs[i] <= end}

Ends(w) == walk' = [walk EXCEPT ![w] = NoWalk]

\* The loop is over: what is between the dates is stored.  The button that is
\* enabled is the one the walk was started with, or one nobody sees any more.
Done(w, seen, limit) ==
    /\ Ends(w)
    /\ result' = [stored |-> TRUE, start |-> walk[w].start, end |-> walk[w].end,
                  begun |-> walk[w].begun, found |-> Between(seen, walk[w].start, walk[w].end),
                  given_up |-> limit]
    /\ button' \in {button, TRUE}

\* A page is the newest PageLimit of the n mugs up to the moment asked for.
\* A link to older ones may be left out of the answer when there are none.
NextPage(w) ==
    /\ walk[w].pc = "asking"
    /\ \E n \in 0..Len(logs), last \in BOOLEAN :
         /\ \A i \in DOMAIN logs : logs[i] <= walk[w].to <=> i <= n
         /\ last => n <= PageLimit
         /\ LET page == {i \in 1..n : i > n - PageLimit}
                seen == walk[w].seen \cup page
            IN  IF n = 0 THEN Done(w, seen, FALSE)
                ELSE IF Oldest(page) <= walk[w].start \/ n < PageLimit \/ last THEN Done(w, seen, FALSE)
                ELSE IF walk[w].page = MaxPages THEN Done(w, seen, TRUE)
                ELSE /\ walk' = [walk EXCEPT ![w].to = Oldest(page), ![w].page = @ + 1, ![w].seen = seen]
                     /\ UNCHANGED <<result, button>>
    /\ UNCHANGED <<logs, key>>

\* Torn is out of reach or rejects the key; nothing is stored.
FetchLost(w) ==
    /\ walk[w].pc = "asking"
    /\ Ends(w) /\ button' \in {button, TRUE} /\ key' \in {key, FALSE}
    /\ UNCHANGED <<logs, result>>

LogsNext ==
    \/ \E t \in Moments : Mug(t)
    \/ RemoveKey \/ Connect \/ KeyRejected
    \/ \E w \in Walks : NextPage(w) \/ FetchLost(w) \/ \E s, e \in Moments : RunFetch(w, s, e)

LogsSpec == LogsInit /\ [][LogsNext]_logVars

-----------------------------------------------------------------------------

\* A stored result holds every mug of its date range that there was when the
\* fetch began, also where a page ended in the middle of a moment and while new
\* mugs came in, and nothing from outside the range.  Exceptions are the start
\* date's first second, of which the loop may see a part only, and a walk that
\* was given up at the page limit.
FetchedExactly ==
    result.stored =>
        /\ result.found \subseteq Between(DOMAIN logs, result.start, result.end)
        /\ result.given_up \/ \A i \in 1..result.begun :
               result.start < logs[i] /\ logs[i] <= result.end => i \in result.found
=============================================================================

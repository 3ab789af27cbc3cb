---------------------------- MODULE RecruiterSearch ----------------------------
(***************************************************************************)
(* The search screen of the Recruiter userscript and the server's cache of *)
(* company statuses it polls.  fetchMatches and the rounds of status       *)
(* requests that follow it, and the forced refresh, are asynchronous       *)
(* functions: each is a flow of its own, and all of them change the        *)
(* screen's fields when their awaits return.  (The screen's container is   *)
(* the overlay's body, which stays in the document once mounted, so the    *)
(* isConnected tests always succeed.)                                      *)
(***************************************************************************)
EXTENDS Integers, FiniteSets

CONSTANTS
    Companies,
    Filters,        \* types, stars, least working stats, faction mates
    Found,          \* the companies on each page of the matches of some filters
    MaxMatchPages,  \* bound: pages of matches
    MaxSearches,    \* bound: flows that fetchMatches starts, together
    ChunkSize,      \* STATUS_COMPANIES_PER_REQUEST
    StatusPolls,    \* STATUS_POLL_ATTEMPTS
    RefreshPolls,   \* maxAttempts of pollStatusRefresh
    MaxEvents       \* bound: what the user and other recruiters do, and what
                    \* the cache forgets, together

Pages == 0..(MaxMatchPages - 1)

ASSUME SearchAssumption ==
    /\ Companies \subseteq Nat /\ IsFiniteSet(Companies) /\ MaxMatchPages \in Nat \ {0}
    /\ Found \in [Filters -> [Pages -> SUBSET Companies]]
    /\ MaxSearches \in Nat /\ ChunkSize \in Nat \ {0}
    /\ StatusPolls \in Nat /\ RefreshPolls \in Nat \ {0}
    /\ MaxEvents \in Nat

VARIABLES
    filters,     \* the filters chosen
    at,          \* this.page
    response,    \* this.response: what was asked and of how many pages it is
    view,        \* what resultsWrap shows
    drawn,       \* metaEl has its buttons
    refreshing,  \* this.statusRefresh is set
    known,       \* this.statusByPlayer, by company
    flow,        \* fetchMatches and its rounds; the forced refresh
    cached,      \* recruiter:status:<company>
    marked,      \* recruiter:status:enqueued:<company>
    queued,      \* CompanyStatusJobs to be performed
    events,      \* history: how many of these there were so far
    behind,      \* history: the last search met another one under way, or failed
    dropped,     \* history: what the forced refresh has dropped from the cache
    outrun       \* history: ... whose new status an older answer has replaced

screen == <<filters, at, response, view, drawn, refreshing, known>>
statusCache == <<cached, marked, queued>>
record == <<behind, dropped, outrun>>
searchVars == <<screen, flow, statusCache, events, record>>

\* A status is old if it was in the cache, or already answered, when a forced
\* refresh dropped its company from the cache.
Answers == {"none", "new", "old"}
Aged(s) == IF s = "none" THEN "none" ELSE "old"

Searches == 1..MaxSearches
Forced == 0
Flows == Searches \cup {Forced}
Resting == [pc |-> "idle", query |-> <<>>, round |-> {}, todo |-> {}, chunk |-> {},
            reply |-> <<>>, pending |-> FALSE, attempt |-> 0]
Searching == \E p \in Searches : flow[p].pc = "searching"

SearchTypeOK ==
    /\ filters \in Filters /\ at \in Pages
    /\ response \in [filters : Filters, at : Pages, pages : 0..MaxMatchPages]
    /\ view \in {"nothing", "loading", "error", "results"}
    /\ drawn \in BOOLEAN /\ refreshing \in BOOLEAN /\ behind \in BOOLEAN
    /\ known \in [Companies -> Answers] /\ cached \in [Companies -> Answers]
    /\ marked \in [Companies -> BOOLEAN] /\ queued \in [Companies -> Nat]
    /\ events \in 0..MaxEvents /\ dropped \subseteq Companies /\ outrun \subseteq Companies
    /\ DOMAIN flow = Flows
    /\ \A p \in Flows :
         /\ flow[p].pc \in {"idle", "searching", "asked", "told", "sleeping"}
         /\ flow[p].query \in {<<>>} \cup (Filters \X Pages)
         /\ flow[p].chunk \cup flow[p].todo \subseteq flow[p].round
         /\ flow[p].round \subseteq Companies
         /\ flow[p].reply \in {<<>>} \cup [flow[p].chunk -> Answers]
         /\ flow[p].pending \in BOOLEAN
         /\ flow[p].attempt \in 0..(StatusPolls + RefreshPolls)

SearchInit ==
    /\ filters \in Filters /\ at = 0
    /\ response = [filters |-> filters, at |-> 0, pages |-> 0]
    /\ view = "nothing" /\ drawn = FALSE /\ refreshing = FALSE
    /\ known = [c \in Companies |-> "none"]
    /\ flow = [p \in Flows |-> Resting]
    /\ cached = [c \in Companies |-> "none"]
    /\ marked = [c \in Companies |-> FALSE] /\ queued = [c \in Companies |-> 0]
    /\ events = 0 /\ behind = FALSE /\ dropped = {} /\ outrun = {}

-----------------------------------------------------------------------------
(* Searching.                                                              *)

\* pageCompanyIds
OnPage(r) == IF r.at < r.pages THEN Found[r.filters][r.at] ELSE {}

\* Mutant: the page is left as it is.
RenderResultsAsIs(r) ==
    IF r.pages = 0 THEN UNCHANGED <<at, view, drawn>>
    ELSE at' = at /\ view' = "results" /\ drawn' = TRUE

\* renderResults and renderMeta, with the response r.
RenderResults(r) ==
    IF r.pages = 0 THEN UNCHANGED <<at, view, drawn>>
    ELSE /\ at' = IF at < r.pages THEN at ELSE r.pages - 1
         /\ view' = "results" /\ drawn' = TRUE

Happens == events < MaxEvents /\ events' = events + 1

\* fetchMatches, up to its await, by the first flow that rests.
FetchMatches(p) ==
    /\ flow[p].pc = "idle" /\ \A q \in Searches : q < p => flow[q].pc # "idle"
    /\ flow' = [flow EXCEPT ![p].pc = "searching", ![p].query = <<filters', at'>>]
    /\ behind' = Searching
    /\ UNCHANGED <<response, refreshing, known, statusCache, dropped, outrun>>

\* Overlay#show: the screen is rendered anew.
OpenScreen(p) ==
    /\ Happens /\ UNCHANGED <<filters, at>>
    /\ view' = "loading" /\ drawn' = FALSE /\ FetchMatches(p)

\* The chips of types and the steppers refresh the overlay; the field of least
\* stats and the chip of faction mates search at once.
Choose(p) ==
    /\ Happens /\ view # "nothing"
    /\ filters' \in Filters \ {filters} /\ at' = 0
    /\ view' = "loading" /\ drawn' \in {drawn, FALSE} /\ FetchMatches(p)

\* Mutant: the pager's buttons are never disabled.
TurnAnywhere(p) ==
    /\ Happens /\ view = "results"
    /\ at' \in {at - 1, at + 1}
    /\ view' = "loading" /\ UNCHANGED <<filters, drawn>> /\ FetchMatches(p)

\* The pager's buttons.
Turn(p) ==
    /\ Happens /\ view = "results"
    /\ at' \in {at - 1, at + 1} /\ 0 <= at' /\ at' < response.pages
    /\ view' = "loading" /\ UNCHANGED <<filters, drawn>> /\ FetchMatches(p)

\* The chip of the status filter renders what there is.
FilterByStatus ==
    /\ Happens /\ view # "nothing" /\ RenderResults(response)
    /\ UNCHANGED <<filters, response, refreshing, known, flow, statusCache, record>>

-----------------------------------------------------------------------------
(* Rounds of status requests.                                              *)

\* The next chunk of cs: the companies of a page come in a fixed order, here
\* that of their numbers.
Chunks(cs) ==
    {d \in SUBSET cs : /\ Cardinality(d) = ChunkSize \/ (d = cs /\ Cardinality(d) < ChunkSize)
                      /\ \A c \in d, e \in cs \ d : c < e}

\* The round of requests that forces the server to fetch.
Forces(p) == p = Forced /\ flow[p].attempt = 0

\* statusForAllChunks, up to its first await.
Round(cs, n) ==
    {[Resting EXCEPT !.pc = "asked", !.round = cs, !.todo = cs \ d, !.chunk = d, !.attempt = n] :
        d \in Chunks(cs)}

Asleep(n) == [Resting EXCEPT !.pc = "sleeping", !.attempt = n]

\* refreshStatuses, with the response r.
RefreshStatuses(r, n) ==
    IF OnPage(r) = {} \/ refreshing THEN {Resting} ELSE Round(OnPage(r), n)

\* fetchMatches goes on with the answer, ...
SearchAnswered(p) ==
    /\ flow[p].pc = "searching"
    /\ \E n \in 1..MaxMatchPages :
         response' = [filters |-> flow[p].query[1], at |-> flow[p].query[2], pages |-> n]
    /\ RenderResults(response')
    /\ \E next \in RefreshStatuses(response', 0) : flow' = [flow EXCEPT ![p] = next]
    /\ UNCHANGED <<filters, refreshing, known, statusCache, events, record>>

\* ... or shows the error.
SearchFails(p) ==
    /\ flow[p].pc = "searching"
    /\ view' = "error" /\ behind' = TRUE
    /\ flow' = [flow EXCEPT ![p] = Resting]
    /\ UNCHANGED <<filters, at, response, drawn, refreshing, known, statusCache, events,
                   dropped, outrun>>

\* The Refresh status button, there after renderMeta unless a refresh is under
\* way, and forceRefreshStatus.
PressRefresh ==
    /\ Happens /\ drawn /\ ~refreshing /\ OnPage(response) # {}
    /\ refreshing' = TRUE /\ RenderResults(response)
    /\ \E next \in Round(OnPage(response), 0) : flow' = [flow EXCEPT ![Forced] = next]
    /\ dropped' = {} /\ outrun' = {}
    /\ UNCHANGED <<filters, response, known, statusCache, behind>>

\* finally: the refresh is over.
EndRefresh ==
    /\ refreshing' = FALSE /\ RenderResults(response)
    /\ flow' = [flow EXCEPT ![Forced] = Resting]

\* refreshStatuses and pollStatusRefresh after STATUS_POLL_MS.  Without
\* companies on the page nothing is pending.
Wake(p) ==
    /\ flow[p].pc = "sleeping"
    /\ \/ /\ p = Forced /\ OnPage(response) = {} /\ EndRefresh
       \/ /\ p # Forced \/ OnPage(response) # {}
          /\ \E next \in IF p = Forced THEN Round(OnPage(response), flow[p].attempt + 1)
                                       ELSE RefreshStatuses(response, flow[p].attempt + 1) :
               flow' = [flow EXCEPT ![p] = next]
          /\ UNCHANGED <<at, view, drawn, refreshing>>
    /\ UNCHANGED <<filters, response, known, statusCache, events, record>>

\* A round has all its answers, some of them pending or none: refreshStatuses and
\* pollStatusRefresh wait for the next attempt or end; polls follow the forced
\* round in any case.
RoundEnds(p, waits) ==
    LET n == flow[p].attempt
        last == n = IF p = Forced THEN RefreshPolls ELSE StatusPolls
    IN  \/ /\ Forces(p)
           /\ flow' = [flow EXCEPT ![p] = Asleep(n)]
           /\ UNCHANGED <<at, view, drawn, refreshing>>
        \/ /\ ~Forces(p) /\ waits /\ ~last
           /\ flow' = [flow EXCEPT ![p] = Asleep(n)]
           /\ RenderResults(response) /\ UNCHANGED refreshing
        \/ /\ ~Forces(p) /\ (~waits \/ last) /\ p = Forced /\ EndRefresh
        \/ /\ ~Forces(p) /\ (~waits \/ last) /\ p # Forced
           /\ flow' = [flow EXCEPT ![p] = Resting]
           /\ RenderResults(response) /\ UNCHANGED refreshing

Unanswered(p) == \E c \in flow[p].chunk : flow[p].reply[c] = "none"

\* Mutant: the last chunk's answer decides whether something is pending.
WaitsForLast(p) == Unanswered(p)

\* statusForAllChunks adds up what is pending.
Waits(p) == flow[p].pending \/ Unanswered(p)

\* applyStatuses; then the next chunk or the end of the round.
StatusReceived(p) ==
    LET f == flow[p]
        replaced == {c \in f.chunk : f.reply[c] # "none"}
    IN  /\ f.pc = "told"
        /\ known' = [c \in Companies |-> IF c \in replaced THEN f.reply[c] ELSE known[c]]
        /\ outrun' = outrun \cup {c \in replaced : f.reply[c] = "old" /\ known[c] = "new"}
        /\ IF f.todo = {} THEN RoundEnds(p, Waits(p))
           ELSE /\ \E d \in Chunks(f.todo) :
                     flow' = [flow EXCEPT ![p] = [f EXCEPT !.pc = "asked", !.todo = @ \ d,
                                !.chunk = d, !.reply = <<>>, !.pending = Waits(p)]]
                /\ UNCHANGED <<at, view, drawn, refreshing>>
        /\ UNCHANGED <<filters, response, statusCache, events, behind, dropped>>

\* The request or its answer is lost, or refused.
StatusFails(p) ==
    /\ flow[p].pc \in {"asked", "told"}
    /\ IF p = Forced /\ flow[p].attempt \in {0, RefreshPolls} THEN EndRefresh
       ELSE /\ flow' = [flow EXCEPT ![p] = IF p = Forced THEN Asleep(@.attempt) ELSE Resting]
            /\ UNCHANGED <<at, view, drawn, refreshing>>
    /\ UNCHANGED <<filters, response, known, statusCache, events, record>>

-----------------------------------------------------------------------------
(* The server.                                                             *)

\* Mutant: what is cached, old by now, is kept until the job replaces it.
LookUpKeeping(cs, force) ==
    LET missed == {c \in cs : force \/ cached[c] = "none"}
        new == {c \in missed : ~marked[c]}
    IN  /\ cached' = [c \in Companies |-> IF c \in missed THEN Aged(cached[c]) ELSE cached[c]]
        /\ marked' = [c \in Companies |-> marked[c] \/ c \in new]
        /\ queued' = [c \in Companies |-> IF c \in new THEN queued[c] + 1 ELSE queued[c]]

\* RecruiterStatusController#show: a job is queued for what is not cached, at
\* most one a minute for a company, even if it was cached until now.
LookUp(cs, force) ==
    LET missed == {c \in cs : force \/ cached[c] = "none"}
        new == {c \in missed : ~marked[c]}
    IN  /\ cached' = [c \in Companies |-> IF c \in missed THEN "none" ELSE cached[c]]
        /\ marked' = [c \in Companies |-> marked[c] \/ c \in new]
        /\ queued' = [c \in Companies |-> IF c \in new THEN queued[c] + 1 ELSE queued[c]]

\* Whatever is known of cs, or on its way to the screen, is old from now on.
Age(cs) ==
    /\ dropped' = dropped \cup cs
    /\ known' = [c \in Companies |-> IF c \in cs THEN Aged(known[c]) ELSE known[c]]

Served(p) ==
    LET f == flow[p]
        tell == [c \in f.chunk |-> IF Forces(p) THEN "none" ELSE cached[c]]
        aged(q) == [c \in DOMAIN flow[q].reply |->
                      IF Forces(p) /\ c \in f.chunk THEN Aged(flow[q].reply[c]) ELSE flow[q].reply[c]]
    IN  /\ f.pc = "asked"
        /\ LookUp(f.chunk, Forces(p))
        /\ IF Forces(p) THEN Age(f.chunk) ELSE UNCHANGED <<dropped, known>>
        /\ flow' = [q \in Flows |-> IF q = p THEN [f EXCEPT !.pc = "told", !.reply = tell]
                                             ELSE [flow[q] EXCEPT !.reply = aged(q)]]
        /\ UNCHANGED <<filters, at, response, view, drawn, refreshing, events, behind, outrun>>

\* Another recruiter's screen.
OthersServed(c, force) ==
    /\ Happens /\ LookUp({c}, force)
    /\ UNCHANGED <<screen, flow, record>>

\* CompanyStatusJob stores what it fetched.  One that finds no key or fails for
\* good is as good as one that is never performed.
JobEnds(c) ==
    /\ queued[c] > 0 /\ queued' = [queued EXCEPT ![c] = @ - 1]
    /\ cached' = [cached EXCEPT ![c] = "new"]
    /\ UNCHANGED <<screen, flow, marked, events, record>>

\* Solid Cache drops what has expired.
StatusExpires(c) ==
    /\ Happens /\ cached[c] # "none" /\ cached' = [cached EXCEPT ![c] = "none"]
    /\ UNCHANGED <<screen, flow, marked, queued, record>>

MarkerExpires(c) ==
    /\ Happens /\ marked[c] /\ marked' = [marked EXCEPT ![c] = FALSE]
    /\ UNCHANGED <<screen, flow, cached, queued, record>>

-----------------------------------------------------------------------------

FlowStep(p) ==
    \/ SearchAnswered(p) \/ SearchFails(p) \/ Wake(p)
    \/ Served(p) \/ StatusReceived(p) \/ StatusFails(p)

SearchNext ==
    \/ \E p \in Searches : OpenScreen(p) \/ Choose(p) \/ Turn(p)
    \/ FilterByStatus \/ PressRefresh
    \/ \E p \in Flows : FlowStep(p)
    \/ \E c \in Companies : \/ \E force \in BOOLEAN : OthersServed(c, force)
                            \/ JobEnds(c) \/ StatusExpires(c) \/ MarkerExpires(c)

SearchSpec == SearchInit /\ [][SearchNext]_searchVars

-----------------------------------------------------------------------------

\* When no search is under way, the rows shown are those of the chosen filters
\* and of the page the pager names, or of the last page if the matches became
\* fewer, unless the last search overtook another one or failed: rounds that
\* render the response meanwhile, and their clamping of the page, do no harm.
LatestShown ==
    ~Searching /\ ~behind /\ view = "results" =>
        /\ response.filters = filters
        /\ at = IF response.at < response.pages THEN response.at ELSE response.pages - 1

\* When a forced refresh ends with nothing pending, the status shown of each
\* company it dropped was stored after that, however searches, background
\* rounds, expiries and other recruiters came in between; only an answer from
\* before, if it is slower than those of the refresh, can replace it.
FreshAfterRefresh ==
    [][StatusReceived(Forced) /\ ~refreshing' /\ ~Waits(Forced) =>
          \A c \in flow[Forced].round \cap dropped : known'[c] = "new" \/ c \in outrun']_searchVars
=============================================================================

------------------------- MODULE RecruiterSearchProofs -------------------------
(***************************************************************************)
(* Proofs about the recruiter's search screen and the status cache, for any *)
(* companies, pages, chunk size, number of polls and of searches at a time. *)
(***************************************************************************)
EXTENDS RecruiterSearch, TLAPS

USE SearchAssumption

-----------------------------------------------------------------------------
(* What a flow can be.                                                     *)

Replies == {<<>>} \cup UNION {[d -> Answers] : d \in SUBSET Companies}

FlowRecord ==
    [pc : {"idle", "searching", "asked", "told", "sleeping"},
     query : {<<>>} \cup (Filters \X Pages),
     round : SUBSET Companies, todo : SUBSET Companies, chunk : SUBSET Companies,
     reply : Replies, pending : BOOLEAN, attempt : 0..(StatusPolls + RefreshPolls)]

LastPoll(p) == IF p = Forced THEN RefreshPolls ELSE StatusPolls

\* Only the flow that awaits its answers' handling has a reply, one for each
\* company it asked for; a flow that sleeps has an attempt left.
Fits(p, f) ==
    /\ f \in FlowRecord
    /\ f.chunk \cup f.todo \subseteq f.round
    /\ f.pc = "searching" => p \in Searches /\ f.query \in Filters \X Pages
    /\ IF f.pc = "told" THEN f.reply \in [f.chunk -> Answers] ELSE f.reply = <<>>
    /\ f.attempt <= LastPoll(p)
    /\ f.pc = "sleeping" => f.attempt < LastPoll(p)

FlowsFit == flow \in [Flows -> FlowRecord] /\ \A p \in Flows : Fits(p, flow[p])

ScreenOK ==
    /\ filters \in Filters /\ at \in Pages
    /\ response \in [filters : Filters, at : Pages, pages : 0..MaxMatchPages]
    /\ view \in {"nothing", "loading", "error", "results"}
    /\ drawn \in BOOLEAN /\ refreshing \in BOOLEAN /\ behind \in BOOLEAN

StatusOK ==
    /\ known \in [Companies -> Answers] /\ cached \in [Companies -> Answers]
    /\ marked \in [Companies -> BOOLEAN] /\ queued \in [Companies -> Nat]
    /\ events \in 0..MaxEvents /\ dropped \subseteq Companies /\ outrun \subseteq Companies

\* The pager never names a page the response does not have, so that rendering
\* the response again leaves it.
InRange == IF response.pages = 0 THEN at = 0 ELSE at < response.pages

TypeInv == ScreenOK /\ StatusOK /\ FlowsFit /\ InRange

LEMMA TypeInvTypes == TypeInv => SearchTypeOK
<1> SUFFICES ASSUME TypeInv PROVE SearchTypeOK
  OBVIOUS
<1>1. DOMAIN flow = Flows
  BY DEF TypeInv, FlowsFit
<1>2. ASSUME NEW p \in Flows
      PROVE  /\ flow[p].pc \in {"idle", "searching", "asked", "told", "sleeping"}
             /\ flow[p].query \in {<<>>} \cup (Filters \X Pages)
             /\ flow[p].chunk \cup flow[p].todo \subseteq flow[p].round
             /\ flow[p].round \subseteq Companies
             /\ flow[p].reply \in {<<>>} \cup [flow[p].chunk -> Answers]
             /\ flow[p].pending \in BOOLEAN
             /\ flow[p].attempt \in 0..(StatusPolls + RefreshPolls)
  BY DEF TypeInv, FlowsFit, Fits, FlowRecord
<1> QED  BY <1>1, <1>2 DEF TypeInv, ScreenOK, StatusOK, SearchTypeOK

LEMMA Constants ==
    /\ StatusPolls \in Nat /\ RefreshPolls \in Nat \ {0} /\ MaxMatchPages \in Nat \ {0}
    /\ MaxEvents \in Nat /\ 0 \in Pages /\ Forced \in Flows /\ Forced \notin Searches
    /\ \A p \in Flows : LastPoll(p) \in 0..(StatusPolls + RefreshPolls)
BY DEF Pages, Flows, Searches, Forced, LastPoll

LEMMA RestingFits ==
    ASSUME NEW p \in Flows
    PROVE  Fits(p, Resting) /\ Resting.pc = "idle"
BY Constants DEF Resting, Fits, FlowRecord, Replies

LEMMA AsleepFits ==
    ASSUME NEW p \in Flows, NEW n \in Nat, n < LastPoll(p), NEW f, f = Asleep(n)
    PROVE  Fits(p, f) /\ f.pc = "sleeping"
<1>1. f = [pc |-> "sleeping", query |-> <<>>, round |-> {}, todo |-> {}, chunk |-> {},
           reply |-> <<>>, pending |-> FALSE, attempt |-> n]
  BY DEF Asleep, Resting
<1>2. n \in 0..(StatusPolls + RefreshPolls)
  BY Constants
<1>3. f \in FlowRecord
  BY <1>1, <1>2 DEF FlowRecord, Replies
<1> QED  BY <1>1, <1>3, Constants DEF Fits

LEMMA ChunksAre ==
    ASSUME NEW cs, NEW d \in Chunks(cs)
    PROVE  d \subseteq cs
BY DEF Chunks

Starts(f, cs, n) ==
    /\ f.pc = "asked" /\ f.attempt = n /\ ~f.pending
    /\ f.round = cs /\ f.todo \cup f.chunk = cs

\* A round starts with a chunk of its companies to ask for and the others to do.
LEMMA RoundFits ==
    ASSUME NEW p \in Flows, NEW cs \in SUBSET Companies, NEW n \in Nat, n <= LastPoll(p),
           NEW f \in Round(cs, n)
    PROVE  Fits(p, f) /\ Starts(f, cs, n)
<1>1. PICK d \in Chunks(cs) :
        f = [Resting EXCEPT !.pc = "asked", !.round = cs, !.todo = cs \ d, !.chunk = d, !.attempt = n]
  BY DEF Round
<1>2. d \subseteq cs
  BY ChunksAre
<1>3. f = [pc |-> "asked", query |-> <<>>, round |-> cs, todo |-> cs \ d, chunk |-> d,
           reply |-> <<>>, pending |-> FALSE, attempt |-> n]
  BY <1>1 DEF Resting
<1>4. f \in FlowRecord
  BY <1>2, <1>3, Constants DEF FlowRecord, Replies
<1> QED  BY <1>2, <1>3, <1>4 DEF Fits, Starts

LEMMA PageIsCompanies ==
    ASSUME NEW r \in [filters : Filters, at : Pages, pages : 0..MaxMatchPages]
    PROVE  OnPage(r) \in SUBSET Companies
BY DEF OnPage

LEMMA StatusesFit ==
    ASSUME NEW p \in Flows, NEW n \in Nat, n <= LastPoll(p),
           NEW r \in [filters : Filters, at : Pages, pages : 0..MaxMatchPages],
           NEW f \in RefreshStatuses(r, n)
    PROVE  Fits(p, f) /\ f.pc \in {"idle", "asked"}
<1>1. CASE f = Resting
  BY <1>1, RestingFits
<1>2. CASE f \in Round(OnPage(r), n)
  <2>1. OnPage(r) \in SUBSET Companies
    BY PageIsCompanies
  <2> DEFINE cs == OnPage(r)
  <2> HIDE DEF cs
  <2>2. cs \in SUBSET Companies /\ f \in Round(cs, n)
    BY <1>2, <2>1 DEF cs
  <2>3. Fits(p, f) /\ Starts(f, cs, n)
    BY <2>2, RoundFits
  <2> QED  BY <2>3 DEF Starts
<1> QED  BY <1>1, <1>2 DEF RefreshStatuses

\* One flow goes on, the others stay.
LEMMA FlowGoesOn ==
    ASSUME FlowsFit, NEW p \in Flows, NEW f, Fits(p, f), flow' = [flow EXCEPT ![p] = f]
    PROVE  FlowsFit'
BY DEF FlowsFit, Fits

-----------------------------------------------------------------------------
(* Rendering.                                                              *)

Response == [filters : Filters, at : Pages, pages : 0..MaxMatchPages]

\* What is rendered is in range.
LEMMA RenderFits ==
    ASSUME ScreenOK, NEW r \in Response, RenderResults(r)
    PROVE  /\ at' \in Pages /\ view' \in {"nothing", "loading", "error", "results"} /\ drawn' \in BOOLEAN
           /\ IF r.pages = 0 THEN at' = at /\ view' = view
              ELSE at' < r.pages /\ at' = (IF at < r.pages THEN at ELSE r.pages - 1)
<1>1. at \in Pages /\ r.pages \in 0..MaxMatchPages
  BY DEF ScreenOK, Response
<1>2. CASE r.pages = 0
  BY <1>1, <1>2 DEF RenderResults, ScreenOK
<1>3. CASE r.pages # 0
  <2>1. at' = (IF at < r.pages THEN at ELSE r.pages - 1) /\ view' = "results" /\ drawn' = TRUE
    BY <1>3 DEF RenderResults
  <2>2. at' \in Pages /\ at' < r.pages
    BY <1>1, <1>3, <2>1, Constants DEF Pages
  <2> QED  BY <1>3, <2>1, <2>2
<1> QED  BY <1>2, <1>3

\* The response rendered again leaves the page.
LEMMA RenderAgain ==
    ASSUME ScreenOK, InRange, RenderResults(response)
    PROVE  /\ at' = at /\ view' \in {"nothing", "loading", "error", "results"} /\ drawn' \in BOOLEAN
           /\ view' = "results" => view = "results" \/ response.pages # 0
BY DEF ScreenOK, InRange, RenderResults

LEMMA EndRefreshFits ==
    ASSUME TypeInv, EndRefresh
    PROVE  /\ FlowsFit' /\ flow'[Forced].pc = "idle"
           /\ at' = at /\ view' \in {"nothing", "loading", "error", "results"} /\ drawn' \in BOOLEAN
           /\ view' = "results" => view = "results" \/ response.pages # 0
           /\ refreshing' = FALSE
<1>1. FlowsFit' /\ flow'[Forced].pc = "idle"
  <2>1. flow' = [flow EXCEPT ![Forced] = Resting] /\ Forced \in Flows /\ FlowsFit
    BY Constants DEF EndRefresh, TypeInv
  <2>2. Fits(Forced, Resting) /\ Resting.pc = "idle"
    BY <2>1, RestingFits
  <2> QED  BY <2>1, <2>2, FlowGoesOn DEF FlowsFit
<1> QED  BY <1>1, RenderAgain DEF EndRefresh, TypeInv

\* The end of a round leaves the page, and another attempt is one of those left.
LEMMA RoundEndFits ==
    ASSUME TypeInv, NEW p \in Flows, flow[p].pc = "told", NEW w, RoundEnds(p, w)
    PROVE  /\ FlowsFit' /\ flow'[p].pc \in {"idle", "sleeping"} /\ \A q \in Flows \ {p} : flow'[q] = flow[q]
           /\ at' = at /\ view' \in {"nothing", "loading", "error", "results"} /\ drawn' \in BOOLEAN
           /\ view' = "results" => view = "results" \/ response.pages # 0
           /\ refreshing' = refreshing \/ (p = Forced /\ refreshing' = FALSE /\ flow'[p].pc = "idle")
<1> DEFINE n == flow[p].attempt
<1>1. n \in Nat /\ n <= LastPoll(p) /\ LastPoll(p) \in Nat /\ FlowsFit
  BY Constants DEF TypeInv, FlowsFit, Fits, FlowRecord
<1>2. ASSUME n < LastPoll(p), flow' = [flow EXCEPT ![p] = Asleep(n)]
      PROVE  FlowsFit' /\ flow'[p].pc \in {"idle", "sleeping"} /\ \A q \in Flows \ {p} : flow'[q] = flow[q]
  <2> HIDE DEF n
  <2>1. PICK f : f = Asleep(n)
    OBVIOUS
  <2>2. Fits(p, f) /\ f.pc = "sleeping"
    BY <1>1, <1>2, <2>1, AsleepFits
  <2>3. flow' = [flow EXCEPT ![p] = f]
    BY <1>2, <2>1
  <2> QED  BY <1>1, <2>2, <2>3, FlowGoesOn DEF FlowsFit
<1>3. ASSUME flow' = [flow EXCEPT ![p] = Resting]
      PROVE  FlowsFit' /\ flow'[p].pc = "idle" /\ \A q \in Flows \ {p} : flow'[q] = flow[q]
  <2>1. Fits(p, Resting) /\ Resting.pc = "idle"
    BY RestingFits
  <2> QED  BY <1>1, <1>3, <2>1, FlowGoesOn DEF FlowsFit
<1>4. CASE Forces(p) /\ flow' = [flow EXCEPT ![p] = Asleep(n)] /\ UNCHANGED <<at, view, drawn, refreshing>>
  <2>1. n < LastPoll(p)
    BY <1>1, <1>4, Constants DEF Forces, LastPoll
  <2> QED  BY <1>2, <1>4, <2>1 DEF TypeInv, ScreenOK
<1>5. CASE /\ n # LastPoll(p) /\ flow' = [flow EXCEPT ![p] = Asleep(n)]
           /\ RenderResults(response) /\ UNCHANGED refreshing
  <2>1. n < LastPoll(p)
    <3> HIDE DEF n
    <3> QED  BY <1>1, <1>5
  <2> QED  BY <1>2, <1>5, <2>1, RenderAgain DEF TypeInv
<1>6. CASE p = Forced /\ EndRefresh
  BY <1>3, <1>6, EndRefreshFits DEF EndRefresh
<1>7. CASE flow' = [flow EXCEPT ![p] = Resting] /\ RenderResults(response) /\ UNCHANGED refreshing
  BY <1>3, <1>7, RenderAgain DEF TypeInv
<1> QED  BY <1>4, <1>5, <1>6, <1>7 DEF RoundEnds, LastPoll

-----------------------------------------------------------------------------
(* Types.                                                                  *)

LEMMA FetchFits ==
    ASSUME TypeInv, NEW p \in Searches, filters' \in Filters, at' \in Pages, FetchMatches(p)
    PROVE  /\ FlowsFit' /\ behind' \in BOOLEAN
           /\ flow'[p].pc = "searching" /\ flow'[p].query = <<filters', at'>>
           /\ \A q \in Flows \ {p} : flow'[q] = flow[q]
<1> DEFINE f == [flow[p] EXCEPT !.pc = "searching", !.query = <<filters', at'>>]
<1>1. p \in Flows /\ FlowsFit /\ Fits(p, flow[p]) /\ flow[p] \in FlowRecord /\ flow[p].pc = "idle"
  BY DEF TypeInv, FlowsFit, Flows, FetchMatches
<1>2. PICK g : g = f
  OBVIOUS
<1>3. <<filters', at'>> \in Filters \X Pages
  OBVIOUS
<1>4. Fits(p, g) /\ g.pc = "searching" /\ g.query = <<filters', at'>>
  <2>1. /\ g \in FlowRecord /\ g.pc = "searching" /\ g.query = <<filters', at'>>
        /\ g.chunk = flow[p].chunk /\ g.todo = flow[p].todo /\ g.round = flow[p].round
        /\ g.reply = flow[p].reply /\ g.attempt = flow[p].attempt
    BY <1>1, <1>2, <1>3 DEF FlowRecord
  <2> QED  BY <1>1, <1>3, <2>1 DEF Fits
<1>5. flow' = [flow EXCEPT ![p] = g]
  BY <1>2 DEF FetchMatches
<1>6. FlowsFit'
  BY <1>1, <1>4, <1>5, FlowGoesOn
<1>7. behind' \in BOOLEAN
  BY DEF FetchMatches, Searching
<1> QED  BY <1>1, <1>4, <1>5, <1>6, <1>7 DEF FlowsFit

LEMMA LookUpFits ==
    ASSUME StatusOK, NEW cs, NEW force, LookUp(cs, force)
    PROVE  /\ cached' \in [Companies -> Answers] /\ marked' \in [Companies -> BOOLEAN]
           /\ queued' \in [Companies -> Nat]
BY DEF StatusOK, LookUp, Answers

LEMMA AgedIsAnswer ==
    ASSUME NEW s \in Answers
    PROVE  Aged(s) \in Answers /\ Aged(s) # "new" /\ (Aged(s) = "none" <=> s = "none")
BY DEF Aged, Answers

LEMMA AgeFits ==
    ASSUME StatusOK, NEW cs \in SUBSET Companies, Age(cs)
    PROVE  dropped' \subseteq Companies /\ known' \in [Companies -> Answers]
BY AgedIsAnswer DEF StatusOK, Age

Told(f, tell) == [f EXCEPT !.pc = "told", !.reply = tell]
Overheard(f, r) == [f EXCEPT !.reply = r]
AgedReply(f, cs) == [c \in DOMAIN f.reply |-> IF c \in cs THEN Aged(f.reply[c]) ELSE f.reply[c]]

\* What a request's answer does to its own flow.
LEMMA ToldFits ==
    ASSUME NEW p \in Flows, NEW f, Fits(p, f), f.pc = "asked", NEW tell \in [f.chunk -> Answers],
           NEW g, g = Told(f, tell)
    PROVE  /\ Fits(p, g) /\ g.pc = "told" /\ g.reply = tell /\ g.chunk = f.chunk /\ g.todo = f.todo
           /\ g.round = f.round /\ g.pending = f.pending /\ g.attempt = f.attempt
<1>1. tell \in Replies
  BY DEF Fits, FlowRecord, Replies
<1>2. /\ g \in FlowRecord /\ g.pc = "told" /\ g.reply = tell /\ g.chunk = f.chunk /\ g.todo = f.todo
      /\ g.round = f.round /\ g.pending = f.pending /\ g.attempt = f.attempt
  BY <1>1 DEF Fits, FlowRecord, Told
<1> QED  BY <1>2 DEF Fits

\* ... and to the others.
LEMMA AgedFits ==
    ASSUME NEW q \in Flows, NEW f, Fits(q, f), NEW cs,
           NEW r, r = AgedReply(f, cs), NEW g, g = Overheard(f, r)
    PROVE  /\ Fits(q, g) /\ g.pc = f.pc /\ g.reply = r /\ g.chunk = f.chunk /\ g.todo = f.todo
           /\ g.round = f.round /\ g.pending = f.pending /\ g.attempt = f.attempt /\ g.query = f.query
<1>1. f.pc = "told" => r \in [f.chunk -> Answers] /\ f.chunk \in SUBSET Companies
  BY AgedIsAnswer DEF Fits, FlowRecord, AgedReply
<1>2. f.pc # "told" => r = <<>>
  <2> SUFFICES ASSUME f.pc # "told" PROVE r = <<>>
    OBVIOUS
  <2>1. f.reply = <<>>
    BY DEF Fits
  <2> QED  BY <2>1 DEF AgedReply
<1>3. r \in Replies
  BY <1>1, <1>2 DEF Replies
<1>4. /\ g \in FlowRecord /\ g.pc = f.pc /\ g.reply = r /\ g.chunk = f.chunk /\ g.todo = f.todo
      /\ g.round = f.round /\ g.pending = f.pending /\ g.attempt = f.attempt /\ g.query = f.query
  BY <1>3 DEF Fits, FlowRecord, Overheard
<1> QED  BY <1>1, <1>2, <1>4 DEF Fits

\* An answer changes flows by its own reply and by what it ages.
LEMMA ServedFits ==
    ASSUME TypeInv, NEW p \in Flows, Served(p)
    PROVE  /\ FlowsFit' /\ flow[p].pc = "asked" /\ flow'[p].pc = "told"
           /\ flow'[p].reply = [c \in flow[p].chunk |-> IF Forces(p) THEN "none" ELSE cached[c]]
           /\ \A q \in Flows \ {p} : flow'[q].pc = flow[q].pc /\ flow'[q].query = flow[q].query
           /\ \A q \in Flows \ {p} : ~Forces(p) => flow'[q].reply = flow[q].reply
           /\ \A q \in Flows : /\ flow'[q].chunk = flow[q].chunk /\ flow'[q].todo = flow[q].todo
                               /\ flow'[q].round = flow[q].round /\ flow'[q].pending = flow[q].pending
                               /\ flow'[q].attempt = flow[q].attempt
<1> DEFINE tell == [c \in flow[p].chunk |-> IF Forces(p) THEN "none" ELSE cached[c]]
           cs == {c \in flow[p].chunk : Forces(p)}
           aged(q) == AgedReply(flow[q], cs)
           told == Told(flow[p], tell)
           other(q) == Overheard(flow[q], aged(q))
<1>1. flow[p].pc = "asked" /\ flow' = [q \in Flows |-> IF q = p THEN told ELSE other(q)]
  BY DEF Served, Told, Overheard, AgedReply
<1>2. ASSUME NEW q \in Flows PROVE Fits(q, flow[q])
  BY <1>2 DEF TypeInv, FlowsFit
<1>3. tell \in [flow[p].chunk -> Answers]
  BY <1>2 DEF TypeInv, StatusOK, Answers, Fits, FlowRecord
<1>4. /\ Fits(p, told) /\ told.pc = "told" /\ told.reply = tell /\ told.chunk = flow[p].chunk
      /\ told.todo = flow[p].todo /\ told.round = flow[p].round /\ told.pending = flow[p].pending
      /\ told.attempt = flow[p].attempt
  <2> HIDE DEF tell
  <2> QED  BY <1>1, <1>2, <1>3, ToldFits
<1>5. ASSUME NEW q \in Flows
      PROVE  /\ Fits(q, other(q)) /\ other(q).pc = flow[q].pc /\ other(q).reply = aged(q)
             /\ other(q).chunk = flow[q].chunk /\ other(q).todo = flow[q].todo
             /\ other(q).round = flow[q].round /\ other(q).pending = flow[q].pending
             /\ other(q).attempt = flow[q].attempt /\ other(q).query = flow[q].query
  <2>1. Fits(q, flow[q])
    BY <1>2
  <2> HIDE DEF cs
  <2> QED  BY <2>1, AgedFits
<1>6. ASSUME NEW q \in Flows, ~Forces(p) PROVE aged(q) = flow[q].reply
  <2>1. Fits(q, flow[q])
    BY <1>2
  <2>2. flow[q].reply = [c \in DOMAIN flow[q].reply |-> flow[q].reply[c]]
    BY <2>1 DEF Fits
  <2> QED  BY <1>6, <2>2 DEF AgedReply
<1> HIDE DEF told, other, aged, tell
<1>7. FlowsFit'
  BY <1>1, <1>4, <1>5 DEF FlowsFit, Fits
<1> QED  BY <1>1, <1>4, <1>5, <1>6, <1>7 DEF tell

Continued(f, d, w) == [f EXCEPT !.pc = "asked", !.todo = @ \ d, !.chunk = d, !.reply = <<>>, !.pending = w]

\* The next chunk of a round.
LEMMA ContinuedFits ==
    ASSUME NEW p \in Flows, NEW f, Fits(p, f), NEW d \in Chunks(f.todo),
           NEW w, w \in BOOLEAN, NEW g, g = Continued(f, d, w)
    PROVE  /\ Fits(p, g) /\ g.pc = "asked" /\ g.todo = f.todo \ d /\ g.chunk = d
           /\ g.round = f.round /\ g.pending = w /\ g.attempt = f.attempt /\ d \subseteq f.todo
<1>1. d \subseteq f.todo
  BY ChunksAre
<1>2. f \in FlowRecord /\ d \in SUBSET Companies
  BY <1>1 DEF Fits, FlowRecord
<1>3. <<>> \in Replies
  BY DEF Replies
<1>4. /\ g \in FlowRecord /\ g.pc = "asked" /\ g.todo = f.todo \ d /\ g.chunk = d /\ g.reply = <<>>
      /\ g.round = f.round /\ g.pending = w /\ g.attempt = f.attempt
  <2> HIDE DEF Replies
  <2> QED  BY <1>2, <1>3 DEF FlowRecord, Continued
<1> QED  BY <1>1, <1>4 DEF Fits

\* applyStatuses, then the next chunk or the round's end.
LEMMA ReceivedFits ==
    ASSUME TypeInv, NEW p \in Flows, StatusReceived(p)
    PROVE  /\ FlowsFit' /\ flow[p].pc = "told" /\ flow'[p].pc \in {"asked", "sleeping", "idle"}
           /\ \A q \in Flows \ {p} : flow'[q] = flow[q]
           /\ known' \in [Companies -> Answers] /\ outrun' \subseteq Companies
           /\ at' = at /\ view' \in {"nothing", "loading", "error", "results"} /\ drawn' \in BOOLEAN
           /\ view' = "results" => view = "results" \/ response.pages # 0
           /\ refreshing' = refreshing \/ (p = Forced /\ refreshing' = FALSE /\ flow'[p].pc = "idle")
           /\ flow'[p].pc = "asked" =>
                /\ flow'[p].round = flow[p].round /\ flow'[p].attempt = flow[p].attempt
                /\ flow[p].todo \subseteq flow'[p].todo \cup flow'[p].chunk
                /\ flow'[p].todo \cup flow'[p].chunk \subseteq flow[p].todo
                /\ ~flow'[p].pending => ~Waits(p)
<1>1. /\ flow[p].pc = "told" /\ Fits(p, flow[p]) /\ flow[p] \in FlowRecord /\ FlowsFit
      /\ flow[p].reply \in [flow[p].chunk -> Answers]
  BY DEF StatusReceived, TypeInv, FlowsFit, Fits
<1>2. known' \in [Companies -> Answers] /\ outrun' \subseteq Companies
  <2>1. flow[p].chunk \subseteq Companies
    BY <1>1 DEF FlowRecord
  <2> QED  BY <1>1, <2>1 DEF StatusReceived, TypeInv, StatusOK
<1>3. CASE flow[p].todo = {}
  <2>1. PICK w : w = Waits(p) /\ RoundEnds(p, w)
    BY <1>3 DEF StatusReceived
  <2> QED  BY <1>1, <1>2, <2>1, RoundEndFits
<1>4. CASE flow[p].todo # {}
  <2>1. PICK d \in Chunks(flow[p].todo) : flow' = [flow EXCEPT ![p] = Continued(flow[p], d, Waits(p))]
    BY <1>4 DEF StatusReceived, Continued
  <2>2. Waits(p) \in BOOLEAN
    BY <1>1 DEF Waits, Unanswered, FlowRecord
  <2>3. PICK g : g = Continued(flow[p], d, Waits(p))
    OBVIOUS
  <2>4. /\ Fits(p, g) /\ g.pc = "asked" /\ g.todo = flow[p].todo \ d /\ g.chunk = d
        /\ g.round = flow[p].round /\ g.pending = Waits(p) /\ g.attempt = flow[p].attempt /\ d \subseteq flow[p].todo
    <3>1. PICK f : f = flow[p]
      OBVIOUS
    <3>2. Fits(p, f) /\ d \in Chunks(f.todo) /\ g = Continued(f, d, Waits(p))
      BY <1>1, <2>1, <2>3, <3>1
    <3>3. PICK w : w = Waits(p) /\ w \in BOOLEAN
      BY <2>2
    <3>4. /\ Fits(p, g) /\ g.pc = "asked" /\ g.todo = f.todo \ d /\ g.chunk = d
          /\ g.round = f.round /\ g.pending = w /\ g.attempt = f.attempt /\ d \subseteq f.todo
      BY <3>2, <3>3, ContinuedFits
    <3> QED  BY <3>1, <3>3, <3>4
  <2>5. FlowsFit' /\ flow'[p] = g /\ \A q \in Flows \ {p} : flow'[q] = flow[q]
    <3>1. flow' = [flow EXCEPT ![p] = g]
      BY <2>1, <2>3
    <3> QED  BY <1>1, <2>4, <3>1, FlowGoesOn DEF FlowsFit
  <2>6. UNCHANGED <<at, view, drawn, refreshing>>
    BY <1>4 DEF StatusReceived
  <2> QED  BY <1>1, <1>2, <2>2, <2>4, <2>5, <2>6 DEF TypeInv, ScreenOK
<1> QED  BY <1>3, <1>4

\* The search's answer shows its response and starts a round, unless a forced
\* refresh is under way.
LEMMA AnsweredFits ==
    ASSUME TypeInv, NEW p \in Flows, SearchAnswered(p)
    PROVE  /\ FlowsFit' /\ p \in Searches /\ flow[p].pc = "searching" /\ flow'[p].pc \in {"idle", "asked"}
           /\ \A q \in Flows \ {p} : flow'[q] = flow[q]
           /\ response' \in Response /\ response'.pages # 0
           /\ response'.filters = flow[p].query[1] /\ response'.at = flow[p].query[2]
           /\ at' \in Pages /\ at' < response'.pages
           /\ at' = (IF at < response'.pages THEN at ELSE response'.pages - 1)
           /\ view' \in {"nothing", "loading", "error", "results"} /\ drawn' \in BOOLEAN
<1>1. /\ FlowsFit /\ Fits(p, flow[p]) /\ flow[p].pc = "searching" /\ p \in Searches
      /\ flow[p].query \in Filters \X Pages
  BY DEF SearchAnswered, TypeInv, FlowsFit, Fits
<1>2. PICK n \in 1..MaxMatchPages :
        response' = [filters |-> flow[p].query[1], at |-> flow[p].query[2], pages |-> n]
  BY DEF SearchAnswered
<1>3. /\ response' \in Response /\ response'.pages # 0
      /\ response'.filters = flow[p].query[1] /\ response'.at = flow[p].query[2]
  BY <1>1, <1>2 DEF Response
<1>4. PICK r : r = response'
  OBVIOUS
<1>5. r \in Response /\ RenderResults(r) /\ r.pages # 0
  BY <1>3, <1>4 DEF SearchAnswered
<1>6. /\ at' \in Pages /\ at' < r.pages /\ at' = (IF at < r.pages THEN at ELSE r.pages - 1)
      /\ view' \in {"nothing", "loading", "error", "results"} /\ drawn' \in BOOLEAN
  BY <1>5, RenderFits DEF TypeInv
<1>7. PICK f \in RefreshStatuses(r, 0) : flow' = [flow EXCEPT ![p] = f]
  BY <1>4 DEF SearchAnswered
<1>8. Fits(p, f) /\ f.pc \in {"idle", "asked"}
  BY <1>5, <1>7, StatusesFit, Constants DEF Response
<1>9. FlowsFit' /\ flow'[p].pc \in {"idle", "asked"} /\ \A q \in Flows \ {p} : flow'[q] = flow[q]
  BY <1>1, <1>7, <1>8, FlowGoesOn DEF FlowsFit
<1> QED  BY <1>1, <1>3, <1>4, <1>6, <1>9

LEMMA TypeInit == SearchInit => TypeInv
<1> SUFFICES ASSUME SearchInit PROVE TypeInv
  OBVIOUS
<1>1. ScreenOK /\ StatusOK /\ InRange
  <2>1. response \in Response /\ response.pages = 0
    BY Constants DEF SearchInit, Response
  <2>2. ScreenOK
    BY <2>1, Constants DEF SearchInit, ScreenOK, Response
  <2>3. StatusOK
    BY Constants DEF SearchInit, StatusOK, Answers
  <2> QED  BY <2>1, <2>2, <2>3 DEF SearchInit, InRange
<1>2. FlowsFit
  <2>1. \A p \in Flows : Fits(p, Resting)
    BY RestingFits
  <2> QED  BY <2>1 DEF SearchInit, FlowsFit, Fits
<1> QED  BY <1>1, <1>2 DEF TypeInv

LEMMA EventsFit == events \in 0..MaxEvents /\ Happens => events' \in 0..MaxEvents
BY Constants DEF Happens

LEMMA TypeStep == TypeInv /\ [SearchNext]_searchVars => TypeInv'
<1> SUFFICES ASSUME TypeInv, [SearchNext]_searchVars PROVE TypeInv'
  OBVIOUS
<1>0. TypeInv
  OBVIOUS
<1> USE DEF statusCache, record
<1>1. ASSUME NEW p \in Searches, OpenScreen(p) PROVE TypeInv'
  <2>1. filters' \in Filters /\ at' \in Pages
    BY <1>0, <1>1 DEF OpenScreen, TypeInv, ScreenOK
  <2>2. FlowsFit' /\ behind' \in BOOLEAN
    BY <1>1, <2>1, FetchFits DEF OpenScreen
  <2> QED  BY <1>0, <1>1, <2>1, <2>2, EventsFit
       DEF OpenScreen, FetchMatches, TypeInv, ScreenOK, StatusOK, InRange
<1>2. ASSUME NEW p \in Searches, Choose(p) PROVE TypeInv'
  <2>1. filters' \in Filters /\ at' \in Pages /\ at' = 0
    BY <1>0, <1>2, Constants DEF Choose, TypeInv, ScreenOK
  <2>2. FlowsFit' /\ behind' \in BOOLEAN
    BY <1>2, <2>1, FetchFits DEF Choose
  <2>3. ScreenOK'
    BY <1>0, <1>2, <2>1, <2>2 DEF Choose, FetchMatches, TypeInv, ScreenOK
  <2>4. StatusOK'
    BY <1>0, <1>2, EventsFit DEF Choose, FetchMatches, TypeInv, StatusOK
  <2>5. InRange'
    <3>1. response' = response /\ response.pages \in Nat
      BY <1>0, <1>2 DEF Choose, FetchMatches, TypeInv, ScreenOK
    <3> QED  BY <2>1, <3>1 DEF InRange
  <2> QED  BY <2>2, <2>3, <2>4, <2>5 DEF TypeInv
<1>3. ASSUME NEW p \in Searches, Turn(p) PROVE TypeInv'
  <2>1. filters' \in Filters /\ at' \in Pages /\ at' < response.pages
    BY <1>0, <1>3, Constants DEF Turn, TypeInv, ScreenOK, Pages
  <2>2. FlowsFit' /\ behind' \in BOOLEAN
    BY <1>3, <2>1, FetchFits DEF Turn
  <2> QED  BY <1>0, <1>3, <2>1, <2>2, EventsFit
       DEF Turn, FetchMatches, TypeInv, ScreenOK, StatusOK, InRange, Pages
<1>4. CASE FilterByStatus
  <2>1. at' = at /\ view' \in {"nothing", "loading", "error", "results"} /\ drawn' \in BOOLEAN
    BY <1>0, <1>4, RenderAgain DEF FilterByStatus, TypeInv
  <2> QED  BY <1>0, <1>4, <2>1, EventsFit
       DEF FilterByStatus, TypeInv, ScreenOK, StatusOK, FlowsFit, InRange
<1>5. CASE PressRefresh
  <2>1. at' = at /\ view' \in {"nothing", "loading", "error", "results"} /\ drawn' \in BOOLEAN
    BY <1>0, <1>5, RenderAgain DEF PressRefresh, TypeInv
  <2>2. PICK f \in Round(OnPage(response), 0) : flow' = [flow EXCEPT ![Forced] = f]
    BY <1>5 DEF PressRefresh
  <2>3. OnPage(response) \in SUBSET Companies
    BY <1>0, PageIsCompanies DEF TypeInv, ScreenOK
  <2>4. Fits(Forced, f)
    <3>1. PICK cs \in SUBSET Companies : cs = OnPage(response)
      BY <2>3
    <3>2. f \in Round(cs, 0) /\ Forced \in Flows /\ 0 \in Nat /\ 0 <= LastPoll(Forced)
      BY <3>1, Constants
    <3> QED  BY <3>2, RoundFits
  <2>5. FlowsFit'
    BY <1>0, <2>2, <2>4, FlowGoesOn, Constants DEF TypeInv
  <2> QED  BY <1>0, <1>5, <2>1, <2>5, EventsFit DEF PressRefresh, TypeInv, ScreenOK, StatusOK, InRange
<1>6. ASSUME NEW p \in Flows, SearchAnswered(p) PROVE TypeInv'
  <2>1. /\ FlowsFit' /\ response' \in Response /\ response'.pages # 0 /\ at' \in Pages /\ at' < response'.pages
        /\ view' \in {"nothing", "loading", "error", "results"} /\ drawn' \in BOOLEAN
    BY <1>0, <1>6, AnsweredFits
  <2> QED  BY <1>0, <1>6, <2>1 DEF SearchAnswered, TypeInv, ScreenOK, StatusOK, InRange, Response
<1>7. ASSUME NEW p \in Flows, SearchFails(p) PROVE TypeInv'
  <2>1. FlowsFit'
    BY <1>0, <1>7, RestingFits, FlowGoesOn DEF SearchFails, TypeInv
  <2> QED  BY <1>0, <1>7, <2>1 DEF SearchFails, TypeInv, ScreenOK, StatusOK, InRange
<1>8. ASSUME NEW p \in Flows, Wake(p) PROVE TypeInv'
  <2>1. flow[p].attempt \in Nat /\ flow[p].attempt < LastPoll(p) /\ LastPoll(p) \in Nat
    BY <1>0, <1>8, Constants DEF Wake, TypeInv, FlowsFit, Fits, FlowRecord
  <2>2. CASE p = Forced /\ EndRefresh
    BY <1>0, <1>8, <2>2, EndRefreshFits DEF Wake, TypeInv, ScreenOK, StatusOK, InRange
  <2>3. CASE \E f \in IF p = Forced THEN Round(OnPage(response), flow[p].attempt + 1)
                                    ELSE RefreshStatuses(response, flow[p].attempt + 1) :
               flow' = [flow EXCEPT ![p] = f] /\ UNCHANGED <<at, view, drawn, refreshing>>
    <3>1. PICK f \in IF p = Forced THEN Round(OnPage(response), flow[p].attempt + 1)
                                    ELSE RefreshStatuses(response, flow[p].attempt + 1) :
               flow' = [flow EXCEPT ![p] = f] /\ UNCHANGED <<at, view, drawn, refreshing>>
      BY <2>3
    <3>2. PICK n \in Nat : n = flow[p].attempt + 1
      BY <2>1
    <3>3. n <= LastPoll(p)
      BY <2>1, <3>2
    <3>4. response \in Response /\ OnPage(response) \in SUBSET Companies
      BY <1>0, PageIsCompanies DEF TypeInv, ScreenOK, Response
    <3>5. Fits(p, f)
      <4>1. CASE p = Forced
        <5>1. PICK cs \in SUBSET Companies : cs = OnPage(response)
          BY <3>4
        <5>2. f \in Round(cs, n)
          BY <3>1, <3>2, <4>1, <5>1
        <5> QED  BY <3>3, <5>2, RoundFits
      <4>2. CASE p # Forced
        <5>1. PICK r \in Response : r = response
          BY <3>4
        <5>2. f \in RefreshStatuses(r, n)
          BY <3>1, <3>2, <4>2, <5>1
        <5> QED  BY <3>3, <5>2, StatusesFit DEF Response
      <4> QED  BY <4>1, <4>2
    <3>6. FlowsFit'
      BY <1>0, <3>1, <3>5, FlowGoesOn DEF TypeInv
    <3> QED  BY <1>0, <1>8, <3>1, <3>6 DEF Wake, TypeInv, ScreenOK, StatusOK, InRange
  <2> QED  BY <1>8, <2>2, <2>3 DEF Wake
<1>9. ASSUME NEW p \in Flows, Served(p) PROVE TypeInv'
  <2>1. FlowsFit'
    BY <1>0, <1>9, ServedFits
  <2>2. /\ cached' \in [Companies -> Answers] /\ marked' \in [Companies -> BOOLEAN]
        /\ queued' \in [Companies -> Nat]
    BY <1>0, <1>9, LookUpFits DEF Served, TypeInv
  <2>3. flow[p].chunk \in SUBSET Companies
    BY <1>0 DEF TypeInv, FlowsFit, FlowRecord
  <2>4. dropped' \subseteq Companies /\ known' \in [Companies -> Answers]
    <3>1. CASE Forces(p)
      BY <1>0, <1>9, <2>3, <3>1, AgeFits DEF Served, TypeInv
    <3>2. CASE ~Forces(p)
      BY <1>0, <1>9, <3>2 DEF Served, TypeInv, StatusOK
    <3> QED  BY <3>1, <3>2
  <2> QED  BY <1>0, <1>9, <2>1, <2>2, <2>4 DEF Served, TypeInv, ScreenOK, StatusOK, InRange
<1>10. ASSUME NEW p \in Flows, StatusReceived(p) PROVE TypeInv'
  <2>1. /\ FlowsFit' /\ known' \in [Companies -> Answers] /\ outrun' \subseteq Companies
        /\ at' = at /\ view' \in {"nothing", "loading", "error", "results"} /\ drawn' \in BOOLEAN
        /\ refreshing' = refreshing \/ refreshing' = FALSE
    BY <1>0, <1>10, ReceivedFits
  <2> QED  BY <1>0, <1>10, <2>1 DEF StatusReceived, TypeInv, ScreenOK, StatusOK, InRange
<1>11. ASSUME NEW p \in Flows, StatusFails(p) PROVE TypeInv'
  <2>1. CASE EndRefresh
    BY <1>0, <1>11, <2>1, EndRefreshFits DEF StatusFails, TypeInv, ScreenOK, StatusOK, InRange
  <2>2. CASE p = Forced /\ flow[p].attempt \notin {0, RefreshPolls} /\ ~EndRefresh
    <3>1. flow' = [flow EXCEPT ![p] = Asleep(flow[p].attempt)] /\ UNCHANGED <<at, view, drawn, refreshing>>
      BY <1>11, <2>2 DEF StatusFails
    <3>2. flow[p].attempt \in Nat /\ flow[p].attempt < LastPoll(p)
      BY <1>0, <2>2, Constants DEF TypeInv, FlowsFit, Fits, FlowRecord, LastPoll
    <3>3. PICK f, n : n \in Nat /\ n = flow[p].attempt /\ f = Asleep(n) /\ n < LastPoll(p)
      BY <3>2
    <3>4. Fits(p, f)
      BY <3>3, AsleepFits
    <3>5. FlowsFit'
      BY <1>0, <3>1, <3>3, <3>4, FlowGoesOn DEF TypeInv
    <3> QED  BY <1>0, <1>11, <3>1, <3>5 DEF StatusFails, TypeInv, ScreenOK, StatusOK, InRange
  <2>3. CASE p # Forced /\ ~EndRefresh
    <3>1. flow' = [flow EXCEPT ![p] = Resting] /\ UNCHANGED <<at, view, drawn, refreshing>>
      BY <1>11, <2>3 DEF StatusFails
    <3>2. FlowsFit'
      BY <1>0, <3>1, RestingFits, FlowGoesOn DEF TypeInv
    <3> QED  BY <1>0, <1>11, <3>1, <3>2 DEF StatusFails, TypeInv, ScreenOK, StatusOK, InRange
  <2> QED  BY <1>11, <2>1, <2>2, <2>3 DEF StatusFails
<1>12. ASSUME NEW c \in Companies, NEW force \in BOOLEAN, OthersServed(c, force) PROVE TypeInv'
  <2>1. /\ cached' \in [Companies -> Answers] /\ marked' \in [Companies -> BOOLEAN]
        /\ queued' \in [Companies -> Nat]
    BY <1>0, <1>12, LookUpFits DEF OthersServed, TypeInv
  <2> QED  BY <1>0, <1>12, <2>1, EventsFit
       DEF OthersServed, screen, TypeInv, ScreenOK, StatusOK, FlowsFit, InRange
<1>13. ASSUME NEW c \in Companies, JobEnds(c) \/ StatusExpires(c) \/ MarkerExpires(c) PROVE TypeInv'
  <2>1. ScreenOK' /\ FlowsFit' /\ InRange'
    BY <1>0, <1>13 DEF JobEnds, StatusExpires, MarkerExpires, screen, TypeInv, ScreenOK, FlowsFit, InRange
  <2>2. StatusOK'
    <3>1. CASE JobEnds(c)
      BY <1>0, <3>1 DEF JobEnds, screen, TypeInv, StatusOK, Answers
    <3>2. CASE StatusExpires(c)
      BY <1>0, <3>2, EventsFit DEF StatusExpires, screen, TypeInv, StatusOK, Answers
    <3>3. CASE MarkerExpires(c)
      BY <1>0, <3>3, EventsFit DEF MarkerExpires, screen, TypeInv, StatusOK
    <3> QED  BY <1>13, <3>1, <3>2, <3>3
  <2> QED  BY <2>1, <2>2 DEF TypeInv
<1>14. CASE UNCHANGED searchVars
  BY <1>0, <1>14 DEF searchVars, screen, TypeInv, ScreenOK, StatusOK, FlowsFit, InRange
<1> QED  BY <1>1, <1>2, <1>3, <1>4, <1>5, <1>6, <1>7, <1>8, <1>9, <1>10, <1>11, <1>12, <1>13, <1>14
     DEF SearchNext, FlowStep

LEMMA TypeInvariant == SearchSpec => []TypeInv
<1> QED  BY TypeInit, TypeStep, PTL DEF SearchSpec

\* The search screen's state and the status cache stay in their types.
THEOREM TypeCorrect == SearchSpec => []SearchTypeOK
<1> QED  BY TypeInvariant, TypeInvTypes, PTL

-----------------------------------------------------------------------------
(* What the screen shows is what was asked for last.                       *)

RowsThere == view = "results" => response.pages # 0

\* Unless the last search overtook another one or failed, at most one is under
\* way, and it asks for what is chosen now ...
AskedLast ==
    ~behind => \A p, q \in Searches :
        flow[p].pc = "searching" =>
            /\ flow[p].query = <<filters, at>>
            /\ flow[q].pc = "searching" => q = p

\* ... or, once none is, the response is the one to that.
ShownLast ==
    ~Searching /\ ~behind /\ response.pages # 0 =>
        /\ response.filters = filters
        /\ at = IF response.at < response.pages THEN response.at ELSE response.pages - 1

LatestInv == RowsThere /\ AskedLast /\ ShownLast

\* A flow that starts a round, sleeps or ends does not search.
LEMMA NotSearching ==
    ASSUME NEW cs, NEW n, NEW f, f \in Round(cs, n) \/ f = Asleep(n) \/ f = Resting
    PROVE  f.pc # "searching"
<1>1. CASE f \in Round(cs, n)
  <2>1. PICK d \in Chunks(cs) :
          f = [Resting EXCEPT !.pc = "asked", !.round = cs, !.todo = cs \ d, !.chunk = d, !.attempt = n]
    BY <1>1 DEF Round
  <2>2. f = [pc |-> "asked", query |-> <<>>, round |-> cs, todo |-> cs \ d, chunk |-> d,
             reply |-> <<>>, pending |-> FALSE, attempt |-> n]
    BY <2>1 DEF Resting
  <2> QED  BY <2>2
<1>2. CASE f = Asleep(n)
  <2>1. f = [pc |-> "sleeping", query |-> <<>>, round |-> {}, todo |-> {}, chunk |-> {},
             reply |-> <<>>, pending |-> FALSE, attempt |-> n]
    BY <1>2 DEF Asleep, Resting
  <2> QED  BY <2>1
<1>3. CASE f = Resting
  BY <1>3 DEF Resting
<1> QED  BY <1>1, <1>2, <1>3

LEMMA LatestInit == SearchInit => LatestInv
BY DEF SearchInit, LatestInv, RowsThere, AskedLast, ShownLast, Resting, Flows

\* A step that leaves the searches and what they ask for.
LEMMA LatestKept ==
    ASSUME LatestInv, filters' = filters, at' = at, response' = response, behind' = behind,
           view' = "results" => view = "results" \/ response.pages # 0,
           \A q \in Searches : /\ flow'[q].pc = "searching" <=> flow[q].pc = "searching"
                               /\ flow'[q].pc = "searching" => flow'[q].query = flow[q].query
    PROVE  LatestInv'
<1>1. RowsThere'
  BY DEF LatestInv, RowsThere
<1>2. AskedLast'
  BY DEF LatestInv, AskedLast
<1>3. ShownLast'
  BY DEF LatestInv, ShownLast, Searching
<1> QED  BY <1>1, <1>2, <1>3 DEF LatestInv

LEMMA FetchedLatest ==
    ASSUME TypeInv, NEW p \in Searches, filters' \in Filters, at' \in Pages, FetchMatches(p), view' = "loading"
    PROVE  LatestInv'
<1>1. /\ flow'[p].pc = "searching" /\ flow'[p].query = <<filters', at'>>
      /\ \A q \in Flows \ {p} : flow'[q] = flow[q]
  BY FetchFits
<1>2. behind' = (\E q \in Searches : flow[q].pc = "searching")
  BY DEF FetchMatches, Searching
<1>3. AskedLast'
  BY <1>1, <1>2 DEF AskedLast, Flows
<1>4. RowsThere' /\ ShownLast'
  BY <1>1 DEF RowsThere, ShownLast, Searching
<1> QED  BY <1>3, <1>4 DEF LatestInv

LEMMA LatestStep == TypeInv /\ LatestInv /\ [SearchNext]_searchVars => LatestInv'
<1> SUFFICES ASSUME TypeInv, LatestInv, [SearchNext]_searchVars PROVE LatestInv'
  OBVIOUS
<1>0. TypeInv /\ LatestInv
  OBVIOUS
<1> USE DEF statusCache, record
<1> DEFINE Others(p) == \A q \in Flows \ {p} : flow'[q] = flow[q]
<1>1. ASSUME NEW p \in Searches, OpenScreen(p) \/ Choose(p) \/ Turn(p) PROVE LatestInv'
  <2>1. filters' \in Filters /\ at' \in Pages /\ view' = "loading" /\ FetchMatches(p)
    <3>1. filters \in Filters /\ at \in Pages /\ response.pages \in 0..MaxMatchPages
      BY <1>0 DEF TypeInv, ScreenOK
    <3>2. CASE OpenScreen(p)
      BY <3>1, <3>2 DEF OpenScreen
    <3>3. CASE Choose(p)
      BY <3>3, Constants DEF Choose
    <3>4. CASE Turn(p)
      BY <3>1, <3>4, Constants DEF Turn, Pages
    <3> QED  BY <1>1, <3>2, <3>3, <3>4
  <2> QED  BY <1>0, <2>1, FetchedLatest
<1>2. ASSUME NEW p \in Flows, flow[p].pc # "searching", flow'[p].pc # "searching", Others(p),
             filters' = filters, at' = at, response' = response, behind' = behind,
             view' = "results" => view = "results" \/ response.pages # 0
      PROVE  LatestInv'
  <2>1. \A q \in Searches : /\ flow'[q].pc = "searching" <=> flow[q].pc = "searching"
                            /\ flow'[q].pc = "searching" => flow'[q].query = flow[q].query
    BY <1>2 DEF Flows
  <2> QED  BY <1>0, <1>2, <2>1, LatestKept
<1>3. CASE FilterByStatus
  <2>1. at' = at /\ (view' = "results" => view = "results" \/ response.pages # 0)
    BY <1>0, <1>3, RenderAgain DEF FilterByStatus, TypeInv
  <2> QED  BY <1>0, <1>3, <2>1, LatestKept DEF FilterByStatus
<1>4. CASE PressRefresh
  <2>1. at' = at /\ (view' = "results" => view = "results" \/ response.pages # 0)
    BY <1>0, <1>4, RenderAgain DEF PressRefresh, TypeInv
  <2>2. Others(Forced)
    BY <1>0, <1>4 DEF PressRefresh, TypeInv, FlowsFit
  <2>3. \A q \in Searches : q \in Flows \ {Forced}
    BY Constants DEF Flows
  <2> QED  BY <1>0, <1>4, <2>1, <2>2, <2>3, LatestKept DEF PressRefresh
<1>5. ASSUME NEW p \in Flows, SearchAnswered(p) PROVE LatestInv'
  <2>1. /\ p \in Searches /\ flow[p].pc = "searching" /\ flow'[p].pc # "searching" /\ Others(p)
        /\ response'.pages # 0 /\ response'.filters = flow[p].query[1] /\ response'.at = flow[p].query[2]
        /\ at' = (IF at < response'.pages THEN at ELSE response'.pages - 1)
        /\ filters' = filters /\ behind' = behind
    BY <1>0, <1>5, AnsweredFits DEF SearchAnswered
  <2>2. ASSUME ~behind PROVE flow[p].query = <<filters, at>> /\ \A q \in Searches : flow'[q].pc # "searching"
    BY <1>0, <2>1, <2>2 DEF LatestInv, AskedLast, Flows
  <2>3. RowsThere'
    BY <2>1 DEF RowsThere
  <2>4. AskedLast'
    BY <2>1, <2>2 DEF AskedLast
  <2>5. ShownLast'
    <3> SUFFICES ASSUME ~behind
                 PROVE  /\ response'.filters = filters'
                        /\ at' = IF response'.at < response'.pages THEN response'.at ELSE response'.pages - 1
      BY <2>1 DEF ShownLast
    <3>1. response'.filters = filters /\ response'.at = at
      BY <2>1, <2>2
    <3> QED  BY <2>1, <3>1
  <2> QED  BY <2>3, <2>4, <2>5 DEF LatestInv
<1>6. ASSUME NEW p \in Flows, SearchFails(p) PROVE LatestInv'
  BY <1>6 DEF SearchFails, LatestInv, RowsThere, AskedLast, ShownLast
<1>7. ASSUME NEW p \in Flows, Wake(p) PROVE LatestInv'
  <2>1. flow[p].pc = "sleeping" /\ filters' = filters /\ response' = response /\ behind' = behind
    BY <1>7 DEF Wake
  <2>2. CASE p = Forced /\ EndRefresh
    <3>1. /\ flow'[p].pc = "idle" /\ at' = at /\ (view' = "results" => view = "results" \/ response.pages # 0)
      BY <1>0, <2>2, EndRefreshFits
    <3>2. Others(p)
      BY <1>0, <2>2 DEF EndRefresh, TypeInv, FlowsFit
    <3> QED  BY <1>2, <2>1, <3>1, <3>2
  <2>3. CASE ~(p = Forced /\ EndRefresh)
    <3>1. PICK f \in IF p = Forced THEN Round(OnPage(response), flow[p].attempt + 1)
                                    ELSE RefreshStatuses(response, flow[p].attempt + 1) :
               flow' = [flow EXCEPT ![p] = f] /\ UNCHANGED <<at, view, drawn, refreshing>>
      BY <1>7, <2>3 DEF Wake
    <3>2. f.pc # "searching"
      <4>1. f \in Round(OnPage(response), flow[p].attempt + 1) \/ f = Resting
        BY <3>1 DEF RefreshStatuses
      <4> QED  BY <4>1, NotSearching
    <3>3. flow'[p].pc # "searching" /\ Others(p)
      BY <1>0, <3>1, <3>2 DEF TypeInv, FlowsFit
    <3> QED  BY <1>2, <2>1, <3>1, <3>3
  <2> QED  BY <2>2, <2>3
<1>8. ASSUME NEW p \in Flows, Served(p) PROVE LatestInv'
  <2>1. /\ flow[p].pc = "asked" /\ flow'[p].pc = "told"
        /\ \A q \in Flows \ {p} : flow'[q].pc = flow[q].pc /\ flow'[q].query = flow[q].query
    BY <1>0, <1>8, ServedFits
  <2> QED  BY <1>0, <1>8, <2>1, LatestKept DEF Served, Flows
<1>9. ASSUME NEW p \in Flows, StatusReceived(p) PROVE LatestInv'
  <2>1. /\ flow[p].pc = "told" /\ flow'[p].pc \in {"asked", "sleeping", "idle"} /\ Others(p)
        /\ at' = at /\ (view' = "results" => view = "results" \/ response.pages # 0)
    BY <1>0, <1>9, ReceivedFits
  <2> QED  BY <1>2, <1>9, <2>1 DEF StatusReceived
<1>10. ASSUME NEW p \in Flows, StatusFails(p) PROVE LatestInv'
  <2>1. flow[p].pc \in {"asked", "told"} /\ filters' = filters /\ response' = response /\ behind' = behind
    BY <1>10 DEF StatusFails
  <2>2. CASE p = Forced /\ EndRefresh
    <3>1. /\ flow'[p].pc = "idle" /\ at' = at /\ (view' = "results" => view = "results" \/ response.pages # 0)
      BY <1>0, <2>2, EndRefreshFits
    <3>2. Others(p)
      BY <1>0, <2>2 DEF EndRefresh, TypeInv, FlowsFit
    <3> QED  BY <1>2, <2>1, <3>1, <3>2
  <2>3. CASE ~(p = Forced /\ EndRefresh)
    <3>1. PICK f \in {Asleep(flow[p].attempt), Resting} :
            flow' = [flow EXCEPT ![p] = f] /\ UNCHANGED <<at, view, drawn, refreshing>>
      BY <1>10, <2>3 DEF StatusFails
    <3>2. f.pc # "searching"
      BY <3>1, NotSearching
    <3>3. flow'[p].pc # "searching" /\ Others(p)
      BY <1>0, <3>1, <3>2 DEF TypeInv, FlowsFit
    <3> QED  BY <1>2, <2>1, <3>1, <3>3
  <2> QED  BY <2>2, <2>3
<1>11. ASSUME UNCHANGED <<screen, flow, behind>> PROVE LatestInv'
  BY <1>0, <1>11, LatestKept DEF screen
<1>12. ASSUME NEW c \in Companies, NEW force \in BOOLEAN, OthersServed(c, force) PROVE LatestInv'
  BY <1>11, <1>12 DEF OthersServed
<1>13. ASSUME NEW c \in Companies, JobEnds(c) \/ StatusExpires(c) \/ MarkerExpires(c) PROVE LatestInv'
  BY <1>11, <1>13 DEF JobEnds, StatusExpires, MarkerExpires
<1>14. CASE UNCHANGED searchVars
  BY <1>11, <1>14 DEF searchVars
<1> QED  BY <1>1, <1>3, <1>4, <1>5, <1>6, <1>7, <1>8, <1>9, <1>10, <1>12, <1>13, <1>14 DEF SearchNext, FlowStep

\* For any number of searches and rounds that return in any order: when none is
\* under way, the rows are those of the chosen filters and of the page named.
THEOREM LatestShownAlways == SearchSpec => []LatestShown
<1>1. LatestInv => LatestShown
  BY DEF LatestInv, RowsThere, ShownLast, LatestShown
<1>2. TypeInv /\ LatestInv /\ [SearchNext]_searchVars => LatestInv'
  BY LatestStep
<1> QED  BY <1>1, <1>2, LatestInit, TypeInvariant, PTL DEF SearchSpec

-----------------------------------------------------------------------------
(* What a forced refresh shows is fresh.                                   *)

Refreshing == flow[Forced].pc # "idle" => refreshing

\* What was dropped comes back to the cache as a new status, or not at all, ...
CacheFresh == \A c \in dropped : cached[c] # "old"

\* ... so that the refresh is told nothing old of it, ...
ReplyFresh ==
    flow[Forced].pc = "told" =>
        \A c \in dropped \cap flow[Forced].chunk : flow[Forced].reply[c] # "old"

\* ... and what a later round without anything pending has gone through is new,
\* but for older answers to others.
RoundFresh ==
    flow[Forced].pc \in {"asked", "told"} /\ flow[Forced].attempt # 0 /\ ~flow[Forced].pending =>
        \A c \in dropped \cap flow[Forced].round :
            c \in flow[Forced].todo \cup flow[Forced].chunk \/ known[c] = "new" \/ c \in outrun

FreshInv == Refreshing /\ CacheFresh /\ ReplyFresh /\ RoundFresh

LEMMA FreshInit == SearchInit => FreshInv
BY Constants DEF SearchInit, FreshInv, Refreshing, CacheFresh, ReplyFresh, RoundFresh, Resting

\* A step that leaves the refresh, and loses nothing new unrecorded.
LEMMA FreshKept ==
    ASSUME FreshInv, refreshing' = refreshing, dropped' = dropped,
           /\ flow'[Forced].pc = flow[Forced].pc /\ flow'[Forced].chunk = flow[Forced].chunk
           /\ flow'[Forced].todo = flow[Forced].todo /\ flow'[Forced].round = flow[Forced].round
           /\ flow'[Forced].reply = flow[Forced].reply /\ flow'[Forced].pending = flow[Forced].pending
           /\ flow'[Forced].attempt = flow[Forced].attempt,
           \A c \in dropped : cached'[c] = "old" => cached[c] = "old",
           outrun \subseteq outrun',
           \A c \in dropped : known[c] = "new" => known'[c] = "new" \/ c \in outrun'
    PROVE  FreshInv'
<1>1. Refreshing' /\ CacheFresh' /\ ReplyFresh'
  BY DEF FreshInv, Refreshing, CacheFresh, ReplyFresh
<1>2. RoundFresh'
  BY DEF FreshInv, RoundFresh
<1> QED  BY <1>1, <1>2 DEF FreshInv

LEMMA LookUpFresh ==
    ASSUME StatusOK, NEW cs, NEW force, LookUp(cs, force), NEW c \in Companies
    PROVE  /\ cached'[c] = "old" => cached[c] = "old"
           /\ force /\ c \in cs => cached'[c] = "none"
BY DEF StatusOK, LookUp

\* The refresh asks for a new round.
LEMMA RefreshAsks ==
    ASSUME CacheFresh', refreshing', NEW cs, NEW n, Starts(flow'[Forced], cs, n)
    PROVE  FreshInv'
BY DEF FreshInv, Refreshing, ReplyFresh, RoundFresh, Starts

\* The refresh waits or is over.
LEMMA RefreshRests ==
    ASSUME CacheFresh', flow'[Forced].pc \in {"idle", "sleeping"}, flow'[Forced].pc = "sleeping" => refreshing'
    PROVE  FreshInv'
BY DEF FreshInv, Refreshing, ReplyFresh, RoundFresh

LEMMA FreshStep == TypeInv /\ FreshInv /\ [SearchNext]_searchVars => FreshInv'
<1> SUFFICES ASSUME TypeInv, FreshInv, [SearchNext]_searchVars PROVE FreshInv'
  OBVIOUS
<1>0. TypeInv /\ FreshInv /\ StatusOK /\ FlowsFit /\ \A c \in dropped : c \in Companies
  BY DEF TypeInv, StatusOK
<1> USE DEF statusCache, record
<1>1. ASSUME flow'[Forced] = flow[Forced], UNCHANGED <<refreshing, dropped, outrun, known>>,
             \A c \in dropped : cached'[c] = "old" => cached[c] = "old"
      PROVE  FreshInv'
  BY <1>0, <1>1, FreshKept
<1>2. ASSUME NEW p \in Searches, OpenScreen(p) \/ Choose(p) \/ Turn(p) PROVE FreshInv'
  <2>1. /\ filters' \in Filters /\ at' \in Pages /\ FetchMatches(p)
        /\ UNCHANGED <<cached, refreshing, dropped, outrun, known>>
    <3>1. filters \in Filters /\ at \in Pages /\ response.pages \in 0..MaxMatchPages
      BY <1>0 DEF TypeInv, ScreenOK
    <3>2. CASE OpenScreen(p)
      BY <3>1, <3>2 DEF OpenScreen, FetchMatches
    <3>3. CASE Choose(p)
      BY <3>3, Constants DEF Choose, FetchMatches
    <3>4. CASE Turn(p)
      BY <3>1, <3>4, Constants DEF Turn, FetchMatches, Pages
    <3> QED  BY <1>2, <3>2, <3>3, <3>4
  <2>2. flow'[Forced] = flow[Forced]
    BY <1>0, <2>1, FetchFits, Constants
  <2> QED  BY <1>1, <2>1, <2>2
<1>3. CASE FilterByStatus
  BY <1>1, <1>3 DEF FilterByStatus
<1>4. CASE PressRefresh
  <2>1. PICK cs, f : cs = OnPage(response) /\ f \in Round(cs, 0) /\ flow' = [flow EXCEPT ![Forced] = f]
    BY <1>4 DEF PressRefresh
  <2>2. cs \in SUBSET Companies
    BY <1>0, <2>1, PageIsCompanies DEF TypeInv, ScreenOK
  <2>3. Starts(f, cs, 0)
    BY <2>1, <2>2, RoundFits, Constants
  <2>4. flow'[Forced] = f
    BY <1>0, <2>1, Constants DEF FlowsFit
  <2>5. CacheFresh' /\ refreshing'
    BY <1>4 DEF PressRefresh, CacheFresh
  <2> QED  BY <2>3, <2>4, <2>5, RefreshAsks
<1>5. ASSUME NEW p \in Flows, SearchAnswered(p) PROVE FreshInv'
  <2>1. p \in Searches /\ \A q \in Flows \ {p} : flow'[q] = flow[q]
    BY <1>0, <1>5, AnsweredFits
  <2>2. flow'[Forced] = flow[Forced]
    BY <2>1, Constants
  <2> QED  BY <1>1, <1>5, <2>2 DEF SearchAnswered
<1>6. ASSUME NEW p \in Flows, SearchFails(p) PROVE FreshInv'
  <2>1. p # Forced
    BY <1>0, <1>6, Constants DEF SearchFails, FlowsFit, Fits
  <2>2. flow'[Forced] = flow[Forced]
    BY <1>0, <1>6, <2>1, Constants DEF SearchFails, FlowsFit
  <2> QED  BY <1>1, <1>6, <2>2 DEF SearchFails
<1>7. ASSUME CacheFresh', EndRefresh PROVE FreshInv'
  <2>1. flow'[Forced].pc = "idle"
    BY <1>0, <1>7, EndRefreshFits
  <2> QED  BY <1>7, <2>1, RefreshRests
<1>8. ASSUME NEW p \in Flows, Wake(p) PROVE FreshInv'
  <2>1. CacheFresh'
    BY <1>0, <1>8 DEF Wake, FreshInv, CacheFresh
  <2>2. CASE p = Forced /\ EndRefresh
    BY <1>7, <2>1, <2>2
  <2>3. CASE p = Forced /\ ~EndRefresh
    <3>1. PICK f \in Round(OnPage(response), flow[p].attempt + 1) :
            flow' = [flow EXCEPT ![p] = f] /\ refreshing' = refreshing
      BY <1>8, <2>3 DEF Wake
    <3>2. PICK cs, n : cs = OnPage(response) /\ n = flow[p].attempt + 1
      OBVIOUS
    <3>3. cs \in SUBSET Companies /\ n \in Nat /\ n <= LastPoll(p)
      <4>1. flow[p].attempt \in Nat /\ flow[p].attempt < LastPoll(p) /\ LastPoll(p) \in Nat
        BY <1>0, <1>8, Constants DEF Wake, TypeInv, FlowsFit, Fits, FlowRecord
      <4> QED  BY <1>0, <3>2, <4>1, PageIsCompanies DEF TypeInv, ScreenOK
    <3>4. Starts(f, cs, n)
      BY <3>1, <3>2, <3>3, RoundFits
    <3>5. flow'[Forced] = f /\ refreshing'
      BY <1>0, <1>8, <2>3, <3>1, Constants DEF Wake, FlowsFit, FreshInv, Refreshing
    <3> QED  BY <2>1, <3>4, <3>5, RefreshAsks
  <2>4. CASE p # Forced
    <3>1. flow'[Forced] = flow[Forced] /\ refreshing' = refreshing
      BY <1>0, <1>8, <2>4, Constants DEF Wake, FlowsFit
    <3> QED  BY <1>1, <1>8, <2>4, <3>1 DEF Wake
  <2> QED  BY <2>2, <2>3, <2>4
<1>9. ASSUME NEW p \in Flows, Served(p) PROVE FreshInv'
  <2> DEFINE f == flow[Forced]
             g == flow'[Forced]
  <2>1. /\ flow[p].pc = "asked" /\ flow'[p].pc = "told"
        /\ flow'[p].reply = [c \in flow[p].chunk |-> IF Forces(p) THEN "none" ELSE cached[c]]
        /\ \A q \in Flows \ {p} : flow'[q].pc = flow[q].pc
        /\ \A q \in Flows \ {p} : ~Forces(p) => flow'[q].reply = flow[q].reply
        /\ Forced \in Flows
        /\ g.chunk = f.chunk /\ g.todo = f.todo /\ g.round = f.round /\ g.pending = f.pending /\ g.attempt = f.attempt
    BY <1>0, <1>9, ServedFits, Constants
  <2>2. /\ \A c \in Companies : cached'[c] = "old" => cached[c] = "old"
        /\ Forces(p) => \A c \in flow[p].chunk : cached'[c] = "none"
        /\ flow[p].chunk \subseteq Companies
    <3>1. flow[p].chunk \subseteq Companies
      BY <1>0 DEF FlowsFit, FlowRecord
    <3>2. LookUp(flow[p].chunk, Forces(p)) /\ StatusOK
      BY <1>0, <1>9 DEF Served
    <3>3. \A c \in Companies : cached'[c] = "old" => cached[c] = "old"
      BY <3>2, LookUpFresh
    <3>4. ASSUME Forces(p), NEW c \in flow[p].chunk PROVE cached'[c] = "none"
      <4>1. c \in Companies
        BY <3>1
      <4> QED  BY <3>2, <3>4, <4>1, LookUpFresh
    <3> QED  BY <3>1, <3>3, <3>4
  <2>3. refreshing' = refreshing /\ outrun' = outrun
    BY <1>9 DEF Served
  <2>4. CASE ~Forces(p)
    <3>1. dropped' = dropped /\ known' = known
      BY <1>9, <2>4 DEF Served
    <3>2. CASE p # Forced
      <4>1. g.pc = f.pc /\ g.reply = f.reply
        BY <2>1, <2>4, <3>2
      <4> HIDE DEF f, g
      <4> QED  BY <1>0, <2>1, <2>2, <2>3, <3>1, <4>1, FreshKept DEF f, g
    <3>3. CASE p = Forced
      <4>1. CacheFresh'
        BY <1>0, <2>2, <3>1 DEF FreshInv, CacheFresh
      <4>2. ReplyFresh'
        BY <1>0, <2>1, <2>2, <2>4, <3>1, <3>3 DEF FreshInv, CacheFresh, ReplyFresh
      <4>3. RoundFresh'
        BY <1>0, <2>1, <2>3, <3>1, <3>3 DEF FreshInv, RoundFresh
      <4>4. Refreshing'
        BY <1>0, <2>1, <2>3, <3>3 DEF FreshInv, Refreshing
      <4> QED  BY <4>1, <4>2, <4>3, <4>4 DEF FreshInv
    <3> QED  BY <3>2, <3>3
  <2>5. CASE Forces(p)
    <3>1. p = Forced /\ f.attempt = 0 /\ dropped' = dropped \cup flow[p].chunk
      BY <1>9, <2>5 DEF Served, Forces, Age
    <3>2. CacheFresh'
      BY <1>0, <2>2, <2>5, <3>1 DEF FreshInv, CacheFresh
    <3>3. ReplyFresh' /\ RoundFresh'
      BY <2>1, <2>5, <3>1 DEF ReplyFresh, RoundFresh
    <3>4. Refreshing'
      BY <1>0, <2>1, <2>3, <3>1 DEF FreshInv, Refreshing
    <3> QED  BY <3>2, <3>3, <3>4 DEF FreshInv
  <2> QED  BY <2>4, <2>5
<1>10. ASSUME NEW p \in Flows, StatusReceived(p) PROVE FreshInv'
  <2> DEFINE f == flow[p]
  <2>1. /\ f.pc = "told" /\ flow'[p].pc \in {"asked", "sleeping", "idle"}
        /\ \A q \in Flows \ {p} : flow'[q] = flow[q]
        /\ refreshing' = refreshing \/ (p = Forced /\ flow'[p].pc = "idle")
        /\ flow'[p].pc = "asked" =>
             /\ flow'[p].round = f.round /\ flow'[p].attempt = f.attempt
             /\ f.todo \subseteq flow'[p].todo \cup flow'[p].chunk
             /\ ~flow'[p].pending => ~Waits(p)
    BY <1>0, <1>10, ReceivedFits
  <2>2. /\ dropped' = dropped /\ cached' = cached /\ outrun \subseteq outrun'
        /\ \A c \in Companies : known[c] = "new" => known'[c] = "new" \/ c \in outrun'
        /\ \A c \in f.chunk : f.reply[c] # "none" => known'[c] = f.reply[c]
        /\ f.reply \in [f.chunk -> Answers] /\ f.chunk \subseteq Companies
    <3>1. f.reply \in [f.chunk -> Answers] /\ f.chunk \subseteq Companies
      BY <1>0, <2>1 DEF FlowsFit, Fits, FlowRecord
    <3>2. PICK replaced : replaced = {c \in f.chunk : f.reply[c] # "none"}
      OBVIOUS
    <3>3. /\ known' = [c \in Companies |-> IF c \in replaced THEN f.reply[c] ELSE known[c]]
          /\ outrun' = outrun \cup {c \in replaced : f.reply[c] = "old" /\ known[c] = "new"}
      BY <1>10, <3>2 DEF StatusReceived
    <3>4. dropped' = dropped /\ cached' = cached
      BY <1>10 DEF StatusReceived
    <3> HIDE DEF f
    <3> QED  BY <3>1, <3>2, <3>3, <3>4 DEF Answers
  <2>3. CASE p # Forced
    <3>1. flow'[Forced] = flow[Forced]
      BY <2>1, <2>3, Constants
    <3> HIDE DEF f
    <3> QED  BY <1>0, <2>1, <2>2, <2>3, <3>1, FreshKept
  <2>4. CASE p = Forced
    <3>1. CacheFresh'
      BY <1>0, <2>2 DEF FreshInv, CacheFresh
    <3>2. refreshing
      BY <1>0, <2>1, <2>4 DEF FreshInv, Refreshing
    <3>3. CASE flow'[p].pc # "asked"
      BY <2>1, <2>4, <3>1, <3>2, <3>3, RefreshRests
    <3>4. CASE flow'[p].pc = "asked"
      <4>1. Refreshing' /\ ReplyFresh'
        BY <2>1, <2>4, <3>2, <3>4 DEF Refreshing, ReplyFresh
      <4>2. RoundFresh'
        <5> SUFFICES ASSUME f.attempt # 0, ~Waits(p), NEW c \in dropped \cap f.round,
                            c \notin flow'[p].todo \cup flow'[p].chunk
                     PROVE  known'[c] = "new" \/ c \in outrun'
          BY <2>1, <2>2, <2>4, <3>4 DEF RoundFresh
        <5>1. c \notin f.todo /\ ~f.pending /\ c \in Companies
          BY <1>0, <2>1, <3>4 DEF Waits
        <5>2. CASE c \in f.chunk
          <6>1. f.reply[c] # "none"
            BY <5>2 DEF Waits, Unanswered
          <6>2. f.reply[c] # "old"
            BY <1>0, <2>1, <2>4, <5>2 DEF FreshInv, ReplyFresh
          <6> QED  BY <2>2, <5>2, <6>1, <6>2 DEF Answers
        <5>3. CASE c \notin f.chunk
          <6>1. known[c] = "new" \/ c \in outrun
            BY <1>0, <2>1, <2>4, <5>1, <5>3 DEF FreshInv, RoundFresh
          <6> QED  BY <2>2, <5>1, <6>1
        <5> QED  BY <5>2, <5>3
      <4> QED  BY <3>1, <4>1, <4>2 DEF FreshInv
    <3> QED  BY <3>3, <3>4
  <2> QED  BY <2>3, <2>4
<1>11. ASSUME NEW p \in Flows, StatusFails(p) PROVE FreshInv'
  <2>1. CacheFresh'
    BY <1>0, <1>11 DEF StatusFails, FreshInv, CacheFresh
  <2>2. CASE EndRefresh
    BY <1>7, <2>1, <2>2
  <2>3. CASE p = Forced /\ ~EndRefresh
    <3>1. PICK f : f = Asleep(flow[p].attempt) /\ flow' = [flow EXCEPT ![p] = f] /\ refreshing' = refreshing
      BY <1>11, <2>3 DEF StatusFails
    <3>2. f.pc = "sleeping"
      <4>1. f = [pc |-> "sleeping", query |-> <<>>, round |-> {}, todo |-> {}, chunk |-> {},
                 reply |-> <<>>, pending |-> FALSE, attempt |-> flow[p].attempt]
        BY <3>1 DEF Asleep, Resting
      <4> QED  BY <4>1
    <3>3. flow'[Forced].pc = "sleeping" /\ refreshing'
      BY <1>0, <1>11, <2>3, <3>1, <3>2, Constants DEF StatusFails, FlowsFit, FreshInv, Refreshing
    <3> QED  BY <2>1, <3>3, RefreshRests
  <2>4. CASE p # Forced /\ ~EndRefresh
    <3>1. flow'[Forced] = flow[Forced] /\ refreshing' = refreshing
      BY <1>0, <1>11, <2>4, Constants DEF StatusFails, FlowsFit
    <3> QED  BY <1>1, <1>11, <2>4, <3>1 DEF StatusFails
  <2> QED  BY <2>2, <2>3, <2>4
<1>12. ASSUME NEW c \in Companies, NEW force \in BOOLEAN, OthersServed(c, force) PROVE FreshInv'
  <2>1. \A d \in dropped : cached'[d] = "old" => cached[d] = "old"
    BY <1>0, <1>12, LookUpFresh DEF OthersServed
  <2> QED  BY <1>1, <1>12, <2>1 DEF OthersServed, screen
<1>13. ASSUME NEW c \in Companies, JobEnds(c) \/ StatusExpires(c) \/ MarkerExpires(c) PROVE FreshInv'
  <2>1. \A d \in dropped : cached'[d] = "old" => cached[d] = "old"
    BY <1>0, <1>13 DEF JobEnds, StatusExpires, MarkerExpires, StatusOK
  <2> QED  BY <1>1, <1>13, <2>1 DEF JobEnds, StatusExpires, MarkerExpires, screen
<1>14. CASE UNCHANGED searchVars
  BY <1>1, <1>14 DEF searchVars, screen
<1> QED  BY <1>2, <1>3, <1>4, <1>5, <1>6, <1>8, <1>9, <1>10, <1>11, <1>12, <1>13, <1>14 DEF SearchNext, FlowStep

\* The inductive invariant of the forced refresh: nothing it is told is old, and
\* what a round has gone through is new, or was overwritten by an older answer.
THEOREM FreshAlways == SearchSpec => []FreshInv
<1>1. TypeInv /\ FreshInv /\ [SearchNext]_searchVars => FreshInv'
  BY FreshStep
<1> QED  BY <1>1, FreshInit, TypeInvariant, PTL DEF SearchSpec

\* For any companies, chunks and polls, whoever else asks and whatever expires:
\* a refresh that ends with nothing pending shows what was stored since it began.
THEOREM FreshAfterRefreshAlways == SearchSpec => FreshAfterRefresh
<1> DEFINE Fresh == StatusReceived(Forced) /\ ~refreshing' /\ ~Waits(Forced) =>
                      \A c \in flow[Forced].round \cap dropped : known'[c] = "new" \/ c \in outrun'
<1>1. TypeInv /\ FreshInv /\ [SearchNext]_searchVars => [Fresh]_searchVars
  <2> SUFFICES ASSUME TypeInv, FreshInv, StatusReceived(Forced), ~refreshing', ~Waits(Forced),
                      NEW c \in flow[Forced].round \cap dropped
               PROVE  known'[c] = "new" \/ c \in outrun'
    OBVIOUS
  <2> DEFINE f == flow[Forced]
  <2>1. f.pc = "told" /\ refreshing /\ f.todo = {}
    BY DEF StatusReceived, FreshInv, Refreshing
  <2>2. RoundEnds(Forced, Waits(Forced))
    BY <2>1 DEF StatusReceived
  <2>3. f.attempt # 0
    BY <2>1, <2>2 DEF RoundEnds, Forces
  <2>4. ~f.pending /\ \A d \in f.chunk : f.reply[d] # "none"
    BY DEF Waits, Unanswered
  <2>5. c \in Companies /\ f.reply \in [f.chunk -> Answers] /\ f.chunk \subseteq Companies
    BY <2>1, Constants DEF TypeInv, FlowsFit, Fits, FlowRecord, StatusOK
  <2>6. PICK replaced : replaced = {d \in f.chunk : f.reply[d] # "none"}
    OBVIOUS
  <2>7. /\ known' = [d \in Companies |-> IF d \in replaced THEN f.reply[d] ELSE known[d]]
        /\ outrun' = outrun \cup {d \in replaced : f.reply[d] = "old" /\ known[d] = "new"}
    BY <2>6 DEF StatusReceived
  <2>8. CASE c \in f.chunk
    <3>1. f.reply[c] # "old"
      BY <2>1, <2>8 DEF FreshInv, ReplyFresh
    <3> QED  BY <2>4, <2>5, <2>6, <2>7, <2>8, <3>1 DEF Answers
  <2>9. CASE c \notin f.chunk
    <3>1. known[c] = "new" \/ c \in outrun
      BY <2>1, <2>3, <2>4, <2>9 DEF FreshInv, RoundFresh
    <3> QED  BY <2>5, <2>6, <2>7, <2>9, <3>1
  <2> QED  BY <2>8, <2>9
<1> QED  BY <1>1, FreshAlways, TypeInvariant, PTL DEF SearchSpec, FreshAfterRefresh

==============================================================================

---------------------------- MODULE PublicWarLobby ----------------------------
(***************************************************************************)
(* Public war lobbies.  Anybody may open one for a faction with a public   *)
(* Torn key; the key, the live board and submitted spy statistics live in  *)
(* Rails.cache only, next to the lobby's row.  A job per lobby polls Torn  *)
(* and reschedules itself until the row is gone.  Requests and jobs are    *)
(* not serialised with each other: each works with the row it has loaded.  *)
(***************************************************************************)
EXTENDS Integers, FiniteSets

CONSTANTS
    MaxLobbies,    \* MAX_LOBBIES
    Factions,      \* factions somebody opens a lobby for
    NoFaction,     \* the id has not been given to a lobby yet
    Creators,      \* concurrent requests that open a lobby
    Visitors,      \* concurrent requests to a lobby's page
    LastId,        \* bound: lobbies ever created
    MaxFaults      \* bound: processes lost and statements that raise

ASSUME LobbyAssumption ==
    /\ MaxLobbies \in Nat \ {0} /\ LastId \in Nat /\ MaxFaults \in Nat
    /\ NoFaction \notin Factions

Ids == 1..LastId     \* the table's ids are never reused

VARIABLES
    stored,      \* <<"row", i>>: the row; <<kind, i>>: an entry of Rails.cache
    factionOf,   \* faction_torn_id of every lobby there has been
    created,     \* the last id given to a lobby
    pending,     \* PublicWarPollingJobs of a lobby in the queue
    job,         \* the one being performed (limits_concurrency to: 1)
    creator,     \* PublicWarsController#create
    visitor,     \* PublicWarsController#destroy and #stats
    dropped,     \* history: lobbies whose key was erased or evicted
    lost,        \* history: lobbies whose next poll was lost
    forked,      \* history: lobbies whose poll was performed twice
    faults       \* history: processes lost and errors raised so far

table == <<factionOf, created>>
faulty == <<lost, forked, faults>>
vars == <<stored, factionOf, created, pending, job, creator, visitor,
          dropped, lost, forked, faults>>

Kinds == {"row", "board", "apikey", "spystats"}
JobSteps == {"idle", "find", "key", "call", "write", "reschedule", "end"} \cup Kinds
Row(i) == <<"row", i>> \in stored
Key(i) == <<"apikey", i>> \in stored
Lobbies == {i \in Ids : Row(i)}

TypeOK ==
    /\ stored \subseteq Kinds \X Ids
    /\ factionOf \in [Ids -> Factions \cup {NoFaction}]
    /\ created \in 0..LastId
    /\ pending \in [Ids -> Nat]
    /\ job \in [Ids -> JobSteps]
    /\ creator \in [Creators -> [pc : {"idle", "check", "save", "key", "enqueue"},
                       for : Factions \cup {NoFaction}, count : Nat, id : 0..LastId]]
    /\ visitor \in [Visitors -> [pc : {"idle", "stats"} \cup Kinds, id : 0..LastId]]
    /\ dropped \subseteq Ids /\ lost \subseteq Ids /\ forked \subseteq Ids
    /\ faults \in Nat

NoCreation == [pc |-> "idle", for |-> NoFaction, count |-> 0, id |-> 0]
NoVisit == [pc |-> "idle", id |-> 0]

Init ==
    /\ stored = {} /\ created = 0
    /\ factionOf = [i \in Ids |-> NoFaction]
    /\ pending = [i \in Ids |-> 0]
    /\ job = [i \in Ids |-> "idle"]
    /\ creator = [c \in Creators |-> NoCreation]
    /\ visitor = [v \in Visitors |-> NoVisit]
    /\ dropped = {} /\ lost = {} /\ forked = {} /\ faults = 0

-----------------------------------------------------------------------------
(* PublicWarLobby#terminate!: three cache entries, then the row, one after *)
(* the other.  Destroying a row that is gone already raises nothing.       *)

AfterErasing == [board |-> "apikey", apikey |-> "spystats", spystats |-> "row",
                 row |-> "idle"]

Erase(kind, i) ==
    /\ stored' = stored \ {<<kind, i>>}
    /\ dropped' = IF kind = "apikey" THEN dropped \cup {i} ELSE dropped

-----------------------------------------------------------------------------
(* PublicWarsController#create.                                            *)

creating == <<job, visitor, dropped, faulty>>

\* The limit is checked before the calls to Torn.
Submit(c, f) ==
    /\ creator[c].pc = "idle" /\ Cardinality(Lobbies) < MaxLobbies
    /\ creator' = [creator EXCEPT ![c] =
          [NoCreation EXCEPT !.pc = "check", !.for = f, !.count = Cardinality(Lobbies)]]
    /\ UNCHANGED <<stored, table, pending, creating>>

\* The calls find a public key, the faction and its war, and no lobby exists
\* for it; else the form is shown again.
CheckFaction(c) ==
    /\ creator[c].pc = "check"
    /\ \/ /\ \A i \in Lobbies : factionOf[i] # creator[c].for
          /\ creator' = [creator EXCEPT ![c].pc = "save"]
       \/ creator' = [creator EXCEPT ![c] = NoCreation]
    /\ UNCHANGED <<stored, table, pending, creating>>

\* save validates the limit again.  It counts inside the write transaction, or
\* is given the count of the first check by the request's query cache, which
\* only a write of the request would have cleared.
Save(c) ==
    /\ creator[c].pc = "save" /\ created < LastId
    /\ \E count \in {Cardinality(Lobbies), creator[c].count} :
          IF count < MaxLobbies
          THEN /\ created' = created + 1
               /\ stored' = stored \cup {<<"row", created + 1>>}
               /\ factionOf' = [factionOf EXCEPT ![created + 1] = creator[c].for]
               /\ creator' = [creator EXCEPT ![c].pc = "key", ![c].id = created + 1]
          ELSE /\ creator' = [creator EXCEPT ![c] = NoCreation]
               /\ UNCHANGED <<stored, table>>
    /\ UNCHANGED <<pending, creating>>

\* Mutant: the job is enqueued first.
WriteKeyAfterEnqueue(c) ==
    /\ creator[c].pc = "key"
    /\ pending' = [pending EXCEPT ![creator[c].id] = @ + 1]
    /\ creator' = [creator EXCEPT ![c].pc = "enqueue"]
    /\ UNCHANGED <<stored, table, creating>>

WriteKey(c) ==
    /\ creator[c].pc = "key"
    /\ stored' = stored \cup {<<"apikey", creator[c].id>>}
    /\ creator' = [creator EXCEPT ![c].pc = "enqueue"]
    /\ UNCHANGED <<table, pending, creating>>

EnqueueFirst(c) ==
    /\ creator[c].pc = "enqueue"
    /\ pending' = [pending EXCEPT ![creator[c].id] = @ + 1]
    /\ creator' = [creator EXCEPT ![c] = NoCreation]
    /\ UNCHANGED <<stored, table, creating>>

CreateStep(c) == CheckFaction(c) \/ Save(c) \/ WriteKey(c) \/ EnqueueFirst(c)

-----------------------------------------------------------------------------
(* PublicWarsController#destroy and #stats, once find_lobby has the row.   *)

visiting == <<table, pending, job, creator, faulty>>

\* destroy (terminate! begins), or stats, which reads the spy statistics.
Visit(v, i, step) ==
    /\ visitor[v].pc = "idle" /\ Row(i)
    /\ visitor' = [visitor EXCEPT ![v] = [pc |-> step, id |-> i]]
    /\ UNCHANGED <<stored, dropped, visiting>>

\* ... and writes them back with the submitted ones merged in.
WriteStats(v) ==
    /\ visitor[v].pc = "stats"
    /\ stored' = stored \cup {<<"spystats", visitor[v].id>>}
    /\ visitor' = [visitor EXCEPT ![v] = NoVisit]
    /\ UNCHANGED <<dropped, visiting>>

Terminate(v) ==
    /\ visitor[v].pc \in Kinds
    /\ Erase(visitor[v].pc, visitor[v].id)
    /\ visitor' = [visitor EXCEPT ![v] =
          IF visitor[v].pc = "row" THEN NoVisit
          ELSE [@ EXCEPT !.pc = AfterErasing[visitor[v].pc]]]
    /\ UNCHANGED visiting

VisitStep(v) == WriteStats(v) \/ Terminate(v)

-----------------------------------------------------------------------------
(* PublicWarPollingJob#perform.                                            *)

performing == <<table, creator, visitor, faulty>>

\* Mutant: a job is performed that is not in the queue.
ClaimUnqueued(i) ==
    /\ job[i] = "idle" /\ i <= created
    /\ pending' = [pending EXCEPT ![i] = @ - 1]
    /\ job' = [job EXCEPT ![i] = "find"]
    /\ UNCHANGED <<stored, dropped, performing>>

\* Solid Queue: a worker claims a job that is due; one at a time per lobby.
Claim(i) ==
    /\ job[i] = "idle" /\ pending[i] > 0
    /\ pending' = [pending EXCEPT ![i] = @ - 1]
    /\ job' = [job EXCEPT ![i] = "find"]
    /\ UNCHANGED <<stored, dropped, performing>>

\* Mutant: the job trusts the cache and does not look for the row.
FindLobbyByKey(i) ==
    /\ job[i] = "find"
    /\ job' = [job EXCEPT ![i] = IF Key(i) THEN "key" ELSE "idle"]
    /\ UNCHANGED <<stored, dropped, pending, performing>>

FindLobby(i) ==
    /\ job[i] = "find"
    /\ job' = [job EXCEPT ![i] = IF Row(i) THEN "key" ELSE "idle"]
    /\ UNCHANGED <<stored, dropped, pending, performing>>

\* Mutant: without a key the job waits for one.
ReadKeyOrWait(i) ==
    /\ job[i] = "key"
    /\ job' = [job EXCEPT ![i] = IF Key(i) THEN "call" ELSE "reschedule"]
    /\ UNCHANGED <<stored, dropped, pending, performing>>

\* Without a key the lobby is terminated.
ReadKey(i) ==
    /\ job[i] = "key"
    /\ job' = [job EXCEPT ![i] = IF Key(i) THEN "call" ELSE "board"]
    /\ UNCHANGED <<stored, dropped, pending, performing>>

\* Torn answers, rejects the key (terminate! from the rescue), or the call
\* raises anything else, which keeps the loaded lobby "persisted".
CallTorn(i) ==
    /\ job[i] = "call"
    /\ \E step \in {"write", "board", "reschedule"} : job' = [job EXCEPT ![i] = step]
    /\ UNCHANGED <<stored, dropped, pending, performing>>

WriteBoard(i) ==
    /\ job[i] = "write"
    /\ stored' = stored \cup {<<"board", i>>}
    /\ job' = [job EXCEPT ![i] = "reschedule"]
    /\ UNCHANGED <<dropped, pending, performing>>

\* Mutant: the next poll is enqueued, and enqueued again by the rescue.
RescheduleTwice(i) ==
    /\ job[i] = "reschedule"
    /\ pending' = [pending EXCEPT ![i] = @ + 2]
    /\ job' = [job EXCEPT ![i] = "end"]
    /\ UNCHANGED <<stored, dropped, performing>>

\* Mutant: the next poll is only enqueued while the cache has the key.
RescheduleWithKey(i) ==
    /\ job[i] = "reschedule"
    /\ pending' = [pending EXCEPT ![i] = IF Key(i) THEN @ + 1 ELSE @]
    /\ job' = [job EXCEPT ![i] = "end"]
    /\ UNCHANGED <<stored, dropped, performing>>

Reschedule(i) ==
    /\ job[i] = "reschedule"
    /\ pending' = [pending EXCEPT ![i] = @ + 1]
    /\ job' = [job EXCEPT ![i] = "end"]
    /\ UNCHANGED <<stored, dropped, performing>>

JobTerminates(i) ==
    /\ job[i] \in Kinds
    /\ Erase(job[i], i)
    /\ job' = [job EXCEPT ![i] = AfterErasing[@]]
    /\ UNCHANGED <<pending, performing>>

Finish(i) ==
    /\ job[i] = "end"
    /\ job' = [job EXCEPT ![i] = "idle"]
    /\ UNCHANGED <<stored, dropped, pending, performing>>

JobStep(i) == \/ FindLobby(i) \/ ReadKey(i) \/ CallTorn(i) \/ WriteBoard(i)
              \/ Reschedule(i) \/ JobTerminates(i) \/ Finish(i)

-----------------------------------------------------------------------------
(* The cache, and processes that come and go.                              *)

\* CACHE_TTL has passed since the board was written.
BoardExpires(i) ==
    /\ <<"board", i>> \in stored
    /\ stored' = stored \ {<<"board", i>>}
    /\ UNCHANGED <<dropped, visiting, visitor>>

\* Solid Cache drops its oldest entries when it is full or they are too old.
Evict(i, kind) ==
    /\ <<kind, i>> \in stored
    /\ Erase(kind, i)
    /\ UNCHANGED <<visiting, visitor>>

Fault == /\ faults < MaxFaults
         /\ faults' = faults + 1
         /\ UNCHANGED <<stored, dropped, table>>

\* Solid Queue: the worker dies; its claimed job is marked failed, not retried.
WorkerDies(i) ==
    /\ job[i] # "idle" /\ Fault
    /\ job' = [job EXCEPT ![i] = "idle"]
    /\ lost' = IF job[i] = "end" THEN lost ELSE lost \cup {i}
    /\ UNCHANGED <<pending, creator, visitor, forked>>

\* Solid Queue: a worker that is shut down releases its claimed job.
WorkerReleases(i) ==
    /\ job[i] # "idle" /\ Fault
    /\ job' = [job EXCEPT ![i] = "idle"]
    /\ pending' = [pending EXCEPT ![i] = @ + 1]
    /\ forked' = IF job[i] = "end" THEN forked \cup {i} ELSE forked
    /\ UNCHANGED <<creator, visitor, lost>>

\* A statement of perform raises: the rescue enqueues the next poll, since the
\* lobby it has loaded is still "persisted".  (terminate! is called by perform and by
\* a rescue, where JobStranded applies; the steps do not tell the two apart.)
JobRaises(i) ==
    /\ job[i] \in {"key", "write"} \cup Kinds /\ Fault
    /\ job' = [job EXCEPT ![i] = "reschedule"]
    /\ UNCHANGED <<pending, creator, visitor, lost, forked>>

\* The same where nothing reschedules: find_by, which leaves lobby nil, terminate!
\* inside a rescue, and perform_later, when the rescue's own attempt raises too.
JobStranded(i) ==
    /\ job[i] \in {"find", "reschedule"} \cup Kinds /\ Fault
    /\ job' = [job EXCEPT ![i] = "idle"]
    /\ lost' = lost \cup {i}
    /\ UNCHANGED <<pending, creator, visitor, forked>>

\* A request ends with its process, or because a statement of its own raises.
CreatorDies(c) ==
    /\ creator[c].pc # "idle" /\ Fault
    /\ creator' = [creator EXCEPT ![c] = NoCreation]
    /\ lost' = IF creator[c].pc \in {"key", "enqueue"}
               THEN lost \cup {creator[c].id} ELSE lost
    /\ UNCHANGED <<pending, job, visitor, forked>>

VisitorDies(v) ==
    /\ visitor[v].pc # "idle" /\ Fault
    /\ visitor' = [visitor EXCEPT ![v] = NoVisit]
    /\ UNCHANGED <<pending, job, creator, lost, forked>>

Next ==
    \/ \E c \in Creators : \/ \E f \in Factions : Submit(c, f)
                           \/ CreateStep(c) \/ CreatorDies(c)
    \/ \E v \in Visitors : \/ \E i \in Ids : Visit(v, i, "board") \/ Visit(v, i, "stats")
                           \/ VisitStep(v) \/ VisitorDies(v)
    \/ \E i \in Ids : \/ Claim(i) \/ JobStep(i)
                      \/ BoardExpires(i) \/ Evict(i, "apikey") \/ Evict(i, "spystats")
                      \/ WorkerDies(i) \/ WorkerReleases(i)
                      \/ JobRaises(i) \/ JobStranded(i)

Spec == Init /\ [][Next]_vars

\* The queue serves due jobs, started code runs on, the cache drops expired
\* entries.  Nobody has to open, visit or terminate a lobby.
Fairness ==
    /\ \A i \in Ids : WF_vars(Claim(i)) /\ WF_vars(JobStep(i)) /\ WF_vars(BoardExpires(i))
    /\ \A c \in Creators : WF_vars(CreateStep(c))
    /\ \A v \in Visitors : WF_vars(VisitStep(v))

FairSpec == Spec /\ Fairness

-----------------------------------------------------------------------------

Performing(i) == job[i] \notin {"idle", "end"}
Opening(c, i) == creator[c].pc \in {"key", "enqueue"} /\ creator[c].id = i

\* A lobby that is listed is being polled, will be, or is being opened, unless a
\* process died with its next poll, or the database raised where perform does not
\* reschedule (before the lobby is loaded, inside a rescue): no answer of Torn, no
\* other error, missing key or concurrent termination leaves a row behind that
\* nothing will ever remove.
PolledOrGone ==
    \A i \in Lobbies \ lost :
        pending[i] > 0 \/ Performing(i) \/ \E c \in Creators : Opening(c, i)

\* A lobby is polled by one chain of jobs, whichever path each of them takes;
\* only a worker that is shut down just before it is done can double it.
OneChain ==
    \A i \in Ids \ forked :
        /\ pending[i] + (IF Performing(i) THEN 1 ELSE 0) <= 1
        /\ (\E c \in Creators : Opening(c, i)) => pending[i] = 0 /\ ~Performing(i)

\* A new lobby is not taken for one without a key: the first poll comes after
\* the key is in the cache.
NotEndedAtBirth == \A i \in Ids : job[i] = "key" /\ ~Key(i) => i \in dropped

\* "This will permanently stop polling and remove the lobby": after the row is
\* gone the queue runs empty and the board disappears, also when a poll was
\* under way at the time.
TerminatedDrains ==
    \A i \in Ids : i <= created /\ ~Row(i) ~>
        pending[i] = 0 /\ job[i] = "idle" /\ <<"board", i>> \notin stored

\* A lobby without its key is removed, whether the cache evicted it or a
\* termination died half-way.
UnkeyedEnds ==
    \A i \in Ids : Row(i) /\ ~Key(i) ~> ~Row(i) \/ Key(i) \/ i \in lost
=============================================================================

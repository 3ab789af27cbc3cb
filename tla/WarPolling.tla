------------------------------ MODULE WarPolling ------------------------------
(***************************************************************************)
(* Live war polling of one faction: a job that reschedules itself while    *)
(* faction.war_polling_active is set, the web requests that set and clear  *)
(* that flag, and the faction's Torn key, which the job's own API calls    *)
(* and the nightly validation can find rejected.  Nothing locks the        *)
(* faction's row: a request or a job works with the copy it loaded, and    *)
(* update! writes only what differs from that copy.                        *)
(***************************************************************************)
EXTENDS Integers, FiniteSets

CONSTANTS
    Keys,                  \* Torn api keys the faction's leaders may submit
    NoKey,                 \* the faction has no ApiKey::Torn record
    Requests,              \* concurrent web requests of the faction's members
    AcceptingNewFactions,  \* ACCEPTING_NEW_FACTIONS
    MaxPending,            \* bound: polling jobs queued when a start is pressed
    MaxFaults              \* bound: crashes and shutdowns of a process, and
                           \* exceptions of the database, the cache or the queue

ASSUME KeyAssumption == NoKey \notin Keys
ASSUME BoundAssumption == /\ AcceptingNewFactions \in BOOLEAN
                          /\ MaxPending \in Nat /\ MaxFaults \in Nat

VARIABLES
    health,     \* what Torn says of a key: Key::Info would return or raise it
    key,        \* faction.torn_api_key
    setup,      \* faction.setup_completed
    settingUp,  \* FactionsController#create has stored a key and goes on
    active,     \* faction.war_polling_active
    war,        \* faction.current_war: an ongoing RankedWar exists
    board,      \* Rails.cache holds faction.war_cache_key
    pending,    \* WarPollingJobs in the queue: scheduled, ready or blocked
    job,        \* the claimed WarPollingJob (limits_concurrency to: 1)
    request,    \* the web requests
    validator,  \* Daily::ValidateFactionKeysJob, at this faction's key
    faults,     \* history: faults so far
    lost        \* history: since the last start, a fault took a start or a poll along

faction == <<key, setup, active>>
daily == <<health, war, settingUp>>
vars == <<health, key, setup, settingUp, active, war, board, pending, job,
          request, validator, faults, lost>>

Healths == {"good", "noaccess", "rejected"}
JobSteps == {"idle", "load", "war", "key", "scores", "members", "invalidating",
             "write", "reschedule", "raised", "end"}
RequestSteps == {"idle", "viewing", "starting", "enqueue", "stopping", "discarding",
                 "resetting", "deleting"}
ValidatorSteps == {"idle", "loaded", "invalidating", "failed"}

\* What is remembered of the faction's row by who has loaded it.
Copies == [active : BOOLEAN, setup : BOOLEAN]
NoCopy == [active |-> FALSE, setup |-> FALSE]
Row == [active |-> active, setup |-> setup]

TypeOK ==
    /\ health \in [Keys -> Healths]
    /\ key \in Keys \cup {NoKey}
    /\ setup \in BOOLEAN /\ settingUp \in BOOLEAN /\ active \in BOOLEAN
    /\ war \in BOOLEAN /\ board \in BOOLEAN /\ lost \in BOOLEAN
    /\ pending \in Nat /\ faults \in Nat
    /\ job \in [pc : JobSteps, key : Keys \cup {NoKey}, found : Copies]
    /\ request \in [Requests -> [pc : RequestSteps, seen : Copies]]
    /\ validator \in [pc : ValidatorSteps, key : Keys \cup {NoKey}, seen : Copies,
                      found : Copies]

Idle == [pc |-> "idle", key |-> NoKey, found |-> NoCopy]
NoRequest == [pc |-> "idle", seen |-> NoCopy]
NotValidating == [pc |-> "idle", key |-> NoKey, seen |-> NoCopy, found |-> NoCopy]

\* A faction as a completed setup leaves it.
Init ==
    /\ health = [k \in Keys |-> "good"]
    /\ key \in Keys /\ setup = TRUE /\ settingUp = FALSE
    /\ active = FALSE /\ war = FALSE /\ board = FALSE
    /\ pending = 0 /\ job = Idle
    /\ request = [r \in Requests |-> NoRequest]
    /\ validator = NotValidating
    /\ faults = 0 /\ lost = FALSE

-----------------------------------------------------------------------------
(* Faction: operations other components call.  "seen" is the copy of the   *)
(* faction the caller holds.                                               *)

\* stop_war_polling! inside a transaction; StopPolling and DiscardBoard are its
\* two lines outside of one.
Stop(seen) ==
    IF seen.active THEN active' = FALSE /\ board' = FALSE
                   ELSE UNCHANGED <<active, board>>

\* handle_invalid_api_key!: one transaction, which loads and destroys whatever
\* key there is by now.  cancel_background_jobs looks for "arguments":[id, and
\* a WarPollingJob has no second argument, so no polling job is cancelled.
HandleInvalidKey(seen) ==
    /\ key' = NoKey
    /\ setup' = (setup /\ ~seen.setup)
    /\ Stop(seen)

\* The end of TornApi::Base#invalidate_api_key!, for the copy it found with the
\* rejected key.  It rescues what the database raises.
InvalidateApiKey(found) == HandleInvalidKey(found) \/ UNCHANGED <<faction, board>>

-----------------------------------------------------------------------------
(* Web requests on the polling flag.                                       *)

Begin(r, step) ==
    /\ request[r].pc = "idle"
    /\ request' = [request EXCEPT ![r] = [pc |-> step, seen |-> Row]]
    /\ UNCHANGED <<faction, daily, board, pending, job, validator, faults, lost>>

\* FactionsController#show loads the faction; with the flag set nothing follows.
OpenPage(r) == setup /\ ~active /\ pending < MaxPending /\ Begin(r, "viewing")

\* The filters of Leadership::BaseController, then start or stop.
PressStart(r) == setup /\ key # NoKey /\ pending < MaxPending /\ Begin(r, "starting")
PressStop(r) == setup /\ key # NoKey /\ Begin(r, "stopping")

\* load_war_data / ensure_war_polling_active, or start; then the first line
\* of start_war_polling!.
MarkActive(r) ==
    /\ request[r].pc \in {"viewing", "starting"}
    /\ IF war /\ (request[r].pc = "viewing" => key # NoKey)
       THEN /\ active' = (active \/ ~request[r].seen.active)
            /\ request' = [request EXCEPT ![r].pc = "enqueue"]
       ELSE /\ request' = [request EXCEPT ![r] = NoRequest]
            /\ UNCHANGED active
    /\ UNCHANGED <<key, setup, daily, board, pending, job, validator, faults, lost>>

\* The second line of start_war_polling!: a chain begins anew.
EnqueueFirst(r) ==
    /\ request[r].pc = "enqueue"
    /\ pending' = pending + 1 /\ lost' = FALSE
    /\ request' = [request EXCEPT ![r] = NoRequest]
    /\ UNCHANGED <<faction, daily, board, job, validator, faults>>

\* The first line of stop_war_polling! ...
StopPolling(r) ==
    /\ request[r].pc = "stopping"
    /\ active' = (active /\ ~request[r].seen.active)
    /\ request' = [request EXCEPT ![r].pc = "discarding"]
    /\ UNCHANGED <<key, setup, daily, board, pending, job, validator, faults, lost>>

\* ... and the second.
DiscardBoard(r) ==
    /\ request[r].pc = "discarding"
    /\ board' = FALSE
    /\ request' = [request EXCEPT ![r] = NoRequest]
    /\ UNCHANGED <<faction, daily, pending, job, validator, faults, lost>>

-----------------------------------------------------------------------------
(* The faction's key and data.                                             *)

others == <<pending, job, request, validator, faults, lost>>

\* Leadership::ApiKeysController#update: key_info was good a moment ago.
SaveKey(k) ==
    /\ setup /\ key # NoKey /\ health[k] = "good"
    /\ key' = k
    /\ UNCHANGED <<setup, active, daily, board, others>>

\* Leadership::ApiKeysController#destroy: the key ...
DestroyKey(r) ==
    /\ setup /\ key # NoKey /\ request[r].pc = "idle"
    /\ key' = NoKey
    /\ request' = [request EXCEPT ![r].pc = "resetting"]
    /\ UNCHANGED <<setup, active, daily, board, pending, job, validator, faults, lost>>

\* ... then the flag, which was set in the copy that the filters let pass.
ResetSetup(r) ==
    /\ request[r].pc = "resetting"
    /\ setup' = FALSE
    /\ request' = [request EXCEPT ![r] = NoRequest]
    /\ UNCHANGED <<key, active, daily, board, pending, job, validator, faults, lost>>

\* A leader or an admin asks for delete_all_data! ...
AskToDelete(r) == Begin(r, "deleting")

\* ... which is one transaction.
DeleteAllData(r) ==
    /\ request[r].pc = "deleting"
    /\ Stop(request[r].seen)
    /\ war' = FALSE /\ key' = NoKey
    /\ setup' = (setup /\ ~request[r].seen.setup)
    /\ request' = [request EXCEPT ![r] = NoRequest]
    /\ UNCHANGED <<health, settingUp, pending, job, validator, faults, lost>>

RequestStep(r) == \/ MarkActive(r) \/ EnqueueFirst(r) \/ StopPolling(r)
                  \/ DiscardBoard(r) \/ ResetSetup(r) \/ DeleteAllData(r)

\* Leadership::SetupController#update: skips the filters; stores the key and
\* welcomes the leader back.
SaveSetupKey(k) ==
    /\ health[k] = "good"
    /\ key' = k
    /\ UNCHANGED <<setup, active, daily, board, others>>

\* FactionsController#create up to the members request ...
CreateKey(k) ==
    /\ AcceptingNewFactions /\ ~setup /\ ~settingUp /\ health[k] = "good"
    /\ key' = k /\ settingUp' = TRUE
    /\ UNCHANGED <<setup, active, health, war, board, others>>

\* ... which completes the setup, or raises.
CreateEnds ==
    /\ settingUp /\ settingUp' = FALSE
    /\ setup' \in {setup, TRUE}
    /\ UNCHANGED <<key, active, health, war, board, others>>

\* At Torn, the owner removes the key or its faction access.
KeyDecays(k) ==
    /\ \/ health[k] = "good" /\ health' = [health EXCEPT ![k] = "noaccess"]
       \/ health[k] # "rejected" /\ health' = [health EXCEPT ![k] = "rejected"]
    /\ UNCHANGED <<faction, war, settingUp, board, others>>

\* BackfillRankedWarsJob learns that a war was matched or has ended.
SyncWars ==
    /\ key # NoKey /\ health[key] # "rejected"
    /\ war' = ~war
    /\ UNCHANGED <<faction, health, settingUp, board, others>>

-----------------------------------------------------------------------------
(* WarPollingJob#perform.                                                  *)

elsewhere == <<daily, request, validator, faults, lost>>

\* Mutant: a job is performed without being taken from the queue.
ClaimNoTake ==
    /\ job.pc = "idle"
    /\ pending' = pending - 1
    /\ job' = [Idle EXCEPT !.pc = "load"]
    /\ UNCHANGED <<faction, board, elsewhere>>

\* Solid Queue: a worker claims a job that is due; one at a time per faction.
Claim ==
    /\ job.pc = "idle" /\ pending > 0
    /\ pending' = pending - 1
    /\ job' = [Idle EXCEPT !.pc = "load"]
    /\ UNCHANGED <<faction, board, elsewhere>>

\* Mutant: the flag is not consulted.
LoadFactionAlways ==
    /\ job.pc = "load"
    /\ job' = [job EXCEPT !.pc = "war"]
    /\ UNCHANGED <<faction, board, pending, elsewhere>>

LoadFaction ==
    /\ job.pc = "load"
    /\ job' = IF active THEN [job EXCEPT !.pc = "war"] ELSE Idle
    /\ UNCHANGED <<faction, board, pending, elsewhere>>

\* Mutant: without a war the job waits for the next one.
CheckWarKeepsPolling ==
    /\ job.pc = "war"
    /\ job' = [job EXCEPT !.pc = IF war THEN "key" ELSE "reschedule"]
    /\ UNCHANGED <<faction, board, pending, elsewhere>>

CheckWar ==
    /\ job.pc = "war"
    /\ IF war
       THEN job' = [job EXCEPT !.pc = "key"] /\ UNCHANGED active
       ELSE job' = Idle /\ active' = FALSE
    /\ UNCHANGED <<key, setup, board, pending, elsewhere>>

CheckKey ==
    /\ job.pc = "key"
    /\ IF key # NoKey
       THEN job' = [job EXCEPT !.pc = "scores", !.key = key] /\ UNCHANGED active
       ELSE job' = Idle /\ active' = FALSE
    /\ UNCHANGED <<key, setup, board, pending, elsewhere>>

\* refresh_war_scores rescues ApiError; build_war_data leaves it to perform.
CallTorn ==
    /\ job.pc \in {"scores", "members"}
    /\ \/ /\ health[job.key] # "rejected"
          /\ job' = [job EXCEPT !.pc = IF job.pc = "scores" THEN "members" ELSE "write"]
       \/ job' = [job EXCEPT !.pc = IF job.pc = "scores" THEN "members" ELSE "raised"]
    /\ UNCHANGED <<faction, board, pending, elsewhere>>

\* Either call is told that its key is invalid: TornApi::Base looks up whose key
\* it is and loads that faction ...
KeyRejected ==
    /\ job.pc \in {"scores", "members"} /\ health[job.key] = "rejected"
    /\ job' = IF key = job.key THEN [job EXCEPT !.pc = "invalidating", !.found = Row]
                                ELSE [job EXCEPT !.pc = "raised"]
    /\ UNCHANGED <<faction, board, pending, elsewhere>>

\* ... which loses its key, and InvalidKeyError goes on to perform.  The copy of
\* perform still has the flag set.
JobInvalidates ==
    /\ job.pc = "invalidating"
    /\ InvalidateApiKey(job.found)
    /\ job' = [job EXCEPT !.pc = "raised", !.found = NoCopy]
    /\ UNCHANGED <<pending, elsewhere>>

WriteBoard ==
    /\ job.pc = "write"
    /\ board' = TRUE
    /\ job' = [job EXCEPT !.pc = "reschedule"]
    /\ UNCHANGED <<faction, pending, elsewhere>>

\* Mutant: the enqueue of the next poll falls through into the rescue.
RescheduleTwice ==
    /\ job.pc \in {"reschedule", "raised"}
    /\ pending' = pending + 1
    /\ job' = [job EXCEPT !.pc = IF job.pc = "reschedule" THEN "raised" ELSE "end"]
    /\ UNCHANGED <<faction, board, elsewhere>>

\* Mutant: an error ends the chain.
RescheduleUnlessRaised ==
    /\ job.pc \in {"reschedule", "raised"}
    /\ pending' = IF job.pc = "raised" THEN pending ELSE pending + 1
    /\ job' = [job EXCEPT !.pc = "end"]
    /\ UNCHANGED <<faction, board, elsewhere>>

\* The last line of perform, and that of its rescue (the copy's flag is set).
Reschedule ==
    /\ job.pc \in {"reschedule", "raised"}
    /\ pending' = pending + 1
    /\ job' = [job EXCEPT !.pc = "end"]
    /\ UNCHANGED <<faction, board, elsewhere>>

Finish ==
    /\ job.pc = "end"
    /\ job' = Idle
    /\ UNCHANGED <<faction, board, pending, elsewhere>>

JobStep == \/ LoadFaction \/ CheckWar \/ CheckKey \/ CallTorn \/ KeyRejected
           \/ JobInvalidates \/ WriteBoard \/ Reschedule \/ Finish

\* CACHE_TTL has passed since the last write.
BoardExpires ==
    /\ board /\ board' = FALSE
    /\ UNCHANGED <<faction, daily, others>>

-----------------------------------------------------------------------------
(* Daily::ValidateFactionKeysJob#validate_faction_keys.                    *)

\* find_each loads every key and faction up front; this faction's turn comes
\* later, one second per key.
ValidatorLoads ==
    /\ validator.pc = "idle" /\ key # NoKey
    /\ validator' = [NotValidating EXCEPT !.pc = "loaded", !.key = key, !.seen = Row]
    /\ UNCHANGED <<faction, daily, board, pending, job, request, faults, lost>>

\* Key::Info of the loaded key: fine or an ApiError, no faction access, or an
\* invalid key, which TornApi::Base looks up ...
ValidatorFetches ==
    /\ validator.pc = "loaded"
    /\ \/ validator' = NotValidating
       \/ /\ \/ health[validator.key] = "noaccess"
             \/ health[validator.key] = "rejected" /\ key # validator.key
          /\ validator' = [validator EXCEPT !.pc = "failed"]
       \/ /\ health[validator.key] = "rejected" /\ key = validator.key
          /\ validator' = [validator EXCEPT !.pc = "invalidating", !.found = Row]
    /\ UNCHANGED <<faction, board, daily, pending, job, request, faults, lost>>

\* ... and invalidates, before the InvalidKeyError is rescued.
ValidatorRejects ==
    /\ validator.pc = "invalidating"
    /\ InvalidateApiKey(validator.found)
    /\ validator' = [validator EXCEPT !.pc = "failed", !.found = NoCopy]
    /\ UNCHANGED <<daily, pending, job, request, faults, lost>>

\* The validation's own call, with find_each's copy; or the database raises.
ValidatorInvalidates ==
    /\ validator.pc = "failed"
    /\ HandleInvalidKey(validator.seen) \/ UNCHANGED <<faction, board>>
    /\ validator' = NotValidating
    /\ UNCHANGED <<daily, pending, job, request, faults, lost>>

ValidatorStep == ValidatorFetches \/ ValidatorRejects \/ ValidatorInvalidates

-----------------------------------------------------------------------------
(* Processes come and go, and the database, the cache or the queue raises. *)

Fault == /\ faults < MaxFaults
         /\ faults' = faults + 1
         /\ UNCHANGED <<faction, daily, board, validator>>

\* Solid Queue: the worker dies; its claimed job is marked failed, not retried.
WorkerDies ==
    /\ job.pc # "idle" /\ Fault
    /\ job' = Idle
    /\ lost' = (lost \/ job.pc # "end")
    /\ UNCHANGED <<pending, request>>

\* Solid Queue: a worker that is shut down releases its claimed job.
WorkerReleases ==
    /\ job.pc # "idle" /\ Fault
    /\ job' = Idle
    /\ pending' = pending + 1
    /\ UNCHANGED <<request, lost>>

\* Or a statement raises: what the request has done so far stays done.
WebDies(r) ==
    /\ request[r].pc # "idle" /\ Fault
    /\ request' = [request EXCEPT ![r] = NoRequest]
    /\ lost' = (lost \/ request[r].pc = "enqueue")
    /\ UNCHANGED <<pending, job>>

\* The job's copy has the flag set when a statement raises: perform's rescue.
JobRaises ==
    /\ job.pc \in {"war", "key", "scores", "members", "write", "reschedule"} /\ Fault
    /\ job' = [job EXCEPT !.pc = "raised"]
    /\ UNCHANGED <<pending, request, lost>>

\* There is no copy, when find_by raises; update! has cleared the copy's flag when
\* it raises, while the row keeps its own; or the rescue itself raises.
JobStranded ==
    /\ \/ job.pc \in {"load", "raised"}
       \/ job.pc = "war" /\ ~war
       \/ job.pc = "key" /\ key = NoKey
    /\ Fault
    /\ job' = Idle
    /\ lost' = TRUE
    /\ UNCHANGED <<pending, request>>

Next ==
    \/ \E r \in Requests : \/ OpenPage(r) \/ PressStart(r) \/ PressStop(r)
                           \/ DestroyKey(r) \/ AskToDelete(r)
                           \/ RequestStep(r) \/ WebDies(r)
    \/ \E k \in Keys : \/ SaveKey(k) \/ SaveSetupKey(k) \/ CreateKey(k)
                       \/ KeyDecays(k)
    \/ CreateEnds \/ SyncWars
    \/ Claim \/ JobStep \/ BoardExpires
    \/ ValidatorLoads \/ ValidatorStep
    \/ WorkerDies \/ WorkerReleases \/ JobRaises \/ JobStranded

Spec == Init /\ [][Next]_vars

\* The queue serves due jobs, started code runs on, the cache drops expired
\* entries.  Nobody has to open a page, and Torn need never answer well.
Fairness ==
    /\ WF_vars(Claim) /\ WF_vars(JobStep) /\ WF_vars(BoardExpires)
    /\ \A r \in Requests : WF_vars(RequestStep(r))

FairSpec == Spec /\ Fairness

-----------------------------------------------------------------------------

Polling(pc) == pc \notin {"idle", "end"}

\* While the dashboard says that polling is on, some job or some request will
\* poll next: no answer of Torn, no stale copy of the faction, no lost key and no
\* exception that perform's rescue handles with the flag on its copy may strand the
\* flag, for a set flag keeps page views from starting a chain.  What does strand it
\* is named by "lost": since the last start a process died with the chain, or a
\* statement raised where the rescue does not reschedule (JobStranded).
ChainAlive ==
    active => \/ pending > 0
              \/ Polling(job.pc)
              \/ \E r \in Requests : request[r].pc = "enqueue"
              \/ lost

\* Polls in the queue or under way.
Chains == pending + (IF Polling(job.pc) THEN 1 ELSE 0)

\* A polling job has at most one successor, on every error path too; only a
\* start or an interrupted worker adds one.
NoFork ==
    [][Chains' > Chains =>
          WorkerReleases \/ \E r \in Requests : EnqueueFirst(r)]_vars

\* While polling is on, with a war and a key, Torn is polled again and again,
\* however many of its answers are errors, unless a fault took the chain along.
KeepsPolling ==
    <>[](active /\ war /\ key # NoKey /\ ~lost) => []<>(job.pc = "scores")

\* Once nobody turns polling back on, its jobs leave the queue and the live
\* data is discarded, whatever was in flight when it was stopped.
StopDrains ==
    <>[]~active => <>[](pending = 0 /\ job.pc = "idle" /\ ~board)

\* When the war is over or the key is gone for good, polling ends by itself, unless
\* a fault took the poll along that would have cleared the flag.
PollingEnds ==
    <>[]((~war \/ key = NoKey) /\ ~lost)
        => <>[](~active /\ pending = 0 /\ job.pc = "idle" /\ ~board)

\* "The Torn API key for ... was rejected by Torn and has been removed": the key
\* that a call or the validation removes is one that Torn has found fault with.
RemovesOnlyRejected ==
    [][(JobInvalidates \/ ValidatorRejects \/ ValidatorInvalidates) /\ key' # key
         => health[key] # "good"]_vars
=============================================================================

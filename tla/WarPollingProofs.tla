--------------------------- MODULE WarPollingProofs ---------------------------
(***************************************************************************)
(* What war polling guarantees for any number of web requests and keys,    *)
(* any backlog and any number of faults.                                   *)
(***************************************************************************)
EXTENDS WarPolling, TLAPS

LEMMA RowType == TypeOK => Row \in Copies /\ NoCopy \in Copies
BY DEF TypeOK, Row, NoCopy, Copies

LEMMA NobodyType ==
    /\ Idle \in [pc : JobSteps, key : Keys \cup {NoKey}, found : Copies]
    /\ NoRequest \in [pc : RequestSteps, seen : Copies]
    /\ NotValidating \in [pc : ValidatorSteps, key : Keys \cup {NoKey}, seen : Copies,
                          found : Copies]
BY DEF Idle, NoRequest, NotValidating, NoCopy, Copies, JobSteps, RequestSteps, ValidatorSteps

LEMMA TypeInit == Init => TypeOK
<1> SUFFICES ASSUME Init PROVE TypeOK
  OBVIOUS
<1>1. health \in [Keys -> Healths]
  BY DEF Init, Healths
<1>2. QED
  BY <1>1, NobodyType DEF Init, TypeOK

LEMMA RequestType ==
    ASSUME TypeOK, NEW r \in Requests, NEW step \in RequestSteps
    PROVE  /\ [request EXCEPT ![r] = [pc |-> step, seen |-> Row]]
                 \in [Requests -> [pc : RequestSteps, seen : Copies]]
           /\ [request EXCEPT ![r].pc = step]
                 \in [Requests -> [pc : RequestSteps, seen : Copies]]
           /\ [request EXCEPT ![r] = NoRequest]
                 \in [Requests -> [pc : RequestSteps, seen : Copies]]
<1>1. Row \in Copies
  BY RowType
<1>2. request \in [Requests -> [pc : RequestSteps, seen : Copies]]
  BY DEF TypeOK
<1>3. [request[r] EXCEPT !.pc = step] \in [pc : RequestSteps, seen : Copies]
  BY <1>2
<1>4. QED
  BY <1>1, <1>2, <1>3, NobodyType

LEMMA JobType ==
    ASSUME TypeOK, NEW step \in JobSteps
    PROVE  [job EXCEPT !.pc = step] \in [pc : JobSteps, key : Keys \cup {NoKey}, found : Copies]
BY DEF TypeOK

\* Stopping and losing the key keep the faction well typed.
LEMMA StopType ==
    ASSUME TypeOK, NEW seen, Stop(seen)
    PROVE  active' \in BOOLEAN /\ board' \in BOOLEAN /\ (active' => active)
BY DEF TypeOK, Stop

LEMMA HandleInvalidKeyType ==
    ASSUME TypeOK, NEW seen, HandleInvalidKey(seen) \/ UNCHANGED <<faction, board>>
    PROVE  /\ key' \in Keys \cup {NoKey} /\ setup' \in BOOLEAN
           /\ active' \in BOOLEAN /\ board' \in BOOLEAN
           /\ active' => active
<1>1. CASE HandleInvalidKey(seen)
  BY <1>1, StopType DEF TypeOK, HandleInvalidKey
<1>2. CASE UNCHANGED <<faction, board>>
  BY <1>2 DEF TypeOK, faction
<1>3. QED
  BY <1>1, <1>2

\* What CheckKey does to the job.
LEMMA CheckKeyMoves ==
    ASSUME TypeOK, CheckKey
    PROVE  /\ job.pc = "key" /\ pending' = pending
           /\ \/ key # NoKey /\ job'.pc = "scores"
              \/ key = NoKey /\ job'.pc = "idle"
<1>0. job \in [pc : JobSteps, key : Keys \cup {NoKey}, found : Copies]
  BY DEF TypeOK
<1>1. CASE key # NoKey
  <2>1. job' = [job EXCEPT !.pc = "scores", !.key = key]
    BY <1>1 DEF CheckKey
  <2>2. job'.pc = "scores"
    BY <1>0, <2>1
  <2>3. QED
    BY <1>1, <2>2 DEF CheckKey
<1>2. CASE key = NoKey
  BY <1>2 DEF CheckKey, Idle
<1>3. QED
  BY <1>1, <1>2

\* A request's own steps keep the state well typed.
LEMMA RequestTypeStep ==
    ASSUME TypeOK, NEW r \in Requests,
           \/ OpenPage(r) \/ PressStart(r) \/ PressStop(r) \/ DestroyKey(r)
           \/ AskToDelete(r) \/ RequestStep(r) \/ WebDies(r)
    PROVE  TypeOK'
<1> USE DEF TypeOK, faction, daily
<1>a. {"idle", "viewing", "starting", "stopping", "enqueue", "discarding", "resetting",
       "deleting"} = RequestSteps
  BY DEF RequestSteps
<1>b. ASSUME NEW step \in RequestSteps, Begin(r, step)
      PROVE  TypeOK'
  <2>1. request' \in [Requests -> [pc : RequestSteps, seen : Copies]]
    BY <1>b, RequestType DEF Begin
  <2>2. QED
    BY <1>b, <2>1 DEF Begin
<1>1. CASE OpenPage(r) \/ PressStart(r) \/ PressStop(r) \/ AskToDelete(r)
  BY <1>1, <1>a, <1>b DEF OpenPage, PressStart, PressStop, AskToDelete
<1>2. CASE MarkActive(r)
  <2>1. request' \in [Requests -> [pc : RequestSteps, seen : Copies]]
    BY <1>2, <1>a, RequestType DEF MarkActive
  <2>2. active' \in BOOLEAN
    BY <1>2 DEF MarkActive
  <2>3. QED
    BY <1>2, <2>1, <2>2 DEF MarkActive
<1>3. CASE EnqueueFirst(r)
  <2>1. request' \in [Requests -> [pc : RequestSteps, seen : Copies]]
    BY <1>3, RequestType, <1>a DEF EnqueueFirst
  <2>2. pending' \in Nat
    BY <1>3 DEF EnqueueFirst
  <2>3. lost' \in BOOLEAN
    <3>1. lost' = FALSE
      BY <1>3 DEF EnqueueFirst
    <3>2. QED
      BY <3>1
  <2>4. QED
    BY <1>3, <2>1, <2>2, <2>3 DEF EnqueueFirst
<1>4. CASE StopPolling(r)
  <2>1. request' \in [Requests -> [pc : RequestSteps, seen : Copies]]
    BY <1>4, <1>a, RequestType DEF StopPolling
  <2>2. active' \in BOOLEAN
    BY <1>4 DEF StopPolling
  <2>3. QED
    BY <1>4, <2>1, <2>2 DEF StopPolling
<1>5. CASE DiscardBoard(r)
  <2>1. request' \in [Requests -> [pc : RequestSteps, seen : Copies]]
    BY <1>5, RequestType, <1>a DEF DiscardBoard
  <2>2. QED
    BY <1>5, <2>1 DEF DiscardBoard
<1>6. CASE DestroyKey(r)
  <2>1. request' \in [Requests -> [pc : RequestSteps, seen : Copies]]
    BY <1>6, <1>a, RequestType DEF DestroyKey
  <2>2. QED
    BY <1>6, <2>1 DEF DestroyKey
<1>7. CASE ResetSetup(r)
  <2>1. request' \in [Requests -> [pc : RequestSteps, seen : Copies]]
    BY <1>7, RequestType, <1>a DEF ResetSetup
  <2>2. QED
    BY <1>7, <2>1 DEF ResetSetup
<1>8. CASE DeleteAllData(r)
  <2>1. request' \in [Requests -> [pc : RequestSteps, seen : Copies]]
    BY <1>8, RequestType, <1>a DEF DeleteAllData
  <2>2. active' \in BOOLEAN /\ board' \in BOOLEAN
    BY <1>8, StopType DEF DeleteAllData
  <2>3. setup' \in BOOLEAN /\ war' \in BOOLEAN /\ key' \in Keys \cup {NoKey}
    BY <1>8 DEF DeleteAllData
  <2>4. QED
    BY <1>8, <2>1, <2>2, <2>3 DEF DeleteAllData
<1>9. CASE WebDies(r)
  <2>1. request' \in [Requests -> [pc : RequestSteps, seen : Copies]]
    BY <1>9, RequestType, <1>a DEF WebDies
  <2>2. lost' \in BOOLEAN /\ faults' \in Nat
    BY <1>9 DEF WebDies, Fault
  <2>3. QED
    BY <1>9, <2>1, <2>2 DEF WebDies, Fault
<1>10. QED
  BY <1>1, <1>2, <1>3, <1>4, <1>5, <1>6, <1>7, <1>8, <1>9 DEF RequestStep

\* So do the leaders' and the environment's operations.
LEMMA KeyTypeStep ==
    ASSUME TypeOK,
           \/ \E k \in Keys : SaveKey(k) \/ SaveSetupKey(k) \/ CreateKey(k) \/ KeyDecays(k)
           \/ CreateEnds \/ SyncWars \/ BoardExpires
    PROVE  TypeOK'
<1> USE DEF TypeOK, faction, daily, others
<1>1. ASSUME NEW k \in Keys, SaveKey(k) \/ SaveSetupKey(k) \/ CreateKey(k)
      PROVE  TypeOK'
  BY <1>1 DEF SaveKey, SaveSetupKey, CreateKey
<1>2. ASSUME NEW k \in Keys, KeyDecays(k)
      PROVE  TypeOK'
  <2>1. health' \in [Keys -> Healths]
    BY <1>2 DEF KeyDecays, Healths
  <2>2. QED
    BY <1>2, <2>1 DEF KeyDecays
<1>3. CASE CreateEnds \/ SyncWars \/ BoardExpires
  BY <1>3 DEF CreateEnds, SyncWars, BoardExpires
<1>4. QED
  BY <1>1, <1>2, <1>3

\* So does the polling job, whatever becomes of its worker.
LEMMA JobTypeStep ==
    ASSUME TypeOK,
           \/ Claim \/ JobStep
           \/ WorkerDies \/ WorkerReleases \/ JobRaises \/ JobStranded
    PROVE  TypeOK'
<1> USE DEF TypeOK, faction, daily, elsewhere
<1>a. Idle \in [pc : JobSteps, key : Keys \cup {NoKey}, found : Copies]
      /\ [Idle EXCEPT !.pc = "load"] \in [pc : JobSteps, key : Keys \cup {NoKey}, found : Copies]
  BY NobodyType DEF JobSteps
<1>b. /\ "war" \in JobSteps /\ "key" \in JobSteps /\ "members" \in JobSteps
      /\ "write" \in JobSteps /\ "raised" \in JobSteps
      /\ "reschedule" \in JobSteps /\ "end" \in JobSteps
      /\ "scores" \in JobSteps /\ "invalidating" \in JobSteps
  BY DEF JobSteps
<1>1. CASE Claim
  BY <1>1, <1>a DEF Claim
<1>2. CASE LoadFaction
  BY <1>2, <1>a, <1>b, JobType DEF LoadFaction
<1>3. CASE CheckWar
  <2>1. job' \in [pc : JobSteps, key : Keys \cup {NoKey}, found : Copies]
    BY <1>3, <1>a, <1>b, JobType DEF CheckWar
  <2>2. active' \in BOOLEAN
    BY <1>3 DEF CheckWar
  <2>3. QED
    BY <1>3, <2>1, <2>2 DEF CheckWar
<1>4. CASE CheckKey
  <2>1. job' \in [pc : JobSteps, key : Keys \cup {NoKey}, found : Copies]
    BY <1>4, <1>a DEF CheckKey, JobSteps
  <2>2. active' \in BOOLEAN
    BY <1>4 DEF CheckKey
  <2>3. QED
    BY <1>4, <2>1, <2>2 DEF CheckKey
<1>5. CASE CallTorn
  BY <1>5, <1>b, JobType DEF CallTorn
<1>6. CASE KeyRejected \/ JobInvalidates
  <2>1. job' \in [pc : JobSteps, key : Keys \cup {NoKey}, found : Copies]
    BY <1>6, <1>b, RowType DEF KeyRejected, JobInvalidates
  <2>2. /\ key' \in Keys \cup {NoKey}
        /\ setup' \in BOOLEAN /\ active' \in BOOLEAN /\ board' \in BOOLEAN
    BY <1>6, HandleInvalidKeyType DEF KeyRejected, JobInvalidates, InvalidateApiKey
  <2>3. QED
    BY <1>6, <2>1, <2>2 DEF KeyRejected, JobInvalidates
<1>7. CASE WriteBoard \/ Finish
  <2>1. CASE WriteBoard
    BY <2>1, <1>b, JobType DEF WriteBoard
  <2>2. CASE Finish
    BY <2>2, <1>a DEF Finish
  <2>3. QED
    BY <1>7, <2>1, <2>2
<1>8. CASE Reschedule
  BY <1>8, <1>b, JobType DEF Reschedule
<1>9. CASE WorkerDies \/ WorkerReleases
  <2>1. CASE WorkerDies
    BY <2>1, <1>a DEF WorkerDies, Fault
  <2>2. CASE WorkerReleases
    BY <2>2, <1>a DEF WorkerReleases, Fault
  <2>3. QED
    BY <1>9, <2>1, <2>2
<1>10. CASE JobRaises
  BY <1>10, <1>b, JobType DEF JobRaises, Fault
<1>11. CASE JobStranded
  BY <1>11, <1>a DEF JobStranded, Fault
<1>12. QED
  BY <1>1, <1>2, <1>3, <1>4, <1>5, <1>6, <1>7, <1>8, <1>9, <1>10, <1>11 DEF JobStep

\* So does the nightly validation.
LEMMA ValidatorTypeStep ==
    ASSUME TypeOK, ValidatorLoads \/ ValidatorStep
    PROVE  TypeOK'
<1> USE DEF TypeOK, faction, daily
<1>a. {"idle", "loaded", "invalidating", "failed"} = ValidatorSteps
  BY DEF ValidatorSteps
<1>b. Row \in Copies /\ NoCopy \in Copies
  BY RowType
<1>1. CASE ValidatorLoads
  <2>1. validator' \in [pc : ValidatorSteps, key : Keys \cup {NoKey}, seen : Copies,
                         found : Copies]
    BY <1>1, <1>a, <1>b, NobodyType DEF ValidatorLoads
  <2>2. QED
    BY <1>1, <2>1 DEF ValidatorLoads
<1>2. CASE ValidatorFetches
  <2>1. validator' \in [pc : ValidatorSteps, key : Keys \cup {NoKey}, seen : Copies,
                         found : Copies]
    BY <1>2, <1>a, <1>b, NobodyType DEF ValidatorFetches
  <2>2. QED
    BY <1>2, <2>1 DEF ValidatorFetches
<1>3. CASE ValidatorRejects
  <2>1. validator' \in [pc : ValidatorSteps, key : Keys \cup {NoKey}, seen : Copies,
                         found : Copies]
    BY <1>3, <1>a, <1>b DEF ValidatorRejects
  <2>2. /\ key' \in Keys \cup {NoKey}
        /\ setup' \in BOOLEAN /\ active' \in BOOLEAN /\ board' \in BOOLEAN
    BY <1>3, HandleInvalidKeyType DEF ValidatorRejects, InvalidateApiKey
  <2>3. QED
    BY <1>3, <2>1, <2>2 DEF ValidatorRejects
<1>4. CASE ValidatorInvalidates
  <2>1. /\ key' \in Keys \cup {NoKey}
        /\ setup' \in BOOLEAN /\ active' \in BOOLEAN /\ board' \in BOOLEAN
    BY <1>4, HandleInvalidKeyType DEF ValidatorInvalidates
  <2>2. QED
    BY <1>4, <2>1, NobodyType DEF ValidatorInvalidates
<1>5. QED
  BY <1>1, <1>2, <1>3, <1>4 DEF ValidatorStep

\* Every reachable state is well typed.
THEOREM TypeCorrect == Spec => []TypeOK
<1>1. TypeOK /\ [Next]_vars => TypeOK'
  <2> SUFFICES ASSUME TypeOK, [Next]_vars PROVE TypeOK'
    OBVIOUS
  <2>1. CASE UNCHANGED vars
    BY <2>1 DEF vars, TypeOK
  <2>2. CASE Next
    BY <2>2, RequestTypeStep, KeyTypeStep, JobTypeStep, ValidatorTypeStep DEF Next
  <2>3. QED
    BY <2>1, <2>2
<1>2. QED
  BY TypeInit, <1>1, PTL DEF Spec

-----------------------------------------------------------------------------

\* No request drops the chain: whoever raises the flag is about to enqueue.
LEMMA RequestKeepsChain ==
    ASSUME TypeOK, ChainAlive, NEW r \in Requests,
           \/ OpenPage(r) \/ PressStart(r) \/ PressStop(r) \/ DestroyKey(r)
           \/ AskToDelete(r) \/ RequestStep(r) \/ WebDies(r)
    PROVE  ChainAlive'
<1> USE DEF TypeOK, ChainAlive
<1>1. ASSUME NEW step, Begin(r, step)
      PROVE  ChainAlive'
  <2>1. /\ request[r].pc = "idle"
        /\ \A q \in Requests \ {r} : request'[q] = request[q]
        /\ UNCHANGED <<active, pending, job, lost>>
    BY <1>1 DEF Begin, faction
  <2>2. QED
    BY <2>1
<1>2. CASE MarkActive(r)
  <2>1. /\ request[r].pc # "enqueue" /\ UNCHANGED <<pending, job, lost>>
        /\ \A q \in Requests \ {r} : request'[q] = request[q]
    BY <1>2 DEF MarkActive
  <2>2. CASE war /\ (request[r].pc = "viewing" => key # NoKey)
    <3>1. request'[r].pc = "enqueue"
      BY <1>2, <2>2 DEF MarkActive
    <3>2. QED
      BY <3>1
  <2>3. CASE ~(war /\ (request[r].pc = "viewing" => key # NoKey))
    <3>1. active' = active
      BY <1>2, <2>3 DEF MarkActive
    <3>2. QED
      BY <2>1, <3>1
  <2>4. QED
    BY <2>2, <2>3
<1>3. CASE EnqueueFirst(r)
  BY <1>3 DEF EnqueueFirst
<1>4. CASE StopPolling(r) \/ DiscardBoard(r) \/ DestroyKey(r) \/ ResetSetup(r)
             \/ DeleteAllData(r)
  <2>1. /\ request[r].pc # "enqueue" /\ UNCHANGED <<pending, job, lost>>
        /\ \A q \in Requests \ {r} : request'[q] = request[q]
    BY <1>4 DEF StopPolling, DiscardBoard, DestroyKey, ResetSetup, DeleteAllData
  <2>2. active' => active
    BY <1>4, StopType DEF StopPolling, DiscardBoard, DestroyKey, ResetSetup, DeleteAllData,
       faction
  <2>3. QED
    BY <2>1, <2>2
<1>5. CASE WebDies(r)
  <2>1. /\ UNCHANGED <<active, pending, job>>
        /\ lost' = (lost \/ request[r].pc = "enqueue")
        /\ \A q \in Requests \ {r} : request'[q] = request[q]
    BY <1>5 DEF WebDies, Fault, faction
  <2>2. QED
    BY <2>1
<1>6. QED
  BY <1>1, <1>2, <1>3, <1>4, <1>5
  DEF OpenPage, PressStart, PressStop, AskToDelete, RequestStep

\* A step that leaves the chain's carriers alone and only ever clears the flag.
LEMMA ClearingKeepsChain ==
    ASSUME TypeOK, ChainAlive, active' => active,
           UNCHANGED <<pending, job, request, lost>>
    PROVE  ChainAlive'
BY DEF ChainAlive

\* No error path of the job drops the chain while the flag is up.
LEMMA JobKeepsChain ==
    ASSUME TypeOK, ChainAlive,
           \/ Claim \/ JobStep
           \/ WorkerDies \/ WorkerReleases \/ JobRaises \/ JobStranded
    PROVE  ChainAlive'
<1> USE DEF TypeOK, ChainAlive, Polling, faction, daily, elsewhere
<1>1. CASE Claim
  BY <1>1 DEF Claim, Idle
<1>2. CASE LoadFaction
  BY <1>2 DEF LoadFaction, Idle
<1>3. CASE CheckWar
  BY <1>3 DEF CheckWar, Idle
<1>4. CASE CheckKey
  <2>1. CASE key # NoKey
    <3>1. job'.pc = "scores"
      BY <1>4, <2>1 DEF CheckKey
    <3>2. QED
      BY <3>1
  <2>2. CASE key = NoKey
    BY <1>4, <2>2 DEF CheckKey
  <2>3. QED
    BY <2>1, <2>2
<1>5. CASE CallTorn
  BY <1>5 DEF CallTorn
<1>6. CASE KeyRejected \/ JobInvalidates
  <2>1. pending' = pending /\ job'.pc \in {"invalidating", "raised"}
    BY <1>6 DEF KeyRejected, JobInvalidates
  <2>2. QED
    BY <2>1
<1>7. CASE WriteBoard
  BY <1>7 DEF WriteBoard
<1>8. CASE Reschedule
  BY <1>8 DEF Reschedule
<1>9. CASE Finish
  BY <1>9 DEF Finish, Idle
<1>10. CASE WorkerDies
  BY <1>10 DEF WorkerDies, Fault, Idle
<1>11. CASE WorkerReleases
  BY <1>11 DEF WorkerReleases, Fault, Idle
<1>12. CASE JobRaises
  BY <1>12 DEF JobRaises
<1>13. CASE JobStranded
  BY <1>13 DEF JobStranded
<1>14. QED
  BY <1>1, <1>2, <1>3, <1>4, <1>5, <1>6, <1>7, <1>8, <1>9, <1>10, <1>11, <1>12, <1>13
  DEF JobStep

\* While war_polling_active is set, some job or request will poll next, unless
\* since the last start a fault took the chain along at one of the places that
\* WorkerDies, WebDies and JobStranded name: no interleaving of requests, jobs and
\* key invalidations, and no other exception, strands the flag.
THEOREM ChainStaysAlive == Spec => []ChainAlive
<1>1. Init => ChainAlive
  BY DEF Init, ChainAlive
<1>2. TypeOK /\ ChainAlive /\ [Next]_vars => ChainAlive'
  <2> SUFFICES ASSUME TypeOK, ChainAlive, [Next]_vars PROVE ChainAlive'
    OBVIOUS
  <2>1. CASE \/ \E k \in Keys : SaveKey(k) \/ SaveSetupKey(k) \/ CreateKey(k) \/ KeyDecays(k)
             \/ CreateEnds \/ SyncWars \/ BoardExpires
    <3>1. UNCHANGED <<active, pending, job, request, lost>>
      BY <2>1 DEF SaveKey, SaveSetupKey, CreateKey, KeyDecays, CreateEnds,
         SyncWars, BoardExpires, faction, others
    <3>2. QED
      BY <3>1, ClearingKeepsChain
  <2>2. CASE ValidatorLoads \/ ValidatorStep
    <3>1. active' => active
      BY <2>2, HandleInvalidKeyType DEF ValidatorLoads, ValidatorStep, ValidatorFetches,
         ValidatorRejects, ValidatorInvalidates, InvalidateApiKey, faction
    <3>2. UNCHANGED <<pending, job, request, lost>>
      BY <2>2 DEF ValidatorLoads, ValidatorStep, ValidatorFetches, ValidatorRejects,
         ValidatorInvalidates
    <3>3. QED
      BY <3>1, <3>2, ClearingKeepsChain
  <2>3. CASE UNCHANGED vars
    BY <2>3, ClearingKeepsChain DEF vars
  <2>4. CASE Next
    BY <2>1, <2>2, <2>4, RequestKeepsChain, JobKeepsChain DEF Next
  <2>5. QED
    BY <2>3, <2>4
<1>3. QED
  BY TypeCorrect, <1>1, <1>2, PTL DEF Spec

\* The queue and the job change only by the queue, the worker and starts.
LEMMA CarriersMove ==
    ASSUME Next, ~WorkerReleases, \A r \in Requests : ~EnqueueFirst(r)
    PROVE  \/ UNCHANGED <<pending, job>>
           \/ Claim \/ JobStep \/ WorkerDies \/ JobRaises \/ JobStranded
<1>1. \A r \in Requests :
         \/ OpenPage(r) \/ PressStart(r) \/ PressStop(r) \/ DestroyKey(r) \/ AskToDelete(r)
         \/ MarkActive(r) \/ StopPolling(r) \/ DiscardBoard(r) \/ ResetSetup(r)
         \/ DeleteAllData(r) \/ WebDies(r)
         => UNCHANGED <<pending, job>>
  BY DEF OpenPage, PressStart, PressStop, DestroyKey, AskToDelete, Begin, MarkActive,
     StopPolling, DiscardBoard, ResetSetup, DeleteAllData, WebDies
<1>2. \A k \in Keys : SaveKey(k) \/ SaveSetupKey(k) \/ CreateKey(k) \/ KeyDecays(k)
         => UNCHANGED <<pending, job>>
  BY DEF SaveKey, SaveSetupKey, CreateKey, KeyDecays, others
<1>3. CreateEnds \/ SyncWars \/ BoardExpires => UNCHANGED <<pending, job>>
  BY DEF CreateEnds, SyncWars, BoardExpires, others
<1>4. ValidatorLoads \/ ValidatorStep => UNCHANGED <<pending, job>>
  BY DEF ValidatorLoads, ValidatorStep, ValidatorFetches, ValidatorRejects,
     ValidatorInvalidates
<1>5. QED
  BY <1>1, <1>2, <1>3, <1>4 DEF Next, RequestStep

\* Every run of the job has at most one successor: only a start, or a worker
\* that is shut down and hands its job back, adds a poll.
THEOREM NeverForks == Spec => NoFork
<1> DEFINE Adds == WorkerReleases \/ \E r \in Requests : EnqueueFirst(r)
<1>1. TypeOK /\ [Next]_vars => (Chains' > Chains => Adds) \/ UNCHANGED vars
  <2> SUFFICES ASSUME TypeOK, Next, ~Adds PROVE ~(Chains' > Chains)
    BY Zenon
  <2>0. pending \in Nat /\ job \in [pc : JobSteps, key : Keys \cup {NoKey}, found : Copies]
    BY DEF TypeOK
  <2>1. CASE UNCHANGED <<pending, job>>
    BY <2>0, <2>1 DEF Chains, Polling
  <2>2. CASE Claim
    BY <2>0, <2>2 DEF Claim, Chains, Polling, Idle
  <2>3. CASE \/ LoadFaction \/ CheckWar \/ CheckKey \/ CallTorn \/ KeyRejected
             \/ JobInvalidates \/ WriteBoard \/ JobRaises \/ JobStranded
    <3>1. pending' = pending /\ Polling(job.pc)
      BY <2>3 DEF LoadFaction, CheckWar, CheckKey, CallTorn, KeyRejected, JobInvalidates,
         WriteBoard, JobRaises, JobStranded, Polling
    <3>2. QED
      BY <2>0, <3>1 DEF Chains
  <2>4. CASE Reschedule
    BY <2>0, <2>4 DEF Reschedule, Chains, Polling
  <2>5. CASE Finish \/ WorkerDies
    <3>1. pending' = pending /\ ~Polling(job'.pc)
      BY <2>5 DEF Finish, WorkerDies, Idle, Polling
    <3>2. QED
      BY <2>0, <3>1 DEF Chains
  <2>6. QED
    BY <2>1, <2>2, <2>3, <2>4, <2>5, CarriersMove DEF JobStep
<1>2. QED
  BY <1>1, TypeCorrect, PTL DEF Spec, NoFork

-----------------------------------------------------------------------------
(* The variant of StopDrains: what is left for the queue and the worker to *)
(* do, were the flag never set again.                                      *)

StepsLeft == [idle |-> 0, end |-> 1, load |-> 2, reschedule |-> 5, raised |-> 5, write |-> 6,
              invalidating |-> 6, members |-> 7, scores |-> 8, key |-> 9, war |-> 10]
Work == 3 * pending + StepsLeft[job.pc]

LEMMA WorkIsNat == TypeOK => Work \in Nat
BY DEF TypeOK, JobSteps, StepsLeft, Work

\* While the flag is cleared, every step of the queue and the worker leaves less
\* to do: a poll under way is rescheduled once more at most, and that one ends.
THEOREM DrainsWhenStopped ==
    Spec => [][~active /\ (Claim \/ JobStep) => Work' < Work]_vars
<1>1. TypeOK /\ [Next]_vars => [~active /\ (Claim \/ JobStep) => Work' < Work]_vars
  <2> SUFFICES ASSUME TypeOK, ~active, Claim \/ JobStep PROVE Work' < Work
    OBVIOUS
  <2>0. pending \in Nat /\ job \in [pc : JobSteps, key : Keys \cup {NoKey}, found : Copies]
    BY DEF TypeOK
  <2>1. CASE Claim
    <3>1. job.pc = "idle" /\ job'.pc = "load" /\ pending' = pending - 1
      BY <2>0, <2>1 DEF Claim, Idle
    <3>2. QED
      BY <2>0, <3>1 DEF Work, StepsLeft
  <2>2. CASE LoadFaction
    BY <2>0, <2>2 DEF LoadFaction, Idle, Work, StepsLeft
  <2>3. CASE CheckWar
    BY <2>0, <2>3 DEF CheckWar, Idle, Work, StepsLeft
  <2>4. CASE CheckKey
    <3>1. job.pc = "key" /\ job'.pc \in {"scores", "idle"} /\ pending' = pending
      BY <2>4, CheckKeyMoves
    <3>2. QED
      BY <2>0, <3>1 DEF Work, StepsLeft
  <2>5. CASE CallTorn
    <3>1. /\ pending' = pending
          /\ \/ job.pc = "scores" /\ job'.pc = "members"
             \/ job.pc = "members" /\ job'.pc \in {"write", "raised"}
      BY <2>0, <2>5 DEF CallTorn
    <3>2. QED
      BY <2>0, <3>1 DEF Work, StepsLeft
  <2>6. CASE KeyRejected \/ JobInvalidates
    <3>1. /\ pending' = pending
          /\ \/ job.pc \in {"scores", "members"} /\ job'.pc \in {"invalidating", "raised"}
             \/ job.pc = "invalidating" /\ job'.pc = "raised"
      BY <2>0, <2>6 DEF KeyRejected, JobInvalidates
    <3>2. QED
      BY <2>0, <3>1 DEF Work, StepsLeft
  <2>7. CASE WriteBoard
    BY <2>0, <2>7 DEF WriteBoard, Work, StepsLeft
  <2>8. CASE Reschedule
    BY <2>0, <2>8 DEF Reschedule, Work, StepsLeft
  <2>9. CASE Finish
    BY <2>0, <2>9 DEF Finish, Idle, Work, StepsLeft
  <2>10. QED
    BY <2>1, <2>2, <2>3, <2>4, <2>5, <2>6, <2>7, <2>8, <2>9 DEF JobStep
<1>2. QED
  BY <1>1, TypeCorrect, PTL DEF Spec

\* Nobody else adds to it, but a start, and a worker that hands its job back.
THEOREM OnlyStartsAddWork ==
    Spec => [][Work' > Work => active \/ WorkerReleases \/ \E r \in Requests : EnqueueFirst(r)]_vars
<1>1. TypeOK /\ [Next]_vars /\ [~active /\ (Claim \/ JobStep) => Work' < Work]_vars
        => [Work' > Work => active \/ WorkerReleases \/ \E r \in Requests : EnqueueFirst(r)]_vars
  <2> SUFFICES ASSUME TypeOK, Next, ~active, ~WorkerReleases, \A r \in Requests : ~EnqueueFirst(r),
                      Claim \/ JobStep => Work' < Work
               PROVE  ~(Work' > Work)
    OBVIOUS
  <2>0. Work \in Nat
    BY WorkIsNat
  <2>1. CASE Claim \/ JobStep
    <3>1. TypeOK'
      BY <2>1, JobTypeStep
    <3>2. Work' \in Nat
      BY <3>1 DEF TypeOK, JobSteps, StepsLeft, Work
    <3>3. QED
      BY <2>0, <2>1, <3>2
  <2>2. CASE UNCHANGED <<pending, job>>
    BY <2>0, <2>2 DEF Work
  <2>3. CASE WorkerDies \/ JobStranded
    <3>1. pending' = pending /\ job'.pc = "idle" /\ pending \in Nat /\ job.pc \in JobSteps
      BY <2>3 DEF WorkerDies, JobStranded, Idle, TypeOK
    <3>2. QED
      BY <3>1 DEF Work, StepsLeft, JobSteps
  <2>4. CASE JobRaises
    <3>1. /\ pending' = pending /\ pending \in Nat /\ job'.pc = "raised"
          /\ job.pc \in {"war", "key", "scores", "members", "write", "reschedule"}
      BY <2>4 DEF JobRaises, TypeOK
    <3>2. QED
      BY <3>1 DEF Work, StepsLeft
  <2>5. QED
    BY <2>1, <2>2, <2>3, <2>4, CarriersMove DEF Next, RequestStep
<1>2. QED
  BY <1>1, TypeCorrect, DrainsWhenStopped, PTL DEF Spec
-----------------------------------------------------------------------------
(* The variant of KeepsPolling: the steps until Torn is asked again.        *)

StepsToTorn == [scores |-> 0, key |-> 1, war |-> 2, load |-> 3, idle |-> 4, end |-> 5,
                reschedule |-> 6, raised |-> 6, write |-> 7, invalidating |-> 7, members |-> 8]
Distance == StepsToTorn[job.pc]
Faulty == WorkerDies \/ WorkerReleases \/ JobRaises \/ JobStranded

\* While polling is on, with a war and a key, every step of the queue and the
\* worker brings the next poll of Torn nearer, errors and rejected keys included,
\* and only a fault puts it off.
THEOREM NearerToTorn ==
    Spec => [][active /\ war /\ key # NoKey /\ job.pc # "scores" =>
                 /\ Claim \/ JobStep => Distance' < Distance
                 /\ Distance' > Distance => Faulty]_vars
<1>1. ASSUME TypeOK, active, war, key # NoKey, job.pc # "scores", Claim \/ JobStep
      PROVE  Distance' < Distance
  <2>0. job \in [pc : JobSteps, key : Keys \cup {NoKey}, found : Copies]
    BY <1>1 DEF TypeOK
  <2>1. CASE Claim
    BY <2>0, <2>1 DEF Claim, Idle, Distance, StepsToTorn
  <2>2. CASE LoadFaction
    BY <1>1, <2>0, <2>2 DEF LoadFaction, Distance, StepsToTorn
  <2>3. CASE CheckWar
    BY <1>1, <2>0, <2>3 DEF CheckWar, Distance, StepsToTorn
  <2>4. CASE CheckKey
    <3>1. job.pc = "key" /\ job'.pc = "scores"
      BY <1>1, <2>4, CheckKeyMoves
    <3>2. QED
      BY <3>1 DEF Distance, StepsToTorn
  <2>5. CASE CallTorn
    <3>1. job.pc = "members" /\ job'.pc \in {"write", "raised"}
      BY <1>1, <2>0, <2>5 DEF CallTorn
    <3>2. QED
      BY <3>1 DEF Distance, StepsToTorn
  <2>6. CASE KeyRejected \/ JobInvalidates
    <3>1. \/ job.pc = "members" /\ job'.pc \in {"invalidating", "raised"}
          \/ job.pc = "invalidating" /\ job'.pc = "raised"
      BY <1>1, <2>0, <2>6 DEF KeyRejected, JobInvalidates
    <3>2. QED
      BY <3>1 DEF Distance, StepsToTorn
  <2>7. CASE WriteBoard
    BY <2>0, <2>7 DEF WriteBoard, Distance, StepsToTorn
  <2>8. CASE Reschedule
    BY <2>0, <2>8 DEF Reschedule, Distance, StepsToTorn
  <2>9. CASE Finish
    BY <2>0, <2>9 DEF Finish, Idle, Distance, StepsToTorn
  <2>10. QED
    BY <1>1, <2>1, <2>2, <2>3, <2>4, <2>5, <2>6, <2>7, <2>8, <2>9 DEF JobStep
<1>2. ASSUME TypeOK, Next, ~(Claim \/ JobStep), ~Faulty
      PROVE  job' = job
  <2>1. CASE \E r \in Requests : EnqueueFirst(r)
    BY <2>1 DEF EnqueueFirst
  <2>2. CASE \A r \in Requests : ~EnqueueFirst(r)
    BY <1>2, <2>2, CarriersMove DEF Faulty
  <2>3. QED
    BY <2>1, <2>2
<1>3. (TypeOK => Distance \in Nat) /\ (TypeOK' => Distance' \in Nat)
  BY DEF TypeOK, JobSteps, Distance, StepsToTorn
<1>4. TypeOK /\ TypeOK' /\ [Next]_vars
        => [active /\ war /\ key # NoKey /\ job.pc # "scores" =>
              /\ Claim \/ JobStep => Distance' < Distance
              /\ Distance' > Distance => Faulty]_vars
  <2> SUFFICES ASSUME TypeOK, TypeOK', Next, active, war, key # NoKey, job.pc # "scores"
               PROVE  /\ Claim \/ JobStep => Distance' < Distance
                      /\ Distance' > Distance => Faulty
    OBVIOUS
  <2>0. Distance \in Nat /\ Distance' \in Nat
    BY <1>3
  <2>1. CASE Claim \/ JobStep
    <3>1. Distance' < Distance
      BY <1>1, <2>1
    <3>2. QED
      BY <2>0, <3>1
  <2>2. CASE ~(Claim \/ JobStep) /\ ~Faulty
    <3>1. Distance' = Distance
      BY <1>2, <2>2 DEF Distance
    <3>2. QED
      BY <2>0, <2>2, <3>1
  <2>3. QED
    BY <2>1, <2>2
<1>5. QED
  BY <1>4, TypeCorrect, PTL DEF Spec
-----------------------------------------------------------------------------
(* The variants of PollingEnds: without a war, or without a key.            *)

UnkeyedSteps == [idle |-> 0, end |-> 1, key |-> 2, war |-> 3, load |-> 4, reschedule |-> 7,
                 raised |-> 7, invalidating |-> 8, write |-> 8, members |-> 9, scores |-> 10]
UnkeyedWork == 5 * pending + UnkeyedSteps[job.pc]

PeaceSteps == [idle |-> 0, end |-> 1, war |-> 2, load |-> 3, reschedule |-> 6, raised |-> 6,
               invalidating |-> 7, write |-> 7, members |-> 8, scores |-> 9, key |-> 10]
PeaceWork == 4 * pending + PeaceSteps[job.pc]

\* What a step of the queue or the worker does to the poll.
LEMMA PollMoves ==
    ASSUME TypeOK, Claim \/ JobStep
    PROVE  \/ job.pc = "idle" /\ job'.pc = "load" /\ pending' = pending - 1
           \/ /\ job.pc \in {"reschedule", "raised"} /\ job'.pc = "end" /\ pending' = pending + 1
           \/ /\ pending' = pending
              /\ \/ job.pc \in {"load", "war", "key", "end"} /\ job'.pc = "idle"
                 \/ job.pc = "load" /\ job'.pc = "war"
                 \/ job.pc = "war" /\ job'.pc = "key" /\ war
                 \/ job.pc = "key" /\ job'.pc = "scores" /\ key # NoKey
                 \/ job.pc = "scores" /\ job'.pc \in {"members", "invalidating", "raised"}
                 \/ job.pc = "members" /\ job'.pc \in {"write", "invalidating", "raised"}
                 \/ job.pc = "invalidating" /\ job'.pc = "raised"
                 \/ job.pc = "write" /\ job'.pc = "reschedule"
<1>0. job \in [pc : JobSteps, key : Keys \cup {NoKey}, found : Copies]
  BY DEF TypeOK
<1>1. CASE Claim
  BY <1>0, <1>1 DEF Claim, Idle
<1>2. CASE LoadFaction
  BY <1>0, <1>2 DEF LoadFaction, Idle
<1>3. CASE CheckWar
  BY <1>0, <1>3 DEF CheckWar, Idle
<1>4. CASE CheckKey
  BY <1>4, CheckKeyMoves
<1>5. CASE CallTorn
  BY <1>0, <1>5 DEF CallTorn
<1>6. CASE KeyRejected \/ JobInvalidates
  BY <1>0, <1>6 DEF KeyRejected, JobInvalidates
<1>7. CASE WriteBoard
  BY <1>0, <1>7 DEF WriteBoard
<1>8. CASE Reschedule
  BY <1>0, <1>8 DEF Reschedule
<1>9. CASE Finish
  BY <1>0, <1>9 DEF Finish, Idle
<1>10. QED
  BY <1>1, <1>2, <1>3, <1>4, <1>5, <1>6, <1>7, <1>8, <1>9 DEF JobStep

\* Without a key, or without a war, every step of the queue and the worker leaves
\* less to do, from wherever the poll was when it was lost or over ...
THEOREM PollingRunsOut ==
    Spec => [][Claim \/ JobStep => /\ key = NoKey => UnkeyedWork' < UnkeyedWork
                                   /\ ~war => PeaceWork' < PeaceWork]_vars
<1>1. ASSUME TypeOK, Claim \/ JobStep
      PROVE  /\ key = NoKey => UnkeyedWork' < UnkeyedWork
             /\ ~war => PeaceWork' < PeaceWork
  <2>0. pending \in Nat
    BY <1>1 DEF TypeOK
  <2>1. key = NoKey => UnkeyedWork' < UnkeyedWork
    BY <1>1, <2>0, PollMoves DEF UnkeyedWork, UnkeyedSteps
  <2>2. ~war => PeaceWork' < PeaceWork
    BY <1>1, <2>0, PollMoves DEF PeaceWork, PeaceSteps
  <2>3. QED
    BY <2>1, <2>2
<1>2. TypeOK /\ [Next]_vars
        => [Claim \/ JobStep => /\ key = NoKey => UnkeyedWork' < UnkeyedWork
                                /\ ~war => PeaceWork' < PeaceWork]_vars
  BY <1>1
<1>3. QED
  BY <1>2, TypeCorrect, PTL DEF Spec

\* ... and once nothing is left, polling is off, unless a start is on its way to the
\* queue or a fault, such as an update! of the flag that raises, took along the start
\* or the poll that would have cleared it.
THEOREM RunOutIsOff ==
    Spec => [](UnkeyedWork = 0 \/ PeaceWork = 0 =>
                 ~active \/ lost \/ \E r \in Requests : request[r].pc = "enqueue")
<1>1. TypeOK /\ ChainAlive
        => (UnkeyedWork = 0 \/ PeaceWork = 0 =>
              ~active \/ lost \/ \E r \in Requests : request[r].pc = "enqueue")
  <2> SUFFICES ASSUME TypeOK, ChainAlive, UnkeyedWork = 0 \/ PeaceWork = 0
               PROVE  ~active \/ lost \/ \E r \in Requests : request[r].pc = "enqueue"
    OBVIOUS
  <2>0. pending \in Nat /\ job.pc \in JobSteps
    BY DEF TypeOK
  <2>1. pending = 0 /\ job.pc = "idle"
    <3>1. CASE UnkeyedWork = 0
      BY <2>0, <3>1 DEF UnkeyedWork, UnkeyedSteps, JobSteps
    <3>2. CASE PeaceWork = 0
      BY <2>0, <3>2 DEF PeaceWork, PeaceSteps, JobSteps
    <3>3. QED
      BY <3>1, <3>2
  <2>2. QED
    BY <2>1 DEF ChainAlive, Polling
<1>2. QED
  BY <1>1, TypeCorrect, ChainStaysAlive, PTL
=============================================================================

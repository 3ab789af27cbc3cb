------------------------- MODULE PublicWarLobbyProofs -------------------------
(***************************************************************************)
(* What public war lobbies guarantee for any number of lobbies, requests,  *)
(* factions and lost processes.                                            *)
(***************************************************************************)
EXTENDS PublicWarLobby, FiniteSetTheorems, TLAPS

Creations == [pc : {"idle", "check", "save", "key", "enqueue"},
              for : Factions \cup {NoFaction}, count : Nat, id : 0..LastId]
Visits == [pc : {"idle", "stats"} \cup Kinds, id : 0..LastId]

-----------------------------------------------------------------------------
(* The inductive invariant.                                                *)

Opens(c) == creator[c].pc \in {"key", "enqueue"}

\* A request that has saved a lobby, or found one, holds its id, and no two
\* requests have saved the same one.
Ided ==
    /\ \A c \in Creators :
          Opens(c) => /\ creator[c].id \in 1..created
                      /\ \A d \in Creators \ {c} :
                            Opens(d) => creator[d].id # creator[c].id
    /\ \A v \in Visitors : visitor[v].pc # "idle" => visitor[v].id \in Ids

\* Nothing has happened to an id that no lobby has been given.
Fresh == \A i \in Ids : i > created => pending[i] = 0 /\ job[i] = "idle"

\* Once a lobby's first poll may come, its key has been written: it is in the
\* cache unless it was dropped.
KeyFirst ==
    \A i \in Ids :
        (\/ pending[i] > 0 \/ job[i] # "idle"
         \/ \E c \in Creators : creator[c].pc = "enqueue" /\ creator[c].id = i)
        => Key(i) \/ i \in dropped

IInv == TypeOK /\ Ided /\ Fresh /\ KeyFirst /\ OneChain /\ PolledOrGone

-----------------------------------------------------------------------------
(* Types.                                                                  *)

LEMMA CountIsNat == ASSUME TypeOK PROVE Cardinality(Lobbies) \in Nat
<1>1. IsFiniteSet(Ids)
  BY FS_Interval, LobbyAssumption DEF Ids
<1>2. IsFiniteSet(Lobbies)
  BY <1>1, FS_Subset DEF Lobbies
<1>3. QED
  BY <1>2, FS_CardinalityType

LEMMA TypeInit == Init => TypeOK
<1> SUFFICES ASSUME Init PROVE TypeOK
  OBVIOUS
<1>1. creator \in [Creators -> Creations]
  BY LobbyAssumption DEF Init, NoCreation, Creations
<1>2. visitor \in [Visitors -> Visits]
  BY LobbyAssumption DEF Init, NoVisit, Visits
<1>3. job \in [Ids -> JobSteps]
  BY DEF Init, JobSteps
<1>4. created \in 0..LastId
  BY LobbyAssumption DEF Init
<1>5. QED
  BY <1>1, <1>2, <1>3, <1>4 DEF Init, TypeOK, Creations, Visits

LEMMA StepNames ==
    /\ "idle" \in JobSteps /\ "find" \in JobSteps /\ "key" \in JobSteps
    /\ "call" \in JobSteps /\ "write" \in JobSteps
    /\ "reschedule" \in JobSteps /\ "end" \in JobSteps
    /\ Kinds \subseteq JobSteps
    /\ \A kind \in Kinds : /\ AfterErasing[kind] \in JobSteps
                           /\ kind # "row" => AfterErasing[kind] \in Kinds
                           /\ kind = "row" => AfterErasing[kind] = "idle"
BY DEF JobSteps, Kinds, AfterErasing

LEMMA EraseType ==
    ASSUME TypeOK, NEW kind, NEW i \in Ids, Erase(kind, i)
    PROVE  stored' \subseteq Kinds \X Ids /\ dropped' \subseteq Ids
BY DEF TypeOK, Erase

\* A creation keeps the state well typed.
LEMMA CreateTypeStep ==
    ASSUME TypeOK, Ided, NEW c \in Creators,
           \/ \E f \in Factions : Submit(c, f)
           \/ CreateStep(c) \/ CreatorDies(c)
    PROVE  TypeOK'
<1> USE DEF TypeOK, creating, table, faulty
<1>a. NoCreation \in Creations /\ creator \in [Creators -> Creations]
  BY LobbyAssumption DEF NoCreation, Creations
<1>1. ASSUME NEW f \in Factions, Submit(c, f)
      PROVE  TypeOK'
  <2>1. [NoCreation EXCEPT !.pc = "check", !.for = f, !.count = Cardinality(Lobbies)]
           \in Creations
    BY <1>a, CountIsNat DEF Creations
  <2>2. creator' \in [Creators -> Creations]
    BY <1>1, <1>a, <2>1 DEF Submit
  <2>3. QED
    BY <1>1, <2>2 DEF Submit, Creations
<1>2. CASE CheckFaction(c)
  <2>1. creator' \in [Creators -> Creations]
    <3>1. [creator[c] EXCEPT !.pc = "save"] \in Creations
      BY <1>a DEF Creations
    <3>2. QED
      BY <1>2, <1>a, <3>1 DEF CheckFaction
  <2>2. QED
    BY <1>2, <2>1 DEF CheckFaction, Creations
<1>3. CASE Save(c)
  <2>1. created + 1 \in Ids /\ created + 1 \in 0..LastId
    BY <1>3, LobbyAssumption DEF Save, Ids
  <2>2. creator[c].for \in Factions \cup {NoFaction}
    BY <1>a DEF Creations
  <2>3. [creator[c] EXCEPT !.pc = "key", !.id = created + 1] \in Creations
    BY <1>a, <2>1 DEF Creations
  <2>4. \/ /\ created' = created + 1
           /\ stored' = stored \cup {<<"row", created + 1>>}
           /\ factionOf' = [factionOf EXCEPT ![created + 1] = creator[c].for]
           /\ creator' = [creator EXCEPT ![c] =
                             [creator[c] EXCEPT !.pc = "key", !.id = created + 1]]
        \/ /\ creator' = [creator EXCEPT ![c] = NoCreation]
           /\ UNCHANGED <<stored, table>>
    BY <1>3 DEF Save
  <2>5. creator' \in [Creators -> Creations]
    BY <1>a, <2>3, <2>4
  <2>6. stored' \subseteq Kinds \X Ids
    BY <2>1, <2>4 DEF Kinds
  <2>7. factionOf' \in [Ids -> Factions \cup {NoFaction}] /\ created' \in 0..LastId
    BY <2>1, <2>2, <2>4
  <2>8. QED
    BY <1>3, <2>5, <2>6, <2>7 DEF Save, Creations
<1>4. CASE WriteKey(c)
  <2>1. creator' \in [Creators -> Creations]
    <3>1. [creator[c] EXCEPT !.pc = "enqueue"] \in Creations
      BY <1>a DEF Creations
    <3>2. QED
      BY <1>4, <1>a, <3>1 DEF WriteKey
  <2>2. creator[c].id \in Ids
    BY <1>4, LobbyAssumption DEF WriteKey, Ided, Opens, Ids
  <2>3. QED
    BY <1>4, <2>1, <2>2 DEF WriteKey, Creations, Kinds
<1>5. CASE EnqueueFirst(c)
  <2>1. creator' \in [Creators -> Creations]
    BY <1>5, <1>a DEF EnqueueFirst
  <2>2. pending' \in [Ids -> Nat]
    <3>1. creator[c].id \in Ids
      BY <1>5, LobbyAssumption DEF EnqueueFirst, Ided, Opens, Ids
    <3>2. QED
      BY <1>5, <3>1 DEF EnqueueFirst
  <2>3. QED
    BY <1>5, <2>1, <2>2 DEF EnqueueFirst, Creations
<1>6. CASE CreatorDies(c)
  <2>1. creator' \in [Creators -> Creations]
    BY <1>6, <1>a DEF CreatorDies
  <2>2. lost' \subseteq Ids
    <3>1. Opens(c) => creator[c].id \in Ids
      BY LobbyAssumption DEF Ided, Ids
    <3>2. lost' = IF Opens(c) THEN lost \cup {creator[c].id} ELSE lost
      BY <1>6 DEF CreatorDies, Opens
    <3>3. QED
      BY <3>1, <3>2
  <2>3. QED
    BY <1>6, <2>1, <2>2 DEF CreatorDies, Creations, Fault
<1>7. QED
  BY <1>1, <1>2, <1>3, <1>4, <1>5, <1>6 DEF CreateStep

\* So does a visit to a lobby's page.
LEMMA VisitTypeStep ==
    ASSUME TypeOK, Ided, NEW v \in Visitors,
           \/ \E i \in Ids : Visit(v, i, "board") \/ Visit(v, i, "stats")
           \/ VisitStep(v) \/ VisitorDies(v)
    PROVE  TypeOK'
<1> USE DEF TypeOK, visiting, table, faulty
<1>a. NoVisit \in Visits /\ visitor \in [Visitors -> Visits]
  BY LobbyAssumption DEF NoVisit, Visits
<1>1. ASSUME NEW i \in Ids, NEW step \in {"board", "stats"}, Visit(v, i, step)
      PROVE  TypeOK'
  <2>1. [pc |-> step, id |-> i] \in Visits
    BY LobbyAssumption DEF Visits, Kinds, Ids
  <2>2. visitor' \in [Visitors -> Visits]
    BY <1>1, <1>a, <2>1 DEF Visit
  <2>3. QED
    BY <1>1, <2>2 DEF Visit, Visits
<1>2. CASE WriteStats(v)
  <2>1. visitor' \in [Visitors -> Visits]
    BY <1>2, <1>a DEF WriteStats
  <2>2. visitor[v].id \in Ids
    BY <1>2 DEF WriteStats, Ided
  <2>3. QED
    BY <1>2, <2>1, <2>2 DEF WriteStats, Visits, Kinds
<1>3. CASE Terminate(v)
  <2>1. visitor[v].id \in Ids
    BY <1>3 DEF Terminate, Ided, Kinds
  <2>2. stored' \subseteq Kinds \X Ids /\ dropped' \subseteq Ids
    BY <1>3, <2>1, EraseType DEF Terminate
  <2>3. visitor' \in [Visitors -> Visits]
    <3>1. CASE visitor[v].pc = "row"
      BY <1>3, <1>a, <3>1 DEF Terminate
    <3>2. CASE visitor[v].pc # "row"
      <4>1. [visitor[v] EXCEPT !.pc = AfterErasing[visitor[v].pc]] \in Visits
        BY <1>3, <1>a, <3>2, StepNames DEF Terminate, Visits
      <4>2. visitor' = [visitor EXCEPT ![v] =
                           [visitor[v] EXCEPT !.pc = AfterErasing[visitor[v].pc]]]
        BY <1>3, <3>2 DEF Terminate
      <4>3. QED
        BY <1>a, <4>1, <4>2
    <3>3. QED
      BY <3>1, <3>2
  <2>4. QED
    BY <1>3, <2>2, <2>3 DEF Terminate, Visits
<1>4. CASE VisitorDies(v)
  <2>1. visitor' \in [Visitors -> Visits]
    BY <1>4, <1>a DEF VisitorDies
  <2>2. QED
    BY <1>4, <2>1 DEF VisitorDies, Fault, Visits
<1>5. QED
  BY <1>1, <1>2, <1>3, <1>4 DEF VisitStep

\* So do the polling job, whatever becomes of its worker, and the cache.
LEMMA JobTypeStep ==
    ASSUME TypeOK, NEW i \in Ids,
           \/ Claim(i) \/ JobStep(i) \/ BoardExpires(i)
           \/ Evict(i, "apikey") \/ Evict(i, "spystats")
           \/ WorkerDies(i) \/ WorkerReleases(i)
           \/ JobRaises(i) \/ JobStranded(i)
    PROVE  TypeOK'
<1> USE DEF TypeOK, performing, visiting, table, faulty
<1>a. \A step \in JobSteps : [job EXCEPT ![i] = step] \in [Ids -> JobSteps]
  OBVIOUS
<1>1. CASE Claim(i)
  BY <1>1, <1>a, StepNames DEF Claim
<1>2. CASE FindLobby(i)
  <2>1. job' \in [Ids -> JobSteps]
    BY <1>2, <1>a, StepNames DEF FindLobby
  <2>2. QED
    BY <1>2, <2>1 DEF FindLobby
<1>3. CASE ReadKey(i)
  <2>1. job' \in [Ids -> JobSteps]
    BY <1>3, <1>a, StepNames DEF ReadKey, Kinds
  <2>2. QED
    BY <1>3, <2>1 DEF ReadKey
<1>4. CASE CallTorn(i)
  <2>1. job' \in [Ids -> JobSteps]
    BY <1>4, <1>a, StepNames DEF CallTorn, Kinds
  <2>2. QED
    BY <1>4, <2>1 DEF CallTorn
<1>5. CASE WriteBoard(i)
  BY <1>5, <1>a, StepNames DEF WriteBoard, Kinds
<1>6. CASE Reschedule(i)
  BY <1>6, <1>a, StepNames DEF Reschedule
<1>7. CASE JobTerminates(i)
  <2>1. stored' \subseteq Kinds \X Ids /\ dropped' \subseteq Ids
    BY <1>7, EraseType DEF JobTerminates
  <2>2. job' \in [Ids -> JobSteps]
    BY <1>7, <1>a, StepNames DEF JobTerminates
  <2>3. QED
    BY <1>7, <2>1, <2>2 DEF JobTerminates
<1>8. CASE Finish(i)
  BY <1>8, <1>a, StepNames DEF Finish
<1>9. CASE BoardExpires(i)
  BY <1>9 DEF BoardExpires
<1>10. ASSUME NEW kind \in {"apikey", "spystats"}, Evict(i, kind)
       PROVE  TypeOK'
  BY <1>10, EraseType DEF Evict
<1>11. CASE WorkerDies(i)
  BY <1>11, <1>a, StepNames DEF WorkerDies, Fault
<1>12. CASE WorkerReleases(i)
  BY <1>12, <1>a, StepNames DEF WorkerReleases, Fault
<1>13. CASE JobRaises(i)
  BY <1>13, <1>a, StepNames DEF JobRaises, Fault
<1>14. CASE JobStranded(i)
  BY <1>14, <1>a, StepNames DEF JobStranded, Fault
<1>15. QED
  BY <1>1, <1>2, <1>3, <1>4, <1>5, <1>6, <1>7, <1>8, <1>9, <1>10, <1>11, <1>12, <1>13,
     <1>14 DEF JobStep

-----------------------------------------------------------------------------
(* The other parts, one family of actions at a time.                       *)

\* A creation keeps them: it hands out a fresh id, writes the key and only
\* then enqueues the first poll.
LEMMA CreateStepKeeps ==
    ASSUME IInv, NEW c \in Creators,
           \/ \E f \in Factions : Submit(c, f)
           \/ CreateStep(c) \/ CreatorDies(c)
    PROVE  (Ided /\ Fresh /\ KeyFirst /\ OneChain /\ PolledOrGone)'
<1> USE DEF creating, table, faulty
<1>a. /\ TypeOK /\ Ided /\ Fresh /\ KeyFirst /\ OneChain /\ PolledOrGone
      /\ creator \in [Creators -> Creations] /\ created \in Nat
      /\ pending \in [Ids -> Nat] /\ job \in [Ids -> JobSteps]
  BY LobbyAssumption DEF IInv, TypeOK, Creations
<1>b. ASSUME UNCHANGED <<stored, created, pending, job, visitor, dropped, forked>>,
             lost \subseteq lost',
             \A d \in Creators \ {c} : creator'[d] = creator[d],
             ~Opens(c)', ~Opens(c) \/ creator[c].id \in lost'
      PROVE  (Ided /\ Fresh /\ KeyFirst /\ OneChain /\ PolledOrGone)'
  <2>1. (Ided /\ Fresh)'
    BY <1>a, <1>b DEF Ided, Opens, Fresh
  <2>2. KeyFirst'
    BY <1>a, <1>b DEF KeyFirst, Opens, Key
  <2>3. OneChain'
    BY <1>a, <1>b DEF OneChain, Opens, Opening, Performing
  <2>4. PolledOrGone'
    BY <1>a, <1>b DEF PolledOrGone, Opens, Opening, Performing, Lobbies, Row
  <2>5. QED
    BY <2>1, <2>2, <2>3, <2>4
<1>1. ASSUME NEW f \in Factions, Submit(c, f)
      PROVE  (Ided /\ Fresh /\ KeyFirst /\ OneChain /\ PolledOrGone)'
  BY <1>1, <1>a, <1>b DEF Submit, Opens, NoCreation
<1>2. CASE CheckFaction(c)
  BY <1>2, <1>a, <1>b DEF CheckFaction, Opens, NoCreation, Creations
<1>3. CASE CreatorDies(c)
  BY <1>3, <1>a, <1>b DEF CreatorDies, Fault, Opens, NoCreation
<1>4. CASE Save(c)
  <2>1. CASE UNCHANGED <<stored, table>>
             /\ creator' = [creator EXCEPT ![c] = NoCreation]
    BY <1>4, <1>a, <1>b, <2>1 DEF Save, Opens, NoCreation
  <2>2. CASE /\ created' = created + 1
             /\ stored' = stored \cup {<<"row", created + 1>>}
             /\ creator' = [creator EXCEPT ![c].pc = "key", ![c].id = created + 1]
    <3>1. /\ UNCHANGED <<pending, job, visitor, dropped, lost, forked>>
          /\ created + 1 \in Ids /\ pending[created + 1] = 0
          /\ job[created + 1] = "idle"
      <4>1. created + 1 \in Ids /\ created + 1 > created
        BY <1>4, <1>a, LobbyAssumption DEF Save, Ids
      <4>2. QED
        BY <1>4, <1>a, <2>2, <4>1 DEF Save, Fresh
    <3>2. /\ creator'[c].pc = "key" /\ creator'[c].id = created + 1
          /\ \A d \in Creators \ {c} : creator'[d] = creator[d]
      BY <2>2, <1>a DEF Creations
    <3>3. (Ided /\ Fresh)'
      <4>1. \A i \in Ids : i > created + 1 => i > created
        BY <1>a DEF Ids
      <4>2. Fresh'
        BY <2>2, <1>a, <3>1, <4>1 DEF Fresh
      <4>3. Ided'
        BY <2>2, <1>a, <3>1, <3>2 DEF Ided, Opens
      <4>4. QED
        BY <4>2, <4>3
    <3>4. KeyFirst'
      BY <2>2, <1>a, <3>1, <3>2 DEF KeyFirst, Key
    <3>5. OneChain'
      BY <2>2, <1>a, <3>1, <3>2 DEF OneChain, Opening, Performing
    <3>6. PolledOrGone'
      <4> SUFFICES ASSUME NEW i \in Lobbies' \ lost
                   PROVE  \/ pending[i] > 0 \/ Performing(i)
                          \/ \E d \in Creators : Opening(d, i)'
        BY <3>1 DEF PolledOrGone, Performing
      <4>1. CASE i = created + 1
        BY <3>2, <4>1 DEF Opening
      <4>2. CASE i # created + 1
        <5>1. i \in Lobbies \ lost
          BY <2>2, <4>2 DEF Lobbies, Row
        <5>2. ~Opening(c, i)
          BY <1>4 DEF Save, Opening
        <5>3. QED
          BY <1>a, <3>2, <5>1, <5>2 DEF PolledOrGone, Opening
      <4>3. QED
        BY <4>1, <4>2
    <3>7. QED
      BY <3>3, <3>4, <3>5, <3>6
  <2>3. QED
    BY <1>4, <2>1, <2>2 DEF Save
<1>5. CASE WriteKey(c)
  <2>1. /\ UNCHANGED <<created, pending, job, visitor, dropped, lost, forked>>
        /\ stored' = stored \cup {<<"apikey", creator[c].id>>}
        /\ creator[c].pc = "key" /\ creator'[c].pc = "enqueue"
        /\ creator'[c].id = creator[c].id
        /\ \A d \in Creators \ {c} : creator'[d] = creator[d]
    BY <1>5, <1>a DEF WriteKey, Creations
  <2>2. (Ided /\ Fresh)'
    BY <1>a, <2>1 DEF Ided, Opens, Fresh
  <2>3. KeyFirst'
    BY <1>a, <2>1 DEF KeyFirst, Key
  <2>4. OneChain'
    BY <1>a, <2>1 DEF OneChain, Opening, Performing
  <2>5. PolledOrGone'
    BY <1>a, <2>1 DEF PolledOrGone, Opening, Performing, Lobbies, Row
  <2>6. QED
    BY <2>2, <2>3, <2>4, <2>5
<1>6. CASE EnqueueFirst(c)
  <2>1. /\ UNCHANGED <<stored, created, job, visitor, dropped, lost, forked>>
        /\ creator[c].pc = "enqueue" /\ creator'[c].pc = "idle"
        /\ \A d \in Creators \ {c} : creator'[d] = creator[d]
        /\ creator[c].id \in Ids /\ creator[c].id <= created
        /\ pending' = [pending EXCEPT ![creator[c].id] = @ + 1]
    BY <1>6, <1>a, LobbyAssumption
       DEF EnqueueFirst, Ided, Opens, NoCreation, Ids, TypeOK
  <2>2. Ided'
    BY <1>a, <2>1 DEF Ided, Opens
  <2>3. Fresh'
    <3>1. \A i \in Ids : i > created => i # creator[c].id
      BY <1>a, <2>1 DEF Ids
    <3>2. QED
      BY <1>a, <2>1, <3>1 DEF Fresh
  <2>4. KeyFirst'
    BY <1>a, <2>1 DEF KeyFirst, Key
  <2>5. OneChain'
    <3> SUFFICES ASSUME NEW i \in Ids \ forked
                 PROVE  /\ pending'[i] + (IF Performing(i)' THEN 1 ELSE 0) <= 1
                        /\ (\E d \in Creators : Opening(d, i)')
                              => pending'[i] = 0 /\ ~Performing(i)'
      BY <2>1 DEF OneChain
    <3>1. CASE i = creator[c].id
      BY <1>a, <2>1, <3>1 DEF OneChain, Opening, Performing, Ided, Opens
    <3>2. CASE i # creator[c].id
      BY <1>a, <2>1, <3>2 DEF OneChain, Opening, Performing
    <3>3. QED
      BY <3>1, <3>2
  <2>6. PolledOrGone'
    BY <1>a, <2>1 DEF PolledOrGone, Opening, Performing, Lobbies, Row
  <2>7. QED
    BY <2>2, <2>3, <2>4, <2>5, <2>6
<1>7. QED
  BY <1>1, <1>2, <1>3, <1>4, <1>5, <1>6 DEF CreateStep

\* A visit keeps them: terminate! drops the key before the row, and what stats
\* writes is neither.
LEMMA VisitStepKeeps ==
    ASSUME IInv, NEW v \in Visitors,
           \/ \E i \in Ids : Visit(v, i, "board") \/ Visit(v, i, "stats")
           \/ VisitStep(v) \/ VisitorDies(v)
    PROVE  (Ided /\ Fresh /\ KeyFirst /\ OneChain /\ PolledOrGone)'
<1> USE DEF visiting, table, faulty
<1>a. /\ TypeOK /\ Ided /\ Fresh /\ KeyFirst /\ OneChain /\ PolledOrGone
      /\ visitor \in [Visitors -> Visits]
  BY DEF IInv, TypeOK, Visits
<1>1. UNCHANGED <<created, pending, job, creator, lost, forked>>
  BY DEF Visit, VisitStep, WriteStats, Terminate, VisitorDies, Fault
<1>2. /\ \A w \in Visitors \ {v} : visitor'[w] = visitor[w]
      /\ visitor'[v].pc = "idle" \/ visitor'[v].id \in Ids
  <2>1. ASSUME NEW i \in Ids, NEW step, Visit(v, i, step)
        PROVE  /\ \A w \in Visitors \ {v} : visitor'[w] = visitor[w]
               /\ visitor'[v].id \in Ids
    BY <1>a, <2>1 DEF Visit
  <2>2. CASE WriteStats(v) \/ VisitorDies(v)
    BY <1>a, <2>2 DEF WriteStats, VisitorDies, NoVisit
  <2>3. CASE Terminate(v)
    <3>1. CASE visitor[v].pc = "row"
      BY <1>a, <2>3, <3>1 DEF Terminate, NoVisit
    <3>2. CASE visitor[v].pc # "row"
      <4>1. visitor' = [visitor EXCEPT ![v] =
                           [visitor[v] EXCEPT !.pc = AfterErasing[visitor[v].pc]]]
        BY <2>3, <3>2 DEF Terminate
      <4>2. visitor[v].id \in Ids
        BY <1>a, <2>3 DEF Terminate, Ided, Kinds
      <4>3. [visitor[v] EXCEPT !.pc = AfterErasing[visitor[v].pc]].id = visitor[v].id
        BY <1>a DEF Visits
      <4>4. QED
        BY <1>a, <4>1, <4>2, <4>3
    <3>3. QED
      BY <3>1, <3>2
  <2>4. QED
    BY <2>1, <2>2, <2>3 DEF VisitStep
<1>3. \A i \in Ids : /\ Key(i) => Key(i)' \/ i \in dropped'
                     /\ i \in dropped => i \in dropped'
                     /\ Row(i)' => Row(i)
  <2>1. ASSUME NEW kind, NEW j, Erase(kind, j)
        PROVE  \A i \in Ids : /\ Key(i) => Key(i)' \/ i \in dropped'
                              /\ i \in dropped => i \in dropped'
                              /\ Row(i)' => Row(i)
    BY <2>1 DEF Erase, Key, Row
  <2>2. CASE Terminate(v)
    BY <2>1, <2>2 DEF Terminate
  <2>3. CASE WriteStats(v)
    BY <2>3 DEF WriteStats, Key, Row
  <2>4. CASE VisitorDies(v) \/ \E i \in Ids : Visit(v, i, "board") \/ Visit(v, i, "stats")
    BY <2>4 DEF VisitorDies, Fault, Visit, Key, Row
  <2>5. QED
    BY <2>2, <2>3, <2>4 DEF VisitStep
<1>4. Ided'
  BY <1>a, <1>1, <1>2 DEF Ided, Opens
<1>5. Fresh' /\ OneChain'
  BY <1>a, <1>1 DEF Fresh, OneChain, Opening, Performing
<1>6. KeyFirst'
  BY <1>a, <1>1, <1>3 DEF KeyFirst
<1>7. PolledOrGone'
  BY <1>a, <1>1, <1>3 DEF PolledOrGone, Opening, Performing, Lobbies
<1>8. QED
  BY <1>4, <1>5, <1>6, <1>7

\* So do the polling job, its worker and the cache: a job that stops before it
\* is done has enqueued its successor, or removed the row.
LEMMA JobStepKeeps ==
    ASSUME IInv, NEW i \in Ids,
           \/ Claim(i) \/ JobStep(i) \/ BoardExpires(i)
           \/ Evict(i, "apikey") \/ Evict(i, "spystats")
           \/ WorkerDies(i) \/ WorkerReleases(i)
           \/ JobRaises(i) \/ JobStranded(i)
    PROVE  (Ided /\ Fresh /\ KeyFirst /\ OneChain /\ PolledOrGone)'
<1> USE DEF performing, visiting, table, faulty
<1>a. /\ TypeOK /\ Ided /\ Fresh /\ KeyFirst /\ OneChain /\ PolledOrGone
      /\ pending \in [Ids -> Nat] /\ job \in [Ids -> JobSteps]
  BY DEF IInv, TypeOK
<1>1. UNCHANGED <<created, creator, visitor>>
  BY DEF Claim, JobStep, FindLobby, ReadKey, CallTorn, WriteBoard, Reschedule,
         JobTerminates, Finish, BoardExpires, Evict, WorkerDies, WorkerReleases, JobRaises,
         JobStranded, Fault
<1>2. \A j \in Ids : /\ Key(j) => Key(j)' \/ j \in dropped'
                     /\ j \in dropped => j \in dropped'
                     /\ Row(j)' => Row(j)
  <2>1. ASSUME NEW kind, NEW k, Erase(kind, k)
        PROVE  \A j \in Ids : /\ Key(j) => Key(j)' \/ j \in dropped'
                              /\ j \in dropped => j \in dropped'
                              /\ Row(j)' => Row(j)
    BY <2>1 DEF Erase, Key, Row
  <2>2. CASE JobTerminates(i) \/ Evict(i, "apikey") \/ Evict(i, "spystats")
    BY <2>1, <2>2 DEF JobTerminates, Evict
  <2>3. CASE WriteBoard(i) \/ BoardExpires(i)
    BY <2>3 DEF WriteBoard, BoardExpires, Key, Row
  <2>4. CASE \/ Claim(i) \/ FindLobby(i) \/ ReadKey(i) \/ CallTorn(i) \/ Reschedule(i)
             \/ Finish(i) \/ WorkerDies(i) \/ WorkerReleases(i) \/ JobRaises(i) \/ JobStranded(i)
 \/ JobRaises(i) \/ JobStranded(i)
    BY <2>4 DEF Claim, FindLobby, ReadKey, CallTorn, Reschedule, Finish,
                WorkerDies, WorkerReleases, JobRaises, JobStranded, Fault, Key, Row
  <2>5. QED
    BY <2>2, <2>3, <2>4 DEF JobStep
<1>3. /\ \A j \in Ids \ {i} : pending'[j] = pending[j] /\ job'[j] = job[j]
      /\ lost \subseteq lost' /\ forked \subseteq forked'
  BY <1>a DEF Claim, JobStep, FindLobby, ReadKey, CallTorn, WriteBoard, Reschedule,
         JobTerminates, Finish, BoardExpires, Evict, WorkerDies, WorkerReleases, JobRaises,
         JobStranded, Fault
\* What becomes of the lobby's chain.
<1>4. /\ pending[i] = 0 /\ job[i] = "idle" => pending'[i] = 0 /\ job'[i] = "idle"
      /\ i \notin forked' =>
            pending'[i] + (IF Performing(i)' THEN 1 ELSE 0)
               <= pending[i] + (IF Performing(i) THEN 1 ELSE 0)
      /\ pending[i] > 0 \/ Performing(i) =>
            pending'[i] > 0 \/ Performing(i)' \/ i \in lost' \/ ~Row(i)'
  <2>1. CASE Claim(i)
    BY <1>a, <2>1 DEF Claim, Performing
  <2>2. CASE FindLobby(i)
    BY <1>a, <2>2 DEF FindLobby, Performing, Row
  <2>3. CASE ReadKey(i) \/ CallTorn(i)
    BY <1>a, <2>3 DEF ReadKey, CallTorn, Performing
  <2>4. CASE WriteBoard(i) \/ Reschedule(i) \/ Finish(i)
    BY <1>a, <2>4 DEF WriteBoard, Reschedule, Finish, Performing
  <2>5. CASE JobTerminates(i)
    <3>1. job[i] = "row" => ~Row(i)'
      BY <2>5 DEF JobTerminates, Erase, Row
    <3>2. /\ pending' = pending /\ job'[i] = AfterErasing[job[i]] /\ job[i] \in Kinds
      BY <1>a, <2>5 DEF JobTerminates
    <3>3. QED
      BY <1>a, <3>1, <3>2 DEF Performing, AfterErasing, Kinds
  <2>6. CASE BoardExpires(i) \/ Evict(i, "apikey") \/ Evict(i, "spystats")
    BY <1>a, <2>6 DEF BoardExpires, Evict, Performing
  <2>7. CASE WorkerDies(i)
    BY <1>a, <2>7 DEF WorkerDies, Performing
  <2>8. CASE WorkerReleases(i)
    BY <1>a, <2>8 DEF WorkerReleases, Performing
  <2>9. CASE JobRaises(i)
    BY <1>a, <2>9 DEF JobRaises, Performing, Kinds
  <2>10. CASE JobStranded(i)
    BY <1>a, <2>10 DEF JobStranded, Performing
  <2>11. QED
    BY <2>1, <2>2, <2>3, <2>4, <2>5, <2>6, <2>7, <2>8, <2>9, <2>10 DEF JobStep
<1>5. Ided'
  BY <1>a, <1>1 DEF Ided, Opens
<1>6. Fresh'
  BY <1>a, <1>1, <1>3, <1>4 DEF Fresh
<1>7. KeyFirst'
  BY <1>a, <1>1, <1>2, <1>3, <1>4 DEF KeyFirst
<1>8. OneChain'
  <2> SUFFICES ASSUME NEW j \in Ids \ forked'
               PROVE  /\ pending'[j] + (IF Performing(j)' THEN 1 ELSE 0) <= 1
                      /\ (\E c \in Creators : Opening(c, j)')
                            => pending'[j] = 0 /\ ~Performing(j)'
    BY DEF OneChain
  <2>1. \A c \in Creators : Opening(c, j)' <=> Opening(c, j)
    BY <1>1 DEF Opening
  <2>2. CASE j = i
    <3>1. pending[i] \in Nat /\ pending'[i] \in Nat /\ i \notin forked /\ i \notin forked'
      BY <1>a, <1>3, <2>2, JobTypeStep DEF TypeOK
    <3>2. pending[i] + (IF Performing(i) THEN 1 ELSE 0) <= 1
      BY <1>a, <3>1 DEF OneChain
    <3>3. (\E c \in Creators : Opening(c, i)) => pending[i] = 0 /\ ~Performing(i)
      BY <1>a, <3>1 DEF OneChain
    <3> HIDE DEF performing, visiting, table, faulty
    <3>4. QED
      BY <1>4, <2>1, <2>2, <3>1, <3>2, <3>3
  <2>3. CASE j # i
    BY <1>a, <1>1, <1>3, <2>3 DEF OneChain, Opening, Performing
  <2>4. QED
    BY <2>2, <2>3
<1>9. PolledOrGone'
  <2> SUFFICES ASSUME NEW j \in Lobbies' \ lost'
               PROVE  \/ pending'[j] > 0 \/ Performing(j)'
                      \/ \E c \in Creators : Opening(c, j)'
    BY DEF PolledOrGone
  <2>1. j \in Lobbies \ lost /\ Row(j)'
    BY <1>2, <1>3 DEF Lobbies
  <2>2. \/ pending[j] > 0 \/ Performing(j)
        \/ \E c \in Creators : Opening(c, j)'
    BY <1>a, <1>1, <2>1 DEF PolledOrGone, Opening
  <2>3. QED
    BY <1>3, <1>4, <2>1, <2>2 DEF Performing, Lobbies
<1>10. QED
  BY <1>5, <1>6, <1>7, <1>8, <1>9

-----------------------------------------------------------------------------

LEMMA InitInvariant == Init => IInv
<1> SUFFICES ASSUME Init PROVE IInv
  OBVIOUS
<1>1. TypeOK
  BY TypeInit
<1>2. Ided /\ Fresh /\ KeyFirst
  BY DEF Init, NoCreation, NoVisit, Ided, Opens, Fresh, KeyFirst
<1>3. OneChain /\ PolledOrGone
  BY DEF Init, NoCreation, OneChain, PolledOrGone, Opening, Performing, Lobbies, Row
<1>4. QED
  BY <1>1, <1>2, <1>3 DEF IInv

LEMMA StepInvariant == IInv /\ [Next]_vars => IInv'
<1> SUFFICES ASSUME IInv, [Next]_vars PROVE IInv'
  OBVIOUS
<1>1. ASSUME NEW c \in Creators,
             \/ \E f \in Factions : Submit(c, f)
             \/ CreateStep(c) \/ CreatorDies(c)
      PROVE  IInv'
  BY <1>1, CreateTypeStep, CreateStepKeeps DEF IInv
<1>2. ASSUME NEW v \in Visitors,
             \/ \E i \in Ids : Visit(v, i, "board") \/ Visit(v, i, "stats")
             \/ VisitStep(v) \/ VisitorDies(v)
      PROVE  IInv'
  BY <1>2, VisitTypeStep, VisitStepKeeps DEF IInv
<1>3. ASSUME NEW i \in Ids,
             \/ Claim(i) \/ JobStep(i) \/ BoardExpires(i)
             \/ Evict(i, "apikey") \/ Evict(i, "spystats")
             \/ WorkerDies(i) \/ WorkerReleases(i)
             \/ JobRaises(i) \/ JobStranded(i)
      PROVE  IInv'
  BY <1>3, JobTypeStep, JobStepKeeps DEF IInv
<1>4. CASE UNCHANGED vars
  BY <1>4 DEF vars, table, faulty, IInv, TypeOK, Ided, Opens, Fresh, KeyFirst, Key,
              OneChain, PolledOrGone, Opening, Performing, Lobbies, Row
<1>5. QED
  BY <1>1, <1>2, <1>3, <1>4 DEF Next

\* The invariant behind the theorems below.
THEOREM Invariant == Spec => []IInv
BY InitInvariant, StepInvariant, PTL DEF Spec

\* Every reachable state is well typed.
THEOREM TypeCorrect == Spec => []TypeOK
<1>1. IInv => TypeOK
  BY DEF IInv
<1>2. QED
  BY <1>1, Invariant, PTL

\* No lobby is left that nothing will poll or remove, unless its next poll was lost
\* with a process or with an error that perform does not reschedule after.
THEOREM LobbiesArePolled == Spec => []PolledOrGone
<1>1. IInv => PolledOrGone
  BY DEF IInv
<1>2. QED
  BY <1>1, Invariant, PTL

\* A lobby has one chain of polling jobs, whatever errors its polls meet.
THEOREM ChainsAreSingle == Spec => []OneChain
<1>1. IInv => OneChain
  BY DEF IInv
<1>2. QED
  BY <1>1, Invariant, PTL

\* The first poll never finds the cache without the key because it came too
\* early: create writes the key before it enqueues the job.
THEOREM BirthIsSafe == Spec => []NotEndedAtBirth
<1>1. IInv => NotEndedAtBirth
  BY DEF IInv, KeyFirst, NotEndedAtBirth
<1>2. QED
  BY <1>1, Invariant, PTL

-----------------------------------------------------------------------------
(* The variants of TerminatedDrains and UnkeyedEnds: what is left for the  *)
(* queue and the worker to do about a lobby whose row, or whose key, is    *)
(* gone.                                                                   *)

GoneSteps == [idle |-> 0, end |-> 1, find |-> 2, row |-> 1, spystats |-> 2, apikey |-> 3, board |-> 4,
              reschedule |-> 5, write |-> 6, call |-> 7, key |-> 8]
GoneWork(i) == 3 * pending[i] + GoneSteps[job[i]]

UnkeyedSteps == [idle |-> 0, end |-> 1, row |-> 1, spystats |-> 2, apikey |-> 3, board |-> 4,
                 key |-> 5, find |-> 6, reschedule |-> 9, write |-> 10, call |-> 11]
UnkeyedWork(i) == 7 * pending[i] + UnkeyedSteps[job[i]]

\* What a step of the queue or the worker does to its lobby's poll.
LEMMA PollMoves ==
    ASSUME TypeOK, NEW i \in Ids, Claim(i) \/ JobStep(i)
    PROVE  /\ pending[i] \in Nat /\ job[i] \in JobSteps
           /\ \/ job[i] = "idle" /\ job'[i] = "find" /\ pending[i] > 0 /\ pending'[i] = pending[i] - 1
              \/ job[i] = "find" /\ job'[i] = (IF Row(i) THEN "key" ELSE "idle") /\ pending'[i] = pending[i]
              \/ job[i] = "key" /\ job'[i] = (IF Key(i) THEN "call" ELSE "board") /\ pending'[i] = pending[i]
              \/ job[i] = "call" /\ job'[i] \in {"write", "board", "reschedule"} /\ pending'[i] = pending[i]
              \/ job[i] = "write" /\ job'[i] = "reschedule" /\ pending'[i] = pending[i]
              \/ job[i] = "reschedule" /\ job'[i] = "end" /\ pending'[i] = pending[i] + 1
              \/ job[i] \in Kinds /\ job'[i] = AfterErasing[job[i]] /\ pending'[i] = pending[i]
              \/ job[i] = "end" /\ job'[i] = "idle" /\ pending'[i] = pending[i]
<1>1. pending[i] \in Nat /\ job[i] \in JobSteps /\ DOMAIN job = Ids /\ DOMAIN pending = Ids
  BY DEF TypeOK
<1>2. CASE Claim(i)
  BY <1>1, <1>2 DEF Claim, TypeOK
<1>3. CASE FindLobby(i)
  BY <1>1, <1>3 DEF FindLobby
<1>4. CASE ReadKey(i)
  BY <1>1, <1>4 DEF ReadKey
<1>5. CASE CallTorn(i)
  BY <1>1, <1>5 DEF CallTorn
<1>6. CASE WriteBoard(i)
  BY <1>1, <1>6 DEF WriteBoard
<1>7. CASE Reschedule(i)
  BY <1>1, <1>7 DEF Reschedule, TypeOK
<1>8. CASE JobTerminates(i)
  BY <1>1, <1>8 DEF JobTerminates
<1>9. CASE Finish(i)
  BY <1>1, <1>9 DEF Finish
<1>10. QED
  BY <1>1, <1>2, <1>3, <1>4, <1>5, <1>6, <1>7, <1>8, <1>9 DEF JobStep

\* Once the row is gone, every step leaves less to do: no poll, wherever it was,
\* comes back more than once.
THEOREM DrainsWhenGone ==
    Spec => [][\A i \in Ids : ~Row(i) /\ (Claim(i) \/ JobStep(i)) => GoneWork(i)' < GoneWork(i)]_vars
<1>1. TypeOK /\ [Next]_vars
        => [\A i \in Ids : ~Row(i) /\ (Claim(i) \/ JobStep(i)) => GoneWork(i)' < GoneWork(i)]_vars
  <2> SUFFICES ASSUME TypeOK, NEW i \in Ids, ~Row(i), Claim(i) \/ JobStep(i)
               PROVE  3 * pending'[i] + GoneSteps[job'[i]] < 3 * pending[i] + GoneSteps[job[i]]
    BY DEF GoneWork
  <2> QED  BY PollMoves DEF GoneSteps, Kinds, AfterErasing
<1> QED  BY <1>1, TypeCorrect, PTL DEF Spec

\* Without a key, too: the poll that finds none ends in the row's removal.
THEOREM UnkeyedRunsOut ==
    Spec => [][\A i \in Ids : ~Key(i) /\ (Claim(i) \/ JobStep(i)) => UnkeyedWork(i)' < UnkeyedWork(i)]_vars
<1>1. TypeOK /\ [Next]_vars
        => [\A i \in Ids : ~Key(i) /\ (Claim(i) \/ JobStep(i)) => UnkeyedWork(i)' < UnkeyedWork(i)]_vars
  <2> SUFFICES ASSUME TypeOK, NEW i \in Ids, ~Key(i), Claim(i) \/ JobStep(i)
               PROVE  7 * pending'[i] + UnkeyedSteps[job'[i]] < 7 * pending[i] + UnkeyedSteps[job[i]]
    BY DEF UnkeyedWork
  <2> QED  BY PollMoves DEF UnkeyedSteps, Kinds, AfterErasing
<1> QED  BY <1>1, TypeCorrect, PTL DEF Spec

\* A lobby that nothing is left to do about has no row, unless it is just being
\* opened or its next poll was lost.
THEOREM RunOutIsGone ==
    Spec => [](\A i \in Ids \ lost :
                 UnkeyedWork(i) = 0 => ~Row(i) \/ \E c \in Creators : Opening(c, i))
<1>1. IInv => \A i \in Ids \ lost : UnkeyedWork(i) = 0 => ~Row(i) \/ \E c \in Creators : Opening(c, i)
  <2> SUFFICES ASSUME IInv, NEW i \in Ids \ lost, UnkeyedWork(i) = 0, Row(i)
               PROVE  \E c \in Creators : Opening(c, i)
    OBVIOUS
  <2>1. pending[i] = 0 /\ job[i] = "idle"
    <3>1. pending[i] \in Nat /\ job[i] \in JobSteps
      BY DEF IInv, TypeOK
    <3>2. UnkeyedSteps[job[i]] \in Nat /\ (UnkeyedSteps[job[i]] = 0 => job[i] = "idle")
      BY <3>1 DEF JobSteps, Kinds, UnkeyedSteps
    <3> QED  BY <3>1, <3>2 DEF UnkeyedWork
  <2> QED  BY <2>1 DEF IInv, PolledOrGone, Lobbies, Performing
<1> QED  BY <1>1, Invariant, PTL

\* No step of anybody else gives a lobby without a row more to do, but the
\* request that is opening it, a worker that hands its job back and a poll that
\* ends in an error.
THEOREM OnlyOpeningAddsWork ==
    Spec => [][\A i \in Ids : ~Row(i) /\ GoneWork(i)' > GoneWork(i) =>
                 \/ WorkerReleases(i) \/ JobRaises(i)
                 \/ \E c \in Creators : EnqueueFirst(c) /\ creator[c].id = i]_vars
<1>1. TypeOK /\ [Next]_vars /\ [\A i \in Ids : ~Row(i) /\ (Claim(i) \/ JobStep(i)) => GoneWork(i)' < GoneWork(i)]_vars
        => [\A i \in Ids : ~Row(i) /\ GoneWork(i)' > GoneWork(i) =>
              \/ WorkerReleases(i) \/ JobRaises(i)
              \/ \E c \in Creators : EnqueueFirst(c) /\ creator[c].id = i]_vars
  <2> SUFFICES ASSUME TypeOK, Next, NEW i \in Ids, ~Row(i), ~WorkerReleases(i), ~JobRaises(i),
                      \A c \in Creators : EnqueueFirst(c) => creator[c].id # i,
                      Claim(i) \/ JobStep(i) => GoneWork(i)' < GoneWork(i)
               PROVE  ~(GoneWork(i)' > GoneWork(i))
    OBVIOUS
  <2>0. /\ pending \in [Ids -> Nat] /\ job \in [Ids -> JobSteps] /\ GoneWork(i) \in Nat
        /\ \A c \in Creators : creator[c].id \in 0..LastId
    BY DEF TypeOK, JobSteps, Kinds, GoneSteps, GoneWork
  <2>1. CASE Claim(i) \/ JobStep(i)
    <3>1. GoneWork(i)' < GoneWork(i)
      BY <2>1
    <3>2. GoneWork(i)' \in Nat
      BY <2>1, PollMoves DEF GoneWork, GoneSteps, JobSteps, Kinds, AfterErasing
    <3> QED  BY <2>0, <3>1, <3>2
  <2>2. CASE pending'[i] = pending[i] /\ job'[i] = job[i]
    BY <2>0, <2>2 DEF GoneWork
  <2>3. CASE WorkerDies(i) \/ JobStranded(i)
    BY <2>0, <2>3 DEF WorkerDies, JobStranded, GoneWork, GoneSteps, JobSteps, Kinds
  <2>4. ASSUME NEW c \in Creators, EnqueueFirst(c) PROVE pending'[i] = pending[i] /\ job'[i] = job[i]
    BY <2>0, <2>4 DEF EnqueueFirst, creating
  <2>5. ASSUME NEW j \in Ids, j # i,
               Claim(j) \/ JobStep(j) \/ WorkerDies(j) \/ WorkerReleases(j)
               \/ JobRaises(j) \/ JobStranded(j)
        PROVE  pending'[i] = pending[i] /\ job'[i] = job[i]
    BY <2>0, <2>5 DEF Claim, JobStep, FindLobby, ReadKey, CallTorn, WriteBoard, Reschedule, JobTerminates,
       Finish, WorkerDies, WorkerReleases, JobRaises, JobStranded
  <2>6. ASSUME NEW c \in Creators,
               (\E f \in Factions : Submit(c, f)) \/ CheckFaction(c) \/ Save(c) \/ WriteKey(c) \/ CreatorDies(c)
        PROVE  UNCHANGED <<pending, job>>
    BY <2>6 DEF Submit, CheckFaction, Save, WriteKey, CreatorDies, creating
  <2>7. ASSUME NEW v \in Visitors,
               (\E j \in Ids : Visit(v, j, "board") \/ Visit(v, j, "stats")) \/ VisitStep(v) \/ VisitorDies(v)
        PROVE  UNCHANGED <<pending, job>>
    BY <2>7 DEF Visit, VisitStep, WriteStats, Terminate, VisitorDies, visiting
  <2>8. ASSUME NEW j \in Ids, BoardExpires(j) \/ Evict(j, "apikey") \/ Evict(j, "spystats")
        PROVE  UNCHANGED <<pending, job>>
    BY <2>8 DEF BoardExpires, Evict, visiting
  <2> QED  BY <2>1, <2>2, <2>3, <2>4, <2>5, <2>6, <2>7, <2>8 DEF Next, CreateStep
<1> QED  BY <1>1, TypeCorrect, DrainsWhenGone, PTL DEF Spec
=============================================================================

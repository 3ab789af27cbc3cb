--------------------------- MODULE DashboardProofs ---------------------------
(***************************************************************************)
(* Proofs about the live board: its timers (WarTimers), for every table of  *)
(* flight times, every grain of time and every status, and its polling and  *)
(* editing (WarDashboard), for any number of rows, polls and edits.         *)
(***************************************************************************)
EXTENDS WarDashboard, WarTimers, FiniteSetTheorems, TLAPS

USE TimersAssumption

\* The earlier and the later arrival of a flight are moments.
LEMMA EtaOrder ==
    ASSUME NEW s \in Status, Timed(s)
    PROVE  /\ FastEta(s) \in Nat /\ SlowEta(s) \in Nat /\ FastEta(s) <= SlowEta(s)
           /\ FlightTime(s, Fastest(s.plane_type)) \in Nat \ {0}
           /\ s.travel_started_at \in Nat
<1> DEFINE d == s.destination
           f == FlightTimes[d][Fastest(s.plane_type)]
           l == FlightTimes[d][Slowest(s.plane_type)]
<1>1. /\ d \in Destinations /\ s.plane_type \in Planes /\ s.travel_started_at \in Nat
  BY DEF Status, Timed, Never
<1>2. /\ Fastest(s.plane_type) \in Tickets /\ Slowest(s.plane_type) \in Tickets
      /\ \/ Fastest(s.plane_type) = Slowest(s.plane_type)
         \/ Fastest(s.plane_type) = "bct" /\ Slowest(s.plane_type) = "standard"
  BY <1>1 DEF Fastest, Slowest, Planes, Tickets
<1>3. f \in Nat \ {0} /\ l \in Nat \ {0} /\ f <= l
  BY <1>1, <1>2
<1>4. Second * f \in Nat /\ Second * l \in Nat /\ Second * f <= Second * l
  BY <1>3
<1> QED  BY <1>1, <1>3, <1>4 DEF FastEta, SlowEta, FlightTime

\* What has run out stays so.
LEMMA RunOutStays ==
    ASSUME NEW m \in Int, NEW t \in Int, NEW u \in Int, t <= u, RunOut(m, t)
    PROVE  RunOut(m, u)
BY DEF RunOut

\* A tick makes of a cell what a render at that moment would make of its row.
LEMMA TickIsRender ==
    ASSUME NEW s \in Status, NEW t \in Nat, NEW u \in Nat, t <= u
    PROVE  Ticked(RenderTimer(s, t), u) = RenderTimer(s, u)
<1>1. CASE s.state = "Traveling" /\ Timed(s)
  <2>1. FastEta(s) \in Nat /\ SlowEta(s) \in Nat
    BY <1>1, EtaOrder
  <2>2. CASE RunOut(SlowEta(s), t)
    <3>1. RunOut(SlowEta(s), u)
      BY <2>1, <2>2, RunOutStays
    <3> QED  BY <1>1, <2>2, <3>1 DEF Ticked, RenderTimer, RenderTravelTimer, AboutToLand, Blank
  <2>3. CASE ~RunOut(SlowEta(s), t) /\ s.plane_type = "airliner"
    BY <1>1, <2>1, <2>3 DEF Ticked, RenderTimer, RenderTravelTimer, AboutToLand, Blank, DualFlight
  <2>4. CASE ~RunOut(SlowEta(s), t) /\ s.plane_type # "airliner"
    BY <1>1, <2>1, <2>4 DEF Ticked, RenderTimer, RenderTravelTimer, AboutToLand, Blank, Flight
  <2> QED  BY <2>2, <2>3, <2>4
<1>2. CASE s.state = "Traveling" /\ ~Timed(s)
  BY <1>2 DEF Ticked, RenderTimer, RenderTravelTimer, Text, Blank
<1>3. CASE s.state = "Abroad"
  BY <1>3 DEF Ticked, RenderTimer, Text, Blank
<1>4. CASE s.state \notin {"Traveling", "Abroad"}
  <2>1. s.until \in Nat \cup {Never} /\ Never \in Int
    BY DEF Status, Never
  <2>2. CASE s.until = Never \/ RunOut(s.until, t)
    BY <1>4, <2>1, <2>2, RunOutStays DEF Ticked, RenderTimer, Blank
  <2>3. CASE s.until # Never /\ ~RunOut(s.until, t)
    BY <1>4, <2>1, <2>3 DEF Ticked, RenderTimer, Blank, Countdown
  <2> QED  BY <2>2, <2>3
<1> QED  BY <1>1, <1>2, <1>3, <1>4

-----------------------------------------------------------------------------

TimerInv == now \in Nat /\ status \in Status /\ TickedAsRendered

LEMMA HomeIsAStatus == Home \in Status
BY DEF Home, Status, Places, Planes

\* The invariant is inductive as it stands, with the types of what it compares.
LEMMA TimerInvariant == TimerSpec => []TimerInv
<1>1. TimerInit => TimerInv
  BY HomeIsAStatus DEF TimerInit, TimerInv, TickedAsRendered, RenderTimer, Home, Blank
<1>2. TimerInv /\ [TimerNext]_timerVars => TimerInv'
  <2> SUFFICES ASSUME TimerInv, [TimerNext]_timerVars PROVE TimerInv'
    OBVIOUS
  <2>1. ASSUME NEW at \in now..Horizon, TickTimers(at) PROVE TimerInv'
    <3>1. at \in Nat /\ now <= at
      BY DEF TimerInv
    <3>2. Ticked(RenderTimer(status, now), at) = RenderTimer(status, at)
      BY <3>1, TickIsRender DEF TimerInv
    <3> QED  BY <2>1, <3>1, <3>2 DEF TickTimers, TimerInv, TickedAsRendered
  <2>2. ASSUME NEW at \in now..Horizon, NEW s \in Statuses, RenderRow(s, at) PROVE TimerInv'
    BY <2>2 DEF RenderRow, TimerInv, TickedAsRendered
  <2>3. CASE UNCHANGED timerVars
    BY <2>3 DEF timerVars, TimerInv, TickedAsRendered
  <2> QED  BY <2>1, <2>2, <2>3 DEF TimerNext
<1> QED  BY <1>1, <1>2, PTL DEF TimerSpec

\* A cell reads as a fresh render of its row would, whatever statuses come and
\* however ticks and renders alternate.
THEOREM TickedAsRenderedAlways == TimerSpec => []TickedAsRendered
BY TimerInvariant, PTL DEF TimerInv

\* Whole seconds of a flight of f seconds that began at a.
Flown(a, t) == (t - a) \div Second
ToFly(a, f, t) == (a + Second * f - t) \div Second

\* getTimerSeconds rounds the time flown down, the cell the time to fly.
LEMMA RoundedTwice ==
    ASSUME NEW a \in Int, NEW f \in Int, NEW t \in Int
    PROVE  /\ Flown(a, t) \in Int /\ ToFly(a, f, t) \in Int
           /\ f - Flown(a, t) - 1 <= ToFly(a, f, t) /\ ToFly(a, f, t) <= f - Flown(a, t)
<1> DEFINE x == t - a
           y == a + Second * f - t
           q == x \div Second
           r == y \div Second
<1>1. x \in Int /\ Second * f \in Int /\ y \in Int /\ y = Second * f - x
  OBVIOUS
<1>2. q \in Int /\ Second * q <= x /\ x < Second * q + Second
  BY <1>1
<1>3. r \in Int /\ Second * r <= y /\ y < Second * r + Second
  BY <1>1
<1> HIDE DEF x, y, q, r
<1>4. Second * (r + q - f) <= 0 /\ Second * (f - q - r - 2) < 0
  BY <1>1, <1>2, <1>3
<1>5. r + q - f <= 0 /\ f - q - r - 2 < 0
  BY <1>2, <1>3, <1>4
<1>6. f - q - 1 <= r /\ r <= f - q
  BY <1>2, <1>3, <1>5
<1> QED  BY <1>2, <1>3, <1>6 DEF x, y, q, r, Flown, ToFly
\* Of a flight, the number sorted by is what its first half reads, give or take
\* a second.
LEMMA FlightSorted ==
    ASSUME NEW s \in Status, NEW t \in Nat, s.state = "Traveling", Timed(s)
    PROVE  /\ SecondsLeft(FastEta(s), t) \in Int
           /\ TimerSeconds(s, t) \in SecondsLeft(FastEta(s), t) - 1 .. SecondsLeft(FastEta(s), t) + 1
<1> DEFINE a == s.travel_started_at
           f == FlightTime(s, Fastest(s.plane_type))
           q == Flown(a, t)
           r == ToFly(a, f, t)
<1>1. a \in Nat /\ f \in Nat /\ FastEta(s) = a + Second * f
  BY EtaOrder DEF FastEta
<1>2. q \in Int /\ r \in Int /\ f - q - 1 <= r /\ r <= f - q
  <2>1. a \in Int /\ f \in Int /\ t \in Int
    BY <1>1
  <2> HIDE DEF a, f
  <2>2. /\ Flown(a, t) \in Int /\ ToFly(a, f, t) \in Int
        /\ f - Flown(a, t) - 1 <= ToFly(a, f, t) /\ ToFly(a, f, t) <= f - Flown(a, t)
    BY ONLY <2>1, RoundedTwice
  <2> QED  BY <2>2
<1>3. TimerSeconds(s, t) = Positive(f - q)
  BY DEF TimerSeconds, Timed, Status, Places, Flown
<1>4. RunOut(FastEta(s), t) <=> r <= 0
  <2> DEFINE y == a + Second * f - t
  <2>1. y \in Int /\ r = y \div Second
    BY <1>1 DEF ToFly
  <2> HIDE DEF y
  <2>2. y < Second <=> y \div Second <= 0
    BY <2>1
  <2> QED  BY <1>1, <2>1, <2>2 DEF RunOut, y
<1> HIDE DEF a, f, q, r
<1>5. CASE r <= 0
  BY <1>1, <1>2, <1>3, <1>4, <1>5 DEF Positive, SecondsLeft
<1>6. CASE r > 0
  <2>1. (FastEta(s) - t) \div Second = r
    BY <1>1 DEF r, ToFly
  <2> QED  BY <1>1, <1>2, <1>3, <1>4, <1>6, <2>1 DEF Positive, SecondsLeft
<1> QED  BY <1>2, <1>5, <1>6

\* The table is sorted by what its cells read, give or take a second.
THEOREM SortedAlways == TimerSpec => []SortedByWhatIsShown
<1>1. TimerInv => SortedByWhatIsShown
  <2> SUFFICES ASSUME TimerInv, cell.form \in {"countdown", "flight", "dual"}
               PROVE  TimerSeconds(status, now) \in ShownSeconds(cell, now) - 1 .. ShownSeconds(cell, now) + 1
    BY DEF SortedByWhatIsShown
  <2>1. status \in Status /\ now \in Nat /\ cell = RenderTimer(status, now)
    BY DEF TimerInv, TickedAsRendered
  <2>2. CASE status.state = "Traveling"
    <3>1. Timed(status) /\ cell.fast = FastEta(status)
      <4>1. Timed(status) /\ ~RunOut(SlowEta(status), now)
        BY <2>1, <2>2 DEF RenderTimer, RenderTravelTimer, Text, AboutToLand, Blank
      <4>2. CASE status.plane_type = "airliner"
        BY <2>1, <2>2, <4>1, <4>2 DEF RenderTimer, RenderTravelTimer, DualFlight
      <4>3. CASE status.plane_type # "airliner"
        BY <2>1, <2>2, <4>1, <4>3 DEF RenderTimer, RenderTravelTimer, Flight, SlowEta, FastEta, Slowest
      <4> QED  BY <4>1, <4>2, <4>3
    <3> QED  BY <2>1, <2>2, <3>1, FlightSorted DEF ShownSeconds
  <2>3. CASE status.state # "Traveling"
    <3>1. /\ status.until \in Nat /\ ~RunOut(status.until, now) /\ cell.fast = status.until
          /\ ~Timed(status) /\ status.until # Never
      BY <2>1, <2>3 DEF RenderTimer, Countdown, Text, Blank, Timed, Status
    <3>2. TimerSeconds(status, now) = Positive((status.until - now) \div Second)
      BY <2>3, <3>1 DEF TimerSeconds
    <3>3. (status.until - now) \div Second \in Int /\ (status.until - now) \div Second > 0
      <4> DEFINE y == status.until - now
      <4>1. y \in Int /\ y >= Second
        BY <2>1, <3>1 DEF RunOut
      <4> HIDE DEF y
      <4>2. y \div Second \in Int /\ y \div Second > 0
        BY <4>1
      <4> QED  BY <4>2 DEF y
    <3> QED  BY <3>1, <3>2, <3>3 DEF Positive, ShownSeconds, SecondsLeft
  <2> QED  BY <2>2, <2>3
<1> QED  BY <1>1, TimerInvariant, PTL

-----------------------------------------------------------------------------
(* The board.                                                              *)

\* An open input's edit is open, and no two inputs are of one edit.
InputsOpen == \A i \in inputs : fate[i.edit] = "open"
InputsApart == \A i, j \in inputs : i.edit = j.edit => i = j

BoardInv == TypeOK /\ InputsOpen /\ InputsApart

LEMMA BoardInit == Init => BoardInv
BY DashboardAssumption DEF Init, BoardInv, TypeOK, InputsOpen, InputsApart, Stat, Quiescent

\* What a handler does to an input leaves its edit and its row.
LEMMA InputChanges ==
    ASSUME NEW i \in Input
    PROVE  /\ [i EXCEPT !.due = TRUE] \in Input /\ [i EXCEPT !.due = TRUE].edit = i.edit
           /\ Restored(i) \in Input /\ Restored(i).edit = i.edit /\ Restored(i).of = i.of
           /\ \A v \in Stat : [i EXCEPT !.text = v] \in Input /\ [i EXCEPT !.text = v].edit = i.edit
BY DEF Input, Restored

\* An input that leaves the document is an input still.
LEMMA VanishKeeps ==
    ASSUME TypeOK, NEW gone \in SUBSET inputs, Vanish(gone)
    PROVE  ghosts' \subseteq Input
<1> SUFFICES ASSUME NEW j \in ghosts', j \notin ghosts PROVE j \in Input
  BY DEF TypeOK
<1>1. PICK i \in gone : j = [i EXCEPT !.due = TRUE]
  BY DEF Vanish
<1>2. i \in Input
  BY DEF TypeOK
<1> QED  BY <1>1, <1>2, InputChanges

\* renderTable: at most one input survives, as a restored copy of itself; the
\* edits of the others are lost and no other edit changes.
LEMMA RenderKeeps ==
    ASSUME BoardInv, hidden' \subseteq Filterable, Render
    PROVE  /\ inputs' \subseteq Input /\ ghosts' \subseteq Input
           /\ fate' \in [Edits -> {"unborn", "open", "lost", "submitted", "given up", "unwanted"}]
           /\ InputsOpen' /\ InputsApart'
           /\ \A e \in Edits : fate'[e] = "unwanted" => fate[e] = "unwanted"
<1> USE DEF BoardInv, TypeOK
<1>1. PICK kept \in SUBSET inputs :
        /\ IF inputs = {} THEN kept = {} ELSE \E i \in inputs : kept = {i}
        /\ inputs' = {Restored(i) : i \in {k \in kept : k.of \notin hidden'}}
        /\ fate' = [e \in Edits |-> IF e \in {i.edit : i \in inputs} \ {j.edit : j \in inputs'}
                                     THEN "lost" ELSE fate[e]]
  BY DEF Render
<1>2. ghosts' \subseteq Input
  BY VanishKeeps DEF Render
<1>3. inputs' \subseteq Input /\ \A j \in inputs' : \E i \in kept : j = Restored(i) /\ j.edit = i.edit
  <2> SUFFICES ASSUME NEW j \in inputs'
               PROVE  j \in Input /\ \E i \in kept : j = Restored(i) /\ j.edit = i.edit
    OBVIOUS
  <2>1. PICK i \in kept : j = Restored(i)
    BY <1>1
  <2>2. i \in Input
    OBVIOUS
  <2> HIDE DEF TypeOK, BoardInv
  <2> QED  BY <2>1, <2>2, InputChanges
<1>4. \A i, j \in inputs' : i = j
  BY <1>1
<1>5. InputsOpen'
  <2> SUFFICES ASSUME NEW j \in inputs' PROVE fate'[j.edit] = "open"
    BY DEF InputsOpen
  <2>1. PICK i \in kept : j.edit = i.edit
    BY <1>3
  <2>2. fate[i.edit] = "open" /\ i.edit \in Edits
    BY <2>1 DEF InputsOpen, Input
  <2> QED  BY <1>1, <2>1, <2>2
<1>6. InputsApart'
  BY <1>4 DEF InputsApart
<1>7. fate' \in [Edits -> {"unborn", "open", "lost", "submitted", "given up", "unwanted"}]
  BY <1>1
<1>8. \A e \in Edits : fate'[e] = "unwanted" => fate[e] = "unwanted"
  BY <1>1
<1> QED  BY <1>2, <1>3, <1>5, <1>6, <1>7, <1>8

\* The input that a handler closes is the only one of its edit.
LEMMA CloseKeeps ==
    ASSUME BoardInv, NEW i \in inputs, Close(i), ghosts' \subseteq Input,
           NEW f \in {"submitted", "given up", "unwanted"}, fate' = [fate EXCEPT ![i.edit] = f]
    PROVE  /\ inputs' \subseteq Input /\ InputsOpen' /\ InputsApart'
           /\ fate' \in [Edits -> {"unborn", "open", "lost", "submitted", "given up", "unwanted"}]
<1>1. i \in Input /\ i.edit \in Edits
  BY DEF BoardInv, TypeOK, Input
<1>2. inputs' = inputs \ {i} /\ \A j \in inputs' : j.edit # i.edit /\ j.edit \in Edits
  BY DEF Close, BoardInv, TypeOK, InputsApart, Input
<1>3. InputsOpen'
  BY <1>1, <1>2 DEF BoardInv, TypeOK, InputsOpen
<1> QED  BY <1>1, <1>2, <1>3 DEF BoardInv, TypeOK, InputsApart

\* #saveStat and #cancelEdit of an open input: it is submitted or given up, and
\* what is sent and shown is a statistic.
LEMMA SaveOpen ==
    ASSUME BoardInv, NEW i \in inputs, SaveStat(i) \/ Cancel(i)
    PROVE  /\ fate[i.edit] = "open" /\ i.edit \in Edits
           /\ \E f \in {"submitted", "given up"} : fate' = [fate EXCEPT ![i.edit] = f]
           /\ member' \in Stat
           /\ request' \in [Edits -> [pc : {"idle", "sent"}, value : Stat]]
<1>1. i \in Input /\ i.edit \in Edits /\ i.text \in Stat /\ fate[i.edit] = "open"
  BY DEF BoardInv, TypeOK, Input, InputsOpen
<1>2. CASE Cancel(i)
  BY <1>1, <1>2 DEF Cancel, BoardInv, TypeOK
<1>3. CASE Submit(i)
  BY <1>1, <1>3 DEF Submit, BoardInv, TypeOK, Stat
<1> QED  BY <1>1, <1>2, <1>3 DEF SaveStat

LEMMA BoardStep == BoardInv /\ [Next]_vars => BoardInv' /\ (SubmittedOnce => SubmittedOnce')
<1> SUFFICES ASSUME BoardInv, [Next]_vars
             PROVE  BoardInv' /\ (SubmittedOnce => SubmittedOnce')
  OBVIOUS
<1> USE DEF SubmittedOnce
<1>1. CASE FilterOrSort
  BY <1>1, RenderKeeps DEF FilterOrSort, server, BoardInv, TypeOK
<1>2. CASE Tick
  <2>1. PICK p \in Polls : poll' = [poll EXCEPT ![p] = IF lobby THEN [pc |-> "board", value |-> board]
                                                       ELSE [Quiescent EXCEPT !.pc = "gone"]]
    BY <1>2 DEF Tick
  <2>2. poll' \in [Polls -> [pc : {"idle", "board", "gone"}, value : Stat]]
    BY <2>1 DEF BoardInv, TypeOK, Quiescent, Stat
  <2> QED  BY <1>2, <2>2 DEF Tick, server, editing, BoardInv, TypeOK, InputsOpen, InputsApart
<1>3. ASSUME NEW p \in Polls, Lose(p) PROVE BoardInv' /\ (SubmittedOnce => SubmittedOnce')
  BY <1>3 DEF Lose, server, editing, BoardInv, TypeOK, InputsOpen, InputsApart, Quiescent, Stat
<1>4. ASSUME NEW p \in Polls, Receive(p) PROVE BoardInv' /\ (SubmittedOnce => SubmittedOnce')
  <2>1. hidden' \subseteq Filterable /\ member' \in Stat
    BY <1>4 DEF Receive, BoardInv, TypeOK
  <2>2. poll' \in [Polls -> [pc : {"idle", "board", "gone"}, value : Stat]]
    BY <1>4 DEF Receive, BoardInv, TypeOK, Quiescent, Stat
  <2> QED  BY <1>4, <2>1, <2>2, RenderKeeps DEF Receive, server, BoardInv, TypeOK
<1>5. ASSUME NEW p \in Polls, Leave(p) PROVE BoardInv' /\ (SubmittedOnce => SubmittedOnce')
  BY <1>5 DEF Leave, server, BoardInv, TypeOK, InputsOpen, InputsApart, Quiescent, Stat
<1>6. ASSUME NEW m \in Members, Click(m) PROVE BoardInv' /\ (SubmittedOnce => SubmittedOnce')
  <2> DEFINE new(e) == [edit |-> e, of |-> m, text |-> IF m = Subject THEN member ELSE 0, due |-> FALSE]
             old == {[i EXCEPT !.due = TRUE] : i \in inputs}
  <2>1. PICK e \in Edits : fate[e] = "unborn" /\ fate' = [fate EXCEPT ![e] = "open"] /\ inputs' = old \cup {new(e)}
    BY <1>6 DEF Click
  <2>2. new(e) \in Input /\ new(e).edit = e
    BY DEF Input, BoardInv, TypeOK, Stat
  <2>3. \A j \in old : j \in Input /\ \E i \in inputs : j = [i EXCEPT !.due = TRUE] /\ j.edit = i.edit
    <3> SUFFICES ASSUME NEW j \in old
                 PROVE  j \in Input /\ \E i \in inputs : j = [i EXCEPT !.due = TRUE] /\ j.edit = i.edit
      OBVIOUS
    <3>1. PICK i \in inputs : j = [i EXCEPT !.due = TRUE]
      OBVIOUS
    <3>2. i \in Input
      BY DEF BoardInv, TypeOK
    <3> HIDE DEF old
    <3> QED  BY <3>1, <3>2, InputChanges
  <2>4. \A j \in old : j.edit \in Edits /\ fate[j.edit] = "open" /\ j.edit # e
    <3> SUFFICES ASSUME NEW j \in old
                 PROVE  j.edit \in Edits /\ fate[j.edit] = "open" /\ j.edit # e
      OBVIOUS
    <3>1. PICK i \in inputs : j.edit = i.edit
      BY <2>3
    <3>2. i.edit \in Edits /\ fate[i.edit] = "open"
      BY DEF BoardInv, InputsOpen, TypeOK, Input
    <3> HIDE DEF old
    <3> QED  BY <2>1, <3>1, <3>2
  <2>5. inputs' \subseteq Input
    BY <2>1, <2>2, <2>3
  <2>6. InputsOpen'
    <3> HIDE DEF new, old
    <3> SUFFICES ASSUME NEW j \in inputs' PROVE fate'[j.edit] = "open"
      BY DEF InputsOpen
    <3>1. j \in old \/ j.edit = e
      BY <2>1, <2>2
    <3> QED  BY <2>1, <2>4, <3>1 DEF BoardInv, TypeOK
  <2>7. InputsApart'
    <3>1. \A j, k \in old : j.edit = k.edit => j = k
      BY <2>3 DEF BoardInv, InputsApart
    <3> HIDE DEF new, old
    <3> QED  BY <2>1, <2>2, <2>4, <3>1 DEF InputsApart
  <2> HIDE DEF new, old
  <2> QED  BY <1>6, <2>1, <2>5, <2>6, <2>7 DEF Click, server, BoardInv, TypeOK
<1>7. ASSUME NEW i \in inputs, Enter(i) PROVE BoardInv' /\ (SubmittedOnce => SubmittedOnce')
  <2>1. ghosts' \subseteq Input
    BY <1>7, VanishKeeps DEF Enter, BoardInv
  <2> QED  BY <1>7, <2>1, SaveOpen, CloseKeeps DEF Enter, server, BoardInv, TypeOK
<1>8. ASSUME NEW i \in inputs, Escape(i) PROVE BoardInv' /\ (SubmittedOnce => SubmittedOnce')
  <2>1. ghosts' \subseteq Input
    BY <1>8, VanishKeeps DEF Escape, BoardInv
  <2> QED  BY <1>8, <2>1, SaveOpen, CloseKeeps DEF Escape, server, BoardInv, TypeOK
<1>9. ASSUME NEW i \in inputs, BlurHandled(i) PROVE BoardInv' /\ (SubmittedOnce => SubmittedOnce')
  <2>1. ghosts' \subseteq Input
    BY <1>9 DEF BlurHandled, BoardInv, TypeOK
  <2> QED  BY <1>9, <2>1, SaveOpen, CloseKeeps DEF BlurHandled, server, BoardInv, TypeOK
<1>10. ASSUME NEW i \in inputs, NEW j \in Input, j.edit = i.edit, inputs' = (inputs \ {i}) \cup {j},
              UNCHANGED <<server, request, page, member, hidden, poll, ghosts, fate>>
       PROVE  BoardInv' /\ (SubmittedOnce => SubmittedOnce')
  <2>1. InputsOpen' /\ InputsApart'
    BY <1>10 DEF BoardInv, InputsOpen, InputsApart
  <2> QED  BY <1>10, <2>1 DEF server, BoardInv, TypeOK
<1>11. ASSUME NEW i \in inputs, Blur(i) PROVE BoardInv' /\ (SubmittedOnce => SubmittedOnce')
  <2>1. [i EXCEPT !.due = TRUE] \in Input /\ [i EXCEPT !.due = TRUE].edit = i.edit
    BY InputChanges DEF BoardInv, TypeOK, Stat
  <2> QED  BY <1>10, <1>11, <2>1 DEF Blur
<1>12. ASSUME NEW i \in inputs, NEW v \in Stat, Type(i, v) PROVE BoardInv' /\ (SubmittedOnce => SubmittedOnce')
  <2>1. [i EXCEPT !.text = v] \in Input /\ [i EXCEPT !.text = v].edit = i.edit
    BY InputChanges DEF BoardInv, TypeOK
  <2> QED  BY <1>10, <1>12, <2>1 DEF Type
<1>13. ASSUME NEW i \in ghosts, GhostBlurHandled(i) PROVE BoardInv' /\ (SubmittedOnce => SubmittedOnce')
  BY <1>13 DEF GhostBlurHandled, server, BoardInv, TypeOK, InputsOpen, InputsApart
<1>14. ASSUME NEW e \in Edits, Saved(e) PROVE BoardInv' /\ (SubmittedOnce => SubmittedOnce')
  <2>1. request' \in [Edits -> [pc : {"idle", "sent"}, value : Stat]] /\ spy' \in Stat
    BY <1>14 DEF Saved, BoardInv, TypeOK, Quiescent, Stat
  <2>2. hidden' \subseteq Filterable
    BY <1>14 DEF Saved, BoardInv, TypeOK
  <2>3. CASE page = "open"
    BY <1>14, <2>1, <2>2, <2>3, RenderKeeps DEF Saved, BoardInv, TypeOK
  <2>4. CASE page # "open"
    <3>1. UNCHANGED <<lobby, board, page, member, hidden, poll, inputs, ghosts, fate>>
      BY <1>14, <2>4 DEF Saved, editing
    <3>2. InputsOpen' /\ InputsApart'
      BY <3>1 DEF BoardInv, InputsOpen, InputsApart
    <3> QED  BY <2>1, <3>1, <3>2 DEF BoardInv, TypeOK
  <2> QED  BY <2>3, <2>4
<1>15. CASE TornPoll
  BY <1>15 DEF TornPoll, editing, BoardInv, TypeOK, InputsOpen, InputsApart
<1>16. CASE Terminate
  BY <1>16 DEF Terminate, editing, BoardInv, TypeOK, InputsOpen, InputsApart, Stat
<1>17. CASE UNCHANGED vars
  BY <1>17 DEF vars, server, editing, BoardInv, TypeOK, InputsOpen, InputsApart
<1> QED  BY <1>1, <1>2, <1>3, <1>4, <1>5, <1>6, <1>7, <1>8, <1>9, <1>11, <1>12, <1>13, <1>14, <1>15,
            <1>16, <1>17 DEF Next, EditStep

\* The board's state stays in its types, and an open input's edit is open.
THEOREM BoardInvariant == Spec => []BoardInv
<1>1. Init => BoardInv
  BY BoardInit
<1>2. BoardInv /\ [Next]_vars => BoardInv'
  BY BoardStep
<1> QED  BY <1>1, <1>2, PTL DEF Spec

\* The page, the polls and the edits keep their types, whatever the visitors do.
THEOREM BoardTypeCorrect == Spec => []TypeOK
BY BoardInvariant, PTL DEF BoardInv

\* No edit is submitted twice, or after it was given up, for any number of
\* cells, polls in flight and re-renders.
THEOREM SubmittedOnceAlways == Spec => []SubmittedOnce
<1>1. Init => SubmittedOnce
  BY DEF Init, SubmittedOnce
<1>2. BoardInv /\ SubmittedOnce /\ [Next]_vars => SubmittedOnce'
  BY BoardStep
<1> QED  BY <1>1, <1>2, BoardInvariant, PTL DEF Spec

-----------------------------------------------------------------------------

\* There are no more inputs than edits.
LEMMA InputsFinite == BoardInv => IsFiniteSet(inputs)
<1> SUFFICES ASSUME BoardInv PROVE IsFiniteSet(inputs)
  OBVIOUS
<1> DEFINE f == [i \in inputs |-> i.edit]
<1>1. f \in Injection(inputs, Edits)
  BY DEF Injection, IsInjective, BoardInv, TypeOK, InputsApart, Input
<1>2. IsFiniteSet(Edits)
  BY FS_Interval, DashboardAssumption DEF Edits
<1> HIDE DEF f
<1> QED  BY <1>1, <1>2, FS_Injection

LEMMA PairSize ==
    ASSUME NEW i, NEW k, i # k
    PROVE  Cardinality({i} \cup {k}) = 2
<1>1. IsFiniteSet({i}) /\ Cardinality({i}) = 1
  BY ONLY FS_Singleton
<1>2. Cardinality({i} \cup {k}) = IF k \in {i} THEN Cardinality({i}) ELSE Cardinality({i}) + 1
  BY ONLY <1>1, FS_AddElement
<1>3. k \notin {i}
  OBVIOUS
<1> QED  BY ONLY <1>1, <1>2, <1>3

LEMMA TwoInputs ==
    ASSUME BoardInv, NEW i \in inputs, NEW k \in inputs, i # k
    PROVE  Cardinality(inputs) > 1
<1>1. Cardinality({i} \cup {k}) = 2
  BY PairSize
<1>2. Cardinality(inputs) \in Nat
  BY InputsFinite, FS_CardinalityType
<1>3. Cardinality({i} \cup {k}) <= Cardinality(inputs)
  <2>1. {i} \cup {k} \subseteq inputs
    OBVIOUS
  <2> QED  BY <2>1, InputsFinite, FS_Subset
<1>4. 2 <= Cardinality(inputs)
  BY <1>1, <1>3, Zenon
<1> QED  BY ONLY <1>2, <1>4

\* A re-render loses an edit only with its row, or when another was open.
LEMMA RenderLoses ==
    ASSUME BoardInv, Render, NEW e \in Edits, fate'[e] = "lost", fate[e] = "open"
    PROVE  (\E i \in inputs : i.edit = e /\ i.of \notin Rows') \/ Cardinality(inputs) > 1
<1>1. PICK kept \in SUBSET inputs :
        /\ IF inputs = {} THEN kept = {} ELSE \E i \in inputs : kept = {i}
        /\ inputs' = {Restored(i) : i \in {k \in kept : k.of \notin hidden'}}
        /\ fate' = [d \in Edits |-> IF d \in {i.edit : i \in inputs} \ {j.edit : j \in inputs'}
                                     THEN "lost" ELSE fate[d]]
  BY DEF Render
<1>2. PICK i \in inputs : i.edit = e /\ e \notin {j.edit : j \in inputs'}
  BY <1>1
<1>3. PICK k \in inputs : kept = {k}
  BY <1>1, <1>2
<1>4. CASE k # i
  BY <1>4, TwoInputs
<1>5. CASE k = i
  <2>1. i.of \in hidden'
    <3> SUFFICES ASSUME i.of \notin hidden' PROVE FALSE
      OBVIOUS
    <3>1. Restored(i) \in inputs' /\ Restored(i).edit = e
      BY <1>1, <1>2, <1>3, <1>5, InputChanges DEF BoardInv, TypeOK, Stat
    <3> QED  BY <1>2, <3>1
  <2> QED  BY <1>2, <2>1 DEF Rows
<1> QED  BY <1>4, <1>5

\* Re-renders keep edits, for any number of them and whoever else is edited.
THEOREM EditKeptAlways == Spec => EditKept
<1> DEFINE Keeps == \A e \in Edits : fate'[e] = "lost" /\ fate[e] = "open" =>
                      \/ page' = "left"
                      \/ \E i \in inputs : i.edit = e /\ i.of \notin Rows'
                      \/ Cardinality(inputs) > 1
<1>1. BoardInv /\ [Next]_vars => [Keeps]_vars
  <2> SUFFICES ASSUME BoardInv, Next, NEW e \in Edits, fate'[e] = "lost", fate[e] = "open"
               PROVE  \/ page' = "left"
                      \/ \E i \in inputs : i.edit = e /\ i.of \notin Rows'
                      \/ Cardinality(inputs) > 1
    OBVIOUS
  <2>1. CASE Render
    BY <2>1, RenderLoses
  <2>2. CASE fate' = fate
    BY <2>2
  <2>3. ASSUME NEW p \in Polls, Leave(p) PROVE page' = "left"
    BY <2>3 DEF Leave
  <2>4. ASSUME NEW m \in Members, Click(m) PROVE FALSE
    BY <2>4 DEF Click, BoardInv, TypeOK
  <2>5. ASSUME NEW i \in inputs, SaveStat(i) \/ Cancel(i) PROVE FALSE
    <3>1. PICK f \in {"submitted", "given up"} : fate' = [fate EXCEPT ![i.edit] = f]
      BY <2>5, SaveOpen
    <3> QED  BY <3>1 DEF BoardInv, TypeOK
  <2> QED  BY <2>1, <2>2, <2>3, <2>4, <2>5
       DEF Next, EditStep, FilterOrSort, Tick, Lose, Receive, Enter, Escape, Blur, BlurHandled, Type,
           GhostBlurHandled, Saved, TornPoll, Terminate, editing
<1> QED  BY <1>1, BoardInvariant, PTL DEF Spec, EditKept

-----------------------------------------------------------------------------

\* The stable half of BoardConverges: the page shows what is stored, and so do
\* the cached board and every answer on its way.
Settled ==
    /\ Quiet /\ board = spy /\ member = spy
    /\ \A p \in Polls : /\ poll[p].pc # "gone"
                        /\ poll[p].pc = "board" => poll[p].value = spy

\* As long as nobody enters anything, what is settled stays so, whatever polls,
\* losses, filters and re-renders come.
THEOREM SettledStays == Spec => [][Settled /\ Quiet' => Settled']_vars
<1>1. BoardInv /\ [Next]_vars => [Settled /\ Quiet' => Settled']_vars
  <2> SUFFICES ASSUME BoardInv, Next, Settled, Quiet' PROVE Settled'
    OBVIOUS
  <2> USE DEF Settled, server, editing
  <2>0. /\ poll \in [Polls -> [pc : {"idle", "board", "gone"}, value : Stat]] /\ lobby
        /\ inputs = {} /\ \A e \in Edits : request[e].pc = "idle"
    BY DEF BoardInv, TypeOK, Quiet
  <2>1. CASE UNCHANGED <<server, member, poll>>
    BY <2>1
  <2>2. CASE Tick
    <3>1. PICK p \in Polls : poll' = [poll EXCEPT ![p] = [pc |-> "board", value |-> board]]
      BY <2>0, <2>2 DEF Tick
    <3> QED  BY <2>0, <2>2, <3>1 DEF Tick
  <2>3. ASSUME NEW p \in Polls, Lose(p) PROVE Settled'
    BY <2>0, <2>3 DEF Lose, Quiescent
  <2>4. ASSUME NEW p \in Polls, Receive(p) PROVE Settled'
    BY <2>0, <2>4 DEF Receive, Quiescent
  <2>5. ASSUME NEW p \in Polls, Leave(p) PROVE FALSE
    BY <2>5 DEF Leave
  <2>6. CASE TornPoll
    BY <2>0, <2>6 DEF TornPoll
  <2>7. CASE Terminate
    BY <2>7 DEF Terminate, Quiet
  <2>8. CASE EditStep
    BY <2>0, <2>1, <2>8 DEF EditStep, Click, GhostBlurHandled, Saved
  <2> QED  BY <2>1, <2>2, <2>3, <2>4, <2>5, <2>6, <2>7, <2>8 DEF Next, FilterOrSort
<1> QED  BY <1>1, BoardInvariant, PTL DEF Spec
=============================================================================

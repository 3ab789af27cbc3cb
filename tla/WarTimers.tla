------------------------------- MODULE WarTimers -------------------------------
(***************************************************************************)
(* The timer cell of one row of a war board: what renderTable puts there,   *)
(* what the tick of every second makes of it from the cell's attributes     *)
(* alone, and the number the table is sorted by.  Three pieces of code read *)
(* the same deadlines.  The target table of the userscript is a port of it. *)
(***************************************************************************)
EXTENDS Integers

CONSTANTS
    FlightTimes,    \* FLIGHT_TIMES: seconds by destination and ticket
    Second,         \* moments a second has; the server's times are whole seconds
    Statuses,       \* bound: statuses the server sends
    Horizon         \* bound: the last moment

Destinations == DOMAIN FlightTimes
Tickets == {"standard", "airstrip", "wlt", "bct"}
Planes == {"private_jet", "light_aircraft", "airliner", "unknown"}

Places == Destinations \cup {"none", "elsewhere"}    \* not sent, or without flight times
Never == -1                                          \* a time the server has not sent

Status == [state : {"Okay", "Hospital", "Jail", "Traveling", "Abroad"},
           until : Nat \cup {Never}, travel_started_at : Nat \cup {Never},
           destination : Places, plane_type : Planes]

ASSUME TimersAssumption ==
    /\ FlightTimes \in [Destinations -> [Tickets -> Nat \ {0}]]
    /\ \A d \in Destinations : FlightTimes[d]["bct"] <= FlightTimes[d]["standard"]
    /\ {"none", "elsewhere"} \cap Destinations = {}
    /\ Second \in Nat \ {0} /\ Statuses \subseteq Status /\ Horizon \in Nat

VARIABLES
    now,       \* the moment the cell was rendered or ticked last
    status,    \* the member's status in this.members
    cell       \* the cell's form and the moments in its data attributes

timerVars == <<now, status, cell>>

\* PLANE_TYPE_MAP: the fastest ticket a plane may stand for, and the slowest.
Fastest(plane) == CASE plane = "private_jet" -> "wlt" [] plane = "light_aircraft" -> "airstrip"
                    [] plane = "airliner" -> "bct" [] OTHER -> "standard"
Slowest(plane) == IF plane = "airliner" THEN "standard" ELSE Fastest(plane)

\* The destination is known and the departure was seen.
Timed(s) == s.state = "Traveling" /\ s.travel_started_at # Never /\ s.destination \in Destinations
FlightTime(s, ticket) == FlightTimes[s.destination][ticket]
FastEta(s) == s.travel_started_at + Second * FlightTime(s, Fastest(s.plane_type))
SlowEta(s) == s.travel_started_at + Second * FlightTime(s, Slowest(s.plane_type))

\* Less than a second is left.
RunOut(moment, at) == moment - at < Second

-----------------------------------------------------------------------------
(* What a cell looks like.                                                 *)

Blank == [form |-> "blank", fast |-> Never, slow |-> Never]
Text == [Blank EXCEPT !.form = "text"]
AboutToLand == [Blank EXCEPT !.form = "about to land"]
Countdown(until) == [form |-> "countdown", fast |-> until, slow |-> until]
Flight(eta) == [form |-> "flight", fast |-> eta, slow |-> eta]
DualFlight(fast, slow) == [form |-> "dual", fast |-> fast, slow |-> slow]

\* renderTravelTimer.
RenderTravelTimer(s, at) ==
    IF ~Timed(s) THEN Text
    ELSE IF RunOut(SlowEta(s), at) THEN AboutToLand
    ELSE IF s.plane_type = "airliner" THEN DualFlight(FastEta(s), SlowEta(s))
    ELSE Flight(SlowEta(s))

\* renderTimer.
RenderTimer(s, at) ==
    IF s.state = "Traveling" THEN RenderTravelTimer(s, at)
    ELSE IF s.state = "Abroad" THEN Text
    ELSE IF s.until = Never \/ RunOut(s.until, at) THEN Blank
    ELSE Countdown(s.until)

\* Mutant: a dual flight is about to land when its faster ticket would have landed.
TickedFast(c, at) ==
    CASE c.form = "countdown" /\ RunOut(c.fast, at) -> Blank
      [] c.form \in {"flight", "dual"} /\ RunOut(c.fast, at) -> AboutToLand
      [] OTHER -> c

\* tickTimers knows the cell's attributes only.
Ticked(c, at) ==
    CASE c.form = "countdown" /\ RunOut(c.fast, at) -> Blank
      [] c.form \in {"flight", "dual"} /\ RunOut(c.slow, at) -> AboutToLand
      [] OTHER -> c

\* The first number a cell reads; the faster half of a dual flight may have run out.
SecondsLeft(moment, at) == IF RunOut(moment, at) THEN 0 ELSE (moment - at) \div Second
ShownSeconds(c, at) == SecondsLeft(c.fast, at)

Positive(n) == IF n > 0 THEN n ELSE -1

\* getTimerSeconds rounds the time flown, the cell the time to fly.
TimerSeconds(s, at) ==
    IF s.state = "Traveling" /\ (s.travel_started_at = Never \/ s.destination = "none") THEN 999999
    ELSE IF Timed(s)
    THEN Positive(FlightTime(s, Fastest(s.plane_type)) - (at - s.travel_started_at) \div Second)
    ELSE IF s.until = Never THEN -1 ELSE Positive((s.until - at) \div Second)

-----------------------------------------------------------------------------

Home == [state |-> "Okay", until |-> Never, travel_started_at |-> Never,
         destination |-> "none", plane_type |-> "unknown"]

TimerTypeOK ==
    /\ now \in Nat /\ status \in Statuses \cup {Home}
    /\ cell \in [form : {"blank", "text", "about to land", "countdown", "flight", "dual"},
                 fast : Int, slow : Int]

TimerInit == now = 0 /\ status = Home /\ cell = Blank

\* An answer with the same or another status, at any time, or a filter or sort:
\* the cell is rendered anew.
RenderRow(s, at) ==
    /\ at >= now /\ now' = at
    /\ status' = s /\ cell' = RenderTimer(s, at)

\* Every second, or less often in a tab that is not on screen.
TickTimers(at) ==
    /\ at > now /\ now' = at
    /\ cell' = Ticked(cell, at) /\ UNCHANGED status

TimerNext == \E at \in now..Horizon : TickTimers(at) \/ \E s \in Statuses : RenderRow(s, at)

TimerSpec == TimerInit /\ [][TimerNext]_timerVars

-----------------------------------------------------------------------------

\* However long a cell was only ticked, by whatever steps, it is what a fresh
\* render would put there: tickTimers, which knows the attributes, and
\* renderTimer, which knows the member, agree on every deadline.
TickedAsRendered == cell = RenderTimer(status, now)

\* The table is sorted by what its cells read, to a second: getTimerSeconds
\* computes its number from other terms than the cell.
SortedByWhatIsShown ==
    cell.form \in {"countdown", "flight", "dual"} =>
        TimerSeconds(status, now) \in ShownSeconds(cell, now) - 1 .. ShownSeconds(cell, now) + 1
=============================================================================

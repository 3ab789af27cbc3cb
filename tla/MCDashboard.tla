----------------------------- MODULE MCDashboard -----------------------------
(***************************************************************************)
(* The board of WarDashboard and one of its timers (WarTimers), which share *)
(* no variable: it is enough to explore each while the other is as it       *)
(* started.  Flights take a few seconds of two moments each.                *)
(***************************************************************************)
EXTENDS WarDashboard, WarTimers

MCFlightTimes == [d \in {"Mexico"} |->
    [t \in Tickets |-> CASE t = "standard" -> 4 [] t = "airstrip" -> 3
                         [] t = "wlt" -> 2 [] t = "bct" -> 1]]

Known == [state : {"Okay", "Hospital", "Abroad"}, until : {Never, 4},
          travel_started_at : {Never}, destination : {"none"}, plane_type : {"unknown"}]
Flying == [state : {"Traveling"}, until : {Never}, travel_started_at : {Never, 0, 2},
           destination : {"Mexico", "none", "elsewhere"}, plane_type : Planes]
MCStatuses == Known \cup Flying

MCVars == <<vars, timerVars>>
TimerAtRest == now = 0 /\ status = Home /\ cell = Blank
BoardAtRest ==
    /\ lobby /\ page = "open" /\ hidden = {} /\ spy = 0 /\ board = 0 /\ member = 0
    /\ \A p \in Polls : poll[p].pc = "idle"
    /\ \A e \in Edits : fate[e] = "unborn"

MCInit == Init /\ TimerInit

MCSpec ==
    /\ MCInit
    /\ [][\/ Next /\ TimerAtRest /\ UNCHANGED timerVars
          \/ TimerNext /\ BoardAtRest /\ UNCHANGED vars]_MCVars
    /\ Fairness
=============================================================================

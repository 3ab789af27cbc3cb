----------------------------- MODULE WarDashboard -----------------------------
(***************************************************************************)
(* The live board of a public war lobby in one visitor's browser.  The page *)
(* polls the board every six seconds and replaces the table with each       *)
(* answer, while the visitor edits statistics in the table's cells; what is *)
(* saved goes to the lobby's spy statistics, which the next Torn poll of    *)
(* the server merges into the board.  One statistic, the subject's, is      *)
(* followed from the cell to the server and back; of the cells of the other *)
(* rows only the editing matters.                                           *)
(***************************************************************************)
EXTENDS Integers, FiniteSets

CONSTANTS
    Members,      \* rows of the board, one editable cell each
    Subject,      \* the member whose statistic is followed
    Values,       \* what visitors enter
    Filterable,   \* members the filters may hide
    MaxPolls,     \* bound: polls of the page in flight together
    MaxEdits      \* bound: cells the visitor clicks

ASSUME DashboardAssumption ==
    /\ Subject \in Members /\ Filterable \subseteq Members
    /\ Values \subseteq Nat \ {0} /\ IsFiniteSet(Values)
    /\ MaxPolls \in Nat \ {0} /\ MaxEdits \in Nat

VARIABLES
    lobby,      \* the lobby's row is there
    spy,        \* the subject's statistic with the lobby's spy statistics; 0 is none
    board,      \* ... on the cached board
    request,    \* the submission of each edit, PublicWarsController#stats
    page,       \* "left" once the page was told that the lobby is gone
    member,     \* the subject's statistic in this.members
    hidden,     \* members the filters hide
    inputs,     \* .stat-edit-input elements in the table
    ghosts,     \* elements out of the document whose blur is still to be handled
    poll,       \* fetchWarData calls in flight, with what they read
    fate        \* history: what became of each edit

server == <<lobby, spy, board>>
editing == <<inputs, ghosts, fate>>
vars == <<server, request, page, member, hidden, poll, editing>>

Stat == Values \cup {0}
Edits == 1..MaxEdits
Polls == 1..MaxPolls
Input == [edit : Edits, of : Members, text : Stat, due : BOOLEAN]
Quiescent == [pc |-> "idle", value |-> 0]
Rows == Members \ hidden

TypeOK ==
    /\ lobby \in BOOLEAN /\ page \in {"open", "left"}
    /\ spy \in Stat /\ board \in Stat /\ member \in Stat
    /\ hidden \subseteq Filterable
    /\ request \in [Edits -> [pc : {"idle", "sent"}, value : Stat]]
    /\ poll \in [Polls -> [pc : {"idle", "board", "gone"}, value : Stat]]
    /\ inputs \subseteq Input /\ ghosts \subseteq Input
    /\ fate \in [Edits -> {"unborn", "open", "lost", "submitted", "given up", "unwanted"}]

Init ==
    /\ lobby = TRUE /\ page = "open"
    /\ spy = 0 /\ board = 0 /\ member = 0 /\ hidden = {}
    /\ request = [e \in Edits |-> Quiescent] /\ poll = [p \in Polls |-> Quiescent]
    /\ inputs = {} /\ ghosts = {} /\ fate = [e \in Edits |-> "unborn"]

-----------------------------------------------------------------------------
(* renderTable.                                                            *)

\* An element that leaves the document loses the focus, so that its blur is
\* handled 100 ms later.
Vanish(gone) == ghosts' = ghosts \cup {[i EXCEPT !.due = TRUE] : i \in gone}

Restored(i) == [i EXCEPT !.due = FALSE]

\* Mutant: the open input is not restored.
RenderBare ==
    /\ Vanish(inputs) /\ inputs' = {}
    /\ fate' = [e \in Edits |-> IF e \in {i.edit : i \in inputs} THEN "lost" ELSE fate[e]]

\* The table is replaced.  One open input is captured before and restored
\* after, as a new element, if its row is still there.
Render ==
    /\ Vanish(inputs)
    /\ \E kept \in SUBSET inputs :
         /\ IF inputs = {} THEN kept = {} ELSE \E i \in inputs : kept = {i}
         /\ inputs' = {Restored(i) : i \in {k \in kept : k.of \notin hidden'}}
         /\ fate' = [e \in Edits |-> IF e \in {i.edit : i \in inputs} \ {j.edit : j \in inputs'}
                                      THEN "lost" ELSE fate[e]]

\* Mutant: filters hide whoever they like.
FilterAnyone ==
    /\ page = "open" /\ hidden' \in SUBSET Members /\ Render
    /\ UNCHANGED <<server, request, page, member, poll>>

\* The filter buttons and the slider; with the same filters, a sort.
FilterOrSort ==
    /\ page = "open" /\ hidden' \in SUBSET Filterable /\ Render
    /\ UNCHANGED <<server, request, page, member, poll>>

-----------------------------------------------------------------------------
(* fetchWarData and handleData.                                            *)

\* The interval fires and PublicWarsController#war_data reads the board.
\* find_lobby answers 410 for a lobby that is gone.
Tick ==
    /\ page = "open"
    /\ \E p \in Polls :
         /\ poll[p].pc = "idle" /\ \A q \in Polls : q < p => poll[q].pc # "idle"
         /\ poll' = [poll EXCEPT ![p] = IF lobby THEN [pc |-> "board", value |-> board]
                                        ELSE [Quiescent EXCEPT !.pc = "gone"]]
    /\ UNCHANGED <<server, request, page, member, hidden, editing>>

\* "Reconnecting..."
Lose(p) ==
    /\ poll[p].pc # "idle" /\ poll' = [poll EXCEPT ![p] = Quiescent]
    /\ UNCHANGED <<server, request, page, member, hidden, editing>>

\* Mutant: a value lower than the one on the page is taken for an old one.
ReceiveHigher(p) ==
    /\ page = "open" /\ poll[p].pc = "board"
    /\ poll' = [poll EXCEPT ![p] = Quiescent]
    /\ member' = (IF poll[p].value < member THEN member ELSE poll[p].value)
    /\ hidden' \in SUBSET Filterable /\ Render
    /\ UNCHANGED <<server, request, page>>

\* The answer replaces what the page has, however old the answer is, and the
\* filters are applied to the statuses it brings.
Receive(p) ==
    /\ page = "open" /\ poll[p].pc = "board"
    /\ poll' = [poll EXCEPT ![p] = Quiescent]
    /\ member' = poll[p].value /\ hidden' \in SUBSET Filterable /\ Render
    /\ UNCHANGED <<server, request, page>>

\* The visitor is sent to the terminated lobby's page.
Leave(p) ==
    /\ page = "open" /\ poll[p].pc = "gone"
    /\ page' = "left" /\ poll' = [q \in Polls |-> Quiescent]
    /\ inputs' = {} /\ ghosts' = {} /\ hidden' = {} /\ member' = 0
    /\ fate' = [e \in Edits |-> IF fate[e] = "open" THEN "lost" ELSE fate[e]]
    /\ UNCHANGED <<server, request>>

-----------------------------------------------------------------------------
(* Editing a statistic.                                                    *)

\* #handleStatClick on a cell without an input.  The new input takes the focus
\* from the one that had it.
Click(m) ==
    /\ page = "open" /\ m \in Rows /\ \A i \in inputs : i.of # m
    /\ \E e \in Edits :
         /\ fate[e] = "unborn" /\ \A d \in Edits : d < e => fate[d] # "unborn"
         /\ fate' = [fate EXCEPT ![e] = "open"]
         /\ inputs' = {[i EXCEPT !.due = TRUE] : i \in inputs}
              \cup {[edit |-> e, of |-> m, text |-> IF m = Subject THEN member ELSE 0, due |-> FALSE]}
    /\ UNCHANGED <<server, request, page, member, hidden, poll, ghosts>>

\* 0 stands for a text #parseStat makes nothing of.
Type(i, v) ==
    /\ page = "open" /\ ~i.due /\ i.text # v
    /\ inputs' = (inputs \ {i}) \cup {[i EXCEPT !.text = v]}
    /\ UNCHANGED <<server, request, page, member, hidden, poll, ghosts, fate>>

\* #cancelEdit empties the cell.
Cancel(i) ==
    /\ fate' = [fate EXCEPT ![i.edit] = "given up"]
    /\ UNCHANGED <<request, member>>

\* #saveStat, up to the request: the page's copy of the member is changed at once.
Submit(i) ==
    /\ fate' = [fate EXCEPT ![i.edit] = IF @ = "open" THEN "submitted" ELSE "unwanted"]
    /\ member' = IF i.of = Subject THEN i.text ELSE member
    /\ request' = [request EXCEPT ![i.edit] = [pc |-> "sent", value |-> IF i.of = Subject THEN i.text ELSE 0]]

SaveStat(i) == IF i.text = 0 THEN Cancel(i) ELSE Submit(i)

Close(i) == inputs' = inputs \ {i}

Enter(i) ==
    /\ page = "open" /\ ~i.due
    /\ SaveStat(i) /\ Close(i) /\ Vanish({i})
    /\ UNCHANGED <<server, page, hidden, poll>>

Escape(i) ==
    /\ page = "open" /\ ~i.due
    /\ Cancel(i) /\ Close(i) /\ Vanish({i})
    /\ UNCHANGED <<server, page, hidden, poll>>

\* A click elsewhere.
Blur(i) ==
    /\ page = "open" /\ ~i.due
    /\ inputs' = (inputs \ {i}) \cup {[i EXCEPT !.due = TRUE]}
    /\ UNCHANGED <<server, request, page, member, hidden, poll, ghosts, fate>>

\* The 100 ms are over: an input still in the document is saved, ...
BlurHandled(i) ==
    /\ page = "open" /\ i \in inputs /\ i.due
    /\ SaveStat(i) /\ Close(i) /\ UNCHANGED ghosts
    /\ UNCHANGED <<server, page, hidden, poll>>

\* Mutant: the blur of an element that left the document saves it.
GhostSaved(i) ==
    /\ page = "open" /\ i \in ghosts
    /\ SaveStat(i) /\ ghosts' = ghosts \ {i}
    /\ UNCHANGED <<server, page, hidden, poll, inputs>>

\* ... one that is not is left alone.
GhostBlurHandled(i) ==
    /\ page = "open" /\ i \in ghosts
    /\ ghosts' = ghosts \ {i}
    /\ UNCHANGED <<server, request, page, member, hidden, poll, inputs, fate>>

\* PublicWarsController#stats stores the value, unless the request is lost, and
\* #saveStat goes on with the answer or the error: it renders the table, whose
\* filters look at the statistics too.
Saved(e) ==
    /\ request[e].pc = "sent"
    /\ request' = [request EXCEPT ![e] = Quiescent]
    /\ spy' \in (IF lobby /\ request[e].value # 0 THEN {spy, request[e].value} ELSE {spy})
    /\ IF page = "open" THEN hidden' \in SUBSET Filterable /\ Render
                        ELSE UNCHANGED <<hidden, editing>>
    /\ UNCHANGED <<lobby, board, page, member, poll>>

-----------------------------------------------------------------------------
(* The server.                                                             *)

\* PublicWarPollingJob merges the statistics into the board.
TornPoll ==
    /\ lobby /\ board' = spy
    /\ UNCHANGED <<lobby, spy, request, page, member, hidden, poll, editing>>

\* PublicWarLobby#terminate!.
Terminate ==
    /\ lobby /\ lobby' = FALSE /\ board' = 0 /\ spy' = 0
    /\ UNCHANGED <<request, page, member, hidden, poll, editing>>

-----------------------------------------------------------------------------

EditStep ==
    \/ \E m \in Members : Click(m)
    \/ \E i \in inputs : Enter(i) \/ Escape(i) \/ Blur(i) \/ BlurHandled(i)
    \/ \E i \in inputs, v \in Stat : Type(i, v)
    \/ \E i \in ghosts : GhostBlurHandled(i)
    \/ \E e \in Edits : Saved(e)

Next ==
    \/ FilterOrSort \/ Tick \/ EditStep \/ TornPoll \/ Terminate
    \/ \E p \in Polls : Lose(p) \/ Receive(p) \/ Leave(p)

Spec == Init /\ [][Next]_vars

\* The timers fire, the lobby is polled, what was sent is handled, and the
\* network does not lose every poll.  The visitor may do nothing.
Fairness ==
    /\ WF_vars(Tick) /\ WF_vars(TornPoll)
    /\ \A p \in Polls : SF_vars(Receive(p) \/ Leave(p))
    /\ \A e \in Edits : WF_vars(Saved(e))

FairSpec == Spec /\ Fairness

-----------------------------------------------------------------------------

\* An edit is submitted at most once, and not at all after the visitor gave it
\* up, whichever of Enter, Escape, the blur of a vanishing element and the
\* restoration by a poll come together.
SubmittedOnce == \A e \in Edits : fate[e] # "unwanted"

\* A re-render does not take an edit away, unless its row is no longer in the
\* table or a second input was open.
EditKept ==
    [][\A e \in Edits : fate'[e] = "lost" /\ fate[e] = "open" =>
          \/ page' = "left"
          \/ \E i \in inputs : i.edit = e /\ i.of \notin Rows'
          \/ Cardinality(inputs) > 1]_vars

\* Once nobody enters anything, the page comes to show what is stored, and
\* answers that arrive out of order do not undo that for good.
Quiet == lobby /\ inputs = {} /\ \A e \in Edits : request[e].pc = "idle"
BoardConverges == <>[]Quiet => <>[](member = spy)
=============================================================================

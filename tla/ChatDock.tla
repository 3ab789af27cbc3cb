------------------------------- MODULE ChatDock -------------------------------
(***************************************************************************)
(* The dock of chat boxes on a page of Torn, for one room: the list of the *)
(* user's rooms it fetched, the rooms left open and the last message seen, *)
(* which localStorage keeps from page to page, and the dot that marks a    *)
(* room with unread messages.  One tab is open.                            *)
(***************************************************************************)
EXTENDS ChatBox

CONSTANTS
    MaxLists      \* bound: lists of rooms being fetched together

ASSUME DockAssumption == MaxLists \in Nat \ {0}

VARIABLES
    listed,       \* the room is in this.rooms
    flagged,      \* ... and its entry there says suspended
    open,         \* the room is in tm_chat_open
    hasKey,       \* tm_chat_keys holds the room's key
    agreed,       \* tm_chat_house_rules is set
    seen,         \* tm_chat_seen
    unread,       \* the room is in this.unread
    list,         \* requests for the list of rooms
    join,         \* the request to join the room
    peek,         \* the request pollUnread makes for a closed room
    met           \* history: ids that were on screen at some time, or were being
                  \* decrypted when their box was destroyed

stored == <<open, hasKey, agreed, seen>>
dock == <<listed, flagged, unread>>
calls == <<list, join, peek>>
vars == <<boxVars, stored, dock, calls, met>>

Lists == 1..MaxLists
NoList == [pc |-> "idle", mine |-> FALSE, flag |-> FALSE]
NoPeek == [pc |-> "idle", since |-> 0, news |-> FALSE]

TypeOK ==
    /\ BoxTypeOK
    /\ listed \in BOOLEAN /\ flagged \in BOOLEAN /\ open \in BOOLEAN
    /\ hasKey \in BOOLEAN /\ agreed \in BOOLEAN /\ unread \in BOOLEAN
    /\ seen \in 0..MaxMessages
    /\ list \in [Lists -> [pc : {"idle", "out", "back"}, mine : BOOLEAN, flag : BOOLEAN]]
    /\ join \in {"idle", "joined", "barred"}
    /\ peek \in [pc : {"idle", "out", "back"}, since : 0..MaxMessages, news : BOOLEAN]
    /\ met \subseteq Ids

Init ==
    /\ BoxInit
    /\ listed = FALSE /\ flagged = FALSE /\ open = FALSE
    /\ hasKey \in BOOLEAN /\ agreed = FALSE /\ seen = 0 /\ unread = FALSE
    /\ list = [l \in Lists |-> IF l = 1 THEN [NoList EXCEPT !.pc = "out"] ELSE NoList]
    /\ join = "idle" /\ peek = NoPeek
    /\ met = {}

-----------------------------------------------------------------------------
(* Opening, closing and marking as seen.                                   *)

\* What a box shows first (ChatBox#render).
FirstMode(flag) ==
    IF flag THEN "suspended"
    ELSE IF kind = "private" /\ ~hasKey' THEN "locked"
    ELSE IF kind = "public" /\ ~agreed THEN "rules" ELSE "talk"

\* Mutant: boxes are mounted but never destroyed.
SyncBoxesMountOnly ==
    IF listed' /\ open' /\ mode = "none" THEN Fresh(FirstMode(flagged'))
    ELSE UNCHANGED <<box, composer>>

\* syncBoxes, after the list or the open rooms changed: a box is destroyed
\* unless its room is listed and open, and mounted when it is and has none.
SyncBoxes ==
    IF listed' /\ open'
    THEN IF mode # "none" THEN UNCHANGED <<box, composer>>
         ELSE Fresh(FirstMode(flagged'))
    ELSE IF mode = "none" THEN UNCHANGED <<box, composer>>
         ELSE Destroyed

\* Messages whose decryption goes on for a box that is gone.
CutOff == met' = IF mode' = "none" THEN met \cup Decrypting ELSE met

AtLeast(a, b) == IF a > b THEN a ELSE b

\* Mutant: the message to come counts as seen.
MarkReadPast == unread' = FALSE /\ seen' = AtLeast(seen, last + 1)

\* Mutant: everything the room has counts as seen.
MarkReadAll == unread' = FALSE /\ seen' = AtLeast(seen, Len(log))

\* setUnread(room, false), which marks what the box has as seen.
MarkRead == unread' = FALSE /\ seen' = AtLeast(seen, last)

\* markOpen.  The box of a room that is closed is gone before anything of it
\* could be marked as seen.
MarkOpen(o) ==
    /\ open' = o
    /\ IF o THEN MarkRead ELSE UNCHANGED <<unread, seen>>
    /\ SyncBoxes /\ CutOff

\* A click in the menu or on Minimize.
Toggle ==
    /\ listed /\ UNCHANGED <<hasKey, listed, flagged>>
    /\ MarkOpen(~open)
    /\ UNCHANGED <<room, agreed, calls>>

AcceptRules ==
    /\ AgreedToRules
    /\ agreed' = TRUE
    /\ UNCHANGED <<room, open, hasKey, seen, dock, calls, met>>

-----------------------------------------------------------------------------
(* The list of rooms.                                                      *)

\* refresh, for the overlay's actions; the first of a page is in Load.
Refresh ==
    /\ \E l \in Lists : /\ list[l].pc = "idle"
                        /\ list' = [list EXCEPT ![l] = [NoList EXCEPT !.pc = "out"]]
    /\ UNCHANGED <<boxVars, stored, dock, join, peek, met>>

\* Api::ChatRoomsController#index: the rooms the user is a member of now.
ListRooms(l) ==
    /\ list[l].pc = "out"
    /\ list' = [list EXCEPT ![l] = [pc |-> "back", mine |-> member, flag |-> banned]]
    /\ UNCHANGED <<boxVars, stored, dock, join, peek, met>>

\* The answer replaces the list, however old it is.  A box keeps the room it
\* was made with.
ReceiveList(l) ==
    /\ list[l].pc = "back"
    /\ list' = [list EXCEPT ![l] = NoList]
    /\ listed' = list[l].mine /\ flagged' = (list[l].mine /\ list[l].flag)
    /\ UNCHANGED <<open, hasKey>> /\ SyncBoxes /\ CutOff
    /\ UNCHANGED <<room, agreed, seen, unread, join, peek>>

LoseList(l) ==
    /\ list[l].pc = "out"
    /\ list' = [list EXCEPT ![l] = NoList]
    /\ UNCHANGED <<boxVars, stored, dock, join, peek, met>>

-----------------------------------------------------------------------------
(* Joining and leaving.                                                    *)

\* An invite link, or a click on a public room.  join_room admits the user,
\* unless the room is full; a private room that gets a new member says so.
Join ==
    /\ join = "idle" /\ Len(log) < MaxMessages
    /\ log' = IF member \/ kind = "public" THEN log ELSE Posted(TRUE, 0)
    /\ member' = TRUE /\ join' = IF banned THEN "barred" ELSE "joined"
    /\ UNCHANGED <<kind, banned, box, composer, stored, dock, list, peek, met>>

\* handleInviteHash: the link's key is kept, if it has one, and the room opened
\* at once.
Joined ==
    /\ join # "idle" /\ join' = "idle"
    /\ hasKey' \in (IF kind = "private" THEN {hasKey, TRUE} ELSE {hasKey})
    /\ listed' = TRUE /\ flagged' = (join = "barred")
    /\ MarkOpen(TRUE)
    /\ UNCHANGED <<room, agreed, list, peek>>

\* Api::ChatRoomsController#leave, here or on another device; the list is
\* fetched anew here.
Leave ==
    /\ member /\ kind = "private" /\ Len(log) < MaxMessages
    /\ \E l \in Lists : /\ list[l].pc = "idle"
                        /\ list' = [list EXCEPT ![l] = [NoList EXCEPT !.pc = "out"]]
    /\ member' = FALSE /\ log' = Posted(TRUE, 0)
    /\ UNCHANGED <<kind, banned, box, composer, stored, dock, join, peek, met>>

-----------------------------------------------------------------------------
(* The unread dot.                                                         *)

\* pollUnread, every eight seconds.  An open room is marked as seen, without
\* its dot being put out; a closed one is asked for anything newer.
PollUnread ==
    /\ listed
    /\ \/ /\ open /\ seen' = AtLeast(seen, last) /\ UNCHANGED peek
       \/ /\ ~open /\ peek.pc = "idle" /\ UNCHANGED seen
          /\ peek' = [pc |-> "out", since |-> seen, news |-> FALSE]
    /\ UNCHANGED <<boxVars, open, hasKey, agreed, dock, list, join, met>>

AnswerPeek ==
    /\ peek.pc = "out"
    /\ peek' = IF member /\ ~banned
               THEN [pc |-> "back", since |-> peek.since, news |-> Len(log) > peek.since]
               ELSE NoPeek
    /\ UNCHANGED <<boxVars, stored, dock, list, join, met>>

LosePeek ==
    /\ peek.pc = "out" /\ peek' = NoPeek
    /\ UNCHANGED <<boxVars, stored, dock, list, join, met>>

\* The dot is lit even if the room has been opened since.
ReceivePeek ==
    /\ peek.pc = "back" /\ peek' = NoPeek
    /\ unread' = (unread \/ peek.news)
    /\ UNCHANGED <<boxVars, stored, listed, flagged, list, join, met>>

-----------------------------------------------------------------------------

\* The next page of Torn: everything but localStorage starts over.
Load ==
    /\ Destroyed /\ CutOff
    /\ listed' = FALSE /\ flagged' = FALSE /\ unread' = FALSE
    /\ list' = [l \in Lists |-> IF l = 1 THEN [NoList EXCEPT !.pc = "out"] ELSE NoList]
    /\ join' = "idle" /\ peek' = NoPeek
    /\ UNCHANGED <<room, stored>>

\* A step of the box; a refusal also marks the room's entry, if it is still the
\* one the box was made with.
BoxOnly ==
    /\ BoxStep
    /\ met' = met \cup Range(shown')
    /\ flagged' \in (IF \E p \in Polls : poll[p].pc = "refused" /\ poll'[p].pc = "idle"
                     THEN {flagged, listed} ELSE {flagged})
    /\ UNCHANGED <<stored, listed, unread, calls>>

Next ==
    \/ BoxOnly \/ Toggle \/ AcceptRules \/ Refresh \/ Join \/ Joined \/ Leave
    \/ PollUnread \/ AnswerPeek \/ LosePeek \/ ReceivePeek \/ Load
    \/ \E l \in Lists : ListRooms(l) \/ ReceiveList(l) \/ LoseList(l)

Spec == Init /\ [][Next]_vars

-----------------------------------------------------------------------------

\* There is a box exactly for a listed room that was left open: a list that
\* arrives late, a room joined meanwhile or one left elsewhere leave no box
\* without its room and no open room without its box.
BoxesFollowRooms == mode # "none" <=> listed /\ open

\* A message counts as seen only if it was on screen, or is being decrypted,
\* or its decryption was cut off with its box: what arrives while the room is
\* closed is never taken for read.
SeenWasRead == 1..seen \subseteq met \cup Decrypting
=============================================================================

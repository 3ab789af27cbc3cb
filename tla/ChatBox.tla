------------------------------- MODULE ChatBox -------------------------------
(***************************************************************************)
(* One room of the TornManager chat: the messages the server keeps of it   *)
(* and the box a browser shows them in.  The box polls every three seconds *)
(* whether or not its earlier polls were answered, reserves the ids of a   *)
(* page before it decrypts it, and appends the page when that is done.     *)
(***************************************************************************)
EXTENDS Integers, Sequences, FiniteSets, Functions

CONSTANTS
    PageLimit,      \* PAGE_LIMIT of Api::ChatMessagesController
    MaxMessages,    \* bound: messages the room ever gets
    MaxDrafts,      \* bound: texts the user types
    MaxPolls        \* bound: polls of the box in flight together

ASSUME ChatAssumption ==
    /\ PageLimit \in Nat \ {0} /\ MaxPolls \in Nat \ {0}
    /\ MaxMessages \in Nat /\ MaxDrafts \in Nat

VARIABLES
    kind,        \* "private" rooms are encrypted, "public" ones are not
    log,         \* the room's chat_messages; a message's id is its place
    member,      \* the user has a membership of the room
    banned,      \* the host has suspended the user from the room
    mode,        \* what the box shows; "none" when there is no box
    last,        \* lastMessageId
    shown,       \* ids of the rows in the box's list, from top to bottom
    batches,     \* pages being decrypted by appendMessages
    poll,        \* the box's polls in flight
    input,       \* the text in the composer, 0 when empty
    sends,       \* texts on their way to the server
    overtaken    \* history: a page was received while another was decrypted

room == <<kind, log, member, banned>>
box == <<mode, last, shown, batches, poll, overtaken>>
composer == <<input, sends>>
boxVars == <<room, box, composer>>

Polls == 1..MaxPolls
Drafts == 1..MaxDrafts
Ids == 1..MaxMessages
Message == [system : BOOLEAN, draft : 0..MaxDrafts]
Batch == [from : Ids, to : Ids]
IdlePoll == [pc |-> "idle", since |-> 0, upto |-> 0]

BoxTypeOK ==
    /\ kind \in {"private", "public"}
    /\ log \in Seq(Message) /\ Len(log) <= MaxMessages
    /\ member \in BOOLEAN /\ banned \in BOOLEAN
    /\ mode \in {"none", "rules", "locked", "suspended", "talk"}
    /\ last \in 0..MaxMessages
    /\ shown \in Seq(Ids)
    /\ batches \subseteq Batch
    /\ poll \in [Polls -> [pc : {"idle", "out", "page", "refused"},
                           since : 0..MaxMessages, upto : 0..MaxMessages]]
    /\ input \in 0..MaxDrafts
    /\ sends \in [Drafts -> {"none", "out", "orphan", "stored", "done"}]
    /\ overtaken \in BOOLEAN

BoxInit ==
    /\ kind \in {"private", "public"}
    /\ log = <<>> /\ member \in BOOLEAN /\ banned = FALSE
    /\ mode = "none" /\ last = 0 /\ shown = <<>> /\ batches = {}
    /\ poll = [p \in Polls |-> IdlePoll]
    /\ input = 0 /\ sends = [d \in Drafts |-> "none"]
    /\ overtaken = FALSE

-----------------------------------------------------------------------------
(* What becomes of a box.                                                  *)

Posted(system, draft) == Append(log, [system |-> system, draft |-> draft])

StartPoll(p) ==
    poll' = [poll EXCEPT ![p] = [pc |-> "out", since |-> last, upto |-> 0]]

PollNow == \E p \in Polls : /\ poll[p].pc = "idle"
                            /\ \A q \in Polls : q < p => poll[q].pc # "idle"
                            /\ StartPoll(p)

\* A new box starts from nothing; only a conversation begins to poll.
Fresh(m) ==
    /\ mode' = m /\ last' = 0 /\ shown' = <<>> /\ batches' = {}
    /\ poll' = [p \in Polls |->
          IF m = "talk" /\ p = 1 THEN [pc |-> "out", since |-> 0, upto |-> 0] ELSE IdlePoll]
    /\ input' = 0 /\ overtaken' = FALSE
    /\ sends' = [d \in Drafts |-> CASE sends[d] = "out" -> "orphan"
                                    [] sends[d] = "stored" -> "done"
                                    [] OTHER -> sends[d]]

\* A box is destroyed, its requests are not.  Answers still to come change nothing that is on screen.
Destroyed == Fresh("none")

\* "I agree" under the house rules: the conversation starts.
AgreedToRules == mode = "rules" /\ Fresh("talk")

-----------------------------------------------------------------------------
(* Polling.                                                                *)

\* The interval fires.  showSuspended and destroy are what clears it.
Tick ==
    /\ mode = "talk"
    /\ PollNow
    /\ UNCHANGED <<room, mode, last, shown, batches, overtaken, composer>>

PageEnd(since) == IF Len(log) > since + PageLimit THEN since + PageLimit ELSE Len(log)

\* Api::ChatMessagesController#index: a page of the messages after since, or a
\* refusal.  The box ignores a 404.
Answer(p) ==
    /\ poll[p].pc = "out"
    /\ poll' = [poll EXCEPT ![p] =
          IF ~member THEN IdlePoll
          ELSE IF banned THEN [pc |-> "refused", since |-> 0, upto |-> 0]
          ELSE [pc |-> "page", since |-> poll[p].since, upto |-> PageEnd(poll[p].since)]]
    /\ UNCHANGED <<room, mode, last, shown, batches, overtaken, composer>>

\* A lost poll is not repeated; the next one asks for the same page.
Lose(p) ==
    /\ poll[p].pc = "out"
    /\ poll' = [poll EXCEPT ![p] = IdlePoll]
    /\ UNCHANGED <<room, mode, last, shown, batches, overtaken, composer>>

Span(b) == b.from..b.to
Rows(b) == [i \in 1..(b.to - b.from + 1) |-> b.from + i - 1]

\* Mutant: decryption is awaited in public rooms as well.
SealedAlways(b) == \E i \in Span(b) : ~log[i].system

\* resolveBody has something to await: only members' messages are encrypted.
Sealed(b) == kind = "private" /\ \E i \in Span(b) : ~log[i].system

\* Mutant: the page is appended as it was asked for, without a look at lastMessageId.
ReceiveBlind(p) ==
    /\ poll[p].pc = "page" /\ poll' = [poll EXCEPT ![p] = IdlePoll]
    /\ overtaken' = (overtaken \/ batches # {})
    /\ IF poll[p].upto <= poll[p].since THEN UNCHANGED <<last, shown, batches>>
       ELSE LET b == [from |-> poll[p].since + 1, to |-> poll[p].upto] IN
            /\ last' = b.to
            /\ IF Sealed(b) THEN batches' = batches \cup {b} /\ UNCHANGED shown
               ELSE shown' = shown \o Rows(b) /\ UNCHANGED batches
    /\ UNCHANGED <<room, mode, composer>>

\* appendMessages, up to the first await.  It asks nothing about the box: a
\* page that arrives after showSuspended is appended under its notice.
Receive(p) ==
    /\ poll[p].pc = "page"
    /\ poll' = [poll EXCEPT ![p] = IdlePoll]
    /\ IF poll[p].upto <= last THEN UNCHANGED <<last, shown, batches, overtaken>>
       ELSE LET b == [from |-> last + 1, to |-> poll[p].upto] IN
            /\ last' = b.to
            /\ overtaken' = (overtaken \/ batches # {})
            /\ IF Sealed(b) THEN batches' = batches \cup {b} /\ UNCHANGED shown
               ELSE shown' = shown \o Rows(b) /\ UNCHANGED batches
    /\ UNCHANGED <<room, mode, composer>>

\* appendMessages, after the last of the page's messages is decrypted.
Render(b) ==
    /\ b \in batches
    /\ batches' = batches \ {b} /\ shown' = shown \o Rows(b)
    /\ UNCHANGED <<room, mode, last, poll, overtaken, composer>>

\* A 403: the conversation is replaced by the notice, with its composer, and
\* the interval is cleared.  Polls and decryption under way are not.
ShowSuspended(p) ==
    /\ poll[p].pc = "refused"
    /\ poll' = [poll EXCEPT ![p] = IdlePoll]
    /\ mode' = "suspended" /\ shown' = <<>> /\ input' = 0
    /\ UNCHANGED <<room, last, batches, overtaken, sends>>

-----------------------------------------------------------------------------
(* Writing.                                                                *)

\* The user types a text over whatever the composer holds.
Type(d) ==
    /\ mode = "talk" /\ sends[d] = "none" /\ input # d
    /\ input' = d
    /\ UNCHANGED <<room, box, sends>>

\* ChatBox#send: the composer is cleared before anything is awaited.
Send ==
    /\ mode = "talk" /\ input # 0
    /\ sends' = [sends EXCEPT ![input] = "out"] /\ input' = 0
    /\ UNCHANGED <<room, box>>

\* Api::ChatMessagesController#create, unless the user may not write there or
\* has written within the last second: then the box has a line that says so.
Store(d) ==
    /\ sends[d] \in {"out", "orphan"}
    /\ \/ /\ member /\ ~banned /\ Len(log) < MaxMessages
          /\ log' = Posted(FALSE, d)
          /\ sends' = [sends EXCEPT ![d] = IF @ = "out" THEN "stored" ELSE "done"]
       \/ log' = log /\ sends' = [sends EXCEPT ![d] = "done"]
    /\ UNCHANGED <<kind, member, banned, box, input>>

\* The answer makes the box poll for the new message.
SendAnswered(d) ==
    /\ sends[d] = "stored"
    /\ sends' = [sends EXCEPT ![d] = "done"]
    /\ PollNow
    /\ UNCHANGED <<room, mode, last, shown, batches, overtaken, input>>

-----------------------------------------------------------------------------
(* The others in the room, and its host.                                   *)

OthersPost(system) ==
    /\ Len(log) < MaxMessages /\ log' = Posted(system, 0)
    /\ system => kind = "private"
    /\ UNCHANGED <<kind, member, banned, box, composer>>

\* Api::ChatRoomsController#suspend and #unsuspend of this user.
HostSuspends ==
    /\ kind = "private" /\ member /\ Len(log) < MaxMessages
    /\ banned' = ~banned /\ log' = Posted(TRUE, 0)
    /\ UNCHANGED <<kind, member, box, composer>>

BoxStep ==
    \/ Tick \/ Send
    \/ \E p \in Polls : Answer(p) \/ Lose(p) \/ Receive(p) \/ ShowSuspended(p)
    \/ \E b \in batches : Render(b)
    \/ \E d \in Drafts : Type(d) \/ Store(d) \/ SendAnswered(d)
    \/ \E s \in BOOLEAN : OthersPost(s)
    \/ HostSuspends

-----------------------------------------------------------------------------

Decrypting == UNION {Span(b) : b \in batches}

\* However the polls of a box overlap and in whatever order they are answered,
\* a message is fetched into the conversation once: what is on screen or being
\* decrypted is exactly what the box believes to have, no id twice, none left
\* out.  Reserving ids before decryption (ChatBox#appendMessages) is for this.
RenderedOnce ==
    mode = "talk" => /\ IsInjective(shown)
                     /\ Range(shown) \cap Decrypting = {}
                     /\ Range(shown) \cup Decrypting = 1..last
                     /\ \A b, c \in batches : b # c => Span(b) \cap Span(c) = {}

\* The conversation reads in the order it was written, unless a page arrived
\* while an earlier one was still being decrypted, which only happens in a
\* private room.
ShownInOrder ==
    \/ \A i, j \in DOMAIN shown : i < j => shown[i] < shown[j]
    \/ overtaken /\ kind = "private"
=============================================================================

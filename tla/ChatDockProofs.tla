---------------------------- MODULE ChatDockProofs ----------------------------
(***************************************************************************)
(* Proofs about the chat box and the dock, for every page size, any number  *)
(* of messages, polls and texts.                                            *)
(***************************************************************************)
EXTENDS ChatDock, SequenceTheorems, TLAPS

Ascends(s) == \A i, j \in DOMAIN s : i < j => s[i] < s[j]

LEMMA EmptyList ==
    /\ <<>> \in Seq(Ids) /\ Range(<<>>) = {} /\ IsInjective(<<>>) /\ Ascends(<<>>)
BY DEF Range, IsInjective, Ascends

\* A batch's rows, as a list.
LEMMA RowsOfBatch ==
    ASSUME NEW b \in Batch
    PROVE  /\ Rows(b) \in Seq(Ids) /\ Len(Rows(b)) \in Nat
           /\ Len(Rows(b)) = IF b.from <= b.to THEN b.to - b.from + 1 ELSE 0
           /\ \A i \in 1..Len(Rows(b)) : Rows(b)[i] = b.from + i - 1
<1>1. /\ MaxMessages \in Nat /\ Ids = 1..MaxMessages
      /\ b.from \in 1..MaxMessages /\ b.to \in 1..MaxMessages
  BY ChatAssumption DEF Batch, Ids
<1> DEFINE n == IF b.from <= b.to THEN b.to - b.from + 1 ELSE 0
<1>2. n \in Nat /\ 1..(b.to - b.from + 1) = 1..n
  BY <1>1
<1>3. \A i \in 1..n : b.from + i - 1 \in Ids
  BY <1>1
<1>4. Rows(b) = [i \in 1..n |-> b.from + i - 1]
  BY <1>2 DEF Rows
<1> HIDE DEF n
<1>5. Rows(b) \in Seq(Ids) /\ Len(Rows(b)) = n
  BY <1>2, <1>3, <1>4
<1>6. \A i \in 1..n : Rows(b)[i] = b.from + i - 1
  BY <1>4
<1> QED  BY <1>2, <1>5, <1>6 DEF n

\* What a list becomes when a batch's rows are appended.
LEMMA AppendRows ==
    ASSUME NEW s \in Seq(Ids), NEW b \in Batch
    PROVE  /\ s \o Rows(b) \in Seq(Ids)
           /\ Range(s \o Rows(b)) = Range(s) \cup Span(b)
           /\ IsInjective(s) /\ Range(s) \cap Span(b) = {} => IsInjective(s \o Rows(b))
           /\ Ascends(s) /\ (\A i \in Range(s) : i < b.from) => Ascends(s \o Rows(b))
<1> DEFINE t == s \o Rows(b)
           m == Len(s)
           k == Len(Rows(b))
<1>1. /\ m \in Nat /\ k \in Nat /\ b.from \in Nat /\ b.to \in Nat
      /\ k = IF b.from <= b.to THEN b.to - b.from + 1 ELSE 0
      /\ \A i \in Ids : i \in Nat
  BY RowsOfBatch, ChatAssumption DEF Batch, Ids
<1>2. /\ t \in Seq(Ids) /\ Len(t) = m + k
      /\ \A i \in 1..(m + k) : t[i] = IF i <= m THEN s[i] ELSE Rows(b)[i - m]
  BY RowsOfBatch, ConcatProperties
<1>3. DOMAIN t = 1..(m + k) /\ DOMAIN s = 1..m
  BY <1>2
<1> HIDE DEF t
<1>9. \A i \in 1..(m + k) : t[i] \in Range(t)
  BY <1>3 DEF Range
<1>4. \A i \in 1..m : t[i] = s[i] /\ s[i] \in Range(s) /\ s[i] \in Nat
  <2> SUFFICES ASSUME NEW i \in 1..m
               PROVE t[i] = s[i] /\ s[i] \in Range(s) /\ s[i] \in Nat
    OBVIOUS
  <2>1. s[i] \in Ids
    BY ElementOfSeq
  <2>2. i \in 1..(m + k) /\ i <= m
    BY <1>1
  <2>3. s[i] \in Range(s)
    BY <1>3 DEF Range
  <2> QED  BY <1>1, <1>2, <2>1, <2>2, <2>3
<1>5. \A i \in m + 1..m + k : t[i] = b.from + (i - m) - 1
  <2> SUFFICES ASSUME NEW i \in m + 1..m + k PROVE t[i] = b.from + (i - m) - 1
    OBVIOUS
  <2>1. i - m \in 1..k /\ i \in 1..(m + k) /\ ~(i <= m)
    BY <1>1
  <2>2. Rows(b)[i - m] = b.from + (i - m) - 1
    BY <2>1, RowsOfBatch
  <2> QED  BY <1>2, <2>1, <2>2
<1> HIDE DEF m, k
<1>6. Range(t) = Range(s) \cup Span(b)
  <2>1. ASSUME NEW x \in Range(t) PROVE x \in Range(s) \cup Span(b)
    <3>1. PICK i \in 1..(m + k) : x = t[i]
      BY <1>3, <2>1 DEF Range
    <3>2. CASE i <= m
      <4>1. i \in 1..m
        BY <1>1, <3>1, <3>2
      <4> QED  BY <1>4, <3>1, <4>1
    <3>3. CASE i > m
      <4>1. i \in m + 1..m + k
        BY <1>1, <3>1, <3>3
      <4>2. t[i] = b.from + (i - m) - 1
        BY <1>5, <4>1
      <4> QED  BY <1>1, <3>1, <4>1, <4>2 DEF Span
    <3> QED  BY <1>1, <3>1, <3>2, <3>3
  <2>2. ASSUME NEW x \in Range(s) PROVE x \in Range(t)
    <3>1. PICK i \in 1..m : x = s[i]
      BY <1>3, <2>2 DEF Range
    <3>2. i \in 1..(m + k)
      BY <1>1
    <3>3. t[i] = x
      BY <1>4, <3>1
    <3> QED  BY <1>9, <3>2, <3>3
  <2>3. ASSUME NEW x \in Span(b) PROVE x \in Range(t)
    <3> DEFINE i == m + (x - b.from) + 1
    <3>1. i \in m + 1..m + k /\ i \in 1..(m + k)
      BY <1>1, <2>3 DEF Span
    <3>2. b.from + (i - m) - 1 = x
      BY <1>1, <2>3 DEF Span
    <3> HIDE DEF i
    <3>3. t[i] = x
      BY <1>5, <3>1, <3>2
    <3> QED  BY <1>9, <3>1, <3>3
  <2> QED  BY <2>1, <2>2, <2>3
<1>7. ASSUME IsInjective(s), Range(s) \cap Span(b) = {} PROVE IsInjective(t)
  <2> SUFFICES ASSUME NEW i \in 1..(m + k), NEW j \in 1..(m + k), t[i] = t[j] PROVE i = j
    BY <1>3 DEF IsInjective
  <2>1. CASE i <= m /\ j <= m
    <3>1. i \in 1..m /\ j \in 1..m
      BY <1>1, <2>1
    <3>2. s[i] = s[j]
      BY <1>4, <3>1
    <3> QED  BY <1>3, <1>7, <3>1, <3>2 DEF IsInjective
  <2>2. CASE i > m /\ j > m
    <3>1. i \in m + 1..m + k /\ j \in m + 1..m + k
      BY <1>1, <2>2
    <3>2. b.from + (i - m) - 1 = b.from + (j - m) - 1
      BY <1>5, <3>1
    <3> QED  BY <1>1, <3>1, <3>2
  <2>3. ASSUME NEW u \in 1..(m + k), NEW v \in 1..(m + k), u <= m, v > m, t[u] = t[v] PROVE FALSE
    <3>1. t[u] \in Range(s)
      <4>1. u \in 1..m
        BY <1>1, <2>3
      <4> QED  BY <1>4, <4>1
    <3>2. t[v] \in Span(b)
      <4>1. v \in m + 1..m + k
        BY <1>1, <2>3
      <4>2. t[v] = b.from + (v - m) - 1
        BY <1>5, <4>1
      <4>3. b.from + (v - m) - 1 \in b.from..b.to
        BY <1>1, <4>1
      <4> QED  BY <4>2, <4>3 DEF Span
    <3> QED  BY <1>7, <2>3, <3>1, <3>2
  <2> QED  BY <1>1, <2>1, <2>2, <2>3
<1>8. ASSUME Ascends(s), \A i \in Range(s) : i < b.from PROVE Ascends(t)
  <2> SUFFICES ASSUME NEW i \in 1..(m + k), NEW j \in 1..(m + k), i < j PROVE t[i] < t[j]
    BY <1>3 DEF Ascends
  <2>1. CASE j <= m
    <3>1. i \in 1..m /\ j \in 1..m
      BY <1>1, <2>1
    <3>2. s[i] < s[j]
      BY <1>3, <1>8, <3>1 DEF Ascends
    <3> QED  BY <1>4, <3>1, <3>2
  <2>2. CASE i > m
    <3>1. i \in m + 1..m + k /\ j \in m + 1..m + k
      BY <1>1, <2>2
    <3>2. t[i] = b.from + (i - m) - 1 /\ t[j] = b.from + (j - m) - 1
      BY <1>5, <3>1
    <3> QED  BY <1>1, <3>1, <3>2
  <2>3. CASE i <= m /\ j > m
    <3>0. i \in 1..m /\ j \in m + 1..m + k
      BY <1>1, <2>3
    <3>1. t[i] \in Range(s) /\ t[i] \in Nat
      BY <1>4, <3>0
    <3>2. t[j] = b.from + (j - m) - 1
      BY <1>5, <3>0
    <3>3. t[i] < b.from
      BY <1>8, <3>1
    <3> QED  BY <1>1, <3>0, <3>1, <3>2, <3>3
  <2> QED  BY <1>1, <2>1, <2>2, <2>3
<1> QED  BY <1>2, <1>6, <1>7, <1>8 DEF t

-----------------------------------------------------------------------------
(* Type correctness.                                                       *)

PollRec == [pc : {"idle", "out", "page", "refused"}, since : 0..MaxMessages, upto : 0..MaxMessages]

LEMMA PollTypes ==
    ASSUME NEW n \in 0..MaxMessages, NEW u \in 0..MaxMessages,
           NEW c \in {"idle", "out", "page", "refused"}
    PROVE  [pc |-> c, since |-> n, upto |-> u] \in PollRec
BY DEF PollRec

LEMMA PollsTyped ==
    /\ 0 \in 0..MaxMessages
    /\ IdlePoll \in PollRec
    /\ [pc |-> "out", since |-> 0, upto |-> 0] \in PollRec
    /\ [pc |-> "refused", since |-> 0, upto |-> 0] \in PollRec
<1>1. 0 \in 0..MaxMessages
  BY ChatAssumption
<1>2. \A c \in {"idle", "out", "page", "refused"} : [pc |-> c, since |-> 0, upto |-> 0] \in PollRec
  BY <1>1, PollTypes
<1> QED  BY <1>1, <1>2 DEF IdlePoll

LEMMA PolledIsTyped ==
    ASSUME BoxTypeOK, PollNow
    PROVE  poll' \in [Polls -> PollRec]
<1>1. PICK p \in Polls : StartPoll(p)
  BY DEF PollNow
<1>2. last \in 0..MaxMessages /\ poll \in [Polls -> PollRec]
  BY DEF BoxTypeOK, PollRec
<1>3. [pc |-> "out", since |-> last, upto |-> 0] \in PollRec
  BY <1>2, PollTypes, PollsTyped
<1> QED  BY <1>1, <1>2, <1>3 DEF StartPoll

LEMMA SpanInIds ==
    ASSUME NEW b \in Batch
    PROVE  Span(b) \subseteq Ids
BY ChatAssumption DEF Batch, Span, Ids

LEMMA FreshIsTyped ==
    ASSUME BoxTypeOK, UNCHANGED room,
           NEW m \in {"none", "rules", "locked", "suspended", "talk"}, Fresh(m)
    PROVE  BoxTypeOK'
<1>1. poll' \in [Polls -> PollRec]
  BY PollsTyped DEF Fresh
<1>2. shown' \in Seq(Ids) /\ batches' \subseteq Batch /\ 0 \in 0..MaxMessages /\ 0 \in 0..MaxDrafts
  BY EmptyList, ChatAssumption DEF Fresh
<1>3. sends' \in [Drafts -> {"none", "out", "orphan", "stored", "done"}]
  BY DEF Fresh, BoxTypeOK
<1>4. /\ mode' = m /\ last' = 0 /\ input' = 0 /\ overtaken' = FALSE
      /\ kind' = kind /\ log' = log /\ member' = member /\ banned' = banned
  BY DEF Fresh, room
<1> QED  BY <1>1, <1>2, <1>3, <1>4 DEF BoxTypeOK, PollRec

LEMMA ReceiveIsTyped ==
    ASSUME BoxTypeOK, NEW p \in Polls, Receive(p)
    PROVE  BoxTypeOK'
<1>1. poll' \in [Polls -> PollRec] /\ poll[p] \in PollRec
  BY PollsTyped DEF Receive, BoxTypeOK, PollRec
<1>2. UNCHANGED <<room, mode, composer>>
  BY DEF Receive
<1> DEFINE b == [from |-> last + 1, to |-> poll[p].upto]
<1>3. CASE poll[p].upto <= last
  BY <1>1, <1>2, <1>3 DEF Receive, BoxTypeOK, PollRec, room, composer
<1>4. CASE ~(poll[p].upto <= last)
  <2>1. b \in Batch /\ b.to \in 0..MaxMessages
    BY <1>1, <1>4, ChatAssumption DEF BoxTypeOK, Batch, Ids, PollRec
  <2>2. /\ last' = b.to /\ overtaken' = (overtaken \/ batches # {})
        /\ IF Sealed(b) THEN batches' = batches \cup {b} /\ UNCHANGED shown
           ELSE shown' = shown \o Rows(b) /\ UNCHANGED batches
    BY <1>4 DEF Receive
  <2> HIDE DEF b
  <2>3. shown' \in Seq(Ids) /\ batches' \subseteq Batch
    BY <2>1, <2>2, AppendRows DEF BoxTypeOK
  <2> QED  BY <1>1, <1>2, <2>1, <2>2, <2>3 DEF BoxTypeOK, PollRec, room, composer
<1> QED  BY <1>3, <1>4

LEMMA RenderIsTyped ==
    ASSUME BoxTypeOK, NEW b \in batches, Render(b)
    PROVE  BoxTypeOK'
<1>1. b \in Batch /\ shown \in Seq(Ids)
  BY DEF BoxTypeOK
<1>2. shown' \in Seq(Ids) /\ batches' \subseteq Batch
  BY <1>1, AppendRows DEF Render, BoxTypeOK
<1> QED  BY <1>2 DEF Render, BoxTypeOK, room, composer

LEMMA PostedIsTyped ==
    ASSUME BoxTypeOK, NEW s \in BOOLEAN, NEW d \in 0..MaxDrafts, Len(log) < MaxMessages
    PROVE  Posted(s, d) \in Seq(Message) /\ Len(Posted(s, d)) <= MaxMessages
<1>1. [system |-> s, draft |-> d] \in Message
  BY DEF Message
<1>2. log \in Seq(Message) /\ MaxMessages \in Nat
  BY ChatAssumption DEF BoxTypeOK
<1> QED  BY <1>1, <1>2, AppendProperties DEF Posted

LEMMA AnswerIsTyped ==
    ASSUME BoxTypeOK, NEW p \in Polls, Answer(p)
    PROVE  BoxTypeOK'
<1>1. poll[p].since \in 0..MaxMessages /\ Len(log) \in Nat /\ Len(log) <= MaxMessages
  BY DEF BoxTypeOK
<1>2. PageEnd(poll[p].since) \in 0..MaxMessages
  BY <1>1, ChatAssumption DEF PageEnd
<1>3. [pc |-> "page", since |-> poll[p].since, upto |-> PageEnd(poll[p].since)] \in PollRec
  BY <1>1, <1>2, PollTypes
<1>4. poll \in [Polls -> PollRec]
  BY DEF BoxTypeOK, PollRec
<1>5. poll' \in [Polls -> PollRec]
  BY <1>3, <1>4, PollsTyped DEF Answer
<1> QED  BY <1>5 DEF Answer, BoxTypeOK, PollRec, room, composer

LEMMA BoxStepIsTyped ==
    ASSUME BoxTypeOK, BoxStep
    PROVE  BoxTypeOK'
<1>1. CASE Tick
  BY <1>1, PolledIsTyped DEF Tick, BoxTypeOK, PollRec, room, composer
<1>2. CASE Send
  <2>1. sends' \in [Drafts -> {"none", "out", "orphan", "stored", "done"}]
    BY <1>2 DEF Send, BoxTypeOK
  <2>2. input' \in 0..MaxDrafts
    BY <1>2, ChatAssumption DEF Send
  <2> QED  BY <1>2, <2>1, <2>2 DEF Send, BoxTypeOK, room, box
<1>3. ASSUME NEW p \in Polls, Answer(p) PROVE BoxTypeOK'
  BY <1>3, AnswerIsTyped
<1>4. ASSUME NEW p \in Polls, Lose(p) PROVE BoxTypeOK'
  <2>1. poll' \in [Polls -> PollRec]
    BY <1>4, PollsTyped DEF Lose, BoxTypeOK, PollRec
  <2> QED  BY <1>4, <2>1 DEF Lose, BoxTypeOK, PollRec, room, composer
<1>5. ASSUME NEW p \in Polls, ShowSuspended(p) PROVE BoxTypeOK'
  <2>1. poll' \in [Polls -> PollRec]
    BY <1>5, PollsTyped DEF ShowSuspended, BoxTypeOK, PollRec
  <2> QED  BY <1>5, <2>1, EmptyList, ChatAssumption DEF ShowSuspended, BoxTypeOK, PollRec, room
<1>6. ASSUME NEW d \in Drafts, Type(d) PROVE BoxTypeOK'
  <2>1. d \in 0..MaxDrafts
    BY ChatAssumption DEF Drafts
  <2> QED  BY <1>6, <2>1 DEF Type, BoxTypeOK, room, box
<1>7. ASSUME NEW d \in Drafts, Store(d) PROVE BoxTypeOK'
  <2>1. log' \in Seq(Message) /\ Len(log') <= MaxMessages
    <3>1. CASE log' = log
      BY <3>1 DEF BoxTypeOK
    <3>2. CASE Len(log) < MaxMessages /\ log' = Posted(FALSE, d)
      <4>1. d \in 0..MaxDrafts
        BY ChatAssumption DEF Drafts
      <4> QED  BY <3>2, <4>1, PostedIsTyped
    <3> QED  BY <1>7, <3>1, <3>2 DEF Store
  <2>2. sends' \in [Drafts -> {"none", "out", "orphan", "stored", "done"}]
    BY <1>7 DEF Store, BoxTypeOK
  <2> QED  BY <1>7, <2>1, <2>2 DEF Store, BoxTypeOK, box
<1>8. ASSUME NEW d \in Drafts, SendAnswered(d) PROVE BoxTypeOK'
  BY <1>8, PolledIsTyped DEF SendAnswered, BoxTypeOK, PollRec, room
<1>9. ASSUME NEW s \in BOOLEAN, OthersPost(s) PROVE BoxTypeOK'
  BY <1>9, PostedIsTyped, ChatAssumption DEF OthersPost, BoxTypeOK, box, composer
<1>10. CASE HostSuspends
  <2>1. log' \in Seq(Message) /\ Len(log') <= MaxMessages
    <3>1. TRUE \in BOOLEAN /\ 0 \in 0..MaxDrafts
      BY ChatAssumption
    <3>2. Len(log) < MaxMessages /\ log' = Posted(TRUE, 0)
      BY <1>10 DEF HostSuspends
    <3>3. Posted(TRUE, 0) \in Seq(Message) /\ Len(Posted(TRUE, 0)) <= MaxMessages
      BY <3>1, <3>2, PostedIsTyped
    <3> QED  BY <3>2, <3>3
  <2>2. banned' \in BOOLEAN
    BY <1>10 DEF HostSuspends, BoxTypeOK
  <2> QED  BY <1>10, <2>1, <2>2 DEF HostSuspends, BoxTypeOK, box, composer
<1> QED
  BY <1>1, <1>2, <1>3, <1>4, <1>5, <1>6, <1>7, <1>8, <1>9, <1>10, ReceiveIsTyped, RenderIsTyped
     DEF BoxStep

-----------------------------------------------------------------------------
(* The dock: what its steps leave of the box.                              *)

Modes == {"none", "rules", "locked", "suspended", "talk"}

\* A step of the dock leaves the box alone, or replaces it by a fresh one or none.
Replaced == \E m \in Modes : Fresh(m)

LEMMA SyncKinds ==
    ASSUME SyncBoxes, NEW f \in BOOLEAN, flagged' = f
    PROVE  UNCHANGED <<box, composer>> \/ Replaced
<1>1. FirstMode(flagged') \in Modes
  BY DEF FirstMode, Modes
<1>2. "none" \in Modes
  BY DEF Modes
<1> QED  BY <1>1, <1>2 DEF SyncBoxes, Destroyed, Replaced

LEMMA StillTyped ==
    ASSUME BoxTypeOK, UNCHANGED room, UNCHANGED <<box, composer>> \/ Replaced
    PROVE  BoxTypeOK'
<1>1. CASE UNCHANGED <<box, composer>>
  BY <1>1 DEF BoxTypeOK, room, box, composer
<1>2. CASE Replaced
  BY <1>2, FreshIsTyped DEF Replaced, Modes
<1> QED  BY <1>1, <1>2

LEMMA DecryptingInIds ==
    ASSUME BoxTypeOK
    PROVE  Decrypting \subseteq Ids
BY SpanInIds DEF BoxTypeOK, Decrypting

LEMMA CutOffIsTyped ==
    ASSUME BoxTypeOK, met \subseteq Ids, CutOff
    PROVE  met' \subseteq Ids
BY DecryptingInIds DEF CutOff

LEMMA MarkedIsTyped ==
    ASSUME BoxTypeOK, seen \in 0..MaxMessages
    PROVE  AtLeast(seen, last) \in 0..MaxMessages
BY ChatAssumption DEF BoxTypeOK, AtLeast

LEMMA MarkOpenIsTyped ==
    ASSUME TypeOK, NEW o, MarkOpen(o), NEW f \in BOOLEAN, flagged' = f, UNCHANGED room
    PROVE  /\ BoxTypeOK' /\ unread' \in BOOLEAN
           /\ seen' \in 0..MaxMessages /\ met' \subseteq Ids
<1>1. BoxTypeOK'
  BY SyncKinds, StillTyped DEF MarkOpen, TypeOK
<1>2. met' \subseteq Ids
  BY CutOffIsTyped DEF MarkOpen, TypeOK
<1> QED  BY <1>1, <1>2, MarkedIsTyped DEF MarkOpen, MarkRead, TypeOK

ListRec == [pc : {"idle", "out", "back"}, mine : BOOLEAN, flag : BOOLEAN]
PeekRec == [pc : {"idle", "out", "back"}, since : 0..MaxMessages, news : BOOLEAN]

LEMMA CallsTyped ==
    /\ NoList \in ListRec /\ [NoList EXCEPT !.pc = "out"] \in ListRec
    /\ NoPeek \in PeekRec
<1>1. 0 \in 0..MaxMessages
  BY ChatAssumption
<1>2. NoList \in ListRec /\ [NoList EXCEPT !.pc = "out"] \in ListRec
  BY DEF NoList, ListRec
<1>3. NoPeek \in PeekRec
  BY <1>1 DEF NoPeek, PeekRec
<1> QED  BY <1>2, <1>3

LEMMA TypeInit == Init => TypeOK
<1> SUFFICES ASSUME Init PROVE TypeOK
  OBVIOUS
<1>1. 0 \in 0..MaxMessages /\ 0 \in 0..MaxDrafts /\ <<>> \in Seq(Message) /\ Len(<<>>) = 0
  BY ChatAssumption
<1>2. BoxTypeOK
  <2>1. shown \in Seq(Ids) /\ batches \subseteq Batch
    BY EmptyList DEF Init, BoxInit
  <2>2. poll \in [Polls -> PollRec]
    BY PollsTyped DEF Init, BoxInit
  <2>3. log \in Seq(Message) /\ Len(log) <= MaxMessages
    BY <1>1, ChatAssumption DEF Init, BoxInit
  <2>4. sends \in [Drafts -> {"none", "out", "orphan", "stored", "done"}]
    BY DEF Init, BoxInit
  <2> QED  BY <1>1, <2>1, <2>2, <2>3, <2>4 DEF Init, BoxInit, BoxTypeOK, PollRec
<1> QED  BY <1>1, <1>2, CallsTyped DEF Init, TypeOK, ListRec, PeekRec

LEMMA TypeStep == TypeOK /\ [Next]_vars => TypeOK'
<1> SUFFICES ASSUME TypeOK, [Next]_vars PROVE TypeOK'
  OBVIOUS
<1>1. CASE BoxOnly
  <2>1. BoxTypeOK'
    BY <1>1, BoxStepIsTyped DEF BoxOnly, TypeOK
  <2>2. met' \subseteq Ids
    <3>1. Range(shown') \subseteq Ids
      <4>1. shown' \in Seq(Ids)
        BY <2>1 DEF BoxTypeOK
      <4> QED  BY <4>1, RangeOfSeq
    <3> QED  BY <1>1, <3>1 DEF BoxOnly, TypeOK
  <2>3. flagged' \in BOOLEAN
    BY <1>1 DEF BoxOnly, TypeOK
  <2> QED  BY <1>1, <2>1, <2>2, <2>3 DEF BoxOnly, TypeOK, stored, calls
<1>2. CASE Toggle
  <2>1. flagged' = flagged /\ flagged \in BOOLEAN /\ UNCHANGED room
    BY <1>2 DEF Toggle, TypeOK
  <2>2. MarkOpen(~open)
    BY <1>2, Zenon DEF Toggle
  <2>3. open' \in BOOLEAN
    BY <2>2 DEF MarkOpen, TypeOK
  <2>4. BoxTypeOK' /\ unread' \in BOOLEAN /\ seen' \in 0..MaxMessages /\ met' \subseteq Ids
    BY <2>1, <2>2, MarkOpenIsTyped
  <2> QED  BY <1>2, <2>3, <2>4 DEF Toggle, TypeOK, calls
<1>3. CASE AcceptRules
  <2>1. BoxTypeOK'
    BY <1>3, StillTyped DEF AcceptRules, AgreedToRules, Replaced, Modes, TypeOK
  <2> QED  BY <1>3, <2>1 DEF AcceptRules, TypeOK, dock, calls
<1>4. CASE Refresh
  <2>1. BoxTypeOK'
    BY <1>4 DEF Refresh, boxVars, room, box, composer, TypeOK, BoxTypeOK
  <2>2. list' \in [Lists -> ListRec]
    BY <1>4, CallsTyped DEF Refresh, TypeOK, ListRec
  <2> QED  BY <1>4, <2>1, <2>2 DEF Refresh, TypeOK, stored, dock, ListRec
<1>5. CASE Join
  <2>1. log' \in Seq(Message) /\ Len(log') <= MaxMessages
    <3>1. TRUE \in BOOLEAN /\ 0 \in 0..MaxDrafts
      BY ChatAssumption
    <3>2. Posted(TRUE, 0) \in Seq(Message) /\ Len(Posted(TRUE, 0)) <= MaxMessages
      BY <1>5, <3>1, PostedIsTyped DEF Join, TypeOK
    <3> QED  BY <1>5, <3>2 DEF Join, TypeOK, BoxTypeOK
  <2>2. BoxTypeOK'
    BY <1>5, <2>1 DEF Join, box, composer, TypeOK, BoxTypeOK
  <2> QED  BY <1>5, <2>2 DEF Join, TypeOK, stored, dock
<1>6. CASE Joined
  <2>1. flagged' = (join = "barred") /\ MarkOpen(TRUE) /\ UNCHANGED room
    BY <1>6 DEF Joined
  <2>2. BoxTypeOK' /\ unread' \in BOOLEAN /\ seen' \in 0..MaxMessages /\ met' \subseteq Ids
    BY <2>1, MarkOpenIsTyped
  <2>3. open' \in BOOLEAN
    BY <2>1 DEF MarkOpen
  <2> QED  BY <1>6, <2>2, <2>3 DEF Joined, TypeOK
<1>7. CASE Leave
  <2>1. log' \in Seq(Message) /\ Len(log') <= MaxMessages
    <3>1. TRUE \in BOOLEAN /\ 0 \in 0..MaxDrafts
      BY ChatAssumption
    <3> QED  BY <1>7, <3>1, PostedIsTyped DEF Leave, TypeOK
  <2>2. BoxTypeOK'
    BY <1>7, <2>1 DEF Leave, box, composer, TypeOK, BoxTypeOK
  <2>3. list' \in [Lists -> ListRec]
    BY <1>7, CallsTyped DEF Leave, TypeOK, ListRec
  <2> QED  BY <1>7, <2>2, <2>3 DEF Leave, TypeOK, stored, dock, ListRec
<1>8. CASE PollUnread
  <2>1. BoxTypeOK' /\ seen' \in 0..MaxMessages
    BY <1>8, MarkedIsTyped DEF PollUnread, boxVars, room, box, composer, TypeOK, BoxTypeOK
  <2>2. peek' \in PeekRec
    <3>1. [pc |-> "out", since |-> seen, news |-> FALSE] \in PeekRec
      BY DEF TypeOK, PeekRec
    <3> QED  BY <1>8, <3>1 DEF PollUnread, TypeOK, PeekRec
  <2> QED  BY <1>8, <2>1, <2>2 DEF PollUnread, TypeOK, dock, PeekRec
<1>9. CASE AnswerPeek
  <2>1. BoxTypeOK'
    BY <1>9 DEF AnswerPeek, boxVars, room, box, composer, TypeOK, BoxTypeOK
  <2>2. peek' \in PeekRec
    <3>1. peek.since \in 0..MaxMessages /\ (Len(log) > peek.since) \in BOOLEAN
      BY DEF TypeOK
    <3>2. [pc |-> "back", since |-> peek.since, news |-> Len(log) > peek.since] \in PeekRec
      BY <3>1 DEF PeekRec
    <3> QED  BY <1>9, <3>2, CallsTyped DEF AnswerPeek
  <2> QED  BY <1>9, <2>1, <2>2 DEF AnswerPeek, TypeOK, stored, dock, PeekRec
<1>10. CASE LosePeek
  <2>1. BoxTypeOK'
    BY <1>10 DEF LosePeek, boxVars, room, box, composer, TypeOK, BoxTypeOK
  <2> QED  BY <1>10, <2>1, CallsTyped DEF LosePeek, TypeOK, stored, dock, PeekRec
<1>11. CASE ReceivePeek
  <2>1. BoxTypeOK'
    BY <1>11 DEF ReceivePeek, boxVars, room, box, composer, TypeOK, BoxTypeOK
  <2> QED  BY <1>11, <2>1, CallsTyped DEF ReceivePeek, TypeOK, stored, PeekRec
<1>12. CASE Load
  <2>1. BoxTypeOK'
    BY <1>12, StillTyped DEF Load, Destroyed, Replaced, Modes, TypeOK
  <2>2. met' \subseteq Ids
    BY <1>12, CutOffIsTyped DEF Load, TypeOK
  <2>3. list' \in [Lists -> ListRec]
    BY <1>12, CallsTyped DEF Load
  <2> QED  BY <1>12, <2>1, <2>2, <2>3, CallsTyped DEF Load, TypeOK, stored, ListRec, PeekRec
<1>13. ASSUME NEW l \in Lists, ListRooms(l) PROVE TypeOK'
  <2>1. BoxTypeOK'
    BY <1>13 DEF ListRooms, boxVars, room, box, composer, TypeOK, BoxTypeOK
  <2>2. list' \in [Lists -> ListRec]
    BY <1>13 DEF ListRooms, TypeOK, BoxTypeOK, ListRec
  <2> QED  BY <1>13, <2>1, <2>2 DEF ListRooms, TypeOK, stored, dock, ListRec
<1>14. ASSUME NEW l \in Lists, ReceiveList(l) PROVE TypeOK'
  <2>1. flagged' \in BOOLEAN /\ listed' \in BOOLEAN
    BY <1>14 DEF ReceiveList, TypeOK
  <2>2. BoxTypeOK'
    BY <1>14, <2>1, SyncKinds, StillTyped DEF ReceiveList, TypeOK
  <2>3. met' \subseteq Ids
    BY <1>14, CutOffIsTyped DEF ReceiveList, TypeOK
  <2>4. list' \in [Lists -> ListRec]
    BY <1>14, CallsTyped DEF ReceiveList, TypeOK, ListRec
  <2> QED  BY <1>14, <2>1, <2>2, <2>3, <2>4 DEF ReceiveList, TypeOK, ListRec
<1>15. ASSUME NEW l \in Lists, LoseList(l) PROVE TypeOK'
  <2>1. BoxTypeOK'
    BY <1>15 DEF LoseList, boxVars, room, box, composer, TypeOK, BoxTypeOK
  <2>2. list' \in [Lists -> ListRec]
    BY <1>15, CallsTyped DEF LoseList, TypeOK, ListRec
  <2> QED  BY <1>15, <2>1, <2>2 DEF LoseList, TypeOK, stored, dock, ListRec
<1>16. CASE UNCHANGED vars
  BY <1>16 DEF vars, boxVars, room, box, composer, stored, dock, calls, TypeOK, BoxTypeOK
<1> QED
  BY <1>1, <1>2, <1>3, <1>4, <1>5, <1>6, <1>7, <1>8, <1>9, <1>10, <1>11, <1>12, <1>13, <1>14,
     <1>15, <1>16 DEF Next

\* The variables of a page and of its boxes keep their types.
THEOREM TypeCorrect == Spec => []TypeOK
<1>1. Init => TypeOK
  BY TypeInit
<1>2. TypeOK /\ [Next]_vars => TypeOK'
  BY TypeStep
<1> QED  BY <1>1, <1>2, PTL DEF Spec

-----------------------------------------------------------------------------
(* The kinds of steps, as the conversation sees them.                      *)

Unmoved == UNCHANGED <<mode, last, shown, batches, overtaken>>

\* What a step of the box does to its conversation ...
BoxMove ==
    \/ Unmoved
    \/ \E p \in Polls : Receive(p) \/ ShowSuspended(p)
    \/ \E b \in batches : Render(b)

\* ... and what any step does.
BoxChange == BoxMove \/ Replaced

LEMMA BoxOnlyKinds ==
    ASSUME BoxStep
    PROVE  kind' = kind /\ BoxMove
<1>1. CASE Tick
  BY <1>1 DEF Tick, BoxMove, Unmoved, room
<1>2. CASE Send
  BY <1>2 DEF Send, BoxMove, Unmoved, room, box
<1>3. ASSUME NEW p \in Polls, Answer(p) \/ Lose(p) PROVE kind' = kind /\ BoxMove
  BY <1>3 DEF Answer, Lose, BoxMove, Unmoved, room
<1>4. ASSUME NEW p \in Polls, Receive(p) \/ ShowSuspended(p) PROVE kind' = kind /\ BoxMove
  <2>1. kind' = kind
    BY <1>4 DEF Receive, ShowSuspended, room
  <2> QED  BY <1>4, <2>1 DEF BoxMove
<1>5. ASSUME NEW b \in batches, Render(b) PROVE kind' = kind /\ BoxMove
  <2>1. kind' = kind
    BY <1>5 DEF Render, room
  <2> QED  BY <1>5, <2>1 DEF BoxMove
<1>6. ASSUME NEW d \in Drafts, Type(d) \/ Store(d) \/ SendAnswered(d) PROVE kind' = kind /\ BoxMove
  BY <1>6 DEF Type, Store, SendAnswered, BoxMove, Unmoved, room, box
<1>7. ASSUME NEW s \in BOOLEAN, OthersPost(s) PROVE kind' = kind /\ BoxMove
  BY <1>7 DEF OthersPost, BoxMove, Unmoved, box
<1>8. CASE HostSuspends
  BY <1>8 DEF HostSuspends, BoxMove, Unmoved, box
<1> QED  BY <1>1, <1>2, <1>3, <1>4, <1>5, <1>6, <1>7, <1>8 DEF BoxStep

LEMMA MarkOpenKinds ==
    ASSUME NEW o, MarkOpen(o), NEW f \in BOOLEAN, flagged' = f
    PROVE  BoxChange
BY SyncKinds DEF MarkOpen, BoxChange, BoxMove, Unmoved, box

LEMMA StepKinds ==
    ASSUME TypeOK, [Next]_vars
    PROVE  kind' = kind /\ BoxChange
<1>1. CASE BoxOnly
  BY <1>1, BoxOnlyKinds DEF BoxOnly, BoxChange
<1>2. CASE Toggle
  <2>1. flagged' = flagged /\ flagged \in BOOLEAN /\ kind' = kind
    BY <1>2 DEF Toggle, TypeOK, room
  <2>2. MarkOpen(~open)
    BY <1>2, Zenon DEF Toggle
  <2> QED  BY <2>1, <2>2, MarkOpenKinds
<1>3. CASE AcceptRules
  BY <1>3 DEF AcceptRules, AgreedToRules, BoxChange, BoxMove, Replaced, Modes, room
<1>4. CASE Joined
  <2>1. flagged' = (join = "barred") /\ MarkOpen(TRUE) /\ kind' = kind
    BY <1>4 DEF Joined, room
  <2> QED  BY <2>1, MarkOpenKinds
<1>5. CASE Load
  BY <1>5 DEF Load, Destroyed, BoxChange, BoxMove, Replaced, Modes, room
<1>6. ASSUME NEW l \in Lists, ReceiveList(l) PROVE kind' = kind /\ BoxChange
  <2>1. flagged' \in BOOLEAN /\ kind' = kind
    BY <1>6 DEF ReceiveList, TypeOK, room
  <2> QED  BY <1>6, <2>1, SyncKinds DEF ReceiveList, BoxChange, BoxMove, Unmoved, box
<1>7. CASE Refresh \/ PollUnread \/ AnswerPeek \/ LosePeek \/ ReceivePeek
  BY <1>7 DEF Refresh, PollUnread, AnswerPeek, LosePeek, ReceivePeek, boxVars, room, box,
              BoxChange, BoxMove, Unmoved
<1>8. CASE Join \/ Leave
  BY <1>8 DEF Join, Leave, box, BoxChange, BoxMove, Unmoved
<1>9. ASSUME NEW l \in Lists, ListRooms(l) \/ LoseList(l) PROVE kind' = kind /\ BoxChange
  BY <1>9 DEF ListRooms, LoseList, boxVars, room, box, BoxChange, BoxMove, Unmoved
<1>10. CASE UNCHANGED vars
  BY <1>10 DEF vars, boxVars, room, box, BoxChange, BoxMove, Unmoved
<1> QED
  BY <1>1, <1>2, <1>3, <1>4, <1>5, <1>6, <1>7, <1>8, <1>9, <1>10 DEF Next

-----------------------------------------------------------------------------
(* Every message once, in order.                                           *)

\* What a received page is when it has something new.
LEMMA NewPage ==
    ASSUME BoxTypeOK, NEW p \in Polls, Receive(p), ~(poll[p].upto <= last)
    PROVE  \E b \in Batch :
              /\ b.from = last + 1 /\ last < b.to /\ last \in Nat /\ b.to \in Nat
              /\ Span(b) = last + 1..b.to /\ 1..b.to = 1..last \cup Span(b)
              /\ last' = b.to /\ mode' = mode
              /\ overtaken' = (overtaken \/ batches # {})
              /\ IF Sealed(b) THEN batches' = batches \cup {b} /\ shown' = shown
                 ELSE shown' = shown \o Rows(b) /\ batches' = batches
<1> DEFINE b == [from |-> last + 1, to |-> poll[p].upto]
<1>1. poll[p].upto \in 0..MaxMessages /\ last \in 0..MaxMessages /\ MaxMessages \in Nat
  BY ChatAssumption DEF BoxTypeOK
<1>2. b \in Batch /\ b.from = last + 1 /\ last < b.to /\ last \in Nat /\ b.to \in Nat
  BY <1>1 DEF Batch, Ids
<1>3. Span(b) = last + 1..b.to /\ 1..b.to = 1..last \cup Span(b)
  BY <1>2 DEF Span
<1>4. /\ last' = b.to /\ overtaken' = (overtaken \/ batches # {})
      /\ IF Sealed(b) THEN batches' = batches \cup {b} /\ UNCHANGED shown
         ELSE shown' = shown \o Rows(b) /\ UNCHANGED batches
  BY DEF Receive
<1>5. mode' = mode
  BY DEF Receive
<1> HIDE DEF b
<1> QED  BY <1>2, <1>3, <1>4, <1>5

OldPage(p) == poll[p].upto <= last /\ Unmoved

LEMMA PageKinds ==
    ASSUME NEW p \in Polls, Receive(p)
    PROVE  OldPage(p) \/ ~(poll[p].upto <= last)
BY DEF Receive, OldPage, Unmoved

LEMMA DecryptingMore ==
    ASSUME NEW b, batches' = batches \cup {b}
    PROVE  Decrypting' = Decrypting \cup Span(b)
BY DEF Decrypting, Span

LEMMA DecryptingLess ==
    ASSUME NEW b \in batches, batches' = batches \ {b},
           \A x, y \in batches : x # y => Span(x) \cap Span(y) = {}
    PROVE  /\ Decrypting = Decrypting' \cup Span(b)
           /\ Decrypting' \cap Span(b) = {}
BY DEF Decrypting, Span

LEMMA RenderedOnceStep ==
    ASSUME TypeOK, RenderedOnce, BoxChange
    PROVE  RenderedOnce'
<1> USE DEF RenderedOnce
<1> SUFFICES ASSUME mode' = "talk"
             PROVE  /\ IsInjective(shown')
                    /\ Range(shown') \cap Decrypting' = {}
                    /\ Range(shown') \cup Decrypting' = 1..last'
                    /\ \A x, y \in batches' : x # y => Span(x) \cap Span(y) = {}
  BY DEF Span
<1>0. BoxTypeOK /\ shown \in Seq(Ids) /\ batches \subseteq Batch
  BY DEF TypeOK, BoxTypeOK
<1>1. CASE Unmoved
  BY <1>1 DEF Unmoved, Decrypting, Span
<1>2. CASE Replaced
  <2>1. shown' = <<>> /\ batches' = {} /\ last' = 0
    BY <1>2 DEF Replaced, Fresh
  <2>2. Decrypting' = {} /\ 1..last' = {}
    BY <2>1 DEF Decrypting
  <2> QED  BY <2>1, <2>2, EmptyList
<1>3. ASSUME NEW p \in Polls, Receive(p), ~(poll[p].upto <= last)
      PROVE  RenderedOnce'
  <2>1. PICK b \in Batch :
              /\ b.from = last + 1 /\ last < b.to /\ last \in Nat /\ b.to \in Nat
              /\ Span(b) = last + 1..b.to /\ 1..b.to = 1..last \cup Span(b)
              /\ last' = b.to /\ mode' = mode
              /\ overtaken' = (overtaken \/ batches # {})
              /\ IF Sealed(b) THEN batches' = batches \cup {b} /\ shown' = shown
                 ELSE shown' = shown \o Rows(b) /\ batches' = batches
    BY <1>0, <1>3, NewPage
  <2>2. Span(b) \cap 1..last = {}
    BY <2>1
  <2>3. CASE Sealed(b)
    <3>1. batches' = batches \cup {b} /\ shown' = shown
      BY <2>1, <2>3
    <3>2. Decrypting' = Decrypting \cup Span(b)
      BY <3>1, DecryptingMore
    <3>3. \A x \in batches : Span(x) \subseteq 1..last
      BY <2>1 DEF Decrypting
    <3>4. \A x, y \in batches' : x # y => Span(x) \cap Span(y) = {}
      BY <2>1, <2>2, <3>1, <3>3
    <3> QED  BY <2>1, <2>2, <3>1, <3>2, <3>4 DEF Span
  <2>4. CASE ~Sealed(b)
    <3>1. batches' = batches /\ shown' = shown \o Rows(b)
      BY <2>1, <2>4
    <3>2. Decrypting' = Decrypting
      BY <3>1 DEF Decrypting, Span
    <3>3. Range(shown) \cap Span(b) = {} /\ Decrypting \cap Span(b) = {}
      BY <2>1, <2>2
    <3>4. IsInjective(shown') /\ Range(shown') = Range(shown) \cup Span(b)
      BY <1>0, <2>1, <3>1, <3>3, AppendRows
    <3> QED  BY <2>1, <2>2, <3>1, <3>2, <3>3, <3>4 DEF Span
  <2> QED  BY <2>3, <2>4
<1>4. ASSUME NEW b \in batches, Render(b) PROVE RenderedOnce'
  <2>1. batches' = batches \ {b} /\ shown' = shown \o Rows(b) /\ mode' = mode /\ last' = last
    BY <1>4 DEF Render
  <2>2. Decrypting = Decrypting' \cup Span(b) /\ Decrypting' \cap Span(b) = {}
    BY <2>1, DecryptingLess
  <2>3. b \in Batch /\ Range(shown) \cap Span(b) = {}
    BY <1>0, <2>1, <2>2
  <2>4. IsInjective(shown') /\ Range(shown') = Range(shown) \cup Span(b)
    BY <1>0, <2>1, <2>3, AppendRows
  <2> QED  BY <2>1, <2>2, <2>3, <2>4 DEF Span
<1>5. ASSUME NEW p \in Polls, ShowSuspended(p) PROVE FALSE
  BY <1>5 DEF ShowSuspended
<1>6. ASSUME NEW p \in Polls, Receive(p), OldPage(p) PROVE RenderedOnce'
  BY <1>6 DEF OldPage, Unmoved, Decrypting, Span
<1> QED  BY <1>1, <1>2, <1>3, <1>4, <1>5, <1>6, PageKinds DEF BoxChange, BoxMove

\* In a public room a page is on screen as soon as it is received.  In a private
\* one, while no page overtook another, at most one is being decrypted, and it
\* comes after everything on screen.
InOrder ==
    /\ kind = "public" => batches = {} /\ ~overtaken
    /\ ~overtaken =>
          /\ Ascends(shown) /\ \A i \in Range(shown) : i <= last
          /\ \A b \in batches : /\ b.to <= last /\ batches = {b}
                                /\ \A i \in Range(shown) : i < b.from

LEMMA ShownIsNat ==
    ASSUME BoxTypeOK
    PROVE  last \in Nat /\ \A i \in Range(shown) : i \in Nat
<1>1. Range(shown) \subseteq Ids
  BY RangeOfSeq DEF BoxTypeOK
<1> QED  BY <1>1, ChatAssumption DEF BoxTypeOK, Ids

LEMMA InOrderStep ==
    ASSUME TypeOK, InOrder, kind' = kind, BoxChange
    PROVE  InOrder'
<1>0. BoxTypeOK /\ shown \in Seq(Ids) /\ batches \subseteq Batch
  BY DEF TypeOK, BoxTypeOK
<1>1. CASE Unmoved
  BY <1>1 DEF Unmoved, InOrder, Ascends
<1>2. CASE Replaced
  <2>1. shown' = <<>> /\ batches' = {} /\ overtaken' = FALSE
    BY <1>2 DEF Replaced, Fresh
  <2> QED  BY <2>1, EmptyList DEF InOrder
<1>3. ASSUME NEW p \in Polls, Receive(p), ~(poll[p].upto <= last)
      PROVE  InOrder'
  <2>1. PICK b \in Batch :
              /\ b.from = last + 1 /\ last < b.to /\ last \in Nat /\ b.to \in Nat
              /\ Span(b) = last + 1..b.to /\ 1..b.to = 1..last \cup Span(b)
              /\ last' = b.to /\ mode' = mode
              /\ overtaken' = (overtaken \/ batches # {})
              /\ IF Sealed(b) THEN batches' = batches \cup {b} /\ shown' = shown
                 ELSE shown' = shown \o Rows(b) /\ batches' = batches
    BY <1>0, <1>3, NewPage
  <2>2. kind' = "public" => batches' = {} /\ ~overtaken'
    BY <2>1 DEF InOrder, Sealed
  <2>3. ASSUME ~overtaken'
        PROVE  /\ Ascends(shown') /\ \A i \in Range(shown') : i <= last'
               /\ \A c \in batches' : /\ c.to <= last' /\ batches' = {c}
                                      /\ \A i \in Range(shown') : i < c.from
    <3>1. ~overtaken /\ batches = {}
      BY <2>1, <2>3
    <3>2. Ascends(shown) /\ \A i \in Range(shown) : i \in Nat /\ i <= last
      BY <1>0, <3>1, ShownIsNat DEF InOrder
    <3>3. \A i \in Range(shown) : i < b.from /\ i <= b.to
      BY <2>1, <3>2
    <3>4. CASE Sealed(b)
      <4>1. batches' = {b} /\ shown' = shown
        BY <2>1, <3>1, <3>4
      <4>2. b.to <= last'
        BY <2>1
      <4>3. Ascends(shown')
        BY <3>2, <4>1
      <4> QED  BY <2>1, <3>3, <4>1, <4>2, <4>3
    <3>5. CASE ~Sealed(b)
      <4>1. batches' = {} /\ shown' = shown \o Rows(b)
        BY <2>1, <3>1, <3>5
      <4>2. Ascends(shown') /\ Range(shown') = Range(shown) \cup Span(b)
        BY <1>0, <3>2, <3>3, <4>1, AppendRows
      <4>3. \A i \in Span(b) : i <= b.to
        BY <2>1
      <4> QED  BY <2>1, <3>3, <4>1, <4>2, <4>3
    <3> QED  BY <3>4, <3>5
  <2> QED  BY <2>2, <2>3 DEF InOrder, Ascends
<1>4. ASSUME NEW b \in batches, Render(b) PROVE InOrder'
  <2>1. /\ batches' = batches \ {b} /\ shown' = shown \o Rows(b)
        /\ overtaken' = overtaken /\ last' = last
    BY <1>4 DEF Render
  <2>2. kind' # "public"
    BY DEF InOrder
  <2>3. ASSUME ~overtaken'
        PROVE  /\ Ascends(shown') /\ \A i \in Range(shown') : i <= last'
               /\ \A c \in batches' : /\ c.to <= last' /\ batches' = {c}
                                      /\ \A i \in Range(shown') : i < c.from
    <3>1. /\ Ascends(shown) /\ b.to <= last /\ batches = {b}
          /\ \A i \in Range(shown) : i <= last /\ i < b.from
      BY <2>1, <2>3 DEF InOrder
    <3>2. b \in Batch
      BY <1>0
    <3>3. Ascends(shown') /\ Range(shown') = Range(shown) \cup Span(b)
      BY <1>0, <2>1, <3>1, <3>2, AppendRows
    <3>4. \A i \in Span(b) : i <= last
      <4>1. last \in Nat /\ b.to \in Nat
        BY <1>0, <3>2, ChatAssumption DEF BoxTypeOK, Batch, Ids
      <4> QED  BY <3>1, <4>1 DEF Span
    <3>5. batches' = {}
      BY <2>1, <3>1
    <3> QED  BY <2>1, <3>1, <3>3, <3>4, <3>5
  <2> QED  BY <2>2, <2>3 DEF InOrder, Ascends
<1>5. ASSUME NEW p \in Polls, ShowSuspended(p) PROVE InOrder'
  <2>1. shown' = <<>> /\ UNCHANGED <<last, batches, overtaken>>
    BY <1>5 DEF ShowSuspended
  <2> QED  BY <2>1, EmptyList DEF InOrder
<1>6. ASSUME NEW p \in Polls, Receive(p), OldPage(p) PROVE InOrder'
  BY <1>6 DEF OldPage, Unmoved, InOrder, Ascends
<1> QED  BY <1>1, <1>2, <1>3, <1>4, <1>5, <1>6, PageKinds DEF BoxChange, BoxMove

-----------------------------------------------------------------------------
(* A box that is not a conversation, or none at all, has nothing under way. *)

Still ==
    /\ batches = {} /\ \A p \in Polls : poll[p].pc = "idle"
    /\ \A d \in Drafts : sends[d] \notin {"out", "stored"}

AtRest == mode \in {"none", "rules", "locked"} => Still

LEMMA FreshIsStill ==
    ASSUME NEW m \in Modes, Fresh(m)
    PROVE  AtRest'
<1> SUFFICES ASSUME m # "talk" PROVE Still'
  BY DEF Fresh, AtRest
<1>1. batches' = {} /\ \A p \in Polls : poll'[p] = IdlePoll
  BY DEF Fresh
<1>2. \A d \in Drafts : sends'[d] \notin {"out", "stored"}
  <2> SUFFICES ASSUME NEW d \in Drafts PROVE sends'[d] \notin {"out", "stored"}
    OBVIOUS
  <2>1. sends'[d] = CASE sends[d] = "out" -> "orphan"
                      [] sends[d] = "stored" -> "done"
                      [] OTHER -> sends[d]
    BY DEF Fresh
  <2> QED  BY <2>1
<1> QED  BY <1>1, <1>2 DEF Still, IdlePoll

LEMMA BoxOnlyAtRest ==
    ASSUME BoxTypeOK, AtRest, BoxStep
    PROVE  AtRest' /\ (mode = "none" <=> mode' = "none")
<1>1. CASE mode \notin {"none", "rules", "locked"}
  <2>1. mode' \in {mode, "suspended"}
    <3>1. CASE Tick \/ Send
      BY <3>1 DEF Tick, Send, box
    <3>2. ASSUME NEW p \in Polls, Answer(p) \/ Lose(p) \/ Receive(p) \/ ShowSuspended(p)
          PROVE  mode' \in {mode, "suspended"}
      BY <3>2 DEF Answer, Lose, Receive, ShowSuspended
    <3>3. ASSUME NEW b \in batches, Render(b) PROVE mode' \in {mode, "suspended"}
      BY <3>3 DEF Render
    <3>4. ASSUME NEW d \in Drafts, Type(d) \/ Store(d) \/ SendAnswered(d)
          PROVE  mode' \in {mode, "suspended"}
      BY <3>4 DEF Type, Store, SendAnswered, box
    <3>5. ASSUME NEW s \in BOOLEAN, OthersPost(s) \/ HostSuspends PROVE mode' \in {mode, "suspended"}
      BY <3>5 DEF OthersPost, HostSuspends, box
    <3> QED  BY <3>1, <3>2, <3>3, <3>4, <3>5 DEF BoxStep
  <2> QED  BY <1>1, <2>1 DEF AtRest
<1>2. CASE mode \in {"none", "rules", "locked"}
  <2>1. Still
    BY <1>2 DEF AtRest
  <2>2. ~Tick /\ ~Send
    BY <1>2 DEF Tick, Send
  <2>3. \A p \in Polls : ~Answer(p) /\ ~Lose(p) /\ ~Receive(p) /\ ~ShowSuspended(p)
    BY <2>1 DEF Still, Answer, Lose, Receive, ShowSuspended
  <2>4. \A d \in Drafts : ~Type(d) /\ ~SendAnswered(d)
    BY <1>2, <2>1 DEF Still, Type, SendAnswered
  <2>5. batches = {}
    BY <2>1 DEF Still
  <2>6. ASSUME NEW d \in Drafts, Store(d) PROVE Still' /\ mode' = mode
    <3>1. sends[d] = "orphan" /\ UNCHANGED box
      BY <2>1, <2>6 DEF Still, Store
    <3>2. sends' = [sends EXCEPT ![d] = "done"]
      BY <2>6, <3>1 DEF Store
    <3>3. \A e \in Drafts : sends'[e] \notin {"out", "stored"}
      BY <2>1, <3>2 DEF Still, BoxTypeOK
    <3> QED  BY <2>1, <3>1, <3>3 DEF Still, box
  <2>7. ASSUME NEW s \in BOOLEAN, OthersPost(s) \/ HostSuspends PROVE Still' /\ mode' = mode
    BY <2>1, <2>7 DEF OthersPost, HostSuspends, box, composer, Still
  <2> QED  BY <2>2, <2>3, <2>4, <2>5, <2>6, <2>7 DEF BoxStep, AtRest
<1> QED  BY <1>1, <1>2

LEMMA UntouchedAtRest ==
    ASSUME AtRest, UNCHANGED <<box, composer>>
    PROVE  AtRest'
BY DEF AtRest, Still, box, composer

LEMMA SyncAtRest ==
    ASSUME AtRest, SyncBoxes, NEW f \in BOOLEAN, flagged' = f
    PROVE  AtRest'
BY SyncKinds, FreshIsStill, UntouchedAtRest DEF Replaced

LEMMA SyncFollows ==
    ASSUME SyncBoxes
    PROVE  BoxesFollowRooms'
<1>1. FirstMode(flagged') # "none"
  BY DEF FirstMode
<1> QED  BY <1>1 DEF SyncBoxes, Destroyed, Fresh, BoxesFollowRooms, box

LEMMA RoomsStep ==
    ASSUME TypeOK, AtRest, BoxesFollowRooms, [Next]_vars
    PROVE  AtRest' /\ BoxesFollowRooms'
<1>1. CASE BoxOnly
  <2>1. AtRest' /\ (mode = "none" <=> mode' = "none")
    BY <1>1, BoxOnlyAtRest DEF BoxOnly, TypeOK
  <2> QED  BY <1>1, <2>1 DEF BoxOnly, BoxesFollowRooms, stored
<1>2. CASE Toggle
  <2>1. flagged' = flagged /\ flagged \in BOOLEAN
    BY <1>2 DEF Toggle, TypeOK
  <2>2. MarkOpen(~open)
    BY <1>2, Zenon DEF Toggle
  <2> QED  BY <2>1, <2>2, SyncAtRest, SyncFollows DEF MarkOpen
<1>3. CASE AcceptRules
  <2>1. Fresh("talk") /\ mode = "rules" /\ UNCHANGED <<open, listed>>
    BY <1>3 DEF AcceptRules, AgreedToRules, dock
  <2>2. AtRest'
    BY <2>1, FreshIsStill DEF Modes
  <2>3. mode' = "talk"
    BY <2>1 DEF Fresh
  <2> QED  BY <2>1, <2>2, <2>3 DEF BoxesFollowRooms
<1>4. CASE Joined
  <2>1. flagged' = (join = "barred") /\ MarkOpen(TRUE)
    BY <1>4 DEF Joined
  <2> QED  BY <2>1, SyncAtRest, SyncFollows DEF MarkOpen
<1>5. CASE Load
  <2>1. Fresh("none") /\ listed' = FALSE
    BY <1>5 DEF Load, Destroyed
  <2>2. AtRest'
    BY <2>1, FreshIsStill DEF Modes
  <2>3. mode' = "none"
    BY <2>1 DEF Fresh
  <2> QED  BY <2>1, <2>2, <2>3 DEF BoxesFollowRooms
<1>6. ASSUME NEW l \in Lists, ReceiveList(l) PROVE AtRest' /\ BoxesFollowRooms'
  <2>1. flagged' \in BOOLEAN /\ SyncBoxes
    BY <1>6 DEF ReceiveList, TypeOK
  <2> QED  BY <2>1, SyncAtRest, SyncFollows
<1>7. CASE Refresh \/ PollUnread \/ AnswerPeek \/ LosePeek \/ ReceivePeek
  <2>1. UNCHANGED <<boxVars, open, listed>>
    BY <1>7 DEF Refresh, PollUnread, AnswerPeek, LosePeek, ReceivePeek, stored, dock
  <2> QED  BY <2>1, UntouchedAtRest DEF boxVars, box, BoxesFollowRooms
<1>8. CASE Join \/ Leave
  <2>1. UNCHANGED <<box, composer, open, listed>>
    BY <1>8 DEF Join, Leave, stored, dock
  <2> QED  BY <2>1, UntouchedAtRest DEF box, BoxesFollowRooms
<1>9. ASSUME NEW l \in Lists, ListRooms(l) \/ LoseList(l) PROVE AtRest' /\ BoxesFollowRooms'
  <2>1. UNCHANGED <<boxVars, open, listed>>
    BY <1>9 DEF ListRooms, LoseList, stored, dock
  <2> QED  BY <2>1, UntouchedAtRest DEF boxVars, box, BoxesFollowRooms
<1>10. CASE UNCHANGED vars
  BY <1>10, UntouchedAtRest DEF vars, boxVars, box, stored, dock, BoxesFollowRooms
<1> QED
  BY <1>1, <1>2, <1>3, <1>4, <1>5, <1>6, <1>7, <1>8, <1>9, <1>10 DEF Next

-----------------------------------------------------------------------------
(* What counts as seen.                                                    *)

\* Everything the box has fetched, and everything marked as seen, is known.
Known == met \cup Decrypting
AllKnown == 1..last \subseteq Known /\ 1..seen \subseteq Known

LEMMA CutOffKeeps ==
    ASSUME AtRest, SyncBoxes, CutOff
    PROVE  Known \subseteq Known' /\ last' \in {0, last}
<1>1. CASE UNCHANGED <<box, composer>>
  <2>1. Decrypting' = Decrypting /\ met \subseteq met' /\ last' = last
    BY <1>1 DEF box, Decrypting, Span, CutOff
  <2> QED  BY <2>1 DEF Known
<1>2. CASE mode = "none" /\ ~(UNCHANGED <<box, composer>>)
  <2>1. batches = {} /\ last' = 0
    BY <1>2 DEF SyncBoxes, Fresh, AtRest, Still
  <2>2. Decrypting = {} /\ met \subseteq met'
    BY <2>1 DEF Decrypting, CutOff
  <2> QED  BY <2>1, <2>2 DEF Known
<1>3. CASE mode # "none" /\ ~(UNCHANGED <<box, composer>>)
  <2>1. mode' = "none" /\ last' = 0
    BY <1>3 DEF SyncBoxes, Destroyed, Fresh
  <2> QED  BY <2>1 DEF Known, CutOff
<1> QED  BY <1>1, <1>2, <1>3

LEMMA KnownStays ==
    ASSUME BoxTypeOK, BoxMove, met' = met \cup Range(shown'), 1..last \subseteq Known
    PROVE  Known \subseteq Known' /\ 1..last' \subseteq Known'
<1>0. shown \in Seq(Ids) /\ batches \subseteq Batch
  BY DEF BoxTypeOK
<1>1. ASSUME UNCHANGED <<last, batches>> PROVE Known \subseteq Known' /\ 1..last' \subseteq Known'
  <2>1. Decrypting' = Decrypting
    BY <1>1 DEF Decrypting, Span
  <2> QED  BY <1>1, <2>1 DEF Known
<1>2. ASSUME NEW p \in Polls, Receive(p), ~(poll[p].upto <= last)
      PROVE  Known \subseteq Known' /\ 1..last' \subseteq Known'
  <2>1. PICK b \in Batch :
              /\ b.from = last + 1 /\ last < b.to /\ last \in Nat /\ b.to \in Nat
              /\ Span(b) = last + 1..b.to /\ 1..b.to = 1..last \cup Span(b)
              /\ last' = b.to /\ mode' = mode
              /\ overtaken' = (overtaken \/ batches # {})
              /\ IF Sealed(b) THEN batches' = batches \cup {b} /\ shown' = shown
                 ELSE shown' = shown \o Rows(b) /\ batches' = batches
    BY <1>2, NewPage
  <2>2. Decrypting \subseteq Decrypting' /\ Span(b) \subseteq Known'
    <3>1. CASE Sealed(b)
      <4>1. Decrypting' = Decrypting \cup Span(b)
        BY <2>1, <3>1, DecryptingMore
      <4> QED  BY <4>1 DEF Known
    <3>2. CASE ~Sealed(b)
      <4>1. Decrypting' = Decrypting
        BY <2>1, <3>2 DEF Decrypting, Span
      <4>2. Range(shown') = Range(shown) \cup Span(b)
        BY <1>0, <2>1, <3>2, AppendRows
      <4> QED  BY <4>1, <4>2 DEF Known
    <3> QED  BY <3>1, <3>2
  <2>3. Known \subseteq Known'
    BY <2>2 DEF Known
  <2> QED  BY <2>1, <2>2, <2>3
<1>3. ASSUME NEW b \in batches, Render(b)
      PROVE  Known \subseteq Known' /\ 1..last' \subseteq Known'
  <2>1. batches' = batches \ {b} /\ shown' = shown \o Rows(b) /\ last' = last
    BY <1>3 DEF Render
  <2>2. Range(shown') = Range(shown) \cup Span(b)
    BY <1>0, <2>1, AppendRows
  <2>3. Decrypting \subseteq Decrypting' \cup Span(b)
    BY <2>1 DEF Decrypting, Span
  <2>4. Known \subseteq Known'
    BY <2>2, <2>3 DEF Known
  <2> QED  BY <2>1, <2>4
<1>4. ASSUME NEW p \in Polls, ShowSuspended(p) PROVE UNCHANGED <<last, batches>>
  BY <1>4 DEF ShowSuspended
<1>5. ASSUME NEW p \in Polls, Receive(p), OldPage(p) PROVE UNCHANGED <<last, batches>>
  BY <1>5 DEF OldPage, Unmoved
<1>6. ASSUME Unmoved PROVE UNCHANGED <<last, batches>>
  BY <1>6 DEF Unmoved
<1> QED  BY <1>1, <1>2, <1>3, <1>4, <1>5, <1>6, PageKinds DEF BoxMove

LEMMA MarkReadKnown ==
    ASSUME AllKnown, last \in Nat, seen \in Nat, seen' \in {seen, AtLeast(seen, last)}
    PROVE  1..seen' \subseteq Known
BY DEF AllKnown, AtLeast

LEMMA AllKnownStep ==
    ASSUME TypeOK, AtRest, AllKnown, [Next]_vars
    PROVE  AllKnown'
<1>0. BoxTypeOK /\ last \in Nat /\ seen \in Nat
  BY ChatAssumption DEF TypeOK, BoxTypeOK
<1>1. CASE BoxOnly
  <2>1. BoxMove /\ met' = met \cup Range(shown') /\ seen' = seen
    BY <1>1, BoxOnlyKinds DEF BoxOnly, stored
  <2> QED  BY <1>0, <2>1, KnownStays DEF AllKnown
<1>2. ASSUME SyncBoxes, CutOff, seen' \in {seen, AtLeast(seen, last)} PROVE AllKnown'
  <2>1. Known \subseteq Known' /\ last' \in {0, last}
    BY <1>2, CutOffKeeps
  <2>2. 1..seen' \subseteq Known
    BY <1>0, <1>2, MarkReadKnown
  <2>3. 1..last' \subseteq Known
    BY <1>0, <2>1 DEF AllKnown
  <2> QED  BY <2>1, <2>2, <2>3 DEF AllKnown
<1>3. CASE Toggle
  <2>1. MarkOpen(~open)
    BY <1>3, Zenon DEF Toggle
  <2> QED  BY <1>2, <2>1 DEF MarkOpen, MarkRead
<1>4. CASE Joined
  BY <1>2, <1>4 DEF Joined, MarkOpen, MarkRead
<1>5. ASSUME NEW l \in Lists, ReceiveList(l) PROVE AllKnown'
  BY <1>2, <1>5 DEF ReceiveList
<1>6. CASE AcceptRules
  <2>1. Fresh("talk") /\ batches = {} /\ met' = met /\ seen' = seen
    BY <1>6 DEF AcceptRules, AgreedToRules, AtRest, Still
  <2>2. batches' = {} /\ last' = 0
    BY <2>1 DEF Fresh
  <2>3. Known' = Known
    BY <2>1, <2>2 DEF Known, Decrypting
  <2> QED  BY <2>1, <2>2, <2>3 DEF AllKnown
<1>7. CASE Load
  <2>1. Fresh("none") /\ CutOff /\ seen' = seen
    BY <1>7 DEF Load, Destroyed, stored
  <2>2. mode' = "none" /\ last' = 0
    BY <2>1 DEF Fresh
  <2>3. Known \subseteq Known'
    BY <2>1, <2>2 DEF Known, CutOff
  <2> QED  BY <2>1, <2>2, <2>3 DEF AllKnown
<1>8. ASSUME UNCHANGED <<box, met>>, seen' \in {seen, AtLeast(seen, last)} PROVE AllKnown'
  <2>1. Known' = Known /\ last' = last
    BY <1>8 DEF box, Known, Decrypting, Span
  <2>2. 1..seen' \subseteq Known
    BY <1>0, <1>8, MarkReadKnown
  <2> QED  BY <2>1, <2>2 DEF AllKnown
<1>9. CASE Refresh \/ PollUnread \/ AnswerPeek \/ LosePeek \/ ReceivePeek
  BY <1>8, <1>9 DEF Refresh, PollUnread, AnswerPeek, LosePeek, ReceivePeek, boxVars, stored
<1>10. CASE Join \/ Leave
  BY <1>8, <1>10 DEF Join, Leave, stored
<1>11. ASSUME NEW l \in Lists, ListRooms(l) \/ LoseList(l) PROVE AllKnown'
  BY <1>8, <1>11 DEF ListRooms, LoseList, boxVars, stored
<1>12. CASE UNCHANGED vars
  BY <1>8, <1>12 DEF vars, boxVars, stored
<1> QED
  BY <1>1, <1>3, <1>4, <1>5, <1>6, <1>7, <1>9, <1>10, <1>11, <1>12 DEF Next

-----------------------------------------------------------------------------
(* The invariant, and what follows from it.                                *)

DockInv ==
    /\ TypeOK /\ AtRest /\ BoxesFollowRooms
    /\ RenderedOnce /\ InOrder /\ AllKnown

LEMMA InvStart == Init => DockInv
<1> SUFFICES ASSUME Init PROVE DockInv
  OBVIOUS
<1>1. /\ shown = <<>> /\ batches = {} /\ last = 0 /\ seen = 0 /\ mode = "none"
      /\ listed = FALSE /\ overtaken = FALSE
      /\ \A p \in Polls : poll[p].pc = "idle"
      /\ \A d \in Drafts : sends[d] = "none"
  BY DEF Init, BoxInit, IdlePoll
<1>2. AtRest
  BY <1>1 DEF AtRest, Still
<1>6. BoxesFollowRooms /\ mode # "talk"
  BY <1>1 DEF BoxesFollowRooms
<1>3. InOrder
  BY <1>1, EmptyList DEF InOrder
<1>4. 1..0 = {}
  OBVIOUS
<1>5. AllKnown
  BY <1>1, <1>4 DEF AllKnown
<1> QED  BY <1>2, <1>3, <1>5, <1>6, TypeInit DEF DockInv, RenderedOnce

LEMMA InvStep == DockInv /\ [Next]_vars => DockInv'
<1> SUFFICES ASSUME DockInv, [Next]_vars PROVE DockInv'
  OBVIOUS
<1>1. TypeOK /\ AtRest /\ BoxesFollowRooms /\ RenderedOnce /\ InOrder /\ AllKnown
  BY DEF DockInv
<1>2. kind' = kind /\ BoxChange
  BY <1>1, StepKinds
<1> QED
  BY <1>1, <1>2, TypeStep, RoomsStep, RenderedOnceStep, InOrderStep, AllKnownStep DEF DockInv

LEMMA InvHolds == Spec => []DockInv
<1>1. Init => DockInv
  BY InvStart
<1>2. DockInv /\ [Next]_vars => DockInv'
  BY InvStep
<1> QED  BY <1>1, <1>2, PTL DEF Spec

\* Whatever polls overlap and in whatever order they are answered, a message
\* comes into the conversation once and none is left out.
THEOREM RenderedOnceAlways == Spec => []RenderedOnce
<1>1. DockInv => RenderedOnce
  BY DEF DockInv
<1> QED  BY <1>1, InvHolds, PTL

\* The conversation reads in the order it was written, unless a page was
\* received while another was being decrypted, in a private room.
THEOREM ShownInOrderAlways == Spec => []ShownInOrder
<1>1. DockInv => ShownInOrder
  BY DEF DockInv, TypeOK, BoxTypeOK, InOrder, Ascends, ShownInOrder
<1> QED  BY <1>1, InvHolds, PTL

\* There is a box exactly for a listed room that is open.
THEOREM BoxesFollowRoomsAlways == Spec => []BoxesFollowRooms
<1>1. DockInv => BoxesFollowRooms
  BY DEF DockInv
<1> QED  BY <1>1, InvHolds, PTL

\* Nothing counts as seen that no box had.
THEOREM SeenWasReadAlways == Spec => []SeenWasRead
<1>1. DockInv => SeenWasRead
  BY DEF DockInv, AllKnown, Known, SeenWasRead
<1> QED  BY <1>1, InvHolds, PTL
=============================================================================

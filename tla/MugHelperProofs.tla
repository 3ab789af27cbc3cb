---------------------------- MODULE MugHelperProofs ----------------------------
(***************************************************************************)
(* Proofs about the whole of mugging: the walk through the log (MugLogs)    *)
(* stores an exact result for every page size, page limit and log; and the  *)
(* window next to it (MugHelper) keeps its prices, its list and its buttons *)
(* in order.                                                                *)
(***************************************************************************)
EXTENDS MugHelper, SequenceTheorems, WellFoundedInduction, TLAPS

-----------------------------------------------------------------------------
(* The walk through the log.                                               *)

USE MugLogsAssumption

\* Later mugs are not earlier.
InTimeOrder == \A i, j \in DOMAIN logs : i <= j => logs[i] <= logs[j]

\* What a walk has not seen of its range is not after the moment it asks for.
WalkCovers ==
    \A w \in Walks : walk[w].pc = "asking" =>
        /\ walk[w].begun <= Len(logs) /\ walk[w].seen \subseteq DOMAIN logs
        /\ \A i \in 1..walk[w].begun :
               logs[i] <= walk[w].end => i \in walk[w].seen \/ logs[i] <= walk[w].to

LogsInv ==
    /\ LogsTypeOK /\ InTimeOrder /\ WalkCovers
    /\ result.begun <= Len(logs) /\ FetchedExactly

LEMMA LogsStart == LogsInit => LogsInv
<1> SUFFICES ASSUME LogsInit PROVE LogsInv
  OBVIOUS
<1>1. logs \in Seq(Moments) /\ Len(logs) = 0
  BY DEF LogsInit
<1>2. NoWalk \in Walk /\ NoResult \in Result
  BY DEF NoWalk, Walk, NoResult, Result, Moments, Mugs
<1> QED
  BY <1>1, <1>2 DEF LogsInit, LogsInv, LogsTypeOK, InTimeOrder, WalkCovers, FetchedExactly,
                    NoWalk, NoResult, Moments

-----------------------------------------------------------------------------
(* Pages.                                                                  *)

\* The n oldest mugs and the page that ends with them.
PageOf(n) == {i \in 1..n : i > n - PageLimit}

\* The oldest moment of a page is that of its first mug.
LEMMA OldestIsFirst ==
    ASSUME LogsInv, NEW n \in 1..Len(logs)
    PROVE  /\ Oldest(PageOf(n)) \in Moments
           /\ \A i \in 1..n : i \notin PageOf(n) => logs[i] <= Oldest(PageOf(n))
<1> DEFINE first == IF n <= PageLimit THEN 1 ELSE n - PageLimit + 1
           moments == {logs[i] : i \in PageOf(n)}
<1>0. logs \in Seq(Moments) /\ DOMAIN logs = 1..Len(logs) /\ Len(logs) \in Nat
  BY DEF LogsInv, LogsTypeOK
<1>1. first \in PageOf(n) /\ \A i \in PageOf(n) : first <= i /\ i \in DOMAIN logs
  BY <1>0 DEF PageOf
<1>2. \A i \in DOMAIN logs : logs[i] \in Moments /\ logs[i] \in Int
  BY <1>0 DEF Moments
<1>3. logs[first] \in moments /\ \A m \in moments : logs[first] <= m /\ m \in Int
  BY <1>1, <1>2 DEF LogsInv, InTimeOrder
<1>4. Oldest(PageOf(n)) = logs[first]
  <2>1. Oldest(PageOf(n)) = CHOOSE x \in moments : \A y \in moments : x <= y
    BY DEF Oldest, Min
  <2>2. \A x \in moments : (\A y \in moments : x <= y) => x = logs[first]
    <3>1. logs[first] \in Int
      BY <1>1, <1>2
    <3> HIDE DEF moments, first
    <3> QED  BY <1>3, <3>1
  <2> HIDE DEF moments
  <2> QED  BY <1>3, <2>1, <2>2
<1>5. \A i \in 1..n : i \notin PageOf(n) => i <= first /\ i \in DOMAIN logs
  BY <1>0 DEF PageOf
<1> HIDE DEF first, moments
<1> QED  BY <1>1, <1>2, <1>4, <1>5 DEF LogsInv, InTimeOrder

-----------------------------------------------------------------------------
(* Steps.                                                                  *)

LEMMA MugKeeps ==
    ASSUME LogsInv, NEW t \in Moments, Mug(t)
    PROVE  LogsInv'
<1>1. logs \in Seq(Moments) /\ Len(logs) \in Nat /\ DOMAIN logs = 1..Len(logs)
  BY DEF LogsInv, LogsTypeOK
<1>2. /\ logs' \in Seq(Moments) /\ Len(logs') = Len(logs) + 1 /\ Len(logs') <= MaxMugs
      /\ \A i \in DOMAIN logs : logs'[i] = logs[i]
      /\ logs'[Len(logs) + 1] = t /\ DOMAIN logs' = 1..(Len(logs) + 1)
  BY <1>1 DEF Mug
<1>3. LogsTypeOK'
  BY <1>2 DEF Mug, LogsInv, LogsTypeOK
<1>4. InTimeOrder'
  <2> SUFFICES ASSUME NEW i \in DOMAIN logs', NEW j \in DOMAIN logs', i <= j
               PROVE  logs'[i] <= logs'[j]
    BY DEF InTimeOrder
  <2>1. CASE j \in DOMAIN logs
    BY <1>1, <1>2, <2>1 DEF LogsInv, InTimeOrder
  <2>2. CASE j = Len(logs) + 1 /\ i \in DOMAIN logs
    BY <1>2, <2>2 DEF Mug
  <2>3. CASE j = Len(logs) + 1 /\ i = Len(logs) + 1
    BY <1>2, <2>3 DEF Moments
  <2> QED  BY <1>1, <1>2, <2>1, <2>2, <2>3
<1>5. WalkCovers'
  <2> SUFFICES ASSUME NEW w \in Walks, walk[w].pc = "asking"
               PROVE  /\ walk[w].begun <= Len(logs') /\ walk[w].seen \subseteq DOMAIN logs'
                      /\ \A i \in 1..walk[w].begun :
                            logs'[i] <= walk[w].end => i \in walk[w].seen \/ logs'[i] <= walk[w].to
    BY DEF WalkCovers, Mug
  <2>1. walk[w].begun \in Nat
    BY DEF LogsInv, LogsTypeOK, Walk
  <2> QED  BY <1>1, <1>2, <2>1 DEF LogsInv, WalkCovers
<1>6. (result.begun <= Len(logs) /\ FetchedExactly)'
  <2>1. result.begun \in Nat /\ result.begun <= Len(logs) /\ result' = result
    BY DEF LogsInv, LogsTypeOK, Result, Mug
  <2>2. Between(DOMAIN logs, result.start, result.end) \subseteq Between(DOMAIN logs, result.start, result.end)'
    BY <1>1, <1>2, <2>1 DEF Between
  <2>3. 1..result.begun \subseteq DOMAIN logs
    BY <1>1, <2>1
  <2> QED  BY <1>1, <1>2, <2>1, <2>2, <2>3 DEF LogsInv, FetchedExactly
<1> QED  BY <1>3, <1>4, <1>5, <1>6 DEF LogsInv

LEMMA RunFetchKeeps ==
    ASSUME LogsInv, NEW w \in Walks, NEW s \in Moments, NEW e \in Moments, RunFetch(w, s, e)
    PROVE  LogsInv'
<1> DEFINE new == [pc |-> "asking", start |-> s, end |-> e, to |-> e, page |-> 1,
                   begun |-> Len(logs), seen |-> {}]
<1>1. walk' = [walk EXCEPT ![w] = new]
  BY DEF RunFetch
<1>2. new \in Walk
  BY DEF LogsInv, LogsTypeOK, Walk
<1>3. LogsTypeOK'
  BY <1>1, <1>2 DEF RunFetch, LogsInv, LogsTypeOK
<1>4. WalkCovers'
  <2>1. \A v \in Walks : walk'[v] = IF v = w THEN new ELSE walk[v]
    BY <1>1 DEF LogsInv, LogsTypeOK
  <2>2. logs' = logs /\ Len(logs) \in Nat
    BY DEF RunFetch, LogsInv, LogsTypeOK
  <2> QED  BY <2>1, <2>2 DEF LogsInv, WalkCovers
<1> QED  BY <1>3, <1>4 DEF RunFetch, LogsInv, InTimeOrder, FetchedExactly, Between

\* The end of a walk leaves the others as they are.
LEMMA EndKeeps ==
    ASSUME LogsInv, NEW w \in Walks, Ends(w), logs' = logs
    PROVE  walk' \in [Walks -> Walk] /\ WalkCovers'
<1>1. NoWalk \in Walk
  BY DEF NoWalk, Walk, Moments, Mugs
<1>2. walk' \in [Walks -> Walk]
  BY <1>1 DEF Ends, LogsInv, LogsTypeOK
<1>3. \A v \in Walks : walk'[v].pc = "asking" => walk'[v] = walk[v]
  BY DEF Ends, NoWalk, LogsInv, LogsTypeOK
<1> QED  BY <1>2, <1>3 DEF WalkCovers, LogsInv

\* What a walk stores is exact if nothing of its range is missing in what it saw.
LEMMA DoneKeeps ==
    ASSUME LogsInv, NEW w \in Walks, walk[w].pc = "asking",
           NEW seen \in SUBSET DOMAIN logs, NEW limit \in BOOLEAN,
           Done(w, seen, limit), UNCHANGED <<logs, key>>,
           limit \/ \A i \in 1..walk[w].begun :
                        walk[w].start < logs[i] /\ logs[i] <= walk[w].end => i \in seen
    PROVE  LogsInv'
<1>1. /\ result'.begun = walk[w].begun /\ result'.start = walk[w].start /\ result'.end = walk[w].end
      /\ result'.found = Between(seen, walk[w].start, walk[w].end) /\ result'.given_up = limit
  BY DEF Done
<1>2. result' \in Result
  <2>1. walk[w] \in Walk /\ DOMAIN logs \subseteq Mugs
    BY DEF LogsInv, LogsTypeOK, Mugs
  <2>2. Between(seen, walk[w].start, walk[w].end) \in SUBSET Mugs
    BY <2>1 DEF Between
  <2> QED  BY <2>1, <2>2 DEF Done, Result, Walk
<1>3. LogsTypeOK' /\ WalkCovers'
  BY <1>2, EndKeeps DEF Done, LogsInv, LogsTypeOK
<1>4. result'.begun <= Len(logs) /\ 1..result'.begun \subseteq DOMAIN logs
  BY <1>1 DEF LogsInv, WalkCovers, LogsTypeOK, Walk
<1>5. FetchedExactly'
  <2>1. Between(DOMAIN logs, result.start, result.end)' = Between(DOMAIN logs, result'.start, result'.end)
    BY DEF Between
  <2>2. result'.found \subseteq Between(DOMAIN logs, result'.start, result'.end)
    BY <1>1 DEF Between
  <2>3. \/ result'.given_up
        \/ \A i \in 1..result'.begun :
               result'.start < logs[i] /\ logs[i] <= result'.end => i \in result'.found
    <3>1. \A i \in 1..result'.begun : logs[i] \in Nat
      BY <1>4 DEF LogsInv, LogsTypeOK, Moments
    <3>2. result'.start \in Nat /\ result'.end \in Nat
      BY <1>2 DEF Result, Moments
    <3> QED  BY <1>1, <3>1, <3>2 DEF Between
  <2> QED  BY <2>1, <2>2, <2>3 DEF FetchedExactly
<1> QED  BY <1>3, <1>4, <1>5 DEF LogsInv, InTimeOrder

LEMMA NextPageKeeps ==
    ASSUME LogsInv, NEW w \in Walks, NextPage(w)
    PROVE  LogsInv'
<1>0. /\ logs \in Seq(Moments) /\ Len(logs) \in Nat /\ DOMAIN logs = 1..Len(logs) /\ walk[w] \in Walk
      /\ walk[w].pc = "asking" /\ walk[w].begun \in Nat /\ walk[w].begun <= Len(logs)
      /\ walk[w].seen \subseteq DOMAIN logs /\ walk \in [Walks -> Walk]
  <2>1. /\ logs \in Seq(Moments) /\ Len(logs) \in Nat /\ DOMAIN logs = 1..Len(logs)
        /\ walk \in [Walks -> Walk]
    BY DEF LogsInv, LogsTypeOK
  <2>2. walk[w].pc = "asking"
    BY DEF NextPage
  <2>3. walk[w].begun <= Len(logs) /\ walk[w].seen \subseteq DOMAIN logs
    BY <2>2 DEF LogsInv, WalkCovers
  <2> QED  BY <2>1, <2>2, <2>3 DEF Walk
<1>1. PICK n \in 0..Len(logs), last \in BOOLEAN :
        /\ \A i \in DOMAIN logs : logs[i] <= walk[w].to <=> i <= n
        /\ last => n <= PageLimit
        /\ LET got == PageOf(n)
               seen == walk[w].seen \cup got
           IN  IF n = 0 THEN Done(w, seen, FALSE)
               ELSE IF Oldest(got) <= walk[w].start \/ n < PageLimit \/ last THEN Done(w, seen, FALSE)
               ELSE IF walk[w].page = MaxPages THEN Done(w, seen, TRUE)
               ELSE /\ walk' = [walk EXCEPT ![w].to = Oldest(got), ![w].page = @ + 1, ![w].seen = seen]
                    /\ UNCHANGED <<result, button>>
  BY DEF NextPage, PageOf
<1> DEFINE got == PageOf(n)
           seen == walk[w].seen \cup got
<1>2. seen \in SUBSET DOMAIN logs /\ UNCHANGED <<logs, key>>
  <2>1. got \subseteq DOMAIN logs
    BY <1>0 DEF PageOf
  <2>2. UNCHANGED <<logs, key>>
    BY DEF NextPage
  <2> QED  BY <1>0, <2>1, <2>2
<1>3. ASSUME NEW i \in 1..walk[w].begun, logs[i] <= walk[w].end, i \notin seen
      PROVE  i \in DOMAIN logs /\ i \in 1..n /\ i \notin got /\ n > PageLimit
  <2>1. i \in DOMAIN logs /\ logs[i] <= walk[w].to
    BY <1>0, <1>3 DEF LogsInv, WalkCovers
  <2>2. i \in 1..n /\ i \notin got
    BY <1>0, <1>1, <1>3, <2>1
  <2> QED  BY <2>1, <2>2 DEF PageOf
<1>4. n # 0 => /\ Oldest(got) \in Moments
               /\ \A i \in 1..n : i \notin got => logs[i] <= Oldest(got)
  BY <1>0, OldestIsFirst
<1>5. ASSUME Done(w, seen, FALSE), n = 0 \/ Oldest(got) <= walk[w].start \/ n < PageLimit \/ last
      PROVE  LogsInv'
  <2>1. ASSUME NEW i \in 1..walk[w].begun, walk[w].start < logs[i], logs[i] <= walk[w].end, i \notin seen
        PROVE  FALSE
    <3>1. i \in DOMAIN logs /\ i \in 1..n /\ i \notin got /\ n > PageLimit
      BY <1>3, <2>1
    <3>2. Oldest(got) <= walk[w].start /\ logs[i] <= Oldest(got) /\ Oldest(got) \in Int
      BY <1>1, <1>4, <1>5, <3>1 DEF Moments
    <3>3. walk[w].start \in Int /\ logs[i] \in Int
      BY <1>0, <3>1 DEF Walk, Moments
    <3> QED  BY <2>1, <3>2, <3>3
  <2> HIDE DEF seen
  <2> QED  BY <1>0, <1>2, <1>5, <2>1, DoneKeeps
<1>6. ASSUME Done(w, seen, TRUE) PROVE LogsInv'
  <2> HIDE DEF seen
  <2> QED  BY <1>0, <1>2, <1>6, DoneKeeps
<1>7. ASSUME n # 0, walk[w].page # MaxPages, UNCHANGED <<result, button>>,
             walk' = [walk EXCEPT ![w].to = Oldest(got), ![w].page = @ + 1, ![w].seen = seen]
      PROVE  LogsInv'
  <2>1. /\ walk'[w] = [walk[w] EXCEPT !.to = Oldest(got), !.page = @ + 1, !.seen = seen]
        /\ \A v \in Walks : v # w => walk'[v] = walk[v]
    BY <1>0, <1>7
  <2>2. walk[w].page + 1 \in 1..MaxPages /\ seen \in SUBSET Mugs
    BY <1>0, <1>2, <1>7 DEF Walk, Mugs, LogsInv, LogsTypeOK
  <2>3. walk'[w] \in Walk
    BY <1>0, <1>4, <1>7, <2>1, <2>2 DEF Walk
  <2>4. walk' \in [Walks -> Walk]
    BY <1>0, <1>7, <2>1, <2>3
  <2>5. /\ walk'[w].begun = walk[w].begun /\ walk'[w].end = walk[w].end
        /\ walk'[w].to = Oldest(got) /\ walk'[w].seen = seen
    BY <1>0, <2>1 DEF Walk
  <2>6. \A i \in 1..walk[w].begun : logs[i] <= walk[w].end => i \in seen \/ logs[i] <= Oldest(got)
    BY <1>3, <1>4, <1>7
  <2>7. WalkCovers'
    <3> HIDE DEF seen, got
    <3>1. /\ walk'[w].begun <= Len(logs') /\ walk'[w].seen \subseteq DOMAIN logs'
          /\ \A i \in 1..walk'[w].begun :
                 logs'[i] <= walk'[w].end => i \in walk'[w].seen \/ logs'[i] <= walk'[w].to
      BY <1>0, <1>2, <2>5, <2>6 DEF WalkCovers, LogsInv
    <3> QED  BY <1>2, <2>1, <3>1 DEF WalkCovers, LogsInv
  <2> QED  BY <1>2, <1>7, <2>4, <2>7 DEF LogsInv, LogsTypeOK, InTimeOrder, FetchedExactly, Between
<1> QED  BY <1>1, <1>5, <1>6, <1>7

LEMMA LogsStep ==
    ASSUME LogsInv, LogsNext
    PROVE  LogsInv'
<1>1. ASSUME RemoveKey PROVE LogsInv'
  <2>1. UNCHANGED <<logs, button, walk>> /\ key' \in BOOLEAN /\ result' = NoResult
    BY <1>1 DEF RemoveKey
  <2>2. NoResult \in Result /\ NoResult.begun = 0 /\ ~NoResult.stored
    BY DEF NoResult, Result, Moments, Mugs
  <2>3. LogsTypeOK' /\ InTimeOrder' /\ WalkCovers'
    BY <2>1, <2>2 DEF LogsInv, LogsTypeOK, InTimeOrder, WalkCovers
  <2>4. 0 <= Len(logs)
    BY DEF LogsInv, LogsTypeOK
  <2> QED  BY <2>1, <2>2, <2>3, <2>4 DEF LogsInv, FetchedExactly
<1>2. ASSUME Connect \/ KeyRejected PROVE LogsInv'
  BY <1>2 DEF Connect, KeyRejected, LogsInv, LogsTypeOK, InTimeOrder, WalkCovers, FetchedExactly, Between
<1>3. ASSUME NEW w \in Walks, FetchLost(w) PROVE LogsInv'
  BY <1>3, EndKeeps DEF FetchLost, LogsInv, LogsTypeOK, InTimeOrder, FetchedExactly, Between
<1> QED  BY <1>1, <1>2, <1>3, MugKeeps, RunFetchKeeps, NextPageKeeps DEF LogsNext

\* Steps of others touch the key only.
LEMMA LogsStutter ==
    ASSUME LogsInv, UNCHANGED <<logs, button, walk, result>>, key' \in BOOLEAN
    PROVE  LogsInv'
BY DEF LogsInv, LogsTypeOK, InTimeOrder, WalkCovers, FetchedExactly, Between

HIDE MugLogsAssumption

-----------------------------------------------------------------------------
(* The list of targets.                                                    *)

Descends(l) == \A j, k \in DOMAIN l : j < k => l[j] >= l[k]

LEMMA LeastPlace ==
    ASSUME NEW T \in SUBSET Nat, T # {}
    PROVE  \E x \in T : \A y \in T : x <= y
<1> DEFINE R == {ss \in Nat \X Nat : ss[1] < ss[2]}
<1>1. IsWellFoundedOn(R, Nat)
  BY NatLessThanWellFounded DEF OpToRel
<1>2. PICK x \in T : \A y \in T : ~ (<<y, x>> \in R)
  <2> HIDE DEF R
  <2> QED  BY <1>1, WFMin
<1>3. \A y \in T : x \in Nat /\ y \in Nat /\ (<<y, x>> \in R <=> y < x)
  BY DEF R
<1>4. \A y \in T : x <= y
  <2> SUFFICES ASSUME NEW y \in T PROVE x <= y
    OBVIOUS
  <2>1. x \in Nat /\ y \in Nat /\ ~ (y < x)
    <3> HIDE DEF R
    <3> QED  BY <1>2, <1>3
  <2> QED  BY <2>1
<1> QED  BY <1>4

\* What a list of profits is made of.
LEMMA RowsAreProfits ==
    ASSUME NEW l \in Seq(Profits)
    PROVE  /\ Len(l) \in Nat /\ DOMAIN l = 1..Len(l)
           /\ \A j \in 1..Len(l) : l[j] \in Profits /\ l[j] \in Nat
<1>1. Len(l) \in Nat /\ DOMAIN l = 1..Len(l)
  OBVIOUS
<1>2. ASSUME NEW j \in 1..Len(l) PROVE l[j] \in Profits
  BY ElementOfSeq
<1>3. Profits \subseteq Nat
  BY MugAssumption
<1> QED  BY <1>1, <1>2, <1>3

\* One list after the other.
LEMMA OneAfterTheOther ==
    ASSUME NEW a \in Seq(Profits), NEW b \in Seq(Profits)
    PROVE  /\ a \o b \in Seq(Profits) /\ Len(a \o b) = Len(a) + Len(b)
           /\ \A j \in 1..Len(a) : (a \o b)[j] = a[j]
           /\ \A j \in Len(a) + 1..Len(a) + Len(b) : (a \o b)[j] = b[j - Len(a)]
<1>1. Len(a) \in Nat /\ Len(b) \in Nat
  OBVIOUS
<1>2. /\ a \o b \in Seq(Profits) /\ Len(a \o b) = Len(a) + Len(b)
      /\ \A j \in 1..Len(a) + Len(b) : (a \o b)[j] = IF j <= Len(a) THEN a[j] ELSE b[j - Len(a)]
  BY ConcatProperties
<1> QED  BY <1>1, <1>2

\* A row taken out of a sorted list leaves it sorted.
LEMMA RemoveKeepsOrder ==
    ASSUME NEW l \in Seq(Profits), NEW i \in DOMAIN l, Descends(l)
    PROVE  RemoveAt(l, i) \in Seq(Profits) /\ Descends(RemoveAt(l, i))
<1> DEFINE a == SubSeq(l, 1, i - 1)
           b == SubSeq(l, i + 1, Len(l))
           r == RemoveAt(l, i)
<1>0. \A j \in 1..Len(l) : l[j] \in Nat
  BY RowsAreProfits
<1>1. Len(l) \in Nat /\ i \in 1..Len(l) /\ DOMAIN l = 1..Len(l) /\ \A j \in 1..Len(l) : l[j] \in Profits
  BY ElementOfSeq
<1>2. a \in Seq(Profits) /\ Len(a) = i - 1 /\ \A j \in 1..(i - 1) : a[j] = l[j]
  BY <1>1
<1>3. b \in Seq(Profits) /\ Len(b) = Len(l) - i /\ \A j \in 1..(Len(l) - i) : b[j] = l[i + j]
  BY <1>1, SubSeqProperties
<1>4. r = a \o b
  BY DEF RemoveAt
<1> HIDE DEF a, b, r
<1>5. /\ r \in Seq(Profits) /\ Len(r) = Len(a) + Len(b)
      /\ \A j \in 1..Len(a) : r[j] = a[j]
      /\ \A j \in Len(a) + 1..Len(a) + Len(b) : r[j] = b[j - Len(a)]
  <2>1. /\ a \o b \in Seq(Profits) /\ Len(a \o b) = Len(a) + Len(b)
        /\ \A j \in 1..Len(a) : (a \o b)[j] = a[j]
        /\ \A j \in Len(a) + 1..Len(a) + Len(b) : (a \o b)[j] = b[j - Len(a)]
    BY <1>2, <1>3, OneAfterTheOther
  <2> QED  BY <1>4, <2>1
<1>6. Len(r) = Len(l) - 1 /\ \A j \in 1..(Len(l) - 1) : r[j] = IF j < i THEN l[j] ELSE l[j + 1]
  <2>1. Len(r) = Len(l) - 1
    BY <1>1, <1>2, <1>3, <1>5
  <2>2. ASSUME NEW j \in 1..(Len(l) - 1), j < i PROVE r[j] = l[j]
    BY <1>1, <1>2, <1>5, <2>2
  <2>3. ASSUME NEW j \in 1..(Len(l) - 1), j >= i PROVE r[j] = l[j + 1]
    <3>1. j \in Len(a) + 1..Len(a) + Len(b) /\ j - Len(a) \in 1..(Len(l) - i)
      BY <1>1, <1>2, <1>3, <2>3
    <3>2. r[j] = b[j - Len(a)]
      BY <1>5, <3>1
    <3>3. b[j - Len(a)] = l[i + (j - Len(a))]
      BY <1>3, <3>1
    <3>4. i + (j - Len(a)) = j + 1
      BY <1>1, <1>2
    <3> QED  BY <3>2, <3>3, <3>4
  <2> QED  BY <1>1, <2>1, <2>2, <2>3
<1>7. DOMAIN r = 1..(Len(l) - 1)
  BY <1>5, <1>6
<1>8. Descends(r)
  <2> SUFFICES ASSUME NEW j \in 1..(Len(l) - 1), NEW k \in 1..(Len(l) - 1), j < k
               PROVE  r[j] >= r[k]
    BY <1>7 DEF Descends
  <2>1. CASE k < i
    BY <1>1, <1>6, <2>1 DEF Descends
  <2>2. CASE j < i /\ i <= k
    BY <1>1, <1>6, <2>2 DEF Descends
  <2>3. CASE i <= j
    <3>1. r[j] = l[j + 1] /\ r[k] = l[k + 1]
      BY <1>1, <1>6, <2>3
    <3>2. j + 1 \in 1..Len(l) /\ k + 1 \in 1..Len(l) /\ j + 1 < k + 1
      BY <1>1, <2>3
    <3> QED  BY <1>1, <3>1, <3>2 DEF Descends
  <2> QED  BY <1>1, <2>1, <2>2, <2>3
<1> QED  BY <1>5, <1>8 DEF r

\* A target's place: what is above earns as much or more, what is below earns less.
LEMMA PlaceSplits ==
    ASSUME NEW l \in Seq(Profits), NEW p \in Profits, Descends(l)
    PROVE  /\ Place(l, p) \in 1..(Len(l) + 1)
           /\ \A j \in 1..Len(l) : j < Place(l, p) => l[j] >= p
           /\ \A j \in 1..Len(l) : j >= Place(l, p) => l[j] <= p
<1> DEFINE T == {j \in DOMAIN l : l[j] < p}
<1>1. /\ Len(l) \in Nat /\ DOMAIN l = 1..Len(l)
      /\ \A j \in 1..Len(l) : l[j] \in Profits /\ l[j] \in Nat
      /\ p \in Nat
  BY RowsAreProfits, MugAssumption
<1>2. CASE T = {}
  <2>1. Place(l, p) = Len(l) + 1
    BY <1>2 DEF Place
  <2> QED  BY <1>1, <1>2, <2>1
<1>3. CASE T # {}
  <2>1. T \in SUBSET Nat
    BY <1>1
  <2>2. PICK x \in T : \A y \in T : x <= y
    <3> HIDE DEF T
    <3> QED  BY <1>3, <2>1, LeastPlace
  <2>3. x \in DOMAIN l /\ l[x] < p /\ \A j \in 1..x - 1 : l[j] >= p
    BY <1>1, <2>2
  <2>4. Place(l, p) = CHOOSE i \in DOMAIN l : l[i] < p /\ \A j \in 1..i - 1 : l[j] >= p
    BY <2>3 DEF Place
  <2> DEFINE i == Place(l, p)
  <2>5. i \in DOMAIN l /\ l[i] < p /\ \A j \in 1..i - 1 : l[j] >= p
    BY <2>3, <2>4
  <2> HIDE DEF i
  <2>6. \A j \in 1..Len(l) : j >= i => l[j] <= l[i]
    BY <1>1, <2>5 DEF Descends
  <2> QED  BY <1>1, <2>5, <2>6 DEF i
<1> QED  BY <1>2, <1>3

\* A target goes in front of the first one that earns less.
LEMMA InsertKeepsOrder ==
    ASSUME NEW l \in Seq(Profits), NEW p \in Profits, Descends(l)
    PROVE  InsertByProfit(l, p) \in Seq(Profits) /\ Descends(InsertByProfit(l, p))
<1> DEFINE i == Place(l, p)
           a == SubSeq(l, 1, i - 1)
           b == SubSeq(l, i, Len(l))
           r == InsertByProfit(l, p)
<1>1. /\ Len(l) \in Nat /\ DOMAIN l = 1..Len(l)
      /\ \A j \in 1..Len(l) : l[j] \in Profits /\ l[j] \in Nat
      /\ p \in Nat
  BY RowsAreProfits, MugAssumption
<1>2. /\ i \in 1..(Len(l) + 1)
      /\ \A j \in 1..Len(l) : j < i => l[j] >= p
      /\ \A j \in 1..Len(l) : j >= i => l[j] <= p
  BY PlaceSplits
<1>3. r = a \o <<p>> \o b
  BY DEF InsertByProfit, InsertAt
<1> HIDE DEF i
<1>4. a \in Seq(Profits) /\ Len(a) = i - 1 /\ \A j \in 1..(i - 1) : a[j] = l[j]
  BY <1>1, <1>2
<1>5. b \in Seq(Profits) /\ Len(b) = Len(l) - i + 1 /\ \A j \in 1..(Len(l) - i + 1) : b[j] = l[i + j - 1]
  BY <1>1, <1>2
<1> DEFINE c == a \o <<p>>
<1> HIDE DEF a, b, r
<1>6. c \in Seq(Profits) /\ Len(c) = i /\ c[i] = p /\ \A j \in 1..(i - 1) : c[j] = l[j]
  <2> DEFINE o == <<p>>
  <2>1. o \in Seq(Profits) /\ Len(o) = 1 /\ o[1] = p
    OBVIOUS
  <2> HIDE DEF o
  <2>2. /\ c \in Seq(Profits) /\ Len(c) = Len(a) + Len(o)
        /\ \A j \in 1..Len(a) : c[j] = a[j]
        /\ \A j \in Len(a) + 1..Len(a) + Len(o) : c[j] = o[j - Len(a)]
    <3>0. c = a \o o
      BY DEF o
    <3> HIDE DEF c
    <3>1. /\ a \o o \in Seq(Profits) /\ Len(a \o o) = Len(a) + Len(o)
          /\ \A j \in 1..Len(a) : (a \o o)[j] = a[j]
          /\ \A j \in Len(a) + 1..Len(a) + Len(o) : (a \o o)[j] = o[j - Len(a)]
      BY <1>4, <2>1, OneAfterTheOther
    <3> QED  BY <3>0, <3>1
  <2> HIDE DEF c
  <2>3. Len(a) + 1 = i /\ i - Len(a) = 1 /\ Len(a) + Len(o) = i /\ i \in Len(a) + 1..Len(a) + Len(o)
    BY <1>2, <1>1, <1>4, <2>1
  <2> QED  BY <1>4, <2>1, <2>2, <2>3
<1>7. r = c \o b
  BY <1>3
<1> HIDE DEF c
<1>8. /\ r \in Seq(Profits) /\ Len(r) = Len(c) + Len(b)
      /\ \A j \in 1..Len(c) : r[j] = c[j]
      /\ \A j \in Len(c) + 1..Len(c) + Len(b) : r[j] = b[j - Len(c)]
  <2>1. /\ c \o b \in Seq(Profits) /\ Len(c \o b) = Len(c) + Len(b)
        /\ \A j \in 1..Len(c) : (c \o b)[j] = c[j]
        /\ \A j \in Len(c) + 1..Len(c) + Len(b) : (c \o b)[j] = b[j - Len(c)]
    BY <1>5, <1>6, OneAfterTheOther
  <2> QED  BY <1>7, <2>1
<1>9. /\ Len(r) = Len(l) + 1
      /\ \A j \in 1..(Len(l) + 1) : r[j] = IF j < i THEN l[j] ELSE IF j = i THEN p ELSE l[j - 1]
  <2>1. Len(r) = Len(l) + 1
    BY <1>1, <1>2, <1>5, <1>6, <1>8
  <2>2. ASSUME NEW j \in 1..(Len(l) + 1), j < i PROVE r[j] = l[j]
    BY <1>1, <1>2, <1>6, <1>8, <2>2
  <2>3. r[i] = p
    BY <1>1, <1>2, <1>6, <1>8
  <2>4. ASSUME NEW j \in 1..(Len(l) + 1), j > i PROVE r[j] = l[j - 1]
    <3>1. j \in Len(c) + 1..Len(c) + Len(b) /\ j - Len(c) \in 1..(Len(l) - i + 1)
      BY <1>1, <1>2, <1>5, <1>6, <2>4
    <3>2. r[j] = b[j - Len(c)] /\ b[j - Len(c)] = l[i + (j - Len(c)) - 1] /\ i + (j - Len(c)) - 1 = j - 1
      BY <1>1, <1>2, <1>5, <1>6, <1>8, <3>1
    <3> QED  BY <3>2
  <2> QED  BY <1>1, <1>2, <2>1, <2>2, <2>3, <2>4
<1>10. DOMAIN r = 1..(Len(l) + 1)
  BY <1>8, <1>9
<1>11. Descends(r)
  <2> SUFFICES ASSUME NEW j \in 1..(Len(l) + 1), NEW k \in 1..(Len(l) + 1), j < k
               PROVE  r[j] >= r[k]
    BY <1>10 DEF Descends
  <2>1. CASE j < i /\ k < i
    BY <1>1, <1>2, <1>9, <2>1 DEF Descends
  <2>2. CASE j < i /\ k = i
    BY <1>1, <1>2, <1>9, <2>2
  <2>3. CASE j < i /\ k > i
    BY <1>1, <1>2, <1>9, <2>3 DEF Descends
  <2>4. CASE j = i
    BY <1>1, <1>2, <1>9, <2>4
  <2>5. CASE j > i
    <3>1. r[j] = l[j - 1] /\ r[k] = l[k - 1]
      BY <1>2, <1>9, <2>5
    <3>2. j - 1 \in 1..Len(l) /\ k - 1 \in 1..Len(l) /\ j - 1 < k - 1
      BY <1>1, <1>2, <2>5
    <3> QED  BY <1>1, <3>1, <3>2 DEF Descends
  <2> QED  BY <1>2, <2>1, <2>2, <2>3, <2>4, <2>5
<1> QED  BY <1>8, <1>11 DEF r

-----------------------------------------------------------------------------
(* The window.                                                             *)

\* TypeOK without the tab's part.
WindowTypeOK ==
    /\ key \in BOOLEAN /\ url \in Items \cup {"none"}
    /\ shown \in Items \cup {"none", "closed"} /\ form \in BOOLEAN
    /\ field \in Value /\ price \in [Items -> Value]
    /\ fetchBtn \in BOOLEAN /\ scanBtn \in BOOLEAN
    /\ fetch \in [Fetches -> Items \cup {"none"}]
    /\ run \in [Runs -> [pc : {"idle", "value", "scan"}, item : Items \cup {"none"},
                         left : 0..MaxSellers]]
    /\ owner \in 0..MaxRuns /\ rows \in Seq(Profits)

\* A form belongs to an item: what is stored from it is stored for that item.
WindowInv ==
    /\ WindowTypeOK /\ (form => shown \in Items)
    /\ StoredPriceIsTheItems /\ RowsSorted /\ GreyedIsBusy

LEMMA SortedIsDescending == RowsSorted <=> Descends(rows)
BY DEF RowsSorted, Descends

LEMMA EmptyListIsFine == <<>> \in Seq(Profits) /\ Descends(<<>>)
BY DEF Descends

\* Steps that leave the list as it is, or empty it.
ListKept == UNCHANGED list \/ ShowMessage

LEMMA ListKeptIsFine ==
    ASSUME WindowInv, ListKept
    PROVE  owner' \in 0..MaxRuns /\ rows' \in Seq(Profits) /\ RowsSorted'
<1>1. CASE UNCHANGED list
  BY <1>1 DEF list, WindowInv, WindowTypeOK, RowsSorted
<1>2. CASE ShowMessage
  <2>1. owner' = 0 /\ rows' = <<>> /\ MaxRuns \in Nat
    BY <1>2, MugAssumption DEF ShowMessage
  <2> QED  BY <2>1, EmptyListIsFine DEF RowsSorted
<1> QED  BY <1>1, <1>2 DEF ListKept

LEMMA RenderKeeps ==
    ASSUME WindowInv, RenderBody, UNCHANGED <<page, price, fetch, run>>
    PROVE  WindowInv'
<1>1. owner' \in 0..MaxRuns /\ rows' \in Seq(Profits) /\ RowsSorted'
  BY ListKeptIsFine DEF RenderBody, RenderBuyMug, ListKept
<1>2. form' \in BOOLEAN /\ (form' => url \in Items) /\ shown' = url
  BY DEF RenderBody, RenderBuyMug, WindowInv, WindowTypeOK
<1>3. field' \in Value
  BY <1>2 DEF RenderBody, RenderBuyMug, WindowInv, WindowTypeOK, Value
<1>4. WindowTypeOK'
  BY <1>1, <1>2, <1>3 DEF RenderBody, RenderBuyMug, WindowInv, WindowTypeOK, page
<1>5. StoredPriceIsTheItems' /\ GreyedIsBusy'
  BY DEF RenderBody, RenderBuyMug, WindowInv, StoredPriceIsTheItems, GreyedIsBusy
<1> QED  BY <1>1, <1>2, <1>4, <1>5 DEF WindowInv

LEMMA CloseKeeps ==
    ASSUME WindowInv, Close
    PROVE  WindowInv'
<1>1. owner' \in 0..MaxRuns /\ rows' \in Seq(Profits) /\ RowsSorted'
  BY ListKeptIsFine DEF Close, ListKept
<1>2. WindowTypeOK'
  BY <1>1 DEF Close, WindowInv, WindowTypeOK, page, Value
<1> QED  BY <1>1, <1>2 DEF Close, WindowInv, StoredPriceIsTheItems, GreyedIsBusy

LEMMA TypeKeeps ==
    ASSUME WindowInv, NEW v \in {"typed", "none"}, Type(v)
    PROVE  WindowInv'
<1>1. price' \in [Items -> Value] /\ StoredPriceIsTheItems'
  BY DEF Type, WindowInv, WindowTypeOK, StoredPriceIsTheItems, Value
<1>2. owner' \in 0..MaxRuns /\ rows' \in Seq(Profits) /\ RowsSorted'
  BY ListKeptIsFine DEF Type, ListKept
<1> QED  BY <1>1, <1>2 DEF Type, WindowInv, WindowTypeOK, page, Value, GreyedIsBusy

LEMMA RemoveRowKeeps ==
    ASSUME WindowInv, NEW i \in DOMAIN rows, RemoveRow(i)
    PROVE  WindowInv'
<1>1. rows' \in Seq(Profits) /\ Descends(rows')
  BY RemoveKeepsOrder, SortedIsDescending DEF RemoveRow, WindowInv, WindowTypeOK
<1>2. RowsSorted'
  BY <1>1 DEF RowsSorted, Descends
<1> QED
  BY <1>1, <1>2 DEF RemoveRow, WindowInv, WindowTypeOK, page, window, StoredPriceIsTheItems, GreyedIsBusy

LEMMA FetchKeeps ==
    ASSUME WindowInv, NEW f \in Fetches, Fetch(f)
    PROVE  WindowInv'
<1>1. \/ shown \in Items /\ fetch' = [fetch EXCEPT ![f] = shown] /\ ~fetchBtn'
      \/ fetchBtn /\ UNCHANGED <<fetch, fetchBtn>>
  BY DEF Fetch, WindowInv
<1>2. /\ fetch' \in [Fetches -> Items \cup {"none"}] /\ fetchBtn' \in BOOLEAN
      /\ \/ ~fetchBtn' /\ fetch'[f] # "none"
         \/ fetchBtn'
  <2>1. CASE shown \in Items /\ fetch' = [fetch EXCEPT ![f] = shown] /\ ~fetchBtn'
    <3>1. fetch' \in [Fetches -> Items \cup {"none"}] /\ fetch'[f] # "none"
      BY <2>1, MugAssumption DEF WindowInv, WindowTypeOK
    <3>2. fetchBtn' \in BOOLEAN
      BY <2>1 DEF Fetch
    <3> QED  BY <2>1, <3>1, <3>2
  <2>2. CASE fetchBtn /\ UNCHANGED <<fetch, fetchBtn>>
    BY <2>2 DEF WindowInv, WindowTypeOK
  <2> QED  BY <1>1, <2>1, <2>2
<1>3. price' \in [Items -> Value] /\ StoredPriceIsTheItems'
  BY DEF Fetch, WindowInv, WindowTypeOK, StoredPriceIsTheItems, Value
<1>4. owner' \in 0..MaxRuns /\ rows' \in Seq(Profits) /\ RowsSorted'
  BY ListKeptIsFine DEF Fetch, ListKept
<1> QED
  BY <1>1, <1>2, <1>3, <1>4 DEF Fetch, WindowInv, WindowTypeOK, page, Value, GreyedIsBusy

LEMMA FetchEndsKeeps ==
    ASSUME WindowInv, NEW f \in Fetches, FetchSucceeds(f) \/ FetchFails(f)
    PROVE  WindowInv'
<1>1. ListKept /\ FetchEnds(f) /\ key' \in BOOLEAN
  BY DEF FetchSucceeds, FetchFails, ListKept, WindowInv, WindowTypeOK
<1>2. owner' \in 0..MaxRuns /\ rows' \in Seq(Profits) /\ RowsSorted'
  BY <1>1, ListKeptIsFine
<1>3. fetch' \in [Fetches -> Items \cup {"none"}] /\ fetchBtn' = TRUE
  BY <1>1 DEF FetchEnds, WindowInv, WindowTypeOK
<1>4. field' \in Value /\ price' \in [Items -> Value] /\ StoredPriceIsTheItems'
  <2>0. /\ field \in Value /\ price \in [Items -> Value] /\ StoredPriceIsTheItems
        /\ fetch[f] \in Items \cup {"none"}
    BY DEF WindowInv, WindowTypeOK
  <2>1. CASE FetchSucceeds(f)
    <3>1. fetch[f] \in Items /\ fetch[f] \in Value
      BY <2>0, <2>1 DEF FetchSucceeds, Value
    <3>2. price' = [price EXCEPT ![fetch[f]] = fetch[f]] /\ field' \in {field, fetch[f]}
      BY <2>1 DEF FetchSucceeds, InForm
    <3> QED  BY <2>0, <3>1, <3>2 DEF StoredPriceIsTheItems
  <2>2. CASE FetchFails(f)
    BY <2>0, <2>2 DEF FetchFails, StoredPriceIsTheItems
  <2> QED  BY <2>1, <2>2
<1> QED
  BY <1>1, <1>2, <1>3, <1>4 DEF FetchEnds, WindowInv, WindowTypeOK, GreyedIsBusy

-----------------------------------------------------------------------------
(* The calls of runBuyMug.                                                 *)

\* What a step of a call has to keep.
CallKeeps ==
    /\ run' \in [Runs -> [pc : {"idle", "value", "scan"}, item : Items \cup {"none"}, left : 0..MaxSellers]]
    /\ scanBtn' \in BOOLEAN /\ (~scanBtn' => \E r \in Runs : run'[r].pc # "idle")
    /\ owner' \in 0..MaxRuns /\ rows' \in Seq(Profits) /\ RowsSorted'

LEMMA CallKeepsAll ==
    ASSUME WindowInv, CallKeeps, key' \in BOOLEAN, field' \in Value,
           price' \in [Items -> Value], StoredPriceIsTheItems',
           UNCHANGED <<url, shown, form, fetchBtn, fetch>>
    PROVE  WindowInv'
BY DEF CallKeeps, WindowInv, WindowTypeOK, GreyedIsBusy

LEMMA RunEndsKeeps ==
    ASSUME WindowInv, NEW r \in Runs, RunEnds(r), ListKept
    PROVE  CallKeeps
<1>1. NoRun \in [pc : {"idle", "value", "scan"}, item : Items \cup {"none"}, left : 0..MaxSellers]
  BY MugAssumption DEF NoRun
<1> QED  BY <1>1, ListKeptIsFine DEF RunEnds, CallKeeps, WindowInv, WindowTypeOK

LEMMA BeginScanKeeps ==
    ASSUME WindowInv, NEW r \in Runs, BeginScan(r)
    PROVE  CallKeeps
<1>1. CASE RunEnds(r) /\ ShowMessage
  BY <1>1, RunEndsKeeps DEF ListKept
<1>2. CASE ~(RunEnds(r) /\ ShowMessage)
  <2>1. PICK n \in 1..MaxSellers : run' = [run EXCEPT ![r] = [pc |-> "scan", item |-> "none", left |-> n]]
    BY <1>2 DEF BeginScan
  <2>2. scanBtn' = InForm(scanBtn, FALSE) /\ owner' = InForm(owner, r) /\ rows' = <<>>
    BY <1>2 DEF BeginScan
  <2> DEFINE new == [pc |-> "scan", item |-> "none", left |-> n]
  <2>3. new \in [pc : {"idle", "value", "scan"}, item : Items \cup {"none"}, left : 0..MaxSellers]
        /\ new.pc = "scan"
    BY MugAssumption
  <2> HIDE DEF new
  <2>4. /\ run' \in [Runs -> [pc : {"idle", "value", "scan"}, item : Items \cup {"none"}, left : 0..MaxSellers]]
        /\ run'[r].pc = "scan"
    BY <2>1, <2>3 DEF new, WindowInv, WindowTypeOK
  <2>5. owner' \in 0..MaxRuns /\ scanBtn' \in BOOLEAN
    <3>1. r \in 0..MaxRuns
      BY MugAssumption DEF Runs
    <3>2. owner \in 0..MaxRuns /\ scanBtn \in BOOLEAN
      BY DEF WindowInv, WindowTypeOK
    <3> QED  BY <2>2, <3>1, <3>2 DEF InForm
  <2>6. rows' \in Seq(Profits) /\ RowsSorted'
    BY <2>2, EmptyListIsFine DEF RowsSorted
  <2> QED  BY <2>4, <2>5, <2>6 DEF CallKeeps
<1> QED  BY <1>1, <1>2

LEMMA CheckKeeps ==
    ASSUME WindowInv, NEW r \in Runs, Check(r)
    PROVE  WindowInv'
<1>1. CallKeeps
  <2>1. CASE BeginScan(r)
    BY <2>1, BeginScanKeeps
  <2>2. CASE RunEnds(r) /\ ShowMessage
    BY <2>2, RunEndsKeeps DEF ListKept
  <2>3. CASE /\ scanBtn' = FALSE /\ UNCHANGED list
             /\ run' = [run EXCEPT ![r] = [pc |-> "value", item |-> url, left |-> 0]]
    <3> DEFINE new == [pc |-> "value", item |-> url, left |-> 0]
    <3>1. new \in [pc : {"idle", "value", "scan"}, item : Items \cup {"none"}, left : 0..MaxSellers]
          /\ new.pc = "value"
      BY MugAssumption DEF NoRun, WindowInv, WindowTypeOK
    <3> HIDE DEF new
    <3>2. /\ run' \in [Runs -> [pc : {"idle", "value", "scan"}, item : Items \cup {"none"}, left : 0..MaxSellers]]
          /\ run'[r].pc = "value"
      BY <2>3, <3>1 DEF new, WindowInv, WindowTypeOK
    <3> QED  BY <2>3, <3>2, ListKeptIsFine DEF CallKeeps, ListKept
  <2> QED  BY <2>1, <2>2, <2>3 DEF Check
<1> QED
  BY <1>1, CallKeepsAll DEF Check, page, WindowInv, WindowTypeOK, StoredPriceIsTheItems

LEMMA ValueFetchedKeeps ==
    ASSUME WindowInv, NEW r \in Runs, ValueFetched(r)
    PROVE  WindowInv'
<1>1. CallKeeps
  BY BeginScanKeeps DEF ValueFetched
<1>2. run[r].item \in Items
  BY DEF ValueFetched, WindowInv, WindowTypeOK
<1>3. field' \in Value /\ price' \in [Items -> Value] /\ StoredPriceIsTheItems'
  BY <1>2 DEF ValueFetched, InForm, WindowInv, WindowTypeOK, StoredPriceIsTheItems, Value
<1> QED
  BY <1>1, <1>3, CallKeepsAll DEF ValueFetched, page, WindowInv, WindowTypeOK

LEMMA CheckSellerKeeps ==
    ASSUME WindowInv, NEW r \in Runs, CheckSeller(r)
    PROVE  WindowInv'
<1>1. rows' \in Seq(Profits) /\ RowsSorted'
  <2>1. CASE rows' = rows
    BY <2>1 DEF WindowInv, WindowTypeOK, RowsSorted
  <2>2. CASE rows' # rows
    <3>1. PICK p \in Profits : rows' = InsertByProfit(rows, p)
      BY <2>2 DEF CheckSeller
    <3>2. rows' \in Seq(Profits) /\ Descends(rows')
      BY <3>1, InsertKeepsOrder, SortedIsDescending DEF WindowInv, WindowTypeOK
    <3> QED  BY <3>2 DEF RowsSorted, Descends
  <2> QED  BY <2>1, <2>2
<1>2. /\ run' \in [Runs -> [pc : {"idle", "value", "scan"}, item : Items \cup {"none"}, left : 0..MaxSellers]]
      /\ run'[r].pc = "scan"
  <2>1. run[r] \in [pc : {"idle", "value", "scan"}, item : Items \cup {"none"}, left : 0..MaxSellers]
    BY DEF WindowInv, WindowTypeOK
  <2>2. run[r].left - 1 \in 0..MaxSellers
    BY <2>1, MugAssumption DEF CheckSeller
  <2> QED  BY <2>1, <2>2 DEF CheckSeller, WindowInv, WindowTypeOK
<1>3. CallKeeps
  BY <1>1, <1>2 DEF CheckSeller, CallKeeps, WindowInv, WindowTypeOK, window
<1> QED
  BY <1>3, CallKeepsAll DEF CheckSeller, page, window, WindowInv, WindowTypeOK, StoredPriceIsTheItems

LEMMA CallEndsKeeps ==
    ASSUME WindowInv, NEW r \in Runs, ValueFails(r) \/ ScanDone(r) \/ ScanFails(r)
    PROVE  WindowInv'
<1>1. RunEnds(r) /\ key' \in BOOLEAN /\ UNCHANGED <<url, shown, form, field, fetchBtn, price, fetch>>
  BY DEF ValueFails, ScanDone, ScanFails, page, WindowInv, WindowTypeOK
<1>2. CASE ListKept
  BY <1>1, <1>2, RunEndsKeeps, CallKeepsAll DEF WindowInv, WindowTypeOK, StoredPriceIsTheItems
<1>3. CASE owner' = 0 /\ UNCHANGED rows
  <2>1. NoRun \in [pc : {"idle", "value", "scan"}, item : Items \cup {"none"}, left : 0..MaxSellers]
    BY MugAssumption DEF NoRun
  <2>2. CallKeeps
    BY <1>1, <1>3, <2>1, MugAssumption
       DEF RunEnds, CallKeeps, WindowInv, WindowTypeOK, RowsSorted
  <2> QED  BY <1>1, <2>2, CallKeepsAll DEF WindowInv, WindowTypeOK, StoredPriceIsTheItems
<1> QED  BY <1>2, <1>3 DEF ValueFails, ScanDone, ScanFails, ListKept

LEMMA WindowStepKeeps ==
    ASSUME WindowInv, WindowStep
    PROVE  WindowInv'
<1>1. ASSUME NEW u \in Items \cup {"none"}, Navigate(u) PROVE WindowInv'
  BY <1>1 DEF Navigate, window, list, WindowInv, WindowTypeOK, StoredPriceIsTheItems, RowsSorted, GreyedIsBusy
<1>2. ASSUME NavPoll \/ Open PROVE WindowInv'
  BY <1>2, RenderKeeps DEF NavPoll, Open
<1> QED
  BY <1>1, <1>2, CloseKeeps, TypeKeeps, RemoveRowKeeps, FetchKeeps, FetchEndsKeeps, CheckKeeps,
     ValueFetchedKeeps, CheckSellerKeeps, CallEndsKeeps DEF WindowStep, RunStep

-----------------------------------------------------------------------------
(* All of it.                                                              *)

MugInv == WindowInv /\ LogsInv

LEMMA Invariant == Spec => []MugInv
<1>1. Init => MugInv
  <2> SUFFICES ASSUME Init PROVE MugInv
    OBVIOUS
  <2>1. LogsInv
    BY LogsStart DEF Init
  <2>2. WindowTypeOK
    <3>1. run \in [Runs -> [pc : {"idle", "value", "scan"}, item : Items \cup {"none"}, left : 0..MaxSellers]]
      BY MugAssumption DEF Init, NoRun
    <3>2. rows \in Seq(Profits) /\ owner \in 0..MaxRuns
      BY EmptyListIsFine, MugAssumption DEF Init
    <3> QED  BY <3>1, <3>2 DEF Init, LogsInit, WindowTypeOK, Value
  <2>3. (form => shown \in Items) /\ StoredPriceIsTheItems /\ RowsSorted /\ GreyedIsBusy
    BY DEF Init, StoredPriceIsTheItems, RowsSorted, GreyedIsBusy
  <2> QED  BY <2>1, <2>2, <2>3 DEF MugInv, WindowInv
<1>2. MugInv /\ [Next]_vars => MugInv'
  <2> SUFFICES ASSUME MugInv, [Next]_vars PROVE MugInv'
    OBVIOUS
  <2>1. CASE WindowStep /\ UNCHANGED tab
    <3>1. WindowInv'
      BY <2>1, WindowStepKeeps DEF MugInv
    <3> QED  BY <2>1, <3>1, LogsStutter DEF MugInv, WindowInv, WindowTypeOK, tab
  <2>2. CASE TabStep
    <3>1. LogsInv'
      BY <2>2, LogsStep DEF TabStep, MugInv
    <3>2. key' \in BOOLEAN
      BY <3>1 DEF LogsInv, LogsTypeOK
    <3> QED
      BY <2>2, <3>1, <3>2 DEF TabStep, MugInv, window, list, WindowInv, WindowTypeOK,
                              StoredPriceIsTheItems, RowsSorted, GreyedIsBusy
  <2>3. CASE UNCHANGED vars
    <3>1. LogsInv'
      BY <2>3, LogsStutter DEF vars, tab, page, MugInv, LogsInv, LogsTypeOK
    <3> QED
      BY <2>3, <3>1 DEF vars, page, MugInv, window, list, WindowInv, WindowTypeOK,
                        StoredPriceIsTheItems, RowsSorted, GreyedIsBusy
  <2> QED  BY <2>1, <2>2, <2>3 DEF Next
<1> QED  BY <1>1, <1>2, PTL DEF Spec

\* Every variable of mugging keeps its type.
THEOREM TypeCorrect == Spec => []TypeOK
<1>1. MugInv => TypeOK
  BY DEF MugInv, WindowInv, WindowTypeOK, LogsInv, TypeOK
<1> QED  BY <1>1, Invariant, PTL

\* No item gets another item's price, however many calls end on whichever form.
THEOREM PricesAreTheItems == Spec => []StoredPriceIsTheItems
BY Invariant, PTL DEF MugInv, WindowInv

\* The list is sorted while targets stream in and are ticked off, however long it gets.
THEOREM ListIsSorted == Spec => []RowsSorted
BY Invariant, PTL DEF MugInv, WindowInv

\* A greyed button waits for a call that is under way.
THEOREM NoButtonIsLeftBehind == Spec => []GreyedIsBusy
BY Invariant, PTL DEF MugInv, WindowInv

\* A stored result of the log is exact, for every page size, page limit and log.
THEOREM ResultIsExact == Spec => []FetchedExactly
BY Invariant, PTL DEF MugInv, LogsInv
=============================================================================

-------------------------- MODULE XanaxPaymentsProofs --------------------------
(***************************************************************************)
(* Proofs about XanaxPayments: the type invariant, what becomes of a       *)
(* recorded payment (Accounted), that the runs implement PaymentLedger,    *)
(* and the bound on every subscription (NoFreeTime), for any log, any      *)
(* number of concurrent runs and transfers, and any deaths of the runs.    *)
(***************************************************************************)
EXTENDS XanaxPayments, FiniteSetTheorems, TLAPS

\* Run r has recorded its entry and has not extended the subscription yet.
Pending(r) == run[r].pc \in {"read", "write"}

\* A run that works on an entry works on one of the log.
InLog == \A r \in Runs : run[r].pc \notin {"idle", "next"} => run[r].entry \in Entries

\* Credited and forfeited payments are on record; those of pending runs are
\* too, and are neither.
Held == /\ credited \cup forfeited \subseteq payments
        /\ \A r \in Runs : Pending(r) =>
              run[r].entry \in payments \ (credited \cup forfeited)

\* No two runs are about to credit the same payment: the unique index let only
\* one of them insert it.
Apart == \A r, s \in Runs :
            Pending(r) /\ Pending(s) /\ run[r].entry = run[s].entry => r = s

IInv == TypeOK /\ InLog /\ Held /\ Apart /\ Accounted

\* A payment is worth a natural number of weeks.
LEMMA WeeksType ==
    ASSUME NEW e \in Entries
    PROVE  Sender[e] \in Users /\ Weeks[e] \in Nat
  <1>1. Quantity[e] \in Nat /\ WeeksPerXanax \in Nat
    BY LogAssumption DEF Entries
  <1>2. Quantity[e] * WeeksPerXanax \in Nat
    BY <1>1
  <1> QED BY <1>2, LogAssumption DEF Weeks, Entries

\* An extension yields a time.
LEMMA ExtendedType ==
    ASSUME TypeOK, NEW seen \in Expiries, NEW weeks \in Nat
    PROVE  Extended(seen, weeks) \in Int
  <1>1. weeks * WeekTicks \in Int
    BY NumberAssumption
  <1>2. (IF seen # NoSub /\ seen > now THEN seen ELSE now) \in Int
    BY DEF TypeOK, Expiries
  <1> QED BY <1>1, <1>2 DEF Extended

LEMMA LaterType ==
    ASSUME TypeOK, NEW time \in Int, NEW weeks \in Nat
    PROVE  Later(time, weeks) \in Int
  <1>1. weeks * WeekTicks \in Int
    BY NumberAssumption
  <1> QED BY <1>1 DEF Later, TypeOK

\* The invariant holds initially.
LEMMA InitIInv == Init => IInv
  BY LogAssumption, NameAssumption, NumberAssumption
  DEF Init, IInv, TypeOK, InLog, Held, Apart, Accounted, Pending, IdleRun, IdleHand,
      Expiries, Entries, Subscribers

-----------------------------------------------------------------------------
(* The steps of the runs.                                                  *)

RunStates == [pc : {"idle", "next", "validate", "insert", "read", "write"},
              todo : SUBSET Entries, entry : Nat, seen : Expiries]

\* A step that touches one run only, and neither finds nor leaves it pending.
LEMMA QuietStep ==
    ASSUME IInv, NEW r \in Runs, ~Pending(r), NEW s \in RunStates,
           s.pc \notin {"read", "write"},
           s.pc \notin {"idle", "next"} => s.entry \in Entries,
           run' = [run EXCEPT ![r] = s],
           UNCHANGED <<payments, expiry, history, owed, faults, others>>
    PROVE  IInv'
  <1> USE DEF IInv, others, history, owed
  <1>1. /\ run'[r] = s
        /\ \A x \in Runs \ {r} : run'[x] = run[x]
    BY DEF TypeOK
  <1>2. TypeOK'
    BY DEF TypeOK, RunStates
  <1>3. InLog'
    BY <1>1 DEF InLog
  <1>4. \A x \in Runs : Pending(x)' => x # r /\ Pending(x) /\ run'[x] = run[x]
    BY <1>1 DEF Pending
  <1>5. Held'
    BY <1>4 DEF Held
  <1>6. Apart'
    BY <1>4 DEF Apart
  <1>7. \A x \in Runs : Pending(x) => Pending(x)' /\ run'[x] = run[x]
    BY <1>1 DEF Pending
  <1>8. Accounted'
    BY <1>7 DEF Accounted, Crediting, Pending
  <1> QED BY <1>2, <1>3, <1>5, <1>6, <1>8

LEMMA IdleRunType == IdleRun \in RunStates
  BY NameAssumption DEF IdleRun, RunStates, Expiries

LEMMA FetchStep ==
    ASSUME IInv, NEW r \in Runs, Fetch(r)
    PROVE  IInv'
  <1> DEFINE window == {e \in 1..log : log - e < FetchLimit}
             s == [IdleRun EXCEPT !.pc = "next", !.todo = window]
  <1>1. window \subseteq Entries
    BY LogAssumption DEF IInv, TypeOK
  <1>2. s \in RunStates /\ s.pc = "next"
    BY <1>1, IdleRunType DEF RunStates, IdleRun
  <1>3. ~Pending(r)
    BY DEF Fetch, Pending
  <1>4. run' = [run EXCEPT ![r] = s]
    BY DEF Fetch
  <1> HIDE DEF s
  <1> QED BY <1>2, <1>3, <1>4, QuietStep DEF Fetch

LEMMA NextEntryStep ==
    ASSUME IInv, NEW r \in Runs, NextEntry(r)
    PROVE  IInv'
  <1>1. ~Pending(r) /\ run[r] \in RunStates
    BY DEF NextEntry, Pending, IInv, TypeOK, RunStates
  <1>2. CASE run' = [run EXCEPT ![r] = IdleRun]
    BY <1>1, <1>2, IdleRunType, QuietStep DEF NextEntry, IdleRun
  <1>3. ASSUME NEW e \in Newest(run[r].todo),
               run' = [run EXCEPT ![r] = [run[r] EXCEPT
                         !.todo = @ \ {e}, !.entry = e,
                         !.pc = IF e \in payments THEN "next" ELSE "validate"]]
        PROVE  IInv'
    <2> DEFINE s == [run[r] EXCEPT
                       !.todo = @ \ {e}, !.entry = e,
                       !.pc = IF e \in payments THEN "next" ELSE "validate"]
    <2>1. e \in Entries /\ e \in Nat
      BY <1>1, LogAssumption DEF Newest, RunStates
    <2>2. s \in RunStates /\ s.pc \in {"next", "validate"} /\ s.entry = e
      BY <1>1, <2>1 DEF RunStates
    <2>3. run' = [run EXCEPT ![r] = s]
      BY <1>3
    <2> HIDE DEF s
    <2> QED BY <1>1, <2>1, <2>2, <2>3, QuietStep DEF NextEntry
  <1> QED BY <1>2, <1>3 DEF NextEntry

LEMMA ValidateStep ==
    ASSUME IInv, NEW r \in Runs, Validate(r)
    PROVE  IInv'
  <1> DEFINE s == IF run[r].entry \in payments THEN IdleRun
                  ELSE [run[r] EXCEPT !.pc = "insert"]
  <1>1. ~Pending(r) /\ run[r] \in RunStates /\ run[r].entry \in Entries
    BY DEF Validate, Pending, IInv, TypeOK, InLog, RunStates
  <1>2. /\ s \in RunStates
        /\ s.pc = "idle" \/ (s.pc = "insert" /\ s.entry = run[r].entry)
    <2>1. CASE run[r].entry \in payments
      BY <2>1, IdleRunType DEF IdleRun
    <2>2. CASE run[r].entry \notin payments
      BY <1>1, <2>2 DEF RunStates
    <2> QED BY <2>1, <2>2
  <1>3. run' = [run EXCEPT ![r] = s]
    BY DEF Validate, IInv, TypeOK
  <1> HIDE DEF s
  <1> QED BY <1>1, <1>2, <1>3, QuietStep DEF Validate

\* Only the run that inserts the row becomes pending, and its payment was
\* nobody's before.
LEMMA InsertStep ==
    ASSUME IInv, NEW r \in Runs, Insert(r)
    PROVE  IInv'
  <1> USE DEF IInv, others, history, owed
  <1> DEFINE e == run[r].entry
  <1>1. run[r] \in RunStates /\ e \in Entries /\ ~Pending(r)
    BY DEF Insert, TypeOK, InLog, RunStates, Pending
  <1>2. /\ run'[r].pc = IF e \in payments THEN "next" ELSE "read"
        /\ run'[r].entry = e
        /\ \A x \in Runs \ {r} : run'[x] = run[x]
    BY <1>1 DEF Insert, TypeOK, RunStates
  <1>3. TypeOK'
    BY <1>1 DEF Insert, TypeOK, RunStates
  <1>4. InLog'
    BY <1>1, <1>2 DEF InLog
  <1>5. \A x \in Runs : /\ run'[x].entry = run[x].entry
                        /\ Pending(x)' <=> Pending(x) \/ (x = r /\ e \notin payments)
    BY <1>1, <1>2 DEF Pending
  <1>6. payments' = payments \cup {e} /\ credited' = credited /\ forfeited' = forfeited
    BY DEF Insert
  <1>7. Held'
    BY <1>5, <1>6 DEF Held
  <1>8. Apart'
    BY <1>5, <1>6 DEF Apart, Held
  <1>9. Accounted'
    BY <1>1, <1>5, <1>6 DEF Accounted, Crediting, Pending
  <1> QED BY <1>3, <1>4, <1>7, <1>8, <1>9

LEMMA ReadStep ==
    ASSUME IInv, NEW r \in Runs, ReadSubscription(r)
    PROVE  IInv'
  <1> USE DEF IInv, others, history, owed
  <1>1. run[r] \in RunStates /\ run[r].entry \in Entries
    BY DEF ReadSubscription, TypeOK, InLog, RunStates
  <1>2. expiry[Sender[run[r].entry]] \in Expiries
    BY <1>1, WeeksType DEF TypeOK, Subscribers
  <1>3. /\ run'[r].pc = "write" /\ run'[r].entry = run[r].entry
        /\ \A x \in Runs \ {r} : run'[x] = run[x]
    BY <1>1 DEF ReadSubscription, TypeOK, RunStates
  <1>4. TypeOK'
    BY <1>1, <1>2 DEF ReadSubscription, TypeOK, RunStates
  <1>5. InLog'
    BY <1>1, <1>3 DEF InLog
  <1>6. \A x \in Runs : run'[x].entry = run[x].entry /\ (Pending(x)' <=> Pending(x))
    BY <1>3 DEF Pending, ReadSubscription
  <1>7. Held' /\ Apart' /\ Accounted'
    BY <1>6 DEF ReadSubscription, Held, Apart, Accounted, Crediting, Pending
  <1> QED BY <1>4, <1>5, <1>7

-----------------------------------------------------------------------------
(* The end of a pending run, with the extension or without it.             *)

LEMMA WriteStep ==
    ASSUME IInv, NEW r \in Runs, WriteSubscription(r)
    PROVE  IInv'
  <1> USE DEF IInv, others, history, owed
  <1> DEFINE e == run[r].entry
             u == Sender[e]
  <1>1. run[r] \in RunStates /\ e \in Entries /\ Pending(r)
    BY DEF WriteSubscription, TypeOK, InLog, RunStates, Pending
  <1>2. u \in Users /\ Weeks[e] \in Nat
    BY <1>1, WeeksType
  <1>3. /\ run'[r].pc = "next"
        /\ \A x \in Runs : run'[x].entry = run[x].entry
        /\ \A x \in Runs \ {r} : run'[x] = run[x]
    BY <1>1 DEF WriteSubscription, TypeOK, RunStates
  <1>4. TypeOK'
    <2>1. Extended(run[r].seen, Weeks[e]) \in Int
      BY <1>1, <1>2, ExtendedType DEF RunStates
    <2>2. expiry' \in [Subscribers -> Expiries]
      BY <1>2, <2>1 DEF WriteSubscription, TypeOK, Subscribers, Expiries
    <2>3. paid' \in [Users -> Nat]
      BY <1>2 DEF WriteSubscription, TypeOK
    <2>5. due' \in [Subscribers -> Int]
      <3>1. u \in Subscribers /\ due[u] \in Int
        BY <1>2 DEF TypeOK, Subscribers
      <3>2. Later(due[u], Weeks[e]) \in Int
        BY <1>2, <3>1, LaterType
      <3>3. due' \in {due, [due EXCEPT ![u] = Later(due[u], Weeks[e])]}
        BY DEF WriteSubscription
      <3> QED BY <3>1, <3>2, <3>3 DEF TypeOK
    <2>4. run' \in [Runs -> RunStates]
      BY <1>1 DEF WriteSubscription, TypeOK, RunStates
    <2> QED BY <1>1, <2>2, <2>3, <2>4, <2>5 DEF WriteSubscription, TypeOK, RunStates
  <1>5. InLog'
    BY <1>3 DEF InLog
  <1>6. \A x \in Runs : Pending(x)' <=> Pending(x) /\ x # r
    BY <1>3 DEF Pending
  <1>7. payments' = payments /\ credited' = credited \cup {e} /\ forfeited' = forfeited
    BY DEF WriteSubscription
  <1>8. Held'
    BY <1>1, <1>3, <1>6, <1>7 DEF Held, Apart
  <1>9. Apart'
    BY <1>3, <1>6 DEF Apart
  <1>10. Accounted'
    BY <1>1, <1>3, <1>6, <1>7 DEF Accounted, Held, Crediting, Pending
  <1> QED BY <1>4, <1>5, <1>8, <1>9, <1>10

\* A run that ends early, or drops the entry, forfeits the payment it had pending.
LEMMA EndStep ==
    ASSUME IInv, NEW r \in Runs, run[r].pc # "idle", Forfeit(r),
           NEW s \in RunStates, s.pc \in {"idle", "next"},
           run' = [run EXCEPT ![r] = s], faults' \in Nat,
           UNCHANGED <<payments, expiry, credited, paid, owed, others>>
    PROVE  IInv'
  <1> USE DEF IInv, others, owed
  <1> DEFINE e == run[r].entry
  <1>1. /\ run[r] \in RunStates
        /\ Pending(r) => e \in Entries
    BY DEF TypeOK, InLog, RunStates, Pending
  <1>2. /\ run'[r] = s
        /\ \A x \in Runs \ {r} : run'[x] = run[x]
    BY DEF TypeOK
  <1>3. forfeited' = IF Pending(r) THEN forfeited \cup {e} ELSE forfeited
    BY DEF Forfeit, Pending
  <1>4. TypeOK'
    <2>1. forfeited' \subseteq Entries
      BY <1>1, <1>3 DEF TypeOK
    <2>2. run' \in [Runs -> RunStates]
      BY DEF TypeOK, RunStates
    <2> QED BY <2>1, <2>2 DEF TypeOK, RunStates
  <1>5. InLog'
    BY <1>2 DEF InLog
  <1>6. \A x \in Runs : /\ Pending(x)' <=> Pending(x) /\ x # r
                        /\ x # r => run'[x].entry = run[x].entry
    BY <1>2 DEF Pending
  <1>7. Held'
    BY <1>3, <1>6 DEF Held, Apart
  <1>8. Apart'
    BY <1>6 DEF Apart
  <1>9. Accounted'
    <2>1. (credited \cap forfeited = {})'
      BY <1>3 DEF Accounted, Held
    <2>2. ASSUME NEW p \in payments, p \notin credited \cup forfeited'
          PROVE  \E x \in Runs : Crediting(x, p)'
      <3>1. PICK x \in Runs : Crediting(x, p)
        BY <1>3, <2>2 DEF Accounted
      <3>2. x # r
        BY <1>3, <2>2, <3>1 DEF Crediting, Pending
      <3> QED BY <1>2, <3>1, <3>2 DEF Crediting
    <2> QED BY <2>1, <2>2 DEF Accounted
  <1> QED BY <1>4, <1>5, <1>7, <1>8, <1>9

LEMMA WriteFailsStep ==
    ASSUME IInv, NEW r \in Runs, WriteFails(r)
    PROVE  IInv'
  <1>1. run[r] \in RunStates /\ faults' \in Nat
    BY DEF WriteFails, IInv, TypeOK, RunStates
  <1>2. CASE run' = [run EXCEPT ![r] = IdleRun]
    BY <1>1, <1>2, EndStep, IdleRunType DEF WriteFails, IdleRun
  <1>3. CASE run' = [run EXCEPT ![r].pc = "next"]
    <2>1. PICK s : s = [run[r] EXCEPT !.pc = "next"]
      OBVIOUS
    <2>2. s \in RunStates /\ s.pc = "next"
      BY <1>1, <2>1 DEF RunStates
    <2>3. run' = [run EXCEPT ![r] = s]
      BY <1>3, <2>1
    <2> QED BY <1>1, <2>2, <2>3, EndStep DEF WriteFails
  <1> QED BY <1>2, <1>3 DEF WriteFails

LEMMA RunDiesStep ==
    ASSUME IInv, NEW r \in Runs, RunDies(r)
    PROVE  IInv'
  <1>1. faults' \in Nat
    BY DEF RunDies, IInv, TypeOK
  <1> QED BY <1>1, EndStep, IdleRunType DEF RunDies, IdleRun

-----------------------------------------------------------------------------
(* The steps that leave the runs and the payments alone.                   *)

OutsideStep ==
    \/ Tick \/ Send \/ GrantWrites
    \/ \E x \in Subscribers : GrantReads(x) \/ \E weeks \in 0..1 : UpdateDays(x, weeks)
    \/ \E t \in Transfers : TransferChecks(t) \/ TransferWrites(t)

LEMMA OutsideType ==
    ASSUME TypeOK, OutsideStep
    PROVE  TypeOK'
  <1> USE DEF history, owed
  <1>1. CASE Tick
    BY <1>1 DEF Tick, TypeOK
  <1>2. CASE Send
    BY <1>2, LogAssumption DEF Send, TypeOK
  <1>3. CASE GrantWrites
    <2>1. CASE Writable(admin.whose, admin.seen)
      <3>1. Extended(admin.seen, 1) \in Int
        BY ExtendedType DEF TypeOK
      <3>2. expiry' \in [Subscribers -> Expiries]
        BY <1>3, <2>1, <3>1 DEF GrantWrites, TypeOK, Expiries
      <3>3. due' \in [Subscribers -> Int]
        <4>1. admin.whose \in Subscribers /\ due \in [Subscribers -> Int]
          BY DEF TypeOK
        <4>2. due' = [due EXCEPT ![admin.whose] = Later(due[admin.whose], 1)]
          BY <1>3, <2>1 DEF GrantWrites
        <4>3. Later(due[admin.whose], 1) \in Int
          BY <4>1, LaterType
        <4> QED BY <4>1, <4>2, <4>3
      <3> QED BY <1>3, <3>2, <3>3 DEF GrantWrites, TypeOK, IdleHand, Expiries, Subscribers
    <2>2. CASE ~Writable(admin.whose, admin.seen)
      BY <1>3, <2>2 DEF GrantWrites, TypeOK, IdleHand, Expiries, Subscribers
    <2> QED BY <2>1, <2>2
  <1>4. ASSUME NEW x \in Subscribers, GrantReads(x) PROVE TypeOK'
    BY <1>4 DEF GrantReads, Counted, TypeOK
  <1>5. ASSUME NEW x \in Subscribers, NEW weeks \in 0..1, UpdateDays(x, weeks)
        PROVE  TypeOK'
    <2>1. now + weeks * WeekTicks \in Int
      BY NumberAssumption DEF TypeOK
    <2> QED BY <1>5, <2>1 DEF UpdateDays, Counted, TypeOK, Expiries
  <1>6. ASSUME NEW t \in Transfers, TransferChecks(t) PROVE TypeOK'
    <2>1. expiry[Leader] \in Expiries
      BY NameAssumption DEF TypeOK, Subscribers
    <2> QED BY <1>6, <2>1 DEF TransferChecks, TypeOK
  <1>7. ASSUME NEW t \in Transfers, TransferWrites(t) PROVE TypeOK'
    <2>1. CASE WeeksRemaining(transfer[t].seen) >= WeekCost
      <3>1. transfer[t].seen \in Int
        BY <2>1, NumberAssumption DEF WeeksRemaining, TypeOK, Expiries
      <3>2. transfer[t].seen - WeekCost * WeekTicks \in Int
        BY <3>1, NumberAssumption
      <3>3. Extended(expiry[Faction], 1) \in Int
        BY ExtendedType DEF TypeOK, Subscribers
      <3>4. expiry' \in [Subscribers -> Expiries]
        BY <1>7, <2>1, <3>2, <3>3 DEF TransferWrites, TypeOK, Subscribers, Expiries
      <3>5. due' \in [Subscribers -> Int]
        <4>1. /\ due \in [Subscribers -> Int] /\ Faction \in Subscribers
              /\ due[Leader] - WeekCost * WeekTicks \in Int
          BY NumberAssumption, NameAssumption DEF TypeOK, Subscribers
        <4>2. Later(due[Faction], 1) \in Int /\ Leader # Faction
          BY <4>1, LaterType, NameAssumption
        <4>3. due' = [due EXCEPT ![Leader] = due[Leader] - WeekCost * WeekTicks,
                                 ![Faction] = Later(due[Faction], 1)]
          BY <1>7, <2>1, <4>2 DEF TransferWrites
        <4> QED BY <4>1, <4>2, <4>3
      <3>6. contested' \subseteq Subscribers
        BY <1>7, <2>1, NameAssumption DEF TransferWrites, TypeOK, Subscribers
      <3> QED BY <3>4, <3>5, <3>6, <1>7, <2>1, <3>2, <3>3
              DEF TransferWrites, TypeOK, IdleHand, Expiries, Subscribers
    <2>2. CASE ~(WeeksRemaining(transfer[t].seen) >= WeekCost)
      BY <1>7, <2>2 DEF TransferWrites, TypeOK, IdleHand, Expiries, Subscribers
    <2> QED BY <2>1, <2>2
  <1> QED BY <1>1, <1>2, <1>3, <1>4, <1>5, <1>6, <1>7 DEF OutsideStep

LEMMA OutsideFrame ==
    ASSUME OutsideStep
    PROVE  UNCHANGED <<payments, run, credited, forfeited, paid>>
  BY DEF OutsideStep, Tick, Send, GrantWrites, GrantReads, UpdateDays, TransferChecks,
         TransferWrites, history

LEMMA OutsideIInv ==
    ASSUME IInv, OutsideStep
    PROVE  IInv'
  BY OutsideType, OutsideFrame
  DEF IInv, InLog, Held, Apart, Accounted, Crediting, Pending

-----------------------------------------------------------------------------
(* The theorems.                                                           *)

LEMMA NextIInv == IInv /\ [Next]_vars => IInv'
  <1> SUFFICES ASSUME IInv, [Next]_vars PROVE IInv'
    OBVIOUS
  <1>1. ASSUME NEW r \in Runs, Fetch(r) \/ RunStep(r) \/ RunDies(r) PROVE IInv'
    BY <1>1, FetchStep, NextEntryStep, ValidateStep, InsertStep, ReadStep, WriteStep,
       WriteFailsStep, RunDiesStep DEF RunStep
  <1>2. CASE OutsideStep
    BY <1>2, OutsideIInv
  <1>3. CASE UNCHANGED vars
    BY <1>3 DEF vars, IInv, TypeOK, InLog, Held, Apart, Accounted, Crediting, Pending
  <1> QED BY <1>1, <1>2, <1>3 DEF Next, OutsideStep

THEOREM Invariant == Spec => []IInv
  BY InitIInv, NextIInv, PTL DEF Spec

\* Every variable keeps its type, and time and counts stay numbers.
THEOREM TypeCorrect == Spec => []TypeOK
  BY Invariant, PTL DEF IInv

\* Every payment on record is credited, about to be credited by a run, or
\* forfeited by a run that ended between XanaxPayment.create! and the extension;
\* and never both credited and forfeited.
THEOREM PaymentsAccounted == Spec => []Accounted
  BY Invariant, PTL DEF IInv

-----------------------------------------------------------------------------
(* The runs implement PaymentLedger.                                       *)

LEMMA InitLedger == Init => Ledger!Init
  BY DEF Init, Ledger!Init

\* Inserting a row is Record, extending the subscription is Credit; every other
\* step leaves the ledger as it is.
LEMMA StepLedger ==
    ASSUME IInv, [Next]_vars
    PROVE  [Ledger!Next]_<<payments, credited, paid>>
  <1> USE DEF IInv, others, history, owed
  <1>1. ASSUME NEW r \in Runs, Insert(r)
        PROVE  Ledger!Next \/ UNCHANGED <<payments, credited, paid>>
    <2>1. run[r].entry \in Entries
      BY <1>1 DEF Insert, InLog
    <2>2. CASE run[r].entry \in payments
      BY <1>1, <2>2 DEF Insert
    <2>3. CASE run[r].entry \notin payments
      <3>1. Ledger!Record(run[r].entry)
        BY <1>1, <2>3 DEF Insert, Ledger!Record
      <3> QED BY <2>1, <3>1 DEF Ledger!Next
    <2> QED BY <2>2, <2>3
  <1>2. ASSUME NEW r \in Runs, WriteSubscription(r)
        PROVE  Ledger!Next
    <2>1. Pending(r) /\ run[r].entry \in Entries
      BY <1>2 DEF WriteSubscription, InLog, Pending
    <2>2. run[r].entry \in payments \ credited
      BY <2>1 DEF Held
    <2>3. Ledger!Credit(run[r].entry)
      BY <1>2, <2>2 DEF WriteSubscription, Ledger!Credit
    <2> QED BY <2>1, <2>3 DEF Ledger!Next
  <1>3. ASSUME NEW r \in Runs, \/ Fetch(r) \/ NextEntry(r) \/ Validate(r)
                               \/ ReadSubscription(r) \/ WriteFails(r) \/ RunDies(r)
        PROVE  UNCHANGED <<payments, credited, paid>>
    BY <1>3 DEF Fetch, NextEntry, Validate, ReadSubscription, WriteFails, RunDies
  <1>4. CASE OutsideStep
    BY <1>4, OutsideFrame
  <1>5. CASE UNCHANGED vars
    BY <1>5 DEF vars
  <1> QED BY <1>1, <1>2, <1>3, <1>4, <1>5 DEF Next, RunStep, OutsideStep

\* However runs interleave, raise and die, a payment is recorded once and its
\* weeks are given to its sender at most once.
THEOREM ImplementsLedger == Spec => LedgerSpec
  <1>1. IInv /\ [Next]_vars => [Ledger!Next]_<<payments, credited, paid>>
    BY StepLedger
  <1> QED BY InitLedger, Invariant, <1>1, PTL DEF Spec, LedgerSpec, Ledger!Spec

-----------------------------------------------------------------------------
(* Nobody gets time for nothing.                                           *)

\* A copy of x's expiry that is no later than what x is due.
Fits(x, seen) == seen # NoSub /\ x \notin contested => seen <= due[x]

\* Every stored expiry fits, and every copy from which one is to be written.
Bounded ==
    /\ \A x \in Subscribers : Fits(x, expiry[x])
    /\ \A r \in Runs : run[r].pc = "write" => Fits(Sender[run[r].entry], run[r].seen)
    /\ admin.pc = "write" => Fits(admin.whose, admin.seen)
    /\ \A t \in Transfers : transfer[t].pc = "write" => Fits(Leader, transfer[t].seen)

\* What a step does to what x is due: nothing is taken, or x is contested, or
\* time is taken while nobody else holds a copy.
Kept(x) == (x \in contested => x \in contested') /\ due[x] <= due'[x]
Marked(x) == x \in contested'
Cleared(x) == \E weeks \in 0..1 : UpdateDays(x, weeks) /\ ~CopyHeld(x, {})
Spent(x) == x = Leader /\ \E t \in Transfers : TransferWrites(t) /\ ~CopyHeld(x, {t})

LEMMA LaterIsLater ==
    ASSUME TypeOK, NEW time \in Int, NEW weeks \in Nat
    PROVE  time <= Later(time, weeks)
  <1>1. weeks * WeekTicks \in Nat
    BY NumberAssumption
  <1> QED BY <1>1 DEF Later, TypeOK

\* One subscriber's due grows, and nobody else's changes.
LEMMA DueGrows ==
    ASSUME TypeOK, NEW y \in Subscribers, NEW weeks \in Nat, contested' = contested,
           due' = [due EXCEPT ![y] = Later(due[y], weeks)]
    PROVE  \A x \in Subscribers : Kept(x)
  <1> SUFFICES ASSUME NEW x \in Subscribers PROVE Kept(x)
    OBVIOUS
  <1>1. due[x] \in Int /\ due[y] <= Later(due[y], weeks)
    BY LaterIsLater DEF TypeOK
  <1>2. due[x] <= due'[x]
    BY <1>1 DEF TypeOK
  <1> QED BY <1>2 DEF Kept

LEMMA DueMoves ==
    ASSUME IInv, [Next]_vars, NEW x \in Subscribers
    PROVE  Kept(x) \/ Marked(x) \/ Cleared(x) \/ Spent(x)
  <1> USE DEF IInv, others, history, owed
  <1>1. TypeOK /\ due[x] \in Int
    BY DEF TypeOK
  <1>2. CASE due' = due /\ contested' = contested
    BY <1>1, <1>2 DEF Kept
  <1>3. ASSUME NEW r \in Runs, WriteSubscription(r) PROVE Kept(x)
    <2>1. /\ Sender[run[r].entry] \in Subscribers /\ Weeks[run[r].entry] \in Nat
      BY <1>3, WeeksType DEF WriteSubscription, InLog, Subscribers
    <2>2. CASE due' = due
      BY <1>1, <1>3, <2>2 DEF WriteSubscription, Kept
    <2>3. CASE due' # due
      <3>1. due' = [due EXCEPT ![Sender[run[r].entry]] =
                      Later(due[Sender[run[r].entry]], Weeks[run[r].entry])]
        BY <1>3, <2>3 DEF WriteSubscription
      <3>2. contested' = contested
        BY <1>3 DEF WriteSubscription
      <3> QED BY <1>1, <2>1, <3>1, <3>2, DueGrows
    <2> QED BY <2>2, <2>3
  <1>4. CASE GrantWrites
    <2>1. admin.whose \in Subscribers /\ contested' = contested
      BY <1>4 DEF GrantWrites, TypeOK
    <2>2. \/ due' = due
          \/ due' = [due EXCEPT ![admin.whose] = Later(due[admin.whose], 1)]
      BY <1>4 DEF GrantWrites
    <2> QED BY <1>1, <1>2, <2>1, <2>2, DueGrows
  <1>5. ASSUME NEW y \in Subscribers, NEW weeks \in 0..1, UpdateDays(y, weeks)
        PROVE  Kept(x) \/ Marked(x) \/ Cleared(x)
    <2>1. CASE x = y
      BY <1>5, <2>1 DEF UpdateDays, Marked, Cleared
    <2>2. CASE x # y
      BY <1>1, <1>5, <2>2 DEF UpdateDays, Kept, TypeOK
    <2> QED BY <2>1, <2>2
  <1>6. ASSUME NEW t \in Transfers, TransferWrites(t)
        PROVE  Kept(x) \/ Marked(x) \/ Spent(x)
    <2>1. CASE due' = due /\ contested' = contested
      BY <1>1, <2>1 DEF Kept
    <2>2. CASE ~(due' = due /\ contested' = contested)
      <3>1. /\ due' = [due EXCEPT ![Leader] = @ - WeekCost * WeekTicks,
                                  ![Faction] = Later(@, 1)]
            /\ contested' = IF CopyHeld(Leader, {t}) THEN contested \cup {Leader}
                                                    ELSE contested
        BY <1>6, <2>2 DEF TransferWrites
      <3>2. CASE x = Leader
        BY <1>6, <3>1, <3>2 DEF Marked, Spent
      <3>3. CASE x = Faction
        <4>1. due'[x] = Later(due[x], 1)
          BY <3>1, <3>3, NameAssumption DEF TypeOK
        <4>2. due[x] <= due'[x]
          BY <1>1, <4>1, LaterIsLater
        <4> QED BY <3>1, <4>2 DEF Kept
      <3>4. CASE x \notin {Leader, Faction}
        BY <1>1, <3>1, <3>4 DEF Kept, TypeOK
      <3> QED BY <3>2, <3>3, <3>4
    <2> QED BY <2>1, <2>2
  <1> QED BY <1>2, <1>3, <1>4, <1>5, <1>6 DEF Next, vars, Tick, Send, Fetch, RunStep,
        NextEntry, Validate, Insert, ReadSubscription, WriteFails, RunDies, GrantReads,
        TransferChecks

\* A copy that fits goes on fitting, unless time is taken that only it still has.
LEMMA Stays ==
    ASSUME IInv, [Next]_vars, NEW x \in Subscribers, NEW seen \in Expiries,
           Fits(x, seen), ~Cleared(x), ~Spent(x)
    PROVE  Fits(x, seen)'
  <1>1. TypeOK /\ TypeOK' /\ (Kept(x) \/ Marked(x))
    BY DueMoves, NextIInv DEF IInv
  <1>2. due[x] \in Int /\ due'[x] \in Int
    BY <1>1 DEF TypeOK
  <1>3. CASE Marked(x)
    BY <1>3 DEF Fits, Marked
  <1>4. CASE Kept(x)
    BY <1>2, <1>4 DEF Fits, Kept, Expiries
  <1> QED BY <1>1, <1>3, <1>4

\* An extension by weeks that are due keeps to the bound.
LEMMA ExtendedFits ==
    ASSUME TypeOK, NEW x \in Subscribers, NEW seen \in Expiries, Fits(x, seen),
           NEW weeks \in Nat, contested' = contested, due'[x] = Later(due[x], weeks),
           NEW v, v = Extended(seen, weeks)
    PROVE  Fits(x, v)'
  <1>1. weeks * WeekTicks \in Nat /\ due[x] \in Int /\ now \in Nat
    BY NumberAssumption DEF TypeOK
  <1>2. x \notin contested => v <= Later(due[x], weeks)
    BY <1>1 DEF Fits, Extended, Later, Expiries
  <1> QED BY <1>2 DEF Fits

LEMMA InitBounded == Init => Bounded
  BY DEF Init, Bounded, Fits, IdleRun, IdleHand

LEMMA BoundedExpiries ==
    ASSUME IInv, Bounded, [Next]_vars, NEW x \in Subscribers
    PROVE  Fits(x, expiry[x])'
  <1> USE DEF others, history, owed
  <1>1. /\ TypeOK /\ expiry[x] \in Expiries /\ Fits(x, expiry[x])
        /\ Leader \in Users /\ Faction \notin Users
    BY NameAssumption DEF IInv, TypeOK, Bounded
  <1>2. PICK v : v = expiry'[x]
    OBVIOUS
  <1>3. SUFFICES Fits(x, v)'
    BY <1>2 DEF Fits
  <1>4. CASE v = expiry[x] /\ ~Cleared(x) /\ ~Spent(x)
    BY <1>1, <1>4, Stays
  <1>5. ASSUME NEW r \in Runs, WriteSubscription(r) PROVE Fits(x, v)'
    <2> DEFINE e == run[r].entry
               u == Sender[e]
    <2>1. u \in Users /\ Weeks[e] \in Nat /\ run[r].seen \in Expiries
      BY <1>5, WeeksType DEF WriteSubscription, IInv, InLog, TypeOK
    <2>2. e \notin credited
      BY <1>5 DEF WriteSubscription, IInv, Held, Pending
    <2>3. /\ due' = [due EXCEPT ![u] = Later(@, Weeks[e])] /\ contested' = contested
          /\ expiry' = [expiry EXCEPT ![u] = Extended(run[r].seen, Weeks[e])]
      BY <1>5, <2>2 DEF WriteSubscription
    <2>4. CASE x = u
      <3>1. Fits(x, run[r].seen)
        BY <1>5, <2>4 DEF WriteSubscription, Bounded
      <3>2. v = Extended(run[r].seen, Weeks[e]) /\ due'[x] = Later(due[x], Weeks[e])
        BY <1>1, <1>2, <2>3, <2>4 DEF TypeOK
      <3> QED BY <1>1, <2>1, <2>3, <3>1, <3>2, ExtendedFits
    <2>5. CASE x # u
      <3>1. v = expiry[x] /\ due'[x] = due[x]
        BY <1>1, <1>2, <2>3, <2>5 DEF TypeOK
      <3> QED BY <1>1, <2>3, <3>1 DEF Fits
    <2> QED BY <2>4, <2>5
  <1>6. CASE GrantWrites
    <2>1. contested' = contested
      BY <1>6 DEF GrantWrites
    <2>2. CASE x = admin.whose /\ Writable(admin.whose, admin.seen)
      <3>1. Fits(x, admin.seen) /\ admin.seen \in Expiries
        BY <1>1, <1>6, <2>2 DEF GrantWrites, Bounded, TypeOK
      <3>2. v = Extended(admin.seen, 1) /\ due'[x] = Later(due[x], 1)
        BY <1>1, <1>2, <1>6, <2>2 DEF GrantWrites, TypeOK
      <3> QED BY <1>1, <2>1, <3>1, <3>2, ExtendedFits
    <2>3. CASE ~(x = admin.whose /\ Writable(admin.whose, admin.seen))
      <3>1. v = expiry[x] /\ due'[x] = due[x]
        BY <1>1, <1>2, <1>6, <2>3 DEF GrantWrites, TypeOK
      <3> QED BY <1>1, <2>1, <3>1 DEF Fits
    <2> QED BY <2>2, <2>3
  <1>7. ASSUME NEW y \in Subscribers, NEW weeks \in 0..1, UpdateDays(y, weeks)
        PROVE  Fits(x, v)'
    <2>1. /\ expiry' = [expiry EXCEPT ![y] = now + weeks * WeekTicks]
          /\ due' = [due EXCEPT ![y] = now + weeks * WeekTicks]
          /\ now + weeks * WeekTicks \in Int
      BY <1>1, <1>7, NumberAssumption DEF UpdateDays, TypeOK
    <2>2. CASE x = y
      <3>1. v = due'[x] /\ v \in Int
        BY <1>1, <1>2, <2>1, <2>2 DEF TypeOK
      <3> QED BY <3>1 DEF Fits
    <2>3. CASE x # y
      <3>1. v = expiry[x] /\ due'[x] = due[x]
        BY <1>1, <1>2, <2>1, <2>3 DEF TypeOK
      <3>2. x \in contested' <=> x \in contested
        BY <1>7, <2>3 DEF UpdateDays
      <3> QED BY <1>1, <3>1, <3>2 DEF Fits
    <2> QED BY <2>2, <2>3
  <1>8. ASSUME NEW t \in Transfers, TransferWrites(t)
        PROVE  Fits(x, v)'
    <2> DEFINE seen == transfer[t].seen
    <2>1. CASE ~(WeeksRemaining(seen) >= WeekCost)
      <3>1. v = expiry[x] /\ due' = due /\ contested' = contested
        BY <1>2, <1>8, <2>1 DEF TransferWrites
      <3> QED BY <1>1, <3>1 DEF Fits
    <2>2. CASE WeeksRemaining(seen) >= WeekCost
      <3>1. /\ expiry' = [expiry EXCEPT ![Leader] = seen - WeekCost * WeekTicks,
                                        ![Faction] = Extended(expiry[Faction], 1)]
            /\ due' = [due EXCEPT ![Leader] = @ - WeekCost * WeekTicks,
                                  ![Faction] = Later(@, 1)]
            /\ contested \subseteq contested'
        BY <1>8, <2>2 DEF TransferWrites
      <3>2. /\ seen \in Int /\ Fits(Leader, seen) /\ seen # NoSub
            /\ WeekCost * WeekTicks \in Nat
        BY <1>1, <1>8, <2>2, NumberAssumption, NameAssumption
        DEF WeeksRemaining, TypeOK, Expiries, TransferWrites, Bounded
      <3>3. CASE x = Leader
        <4>1. v = seen - WeekCost * WeekTicks /\ due'[x] = due[x] - WeekCost * WeekTicks
          BY <1>1, <1>2, <3>1, <3>3 DEF TypeOK
        <4>2. due[x] \in Int
          BY <1>1 DEF TypeOK
        <4>3. x \notin contested' => seen <= due[x]
          BY <3>1, <3>2, <3>3 DEF Fits
        <4> QED BY <3>2, <4>1, <4>2, <4>3 DEF Fits
      <3>4. CASE x = Faction
        <4>1. v = Extended(expiry[x], 1) /\ due'[x] = Later(due[x], 1)
          BY <1>1, <1>2, <3>1, <3>4 DEF TypeOK
        <4>2. due[x] \in Int /\ now \in Nat /\ 1 * WeekTicks \in Nat
          BY <1>1, NumberAssumption DEF TypeOK
        <4>3. x \notin contested' => v <= due'[x]
          BY <1>1, <3>1, <4>1, <4>2 DEF Fits, Extended, Later, Expiries
        <4> QED BY <4>3 DEF Fits
      <3>5. CASE x \notin {Leader, Faction}
        <4>1. v = expiry[x] /\ due'[x] = due[x]
          BY <1>1, <1>2, <3>1, <3>5 DEF TypeOK
        <4> QED BY <1>1, <3>1, <4>1 DEF Fits
      <3> QED BY <3>3, <3>4, <3>5
    <2> QED BY <2>1, <2>2
  <1>9. CASE expiry' = expiry /\ due' = due /\ contested' = contested
    BY <1>1, <1>2, <1>9 DEF Fits
  <1> QED BY <1>5, <1>6, <1>7, <1>8, <1>9 DEF Next, vars, Tick, Send, Fetch, RunStep,
        NextEntry, Validate, Insert, ReadSubscription, WriteFails, RunDies, GrantReads,
        TransferChecks

\* A run about to write has just read the expiry, or kept its copy.
LEMMA RunCopies ==
    ASSUME IInv, [Next]_vars, NEW r \in Runs, run'[r].pc = "write"
    PROVE  \/ ReadSubscription(r)
           \/ run[r].pc = "write" /\ run'[r] = run[r]
  <1> USE DEF others, history, owed
  <1>1. run \in [Runs -> RunStates]
    BY DEF IInv, TypeOK, RunStates
  <1>2. ASSUME NEW s \in Runs, run' = [run EXCEPT ![s] = run'[s]], s # r
        PROVE  run[r].pc = "write" /\ run'[r] = run[r]
    BY <1>1, <1>2
  <1>3. ASSUME NEW s \in Runs, Fetch(s) \/ RunStep(s) \/ RunDies(s)
        PROVE  run' = [run EXCEPT ![s] = run'[s]]
    BY <1>1, <1>3 DEF Fetch, RunStep, NextEntry, Validate, Insert, ReadSubscription,
       WriteSubscription, WriteFails, RunDies
  <1>4. ASSUME Fetch(r) \/ RunStep(r) \/ RunDies(r) PROVE ReadSubscription(r)
    <2>1. ~Fetch(r)
      <3>1. ASSUME Fetch(r) PROVE run'[r].pc = "next"
        BY <1>1, <3>1 DEF Fetch, IdleRun
      <3> QED BY <3>1
    <2>2. ~NextEntry(r)
      <3>1. run' # [run EXCEPT ![r] = IdleRun]
        BY <1>1 DEF IdleRun
      <3>2. ASSUME NEW e, NEW pc \in {"next", "validate"},
                   run' = [run EXCEPT ![r] = [run[r] EXCEPT
                             !.todo = @ \ {e}, !.entry = e, !.pc = pc]]
            PROVE  FALSE
        BY <1>1, <3>2 DEF RunStates
      <3> QED BY <3>1, <3>2 DEF NextEntry
    <2>3. ~Validate(r) /\ ~Insert(r)
      BY <1>1 DEF Validate, Insert, RunStates, IdleRun
    <2>4. ~WriteSubscription(r)
      BY <1>1 DEF WriteSubscription, RunStates
    <2>5. ~WriteFails(r) /\ ~RunDies(r)
      BY <1>1 DEF WriteFails, RunDies, RunStates, IdleRun
    <2> QED BY <1>4, <2>1, <2>2, <2>3, <2>4, <2>5 DEF RunStep
  <1>5. CASE run' = run
    BY <1>5
  <1> QED BY <1>2, <1>3, <1>4, <1>5, OutsideFrame DEF Next, OutsideStep, vars

LEMMA BoundedRuns ==
    ASSUME IInv, Bounded, [Next]_vars, NEW r \in Runs, run'[r].pc = "write"
    PROVE  Fits(Sender[run[r].entry], run[r].seen)'
  <1>1. run \in [Runs -> RunStates]
    BY DEF IInv, TypeOK, RunStates
  <1>2. CASE ReadSubscription(r)
    <2>1. PICK u, v : u = Sender[run[r].entry] /\ v = expiry[u]
      OBVIOUS
    <2>2. u \in Subscribers
      BY <1>2, <2>1, WeeksType DEF ReadSubscription, IInv, InLog, Subscribers
    <2>3. Fits(u, v)
      BY <2>1, <2>2 DEF Bounded
    <2>4. run'[r].seen = v /\ Sender[run'[r].entry] = u
      BY <1>1, <1>2, <2>1 DEF ReadSubscription, RunStates
    <2>5. due' = due /\ contested' = contested
      BY <1>2 DEF ReadSubscription, owed
    <2> QED BY <2>3, <2>4, <2>5 DEF Fits
  <1>3. CASE run[r].pc = "write" /\ run'[r] = run[r]
    <2>1. PICK u, v : u = Sender[run[r].entry] /\ v = run[r].seen
      OBVIOUS
    <2>2. u \in Subscribers /\ v \in Expiries /\ Fits(u, v)
      BY <1>1, <1>3, <2>1, WeeksType DEF IInv, InLog, Subscribers, RunStates, Bounded
    <2>3. ~Cleared(u) /\ ~Spent(u)
      BY <1>3, <2>1 DEF Cleared, Spent, CopyHeld
    <2>4. Fits(u, v)'
      BY <2>2, <2>3, Stays
    <2> QED BY <1>3, <2>1, <2>4 DEF Fits
  <1> QED BY <1>2, <1>3, RunCopies

LEMMA BoundedGrant ==
    ASSUME IInv, Bounded, [Next]_vars, admin'.pc = "write"
    PROVE  Fits(admin.whose, admin.seen)'
  <1> USE DEF others, history, owed
  <1>1. PICK w, v : w = admin'.whose /\ v = admin'.seen
    OBVIOUS
  <1>2. ASSUME NEW x \in Subscribers, GrantReads(x) PROVE Fits(w, v)'
    <2>1. w = x /\ v = expiry[x] /\ Fits(x, expiry[x])
      BY <1>1, <1>2 DEF GrantReads, Bounded
    <2>2. due' = due /\ contested' = contested
      BY <1>2 DEF GrantReads
    <2> QED BY <2>1, <2>2 DEF Fits
  <1>3. ASSUME admin' = admin PROVE Fits(w, v)'
    <2>1. w \in Subscribers /\ v \in Expiries /\ Fits(w, v)
      BY <1>1, <1>3 DEF IInv, TypeOK, Bounded
    <2>2. ~Cleared(w) /\ ~Spent(w)
      BY <1>1, <1>3 DEF Cleared, Spent, CopyHeld
    <2> QED BY <2>1, <2>2, Stays
  <1>4. ~GrantWrites
    BY DEF GrantWrites, IdleHand
  <1>5. Fits(w, v)'
    BY <1>2, <1>3, <1>4 DEF Next, vars, Tick, Send, Fetch, RunStep, NextEntry, Validate,
       Insert, ReadSubscription, WriteSubscription, WriteFails, RunDies, UpdateDays,
       TransferChecks, TransferWrites
  <1> QED BY <1>1, <1>5 DEF Fits

LEMMA BoundedTransfers ==
    ASSUME IInv, Bounded, [Next]_vars, NEW t \in Transfers, transfer'[t].pc = "write"
    PROVE  Fits(Leader, transfer[t].seen)'
  <1> USE DEF others, history, owed
  <1>1. PICK v : v = transfer'[t].seen
    OBVIOUS
  <1>2. Leader \in Subscribers
    BY NameAssumption DEF Subscribers
  <1>3. CASE TransferChecks(t)
    <2>1. v = expiry[Leader] /\ Fits(Leader, expiry[Leader])
      BY <1>1, <1>2, <1>3 DEF TransferChecks, IInv, TypeOK, Bounded
    <2>2. due' = due /\ contested' = contested
      BY <1>3 DEF TransferChecks
    <2> QED BY <1>1, <2>1, <2>2 DEF Fits
  <1>4. CASE transfer'[t] = transfer[t]
    <2>1. v \in Expiries /\ Fits(Leader, v)
      BY <1>1, <1>4 DEF IInv, TypeOK, Bounded
    <2>2. ~Cleared(Leader)
      BY <1>4 DEF Cleared, CopyHeld
    <2>3. ASSUME NEW s \in Transfers, TransferWrites(s) PROVE CopyHeld(Leader, {s})
      <3>1. transfer'[s].pc = "idle"
        BY <2>3 DEF TransferWrites, IInv, TypeOK, IdleHand
      <3>2. t \in Transfers \ {s}
        BY <3>1
      <3> QED BY <1>4, <3>2 DEF CopyHeld
    <2>4. ~Spent(Leader)
      BY <2>3 DEF Spent
    <2>5. Fits(Leader, v)'
      BY <1>2, <2>1, <2>2, <2>4, Stays
    <2> QED BY <1>1, <2>5 DEF Fits
  <1>5. TransferChecks(t) \/ transfer'[t] = transfer[t]
    <2>1. ASSUME NEW s \in Transfers, s # t, TransferChecks(s) \/ TransferWrites(s)
          PROVE  transfer'[t] = transfer[t]
      BY <2>1 DEF TransferChecks, TransferWrites, IInv, TypeOK
    <2>2. ~TransferWrites(t)
      BY DEF TransferWrites, IInv, TypeOK, IdleHand
    <2> QED BY <2>1, <2>2 DEF Next, vars, Tick, Send, Fetch, RunStep, NextEntry,
          Validate, Insert, ReadSubscription, WriteSubscription, WriteFails, RunDies,
          GrantReads, GrantWrites, UpdateDays
  <1> QED BY <1>3, <1>4, <1>5

LEMMA BoundedStep ==
    ASSUME IInv, Bounded, [Next]_vars
    PROVE  Bounded'
  BY BoundedExpiries, BoundedRuns, BoundedGrant, BoundedTransfers DEF Bounded

\* However payments, grants and transfers interleave, each writing an expiry from
\* a copy that may be stale, a subscription outlasts what is due, deductions
\* included, only if time was taken from its holder while somebody was about to
\* write a copy: every other stale write loses time and makes none.
THEOREM TimeIsPaidFor == Spec => []NoFreeTime
  <1>1. IInv /\ Bounded /\ [Next]_vars => Bounded'
    BY BoundedStep
  <1>2. Bounded => NoFreeTime
    BY DEF Bounded, Fits, NoFreeTime
  <1> QED BY InitBounded, Invariant, <1>1, <1>2, PTL DEF Spec

-----------------------------------------------------------------------------
(* The safety half of EveryPaymentRecorded: a run ends, and forgets no      *)
(* entry it fetched.                                                       *)

\* What a run has fetched and neither recorded nor skipped yet.
Owes(r, e) == /\ run[r].pc # "idle"
              /\ \/ e \in run[r].todo
                 \/ run[r].pc \in {"validate", "insert"} /\ run[r].entry = e

StepsLeft == [idle |-> 0, next |-> 1, write |-> 2, read |-> 3, insert |-> 4, validate |-> 5]
RunWork(r) == 6 * Cardinality(run[r].todo) + StepsLeft[run[r].pc]

\* Where a step takes a run.
Skips(old, new, e) == /\ old.pc = "next" /\ e \in old.todo /\ new.todo = old.todo \ {e}
                      /\ \/ new.pc = "next" /\ e \in payments
                         \/ new.pc = "validate" /\ new.entry = e
Ends(old, new) == new = IdleRun /\ old.pc # "idle"
Advances(old, new) ==
    /\ new.todo = old.todo /\ new.entry = old.entry
    /\ \/ old.pc = "validate" /\ new.pc = "insert"
       \/ old.pc = "insert" /\ new.pc \in {"next", "read"} /\ old.entry \in payments'
       \/ old.pc = "read" /\ new.pc = "write"
       \/ old.pc = "write" /\ new.pc = "next"

LEMMA RunMoves ==
    ASSUME IInv, NEW r \in Runs, RunStep(r)
    PROVE  \/ Ends(run[r], run'[r])
           \/ Advances(run[r], run'[r])
           \/ \E e \in Entries : Skips(run[r], run'[r], e)
  <1>0. run \in [Runs -> RunStates] /\ payments \subseteq Entries
    BY DEF IInv, TypeOK, RunStates
  <1>1. CASE NextEntry(r)
    <2>1. CASE run' = [run EXCEPT ![r] = IdleRun]
      BY <1>0, <1>1, <2>1 DEF NextEntry, Ends
    <2>2. ASSUME NEW e \in Newest(run[r].todo),
                 run' = [run EXCEPT ![r] = [run[r] EXCEPT
                           !.todo = @ \ {e}, !.entry = e,
                           !.pc = IF e \in payments THEN "next" ELSE "validate"]]
          PROVE  \E d \in Entries : Skips(run[r], run'[r], d)
      <3>1. e \in run[r].todo /\ e \in Entries
        BY <1>0 DEF Newest, RunStates
      <3>2. Skips(run[r], run'[r], e)
        BY <1>0, <1>1, <2>2, <3>1 DEF NextEntry, Skips, RunStates
      <3> QED BY <3>1, <3>2
    <2> QED BY <1>1, <2>1, <2>2 DEF NextEntry
  <1>2. CASE Validate(r)
    BY <1>0, <1>2 DEF Validate, Ends, Advances, RunStates
  <1>3. CASE Insert(r)
    BY <1>0, <1>3 DEF Insert, Advances, RunStates
  <1>4. CASE ReadSubscription(r)
    BY <1>0, <1>4 DEF ReadSubscription, Advances, RunStates
  <1>5. CASE WriteSubscription(r)
    BY <1>0, <1>5 DEF WriteSubscription, Advances, RunStates
  <1>6. CASE WriteFails(r)
    <2>1. CASE run' = [run EXCEPT ![r] = IdleRun]
      BY <1>0, <1>6, <2>1 DEF WriteFails, Ends
    <2>2. CASE run' = [run EXCEPT ![r].pc = "next"]
      BY <1>0, <1>6, <2>2 DEF WriteFails, Advances, RunStates
    <2> QED BY <1>6, <2>1, <2>2 DEF WriteFails
  <1> QED BY <1>1, <1>2, <1>3, <1>4, <1>5, <1>6 DEF RunStep

LEMMA RunWorkIsNat ==
    ASSUME TypeOK, NEW r \in Runs
    PROVE  /\ IsFiniteSet(run[r].todo) /\ Cardinality(run[r].todo) \in Nat
           /\ RunWork(r) \in Nat
  <1>1. IsFiniteSet(Entries)
    BY LogAssumption, FS_Interval
  <1>2. run[r].todo \in SUBSET Entries /\ run[r].pc \in DOMAIN StepsLeft
    BY DEF TypeOK, StepsLeft
  <1>3. IsFiniteSet(run[r].todo)
    BY <1>1, <1>2, FS_Subset
  <1>4. Cardinality(run[r].todo) \in Nat
    BY <1>3, FS_CardinalityType
  <1> QED BY <1>2, <1>3, <1>4 DEF RunWork, StepsLeft

\* Every step of a run leaves it less to do, whatever the other runs and the log
\* do: with the fairness of its steps, each run ends.
THEOREM RunsEnd == Spec => [][\A r \in Runs : RunStep(r) => RunWork(r)' < RunWork(r)]_vars
  <1>1. ASSUME IInv, IInv', NEW r \in Runs, RunStep(r) PROVE RunWork(r)' < RunWork(r)
    <2>0. /\ Cardinality(run[r].todo) \in Nat /\ IsFiniteSet(run[r].todo)
          /\ run[r].pc \in DOMAIN StepsLeft
      BY <1>1, RunWorkIsNat DEF IInv, TypeOK, StepsLeft
    <2>1. CASE Ends(run[r], run'[r])
      <3>1. run'[r].todo = {} /\ run'[r].pc = "idle" /\ run[r].pc # "idle"
        BY <2>1 DEF Ends, IdleRun
      <3>2. RunWork(r)' = 6 * Cardinality({}) + 0
        BY <3>1 DEF RunWork, StepsLeft
      <3>3. Cardinality({}) = 0
        BY FS_EmptySet
      <3> QED BY <2>0, <3>1, <3>2, <3>3 DEF RunWork, StepsLeft
    <2>2. CASE Advances(run[r], run'[r])
      BY <2>0, <2>2 DEF Advances, RunWork, StepsLeft
    <2>3. ASSUME NEW e \in Entries, Skips(run[r], run'[r], e) PROVE RunWork(r)' < RunWork(r)
      <3>1. Cardinality(run[r].todo \ {e}) = Cardinality(run[r].todo) - 1
        BY <2>0, <2>3, FS_RemoveElement DEF Skips
      <3>2. Cardinality(run'[r].todo) = Cardinality(run[r].todo) - 1
        BY <2>3, <3>1 DEF Skips
      <3>3. run[r].pc = "next" /\ run'[r].pc \in {"next", "validate"}
        BY <2>3 DEF Skips
      <3> QED BY <2>0, <3>2, <3>3 DEF RunWork, StepsLeft
    <2> QED BY <1>1, <2>1, <2>2, <2>3, RunMoves
  <1>2. IInv /\ IInv' /\ [Next]_vars
          => [\A r \in Runs : RunStep(r) => RunWork(r)' < RunWork(r)]_vars
    BY <1>1
  <1> QED BY <1>2, Invariant, PTL DEF Spec

\* A run lets go of an entry it has fetched only once that is on record, or when it
\* ends early: because another run has recorded the entry in hand since, because
\* the subscription was created under it, or because it died.
THEOREM NothingIsForgotten ==
    Spec => [][\A r \in Runs, e \in Entries :
                  Owes(r, e) /\ ~Owes(r, e)' =>
                    \/ e \in payments'
                    \/ Validate(r) /\ run[r].entry \in payments
                    \/ WriteFails(r) \/ RunDies(r)]_vars
  <1>1. ASSUME IInv, Next, NEW r \in Runs, NEW e \in Entries,
               Owes(r, e), ~Owes(r, e)', ~WriteFails(r), ~RunDies(r),
               ~(Validate(r) /\ run[r].entry \in payments)
        PROVE  e \in payments'
    <2>0. run \in [Runs -> RunStates] /\ payments \subseteq payments'
      BY <1>1 DEF IInv, TypeOK, RunStates, Next, Tick, Send, Fetch, RunStep, NextEntry, Validate,
         Insert, ReadSubscription, WriteSubscription, WriteFails, RunDies, GrantReads,
         GrantWrites, UpdateDays, TransferChecks, TransferWrites, history
    <2>1. CASE RunStep(r)
      <3>1. CASE Ends(run[r], run'[r])
        <4>1. run'[r].pc = "idle" /\ run[r].pc # "idle"
          BY <3>1 DEF Ends, IdleRun
        <4>2. NextEntry(r)
          <5>1. ~Insert(r)
            BY <2>0, <4>1 DEF Insert, RunStates
          <5>2. ASSUME ReadSubscription(r) PROVE FALSE
            <6>1. run' = [run EXCEPT ![r] = [run[r] EXCEPT
                            !.pc = "write", !.seen = expiry[Sender[run[r].entry]]]]
              BY <5>2 DEF ReadSubscription
            <6>2. run'[r].pc = "write"
              BY <2>0, <6>1 DEF RunStates
            <6> QED BY <4>1, <6>2
          <5>3. ~WriteSubscription(r)
            BY <2>0, <4>1 DEF WriteSubscription, RunStates
          <5>4. ~Validate(r)
            BY <1>1, <2>0, <4>1 DEF Validate, RunStates
          <5> QED BY <1>1, <2>1, <5>1, <5>2, <5>3, <5>4 DEF RunStep
        <4>3. run[r].todo = {}
          BY <2>0, <4>1, <4>2 DEF NextEntry, RunStates
        <4> QED BY <1>1, <4>2, <4>3 DEF Owes, NextEntry
      <3>2. CASE Advances(run[r], run'[r])
        BY <1>1, <3>2 DEF Advances, Owes
      <3>3. ASSUME NEW d \in Entries, Skips(run[r], run'[r], d) PROVE e \in payments'
        BY <1>1, <2>0, <3>3 DEF Skips, Owes
      <3> QED BY <1>1, <2>1, <3>1, <3>2, <3>3, RunMoves
    <2>2. CASE Fetch(r)
      BY <1>1, <2>2 DEF Fetch, Owes
    <2>3. ASSUME NEW s \in Runs \ {r}, Fetch(s) \/ RunStep(s) \/ RunDies(s) PROVE FALSE
      <3>1. run'[r] = run[r]
        BY <2>0, <2>3 DEF Fetch, RunStep, RunDies, NextEntry, Validate, Insert, ReadSubscription,
           WriteSubscription, WriteFails
      <3> QED BY <1>1, <3>1 DEF Owes
    <2>4. CASE OutsideStep
      BY <1>1, <2>4, OutsideFrame DEF Owes
    <2> QED BY <1>1, <2>1, <2>2, <2>3, <2>4 DEF Next, OutsideStep
  <1>2. IInv /\ [Next]_vars
          => [\A r \in Runs, e \in Entries :
                  Owes(r, e) /\ ~Owes(r, e)' =>
                    \/ e \in payments'
                    \/ Validate(r) /\ run[r].entry \in payments
                    \/ WriteFails(r) \/ RunDies(r)]_vars
    BY <1>1
  <1> QED BY <1>2, Invariant, PTL DEF Spec
=============================================================================

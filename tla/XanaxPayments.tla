---------------------------- MODULE XanaxPayments ----------------------------
(***************************************************************************)
(* Subscriptions and the payments that extend them.  A run of              *)
(* Daily::XanaxPaymentsJob reads Torn's log of received items, records     *)
(* every payment it has not seen (xanax_payments.log_id is unique) and     *)
(* extends the sender's subscription.  The nightly run and the runs that   *)
(* web requests perform in place are not serialised.  A leader can turn    *)
(* personal weeks into weeks of the faction, an admin grants or sets time; *)
(* every one of them writes an expiry computed from the copy it has read.  *)
(***************************************************************************)
EXTENDS Integers, Sequences

CONSTANTS
    Quantity,        \* Quantity[e]: xanax sent with log entry e, e = 1, 2, ...
    Sender,          \* Sender[e]: the user who sent it
    Users,           \* users with a personal subscription
    Faction,         \* the faction, which has a subscription too
    Leader,          \* the user who extends it
    Runs,            \* concurrent runs of the job
    Nightly,         \* the scheduled one among them
    Transfers,       \* concurrent requests of the leader
    NoSub,           \* no subscriptions row
    WeeksPerXanax,   \* WEEKS_PER_XANAX
    WeekCost,        \* faction_week_cost: personal weeks a faction week costs
    WeekTicks,       \* ticks of the clock per week
    FetchLimit,      \* limit: of fetch_xanax_payments
    MaxTime,         \* bound: last tick of the clock
    MaxGrants,       \* bound: what an admin does
    MaxTransfers,    \* bound: transfers that pass the balance check
    MaxFaults        \* bound: runs that die or raise on an outside error

Entries == DOMAIN Quantity
Subscribers == Users \cup {Faction}
Weeks == [e \in Entries |-> Quantity[e] * WeeksPerXanax]

ASSUME LogAssumption ==
    /\ Len(Quantity) \in Nat /\ Entries = 1..Len(Quantity)
    /\ \A e \in Entries : Quantity[e] \in Nat \ {0} /\ Sender[e] \in Users
    /\ WeeksPerXanax \in Nat \ {0}
ASSUME NameAssumption ==
    /\ Faction \notin Users /\ Leader \in Users /\ Nightly \in Runs
    /\ NoSub \notin Int
ASSUME NumberAssumption ==
    /\ WeekCost \in Nat \ {0} /\ WeekTicks \in Nat \ {0} /\ FetchLimit \in Nat \ {0}
    /\ MaxTime \in Nat /\ MaxGrants \in Nat /\ MaxTransfers \in Nat
    /\ MaxFaults \in Nat

VARIABLES
    now,        \* the clock
    log,        \* entries of Torn's log so far
    payments,   \* xanax_payments, by log_id
    expiry,     \* subscriptions.expires_at of users and the faction
    run,        \* the runs of the job
    admin,      \* a grant in progress
    transfer,   \* the leader's requests in progress
    credited,   \* history: payments whose extension has been written
    forfeited,  \* history: recorded payments whose run ended without it
    paid,       \* history: weeks extended for payments, per user
    due,        \* history: the expiry, were every change made to the row itself
    contested,  \* history: time was taken from a copy somebody was about to write
    grants,     \* history: what an admin has begun
    transfers,  \* history: transfers that passed the check
    faults      \* history: runs that died or met an outside error

history == <<credited, forfeited, paid>>
owed == <<due, contested>>
others == <<now, log, admin, transfer, grants, transfers>>
vars == <<now, log, payments, expiry, run, admin, transfer, credited, forfeited,
          paid, due, contested, grants, transfers, faults>>

Expiries == Int \cup {NoSub}
IdleRun == [pc |-> "idle", todo |-> {}, entry |-> 0, seen |-> NoSub]
IdleHand == [pc |-> "idle", whose |-> Faction, seen |-> NoSub]

TypeOK ==
    /\ now \in Nat /\ log \in 0..Len(Quantity) /\ faults \in Nat
    /\ grants \in Nat /\ transfers \in Nat
    /\ payments \subseteq Entries
    /\ credited \subseteq Entries /\ forfeited \subseteq Entries
    /\ expiry \in [Subscribers -> Expiries]
    /\ run \in [Runs -> [pc : {"idle", "next", "validate", "insert", "read", "write"},
                         todo : SUBSET Entries, entry : Nat, seen : Expiries]]
    /\ admin \in [pc : {"idle", "write"}, whose : Subscribers, seen : Expiries]
    /\ transfer \in [Transfers -> [pc : {"idle", "write"}, whose : {Faction},
                                   seen : Expiries]]
    /\ paid \in [Users -> Nat]
    /\ due \in [Subscribers -> Int]
    /\ contested \subseteq Subscribers

Init ==
    /\ now = 0 /\ log = 0 /\ payments = {}
    /\ expiry = [x \in Subscribers |-> NoSub]
    /\ run = [r \in Runs |-> IdleRun]
    /\ admin = IdleHand
    /\ transfer = [t \in Transfers |-> IdleHand]
    /\ credited = {} /\ forfeited = {}
    /\ paid = [u \in Users |-> 0]
    /\ due = [x \in Subscribers |-> 0] /\ contested = {}
    /\ grants = 0 /\ transfers = 0 /\ faults = 0

-----------------------------------------------------------------------------
(* Subscription.                                                           *)

\* Mutant: weeks are added twice, to the old expiry and to the new one.
ExtendedTwice(seen, weeks) ==
    (IF seen # NoSub /\ seen > now THEN seen + weeks * WeekTicks ELSE now)
        + weeks * WeekTicks

\* extend!, and create_subscription! for a subscriber that has none.
Extended(seen, weeks) ==
    (IF seen # NoSub /\ seen > now THEN seen ELSE now) + weeks * WeekTicks

\* What the weeks add to the time a subscriber is due.
Later(time, weeks) ==
    weeks * WeekTicks + (IF time < now THEN now ELSE time)

\* A second row for the subscriber fails its uniqueness validation.
Writable(x, seen) == seen = NoSub => expiry[x] = NoSub

\* User#subscription_weeks_remaining of the copy, rounded to whole weeks.
WeeksRemaining(seen) ==
    IF seen # NoSub /\ seen > now
    THEN (2 * (seen - now) + WeekTicks) \div (2 * WeekTicks) ELSE 0

-----------------------------------------------------------------------------
(* Daily::XanaxPaymentsJob.                                                *)

Tick == /\ now < MaxTime /\ now' = now + 1
        /\ UNCHANGED <<log, payments, expiry, run, admin, transfer, history,
                       owed, grants, transfers, faults>>

\* Somebody sends xanax to the recipient.
Send == /\ log + 1 \in Entries /\ log' = log + 1
        /\ UNCHANGED <<now, payments, expiry, run, admin, transfer, history,
                       owed, grants, transfers, faults>>

\* Mutant: one entry more than the log has.
FetchOneMore(r) ==
    /\ run[r].pc = "idle" /\ log > 0
    /\ run' = [run EXCEPT ![r] = [IdleRun EXCEPT
                  !.pc = "next", !.todo = {e \in 0..log : log - e < FetchLimit}]]
    /\ UNCHANGED <<payments, expiry, history, owed, faults, others>>

\* fetch_xanax_payments: the newest entries.
Fetch(r) ==
    /\ run[r].pc = "idle" /\ log > 0
    /\ run' = [run EXCEPT ![r] = [IdleRun EXCEPT
                  !.pc = "next", !.todo = {e \in 1..log : log - e < FetchLimit}]]
    /\ UNCHANGED <<payments, expiry, history, owed, faults, others>>

Newest(S) == {e \in S : \A x \in S : x <= e}

\* Mutant: a run stops at the first entry that is on record.
NextEntryOrStop(r) ==
    /\ run[r].pc = "next"
    /\ \/ /\ run[r].todo = {}
          /\ run' = [run EXCEPT ![r] = IdleRun]
       \/ \E e \in Newest(run[r].todo) :
             run' = [run EXCEPT ![r] = IF e \in payments THEN IdleRun
                       ELSE [@ EXCEPT !.todo = @ \ {e}, !.entry = e, !.pc = "validate"]]
    /\ UNCHANGED <<payments, expiry, history, owed, faults, others>>

\* The next entry, newest first; one that is on record is skipped.
NextEntry(r) ==
    /\ run[r].pc = "next"
    /\ \/ /\ run[r].todo = {}
          /\ run' = [run EXCEPT ![r] = IdleRun]
       \/ \E e \in Newest(run[r].todo) :
             run' = [run EXCEPT ![r] = [run[r] EXCEPT
                        !.todo = @ \ {e}, !.entry = e,
                        !.pc = IF e \in payments THEN "next" ELSE "validate"]]
    /\ UNCHANGED <<payments, expiry, history, owed, faults, others>>

\* create! looks for the log_id itself and raises RecordInvalid on a hit, which
\* nothing rescues: the run ends.
Validate(r) ==
    /\ run[r].pc = "validate"
    /\ run' = [run EXCEPT ![r] = IF run[r].entry \in payments THEN IdleRun
                                 ELSE [run[r] EXCEPT !.pc = "insert"]]
    /\ UNCHANGED <<payments, expiry, history, owed, faults, others>>

\* Mutant: without the unique index a second row is inserted.
InsertAgain(r) ==
    /\ run[r].pc = "insert"
    /\ payments' = payments \cup {run[r].entry}
    /\ run' = [run EXCEPT ![r].pc = "read"]
    /\ UNCHANGED <<expiry, history, owed, faults, others>>

\* The unique index decides: RecordNotUnique is rescued and the entry skipped.
Insert(r) ==
    /\ run[r].pc = "insert"
    /\ payments' = payments \cup {run[r].entry}
    /\ run' = [run EXCEPT ![r].pc = IF run[r].entry \in payments THEN "next" ELSE "read"]
    /\ UNCHANGED <<expiry, history, owed, faults, others>>

\* Mutant: a lapsed subscription counts as none to extend.
ReadUnlessLapsed(r) ==
    /\ run[r].pc = "read"
    /\ LET seen == expiry[Sender[run[r].entry]] IN
       run' = [run EXCEPT ![r] = [@ EXCEPT
                  !.pc = IF seen # NoSub /\ seen <= now THEN "next" ELSE "write",
                  !.seen = seen]]
    /\ UNCHANGED <<payments, expiry, history, owed, faults, others>>

\* extend_subscription!, the subscription it loads ...
ReadSubscription(r) ==
    /\ run[r].pc = "read"
    /\ run' = [run EXCEPT ![r] = [@ EXCEPT
                  !.pc = "write", !.seen = expiry[Sender[run[r].entry]]]]
    /\ UNCHANGED <<payments, expiry, history, owed, faults, others>>

\* ... and the expiry it writes.
WriteSubscription(r) ==
    LET e == run[r].entry
        u == Sender[e] IN
    /\ run[r].pc = "write" /\ Writable(u, run[r].seen)
    /\ expiry' = [expiry EXCEPT ![u] = Extended(run[r].seen, Weeks[e])]
    /\ credited' = credited \cup {e}
    /\ paid' = [paid EXCEPT ![u] = @ + Weeks[e]]
    /\ due' = IF e \in credited THEN due ELSE [due EXCEPT ![u] = Later(@, Weeks[e])]
    /\ run' = [run EXCEPT ![r].pc = "next"]
    /\ UNCHANGED <<payments, forfeited, contested, faults, others>>

Forfeit(r) ==
    forfeited' = IF run[r].pc \in {"read", "write"}
                 THEN forfeited \cup {run[r].entry} ELSE forfeited

\* create_subscription! raises, since somebody has created the row: RecordInvalid
\* from the validation ends the run; RecordNotUnique from the index, when the
\* validation did not see the row, is rescued like that of create!.
WriteFails(r) ==
    /\ run[r].pc = "write" /\ ~Writable(Sender[run[r].entry], run[r].seen)
    /\ Forfeit(r)
    /\ \/ run' = [run EXCEPT ![r] = IdleRun]
       \/ run' = [run EXCEPT ![r].pc = "next"]
    /\ UNCHANGED <<payments, expiry, credited, paid, owed, faults, others>>

\* The process dies, or Torn or the database raises at whatever point.
RunDies(r) ==
    /\ run[r].pc # "idle" /\ faults < MaxFaults
    /\ faults' = faults + 1
    /\ Forfeit(r)
    /\ run' = [run EXCEPT ![r] = IdleRun]
    /\ UNCHANGED <<payments, expiry, credited, paid, owed, others>>

RunStep(r) == \/ NextEntry(r) \/ Validate(r) \/ Insert(r) \/ ReadSubscription(r)
              \/ WriteSubscription(r) \/ WriteFails(r)

-----------------------------------------------------------------------------
(* Admin::SubscriptionsController and Leadership::SubscriptionsController. *)

Counted == /\ grants < MaxGrants /\ grants' = grants + 1
           /\ UNCHANGED transfers

\* Somebody but the transfers in T is about to write from a copy of x's subscription.
CopyHeld(x, T) ==
    \/ \E r \in Runs : run[r].pc = "write" /\ Sender[run[r].entry] = x
    \/ admin.pc = "write" /\ admin.whose = x
    \/ x = Leader /\ \E t \in Transfers \ T : transfer[t].pc = "write"

\* grant, for one week: reads the subscription, then writes it.
GrantReads(x) ==
    /\ admin.pc = "idle" /\ Counted
    /\ admin' = [pc |-> "write", whose |-> x, seen |-> expiry[x]]
    /\ UNCHANGED <<now, log, payments, expiry, run, transfer, history, owed, faults>>

GrantWrites ==
    /\ admin.pc = "write"
    /\ IF Writable(admin.whose, admin.seen)
       THEN /\ expiry' = [expiry EXCEPT ![admin.whose] = Extended(admin.seen, 1)]
            /\ due' = [due EXCEPT ![admin.whose] = Later(@, 1)]
       ELSE UNCHANGED <<expiry, due>>
    /\ admin' = IdleHand
    /\ UNCHANGED <<now, log, payments, run, transfer, history, contested, grants,
                   transfers, faults>>

\* update_days: sets the time an existing subscription has left.
UpdateDays(x, weeks) ==
    /\ expiry[x] # NoSub /\ Counted
    /\ expiry' = [expiry EXCEPT ![x] = now + weeks * WeekTicks]
    /\ due' = [due EXCEPT ![x] = now + weeks * WeekTicks]
    /\ contested' = IF CopyHeld(x, {}) THEN contested \cup {x} ELSE contested \ {x}
    /\ UNCHANGED <<now, log, payments, run, admin, transfer, history, faults>>

\* create, for one faction week: the request loads the leader's subscription
\* and checks the balance ...
TransferChecks(t) ==
    /\ transfer[t].pc = "idle" /\ WeeksRemaining(expiry[Leader]) >= WeekCost
    /\ transfers < MaxTransfers /\ transfers' = transfers + 1
    /\ transfer' = [transfer EXCEPT ![t] = [pc |-> "write", whose |-> Faction,
                                            seen |-> expiry[Leader]]]
    /\ UNCHANGED <<now, log, payments, expiry, run, admin, history, owed, grants, faults>>

\* ... then, in one transaction, deducts from that copy (or raises) and extends
\* the faction's subscription.
TransferWrites(t) ==
    /\ transfer[t].pc = "write"
    /\ IF WeeksRemaining(transfer[t].seen) >= WeekCost
       THEN /\ expiry' = [expiry EXCEPT
                    ![Leader] = transfer[t].seen - WeekCost * WeekTicks,
                    ![Faction] = Extended(expiry[Faction], 1)]
            /\ due' = [due EXCEPT ![Leader] = @ - WeekCost * WeekTicks,
                                  ![Faction] = Later(@, 1)]
            /\ contested' = IF CopyHeld(Leader, {t}) THEN contested \cup {Leader}
                                                    ELSE contested
       ELSE UNCHANGED <<expiry, owed>>
    /\ transfer' = [transfer EXCEPT ![t] = IdleHand]
    /\ UNCHANGED <<now, log, payments, run, admin, history, grants, transfers, faults>>

Next ==
    \/ Tick \/ Send
    \/ \E r \in Runs : Fetch(r) \/ RunStep(r) \/ RunDies(r)
    \/ \E x \in Subscribers : GrantReads(x) \/ \E weeks \in 0..1 : UpdateDays(x, weeks)
    \/ GrantWrites
    \/ \E t \in Transfers : TransferChecks(t) \/ TransferWrites(t)

Spec == Init /\ [][Next]_vars

\* A run that has begun goes on, and the nightly one is begun again and again.
Fairness == /\ WF_vars(Fetch(Nightly))
            /\ \A r \in Runs : WF_vars(RunStep(r))

FairSpec == Spec /\ Fairness

-----------------------------------------------------------------------------

\* The runs keep the promise of PaymentLedger: however they interleave, die and
\* start over, no payment is recorded twice or credited twice.
Ledger == INSTANCE PaymentLedger WITH recorded <- payments, total <- paid

LedgerSpec == Ledger!Spec

Crediting(r, e) == run[r].pc \in {"read", "write"} /\ run[r].entry = e

\* A payment on record is credited, about to be, or known to be forfeited by a
\* run that ended between the record and the extension; never dropped silently.
Accounted ==
    /\ credited \cap forfeited = {}
    /\ \A e \in payments : \/ e \in credited \cup forfeited
                           \/ \E r \in Runs : Crediting(r, e)

\* Nobody's subscription outlasts what is due: the payments credited (once each), the
\* grants and the times set by an admin, less what the leader has spent, had each of
\* them changed the row and not a copy.  A stale copy may cost a subscriber time; it
\* gives time for nothing only to the contested: those from whom a transfer or an
\* admin took time while a run, a grant or another transfer was about to write a copy
\* with that time still in it.
NoFreeTime ==
    \A x \in Subscribers \ contested :
        expiry[x] # NoSub => expiry[x] <= due[x]

\* Every payment is put on record, unless so many newer ones came that it is no
\* longer among the entries the job fetches.
EveryPaymentRecorded ==
    \A e \in Entries :
        log >= e ~> e \in payments \/ log - e >= FetchLimit

\* "Extended faction subscription by ... week(s) (... personal weeks used).":
\* the leader's subscription is charged for the week the faction gets.
TransferIsPaid ==
    [][\A t \in Transfers :
          TransferWrites(t) /\ due'[Faction] # due[Faction] =>
              expiry'[Leader] <= expiry[Leader] - WeekCost * WeekTicks]_vars
=============================================================================

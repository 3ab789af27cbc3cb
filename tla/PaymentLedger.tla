---------------------------- MODULE PaymentLedger ----------------------------
(***************************************************************************)
(* What the xanax payments promise the people who send them: a payment in  *)
(* the log is recorded once, and a recorded payment is credited to its     *)
(* sender at most once, with the weeks it is worth.                        *)
(***************************************************************************)
EXTENDS Integers

CONSTANTS
    Entries,    \* payments in the log
    Users,      \* people with a subscription
    Sender,     \* Sender[e]: who sent payment e
    Weeks       \* Weeks[e]: what it is worth

VARIABLES
    recorded,   \* payments on record
    credited,   \* payments whose weeks the sender has got
    total       \* weeks each user has got for payments

Init ==
    /\ recorded = {} /\ credited = {}
    /\ total = [u \in Users |-> 0]

Record(e) ==
    /\ e \notin recorded
    /\ recorded' = recorded \cup {e}
    /\ UNCHANGED <<credited, total>>

Credit(e) ==
    /\ e \in recorded \ credited
    /\ credited' = credited \cup {e}
    /\ total' = [total EXCEPT ![Sender[e]] = @ + Weeks[e]]
    /\ UNCHANGED recorded

Next == \E e \in Entries : Record(e) \/ Credit(e)

Spec == Init /\ [][Next]_<<recorded, credited, total>>
=============================================================================

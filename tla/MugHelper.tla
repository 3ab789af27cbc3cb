------------------------------- MODULE MugHelper -------------------------------
(***************************************************************************)
(* The Mug helper's window on Torn's item market, a single-page application *)
(* that changes the item without telling: the window asks the address every *)
(* 700 ms and renders its form anew when the item is another one.  What the *)
(* old form started goes on, and ends on whatever form is there by then.    *)
(* It shares the key with the Mugging tab (MugLogs), on the same page.      *)
(***************************************************************************)
EXTENDS MugLogs, SequencesExt

CONSTANTS
    Items,        \* of the market
    Profits,      \* what a deal with a seller may earn
    MaxSellers,   \* bound: named sellers on an item's page
    MaxFetches,   \* bound: fetchPrice calls under way together
    MaxRuns       \* bound: runBuyMug calls under way together

ASSUME MugAssumption ==
    /\ {"none", "typed", "closed"} \cap Items = {}
    /\ Profits \subseteq Nat \ {0}
    /\ MaxSellers \in Nat \ {0} /\ MaxFetches \in Nat \ {0} /\ MaxRuns \in Nat \ {0}

VARIABLES
    url,        \* the item of the address, "none" on the market's front page
    shown,      \* lastItemId; "closed" when there is no window
    form,       \* the form of renderBuyMug is in the document
    field,      \* the market value in the form: that of an item, "typed" or "none"
    price,      \* tm_mug_market_prices
    fetchBtn,   \* fetchPriceBtn is enabled
    scanBtn,    \* scanBtn is enabled
    fetch,      \* the item of each fetchPrice call
    run,        \* the runBuyMug calls
    owner,      \* the call whose list is in the document, 0 when none is
    rows        \* profits of the targets in that list, from top to bottom

page == <<key, url>>
tab == <<logs, button, walk, result>>
window == <<shown, form, field, fetchBtn, scanBtn>>
list == <<owner, rows>>
vars == <<page, window, price, fetch, run, list, tab>>

Fetches == 1..MaxFetches
Runs == 1..MaxRuns
Value == Items \cup {"none", "typed"}
NoRun == [pc |-> "idle", item |-> "none", left |-> 0]

TypeOK ==
    /\ LogsTypeOK /\ url \in Items \cup {"none"}
    /\ shown \in Items \cup {"none", "closed"} /\ form \in BOOLEAN
    /\ field \in Value /\ price \in [Items -> Value]
    /\ fetchBtn \in BOOLEAN /\ scanBtn \in BOOLEAN
    /\ fetch \in [Fetches -> Items \cup {"none"}]
    /\ run \in [Runs -> [pc : {"idle", "value", "scan"}, item : Items \cup {"none"},
                         left : 0..MaxSellers]]
    /\ owner \in 0..MaxRuns /\ rows \in Seq(Profits)

Init ==
    /\ LogsInit /\ url = "none" /\ shown = "none" /\ form = FALSE
    /\ field = "none" /\ price = [i \in Items |-> "none"]
    /\ fetchBtn = TRUE /\ scanBtn = TRUE
    /\ fetch = [f \in Fetches |-> "none"] /\ run = [r \in Runs |-> NoRun]
    /\ owner = 0 /\ rows = <<>>

-----------------------------------------------------------------------------
(* The window.                                                             *)

\* showTargetsMessage: whatever is listed goes.
ShowMessage == owner' = 0 /\ rows' = <<>>

\* renderBuyMug: the form has the stored price and buttons of its own.
RenderBuyMug ==
    /\ field' = IF form' THEN price[url] ELSE "none"
    /\ fetchBtn' = TRUE /\ scanBtn' = TRUE
    /\ ShowMessage

\* renderBody, renderContent: without a key or an item there is no form.
RenderBody ==
    /\ shown' = url /\ form' = (key /\ url # "none")
    /\ RenderBuyMug

Navigate(u) ==
    /\ u # url /\ url' = u
    /\ UNCHANGED <<key, window, price, fetch, run, list>>

NavPoll ==
    /\ shown \notin {"closed", url} /\ RenderBody
    /\ UNCHANGED <<page, price, fetch, run>>

Open ==
    /\ shown = "closed" /\ RenderBody
    /\ UNCHANGED <<page, price, fetch, run>>

\* The elements stay referenced, out of the document.
Close ==
    /\ shown # "closed"
    /\ shown' = "closed" /\ form' = FALSE /\ field' = "none"
    /\ fetchBtn' = TRUE /\ scanBtn' = TRUE /\ ShowMessage
    /\ UNCHANGED <<page, price, fetch, run>>

\* The price field's input event.  An empty field is not stored.
Type(v) ==
    /\ form /\ v \in {"typed", "none"} /\ field # v
    /\ field' = v
    /\ price' = IF v = "typed" THEN [price EXCEPT ![shown] = "typed"] ELSE price
    /\ UNCHANGED <<page, shown, form, fetchBtn, scanBtn, fetch, run, list>>

\* The ticks of targetRow.
RemoveRow(i) ==
    /\ i \in DOMAIN rows /\ rows' = RemoveAt(rows, i)
    /\ UNCHANGED <<page, window, price, fetch, run, owner>>

\* A write to an element of the form that may be there no more.
InForm(old, new) == IF form THEN new ELSE old

-----------------------------------------------------------------------------
(* fetchPrice.                                                             *)

\* The old price is gone, whatever comes of it.  A call made with a key may be
\* answered after the key was removed.
Fetch(f) ==
    /\ form /\ fetchBtn /\ fetch[f] = "none"
    /\ price' = [price EXCEPT ![shown] = "none"] /\ field' = "none"
    /\ \/ key /\ fetch' = [fetch EXCEPT ![f] = shown] /\ fetchBtn' = FALSE /\ UNCHANGED list
       \/ ~key /\ ShowMessage /\ UNCHANGED <<fetch, fetchBtn>>
    /\ UNCHANGED <<page, shown, form, scanBtn, run>>

FetchEnds(f) ==
    /\ fetch' = [fetch EXCEPT ![f] = "none"] /\ fetchBtn' = TRUE
    /\ UNCHANGED <<url, shown, form, scanBtn, run>>

\* Mutant: the value is stored for the item that is shown.
FetchSucceedsHere(f) ==
    /\ fetch[f] # "none"
    /\ price' = [i \in Items |-> IF i = shown THEN fetch[f] ELSE price[i]]
    /\ field' = InForm(field, fetch[f])
    /\ IF rows # <<>> THEN ShowMessage ELSE UNCHANGED list
    /\ FetchEnds(f) /\ UNCHANGED key

\* The value is stored for the item that was asked about, and written into the
\* field of the item that is shown.
FetchSucceeds(f) ==
    /\ fetch[f] # "none"
    /\ price' = [price EXCEPT ![fetch[f]] = fetch[f]]
    /\ field' = InForm(field, fetch[f])
    /\ IF rows # <<>> THEN ShowMessage ELSE UNCHANGED list
    /\ FetchEnds(f) /\ UNCHANGED key

\* Torn may reject the key, which is then removed.
FetchFails(f) ==
    /\ fetch[f] # "none" /\ key' \in {key, FALSE}
    /\ ShowMessage
    /\ FetchEnds(f) /\ UNCHANGED <<field, price>>

-----------------------------------------------------------------------------
(* runBuyMug.                                                              *)

RunEnds(r) ==
    /\ run' = [run EXCEPT ![r] = NoRun] /\ scanBtn' = TRUE

\* With a value, or after it was fetched: the sellers on Torn's page now are
\* checked, whichever item that is.  Without any, or without a key, a message
\* ends the call.
BeginScan(r) ==
    \/ /\ \E n \in 1..MaxSellers : run' = [run EXCEPT ![r] = [pc |-> "scan", item |-> "none", left |-> n]]
       /\ key /\ url # "none"
       /\ scanBtn' = InForm(scanBtn, FALSE)
       /\ owner' = InForm(owner, r) /\ rows' = <<>>
    \/ RunEnds(r) /\ ShowMessage

\* "Check targets".  An empty field is filled first, for the address's item.
\* Without a budget, or a key to fill the field with, a message is all.
Check(r) ==
    /\ form /\ scanBtn /\ run[r].pc = "idle"
    /\ \/ field # "none" /\ BeginScan(r)
       \/ /\ field = "none" /\ key /\ scanBtn' = FALSE /\ UNCHANGED list
          /\ run' = [run EXCEPT ![r] = [pc |-> "value", item |-> url, left |-> 0]]
       \/ RunEnds(r) /\ ShowMessage
    /\ UNCHANGED <<page, shown, form, field, fetchBtn, price, fetch>>

ValueFetched(r) ==
    /\ run[r].pc = "value" /\ run[r].item # "none"
    /\ price' = [price EXCEPT ![run[r].item] = run[r].item]
    /\ field' = InForm(field, run[r].item)
    /\ BeginScan(r)
    /\ UNCHANGED <<page, shown, form, fetchBtn, fetch>>

\* Mutant: an error leaves the button greyed out.
ValueFailsGreyed(r) ==
    /\ run[r].pc = "value" /\ key' \in {key, FALSE}
    /\ run' = [run EXCEPT ![r] = NoRun] /\ UNCHANGED scanBtn /\ ShowMessage
    /\ UNCHANGED <<url, shown, form, field, fetchBtn, price, fetch>>

ValueFails(r) ==
    /\ run[r].pc = "value" /\ key' \in {key, FALSE}
    /\ RunEnds(r) /\ ShowMessage
    /\ UNCHANGED <<url, shown, form, field, fetchBtn, price, fetch>>

\* insertByProfit, before the first row that earns less.
Place(list_, p) == IF \E i \in DOMAIN list_ : list_[i] < p
                   THEN CHOOSE i \in DOMAIN list_ : list_[i] < p /\ \A j \in 1..i - 1 : list_[j] >= p
                   ELSE Len(list_) + 1

\* Mutant: a target goes to the end of the list.
AppendTarget(list_, p) == Append(list_, p)

InsertByProfit(list_, p) == InsertAt(list_, Place(list_, p), p)

\* Mutant: the loop goes on after the last seller.
CheckAnySeller(r) ==
    /\ run[r].pc = "scan"
    /\ run' = [run EXCEPT ![r].left = @ - 1]
    /\ rows' \in {rows} \cup (IF owner = r THEN {InsertByProfit(rows, p) : p \in Profits} ELSE {})
    /\ UNCHANGED <<page, window, price, fetch, owner>>

\* One seller of scanSellers: not to be mugged, not worth it, or a target.
CheckSeller(r) ==
    /\ run[r].pc = "scan" /\ run[r].left > 0
    /\ run' = [run EXCEPT ![r].left = @ - 1]
    /\ rows' \in {rows} \cup (IF owner = r THEN {InsertByProfit(rows, p) : p \in Profits} ELSE {})
    /\ UNCHANGED <<page, window, price, fetch, owner>>

\* The summary goes above the list.  If the list is not in the window's targets
\* any more, inserting it there raises an error, whose message replaces what
\* the new form has listed.
ScanDone(r) ==
    /\ run[r].pc = "scan" /\ run[r].left = 0
    /\ RunEnds(r)
    /\ IF owner = r THEN owner' = 0 /\ UNCHANGED rows ELSE ShowMessage
    /\ UNCHANGED <<page, shown, form, field, fetchBtn, price, fetch>>

\* Torn rejects the key.
ScanFails(r) ==
    /\ run[r].pc = "scan" /\ run[r].left > 0
    /\ key' = FALSE /\ RunEnds(r) /\ ShowMessage
    /\ UNCHANGED <<url, shown, form, field, fetchBtn, price, fetch>>

-----------------------------------------------------------------------------

RunStep(r) == ValueFetched(r) \/ ValueFails(r) \/ CheckSeller(r) \/ ScanDone(r) \/ ScanFails(r)

\* The tab's steps; the window does not notice that the key changes.
TabStep == LogsNext /\ UNCHANGED <<url, window, price, fetch, run, list>>

WindowStep ==
    \/ NavPoll \/ Open \/ Close
    \/ \E u \in Items \cup {"none"} : Navigate(u)
    \/ \E v \in {"typed", "none"} : Type(v)
    \/ \E i \in DOMAIN rows : RemoveRow(i)
    \/ \E f \in Fetches : Fetch(f) \/ FetchSucceeds(f) \/ FetchFails(f)
    \/ \E r \in Runs : Check(r) \/ RunStep(r)

Next == (WindowStep /\ UNCHANGED tab) \/ TabStep

Spec == Init /\ [][Next]_vars

\* Requests end, one way or the other.
Fairness ==
    /\ \A f \in Fetches : WF_vars((FetchSucceeds(f) \/ FetchFails(f)) /\ UNCHANGED tab)
    /\ \A r \in Runs : WF_vars(RunStep(r) /\ UNCHANGED tab)

FairSpec == Spec /\ Fairness

-----------------------------------------------------------------------------

\* The price stored for an item is one Torn gave for that item or one the user
\* typed for it, however the page changes while prices are fetched.
StoredPriceIsTheItems == \A i \in Items : price[i] \in {"none", "typed", i}

\* The list reads from the best deal to the worst at any time, while targets
\* stream in and the user removes some.
RowsSorted == \A i, j \in DOMAIN rows : i < j => rows[i] >= rows[j]

\* A button that is greyed out waits for something that is under way: calls
\* that ended on another form, on an error or without a key leave none behind.
GreyedIsBusy ==
    /\ ~scanBtn => \E r \in Runs : run[r].pc # "idle"
    /\ ~fetchBtn => \E f \in Fetches : fetch[f] # "none"

\* A greyed "Check targets" becomes usable again.
ButtonComesBack == ~scanBtn ~> scanBtn
=============================================================================

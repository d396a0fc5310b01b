------------------------------ MODULE Payments ------------------------------
(***************************************************************************)
(* SBP payments through Lava (routers/payments.py): local orders, the      *)
(* event log with its unique index, the invoice coroutines waiting for     *)
(* Lava, and Lava itself with its unordered, repeated webhooks.            *)
(*                                                                         *)
(* create_sbp_payment and lava_webhook are coroutines of one event loop:   *)
(* between two awaits each is one step here.  What the threadpool can do   *)
(* to the user row in between is the subject of Subscription.              *)
(***************************************************************************)
EXTENDS Integers

CONSTANTS Users,        \* user names
          Nobody,       \* the NULL of payment_orders.username
          MaxOrders,    \* bound: orders ever created
          Keys          \* is LAVA_ADDITIONAL_KEY right? values over the deployments

ASSUME PaymentsAssumption == /\ MaxOrders \in Nat /\ Nobody \notin Users
                             /\ Keys \subseteq BOOLEAN /\ Keys # {}

VARIABLES users,        \* names with a row in users
          renewable,    \* renewable[u]: u is inactive or inside the renewal window
          order,        \* order[o]: row o of payment_orders (ids are given in order)
          event,        \* event[o][s]: the payment_events row of o's invoice and status s
          credits,      \* credits[o]: how often o extended a subscription
          keyed,        \* the running process verifies Lava's signatures
          inv,          \* inv[o]: Lava's invoice for o
          hooks,        \* webhooks Lava still delivers
          acked         \* orders whose success webhook was answered with 200

store == <<users, renewable, order, event, credits>>
lava == <<inv, hooks, acked>>
vars == <<store, keyed, lava>>

Orders == 1..MaxOrders
Statuses == {"pending", "paid", "failed", "expired", "refunded"}
LavaStatuses == {"created", "success", "short", "fail", "expired", "refund"}

\* _STATUS_MAP; "short" stands for a success whose amount is not the order's.
StatusMap == [created |-> "pending", success |-> "paid", short |-> "paid",
              fail |-> "failed", expired |-> "expired", refund |-> "refunded"]

\* url: payment_page_url is set; live: expires_at > NOW(); call: the coroutine.
Order == [status : Statuses \cup {"none"}, owner : Users \cup {Nobody},
          url : BOOLEAN, live : BOOLEAN, call : {"none", "asking", "over"}]

NoRow == [status |-> "none", owner |-> Nobody, url |-> FALSE, live |-> FALSE, call |-> "none"]

InvoiceStates == {"none", "asked", "refused", "open", "paid", "failed", "expired", "refunded"}
Hook == [order : Orders, status : LavaStatuses]

Init == /\ users = Users
        /\ renewable = [u \in Users |-> TRUE]
        /\ order = [o \in Orders |-> NoRow]
        /\ event = [o \in Orders |-> [s \in Statuses |-> "none"]]
        /\ credits = [o \in Orders |-> 0]
        /\ keyed \in Keys
        /\ inv = [o \in Orders |-> "none"]
        /\ hooks = {} /\ acked = {}

Pending(u) == {o \in Orders : /\ order[o].status = "pending" /\ order[o].owner = u
                              /\ order[o].live}

-----------------------------------------------------------------------------
(* POST /payments/sbp                                                      *)

\* Pending orders that create_sbp_payment hands out again.
Reusable(u) == {o \in Pending(u) : order[o].url}

\* No invoice to reuse: the order is committed, Lava is asked, the coroutine
\* waits.  (With one to reuse, or outside the window, nothing changes.)
CreateOrder(u, o) ==
    /\ u \in users /\ renewable[u] /\ Reusable(u) = {}
    /\ order[o].status = "none" /\ \A p \in 1..(o - 1) : order[p].status # "none"
    /\ order' = [order EXCEPT ![o] = [status |-> "pending", owner |-> u, url |-> FALSE,
                                      live |-> TRUE, call |-> "asking"]]
    /\ inv' = [inv EXCEPT ![o] = "asked"]
    /\ UNCHANGED <<users, renewable, event, credits, keyed, hooks, acked>>

\* HTTP error, time-out, status_check false or incomplete data: the order is
\* set to failed, whatever it has become.
CreateFailed(o) ==
    /\ order[o].call = "asking"
    /\ order' = [order EXCEPT ![o].status = "failed", ![o].call = "over"]
    /\ UNCHANGED <<users, renewable, event, credits, keyed, lava>>

\* Mutant of CreateSucceeded: no invoice_created event is logged.
CreateSucceededSilently(o) ==
    /\ order[o].call = "asking" /\ inv[o] \notin {"none", "asked", "refused"}
    /\ order' = [order EXCEPT ![o].url = TRUE, ![o].call = "over",
                              ![o].live = inv[o] # "expired"]
    /\ UNCHANGED <<users, renewable, event, credits, keyed, lava>>

\* The invoice is stored with its event; the status column is not touched.
CreateSucceeded(o) ==
    /\ order[o].call = "asking" /\ inv[o] \notin {"none", "asked", "refused"}
    /\ order' = [order EXCEPT ![o].url = TRUE, ![o].call = "over",
                              ![o].live = inv[o] # "expired"]
    /\ event' = [event EXCEPT ![o]["pending"] = IF @ = "none" THEN "trusted" ELSE @]
    /\ UNCHANGED <<users, renewable, credits, keyed, lava>>

-----------------------------------------------------------------------------
(* POST /payments/lava/webhook                                             *)

\* Mutant of Fresh: no unique index on the events.
FreshAlways(h) == h \in hooks

Fresh(h) == event[h.order][StatusMap[h.status]] = "none"

Log(h, trust) == event' = [event EXCEPT ![h.order][StatusMap[h.status]] =
                                            IF @ = "none" THEN trust ELSE @]

\* The 200 may get lost on its way, and Lava delivers again.
Acknowledge(h) == /\ acked' = acked \cup {o \in {h.order} : h.status = "success"}
                  /\ hooks' \in {hooks, hooks \ {h}}
                  /\ UNCHANGED inv

\* The signature cannot be verified, because the key is missing or wrong or
\* because whoever sent this did not sign it: if there is such an order, the event
\* is kept; the answer is 401.
WebhookRejected(h) ==
    /\ inv[h.order] \notin {"none", "asked", "refused"}
    /\ Log(h, "untrusted")
    /\ UNCHANGED <<users, renewable, order, credits, keyed, lava>>

\* The unique index has this invoice and status already.
WebhookDuplicate(h) ==
    /\ keyed /\ ~Fresh(h)
    /\ Acknowledge(h)
    /\ UNCHANGED <<store, keyed>>

\* Mutant of WebhookMismatch: the event is committed before the amount is checked.
WebhookMismatchLogged(h) ==
    /\ keyed /\ Fresh(h) /\ h.status = "short"
    /\ Log(h, "trusted")
    /\ UNCHANGED <<users, renewable, order, credits, keyed, lava>>

\* The amount is not the order's: 400, and the rollback takes the event along.
WebhookMismatch(h) ==
    /\ keyed /\ Fresh(h) /\ h.status = "short"
    /\ UNCHANGED vars

\* Mutant of Credit: an order past its expires_at is not honoured.
CreditLiveOnly(o) ==
    IF order[o].owner \in users /\ order[o].live
    THEN /\ credits' = [credits EXCEPT ![o] = @ + 1]
         /\ renewable' = [renewable EXCEPT ![order[o].owner] = FALSE]
    ELSE UNCHANGED <<credits, renewable>>

Credit(o) ==
    IF order[o].owner \in users
    THEN /\ credits' = [credits EXCEPT ![o] = @ + 1]
         /\ renewable' = [renewable EXCEPT ![order[o].owner] = FALSE]
    ELSE UNCHANGED <<credits, renewable>>   \* UPDATE ... WHERE username = NULL

WebhookApplied(h) ==
    /\ keyed /\ Fresh(h) /\ h.status # "short"
    /\ Log(h, "trusted")
    /\ IF h.status = "success" THEN Credit(h.order) ELSE UNCHANGED <<credits, renewable>>
    /\ order' = [order EXCEPT ![h.order].status = StatusMap[h.status]]
    /\ Acknowledge(h)
    /\ UNCHANGED <<users, keyed>>

\* What becomes of a webhook of Lava's.
Deliver(h) == \/ ~keyed /\ WebhookRejected(h)
              \/ WebhookDuplicate(h) \/ WebhookMismatch(h) \/ WebhookApplied(h)

-----------------------------------------------------------------------------
(* Lava: an invoice is opened or refused, and settled once.  Its payment   *)
(* page is known to nobody before the reply has been stored.               *)

Notify(o, status) == hooks' = hooks \cup {[order |-> o, status |-> status]}

LavaOpens(o) ==
    /\ inv[o] = "asked" /\ inv' = [inv EXCEPT ![o] = "open"]
    /\ Notify(o, "created")
    /\ UNCHANGED <<store, keyed, acked>>

LavaRefuses(o) ==
    /\ inv[o] = "asked" /\ inv' = [inv EXCEPT ![o] = "refused"]
    /\ UNCHANGED <<store, keyed, hooks, acked>>

LavaPaid(o, status) ==
    /\ inv[o] = "open" /\ order[o].url
    /\ inv' = [inv EXCEPT ![o] = "paid"] /\ Notify(o, status)
    /\ UNCHANGED <<store, keyed, acked>>

LavaCloses(o, state, status) ==
    /\ inv[o] = "open"
    /\ inv' = [inv EXCEPT ![o] = state] /\ Notify(o, status)
    /\ UNCHANGED <<store, keyed, acked>>

LavaRefunds(o) ==
    /\ inv[o] = "paid"
    /\ inv' = [inv EXCEPT ![o] = "refunded"] /\ Notify(o, "refund")
    /\ UNCHANGED <<store, keyed, acked>>

Lava(o) == \/ LavaOpens(o) \/ LavaRefuses(o) \/ LavaRefunds(o)
           \/ LavaPaid(o, "success") \/ LavaPaid(o, "short")
           \/ LavaCloses(o, "failed", "fail") \/ LavaCloses(o, "expired", "expired")

-----------------------------------------------------------------------------
(* Time, users, restarts                                                   *)

\* expires_at passes.
Lapse(o) == /\ order[o].live /\ order' = [order EXCEPT ![o].live = FALSE]
            /\ UNCHANGED <<users, renewable, event, credits, keyed, lava>>

\* The renewal window opens, the subscription runs out or is switched off.
WindowOpens(u) == /\ ~renewable[u] /\ renewable' = [renewable EXCEPT ![u] = TRUE]
                  /\ UNCHANGED <<users, order, event, credits, keyed, lava>>

\* Mutant of DeleteUser: the order keeps the name of the deleted account.
DeleteUserKept(u) ==
    /\ u \in users /\ users' = users \ {u}
    /\ renewable' = [renewable EXCEPT ![u] = TRUE]
    /\ UNCHANGED <<order, event, credits, keyed, lava>>

\* delete_user; payment_orders.username is ON DELETE SET NULL.
DeleteUser(u) ==
    /\ u \in users /\ users' = users \ {u}
    /\ order' = [o \in Orders |->
                    IF order[o].owner = u THEN [order[o] EXCEPT !.owner = Nobody] ELSE order[o]]
    /\ renewable' = [renewable EXCEPT ![u] = TRUE]
    /\ UNCHANGED <<event, credits, keyed, lava>>

RegisterUser(u) == /\ u \notin users /\ users' = users \cup {u}
                   /\ UNCHANGED <<renewable, order, event, credits, keyed, lava>>

\* The waiting coroutines are gone; the configuration is read again.
Restart ==
    /\ order' = [o \in Orders |->
          IF order[o].call = "asking" THEN [order[o] EXCEPT !.call = "over"] ELSE order[o]]
    /\ keyed' \in Keys
    /\ UNCHANGED <<users, renewable, event, credits, lava>>

Next == \/ \E u \in Users : \/ \E o \in Orders : CreateOrder(u, o)
                            \/ WindowOpens(u) \/ DeleteUser(u) \/ RegisterUser(u)
        \/ \E o \in Orders : CreateFailed(o) \/ CreateSucceeded(o) \/ Lava(o) \/ Lapse(o)
        \/ \E h \in hooks : Deliver(h)
        \/ \E h \in Hook : WebhookRejected(h)
        \/ Restart

Spec == Init /\ [][Next]_vars

\* Lava repeats a webhook until it has seen a 200.
FairSpec == Spec /\ \A h \in Hook : WF_vars(h \in hooks /\ Deliver(h))

-----------------------------------------------------------------------------
(* Properties *)

TypeOK == /\ users \subseteq Users
          /\ renewable \in [Users -> BOOLEAN]
          /\ order \in [Orders -> Order]
          /\ event \in [Orders -> [Statuses -> {"none", "trusted", "untrusted"}]]
          /\ credits \in [Orders -> Nat]
          /\ keyed \in BOOLEAN
          /\ inv \in [Orders -> InvoiceStates]
          /\ hooks \subseteq Hook /\ acked \subseteq Orders

\* "Update the local order idempotently": an order extends a subscription at
\* most once, and only after Lava was paid the right amount, whatever is
\* delivered twice, late or after a restart.
CreditedOnce == \A o \in Orders : credits[o] > 0 =>
    /\ credits[o] = 1
    /\ inv[o] \in {"paid", "refunded"}
    /\ event[o]["paid"] = "trusted"

\* The log and the subscription commit together: a paid event with a valid
\* signature is on record only for an order that was credited, or whose user
\* is deleted, and the order of a credit is paid or refunded.
PaidEventMeansCredit == \A o \in Orders : event[o]["paid"] = "trusted" =>
    /\ order[o].status \in {"paid", "refunded"}
    /\ credits[o] = 1 \/ order[o].owner = Nobody

\* A paid order never turns pending, failed or expired again, although the
\* status is overwritten without a look at the old one: the invoice_created
\* event swallows a late "created", and a failed call has no invoice to pay.
PaidNeverLost == [][\A o \in Orders :
    order[o].status \in {"paid", "refunded"} => order'[o].status \in {"paid", "refunded"}]_vars

\* A payment is credited in the end, unless its user is deleted or an event
\* that could not be verified took its place in the log: webhooks are repeated
\* until Lava sees a 200, over restarts and refusals.
PaymentArrives == \A o \in Orders :
    [order |-> o, status |-> "success"] \in hooks ~>
        credits[o] = 1 \/ order[o].owner = Nobody \/ event[o]["paid"] = "untrusted"

\* Orders, invoices and the log of events as a book of purchases.
Buyer == [o \in Orders |-> IF order[o].status = "none" THEN "none"
                           ELSE IF order[o].owner = Nobody THEN "gone" ELSE "there"]
Money == [o \in Orders |-> CASE inv[o] = "paid" -> "paid"
                              [] inv[o] = "refunded" -> "returned"
                              [] OTHER -> "unpaid"]
Given == [o \in Orders |-> event[o]["paid"] = "trusted"]

Purchase == INSTANCE Purchases WITH Items <- Orders, buyer <- Buyer, money <- Money,
                                    given <- Given

\* Lava, its webhooks and the handlers together sell a subscription the way a
\* shop does: a paid purchase is booked once, and it is booked together with the
\* buyer's period, unless the buyer has been deleted; accounts that come back
\* under the same name get nothing of it.
SellsAsPromised == Purchase!Spec

\* lava_webhook: "Invalid signatures are stored in the event log but are not
\* allowed to mutate orders or subscriptions" and only a duplicate is skipped:
\* a success answered with 200 was credited (or has no user any more).
AcknowledgedIsCredited == \A o \in acked : credits[o] = 1 \/ order[o].owner = Nobody
=============================================================================

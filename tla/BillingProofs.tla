---------------------------- MODULE BillingProofs ---------------------------
(***************************************************************************)
(* What is paid for and what it buys.                                      *)
(*                                                                         *)
(* For any number of users and orders, whether signatures can be verified or*)
(* not: the inductive invariant ties the local order to Lava's invoice, which*)
(* no single handler ever sees.                                            *)
(*                                                                         *)
(* For any number of coroutines and threads, payments, ticks and failing   *)
(* statements: what a coroutine has read of the account is still so when it *)
(* writes, unless an administrator has written the row in between, since   *)
(* loop = c from its first statement to its last.  That is what one event  *)
(* loop is worth.                                                          *)
(***************************************************************************)
EXTENDS Payments, Subscription, TLAPS

Settled == {"paid", "refunded"}

\* What a webhook in flight says of the invoice.
Behind == [created |-> {"open", "paid", "failed", "expired", "refunded"},
           success |-> Settled, short |-> Settled, refund |-> {"refunded"},
           fail |-> {"failed"}, expired |-> {"expired"}]

\* An order without a row has no invoice, a paid one has a paid invoice; only
\* an order with a page is paid, and a page means that the call is over and
\* the invoice_created event is on record.
Aligned(o) ==
    /\ order[o].status = "none" => inv[o] = "none" /\ order[o].call = "none"
    /\ order[o].status \in Settled => inv[o] \in Settled
    /\ inv[o] \in Settled => order[o].url
    /\ order[o].url => order[o].call = "over" /\ event[o]["pending"] # "none"
    /\ order[o].owner \in users \cup {Nobody}

Credited(o) ==
    /\ credits[o] > 0 =>
          credits[o] = 1 /\ inv[o] \in Settled /\ event[o]["paid"] = "trusted"
    /\ event[o]["paid"] = "trusted" =>
          /\ order[o].status \in Settled
          /\ credits[o] = 1 \/ order[o].owner = Nobody

HooksTrue == \A h \in hooks : inv[h.order] \in Behind[h.status]

IInv == TypeOK /\ HooksTrue /\ \A o \in Orders : Aligned(o) /\ Credited(o)

-----------------------------------------------------------------------------
\* A row of payment_orders.
LEMMA RowType ==
    ASSUME TypeOK, NEW o \in Orders
    PROVE  /\ order[o] \in Order /\ order[o].status \in Statuses \cup {"none"}
           /\ order[o].owner \in Users \cup {Nobody} /\ order[o].url \in BOOLEAN
           /\ order[o].live \in BOOLEAN /\ order[o].call \in {"none", "asking", "over"}
BY DEF TypeOK, Order

\* The event log keeps its shape when a webhook is logged.
LEMMA LogType ==
    ASSUME TypeOK, NEW h \in Hook, NEW t \in {"trusted", "untrusted"}, Log(h, t)
    PROVE  /\ event' \in [Orders -> [Statuses -> {"none", "trusted", "untrusted"}]]
           /\ \A o \in Orders, s \in Statuses :
                 event'[o][s] = IF o = h.order /\ s = StatusMap[h.status] /\ event[o][s] = "none"
                                THEN t ELSE event[o][s]
<1>1. h.order \in Orders /\ StatusMap[h.status] \in Statuses
  BY DEF Hook, LavaStatuses, StatusMap, Statuses
<1> DEFINE s0 == StatusMap[h.status]
           o0 == h.order
<1>2. event' = [event EXCEPT ![o0][s0] = IF @ = "none" THEN t ELSE @]
  BY DEF Log
<1> HIDE DEF s0, o0
<1> QED BY <1>1, <1>2 DEF TypeOK, s0, o0

\* TypeOK: every variable keeps its type in every behaviour.
THEOREM TypeCorrect == Spec => []TypeOK
<1>1. Init => TypeOK
  BY PaymentsAssumption DEF Init, TypeOK, NoRow, Order, InvoiceStates
<1>2. TypeOK /\ [Next]_vars => TypeOK'
  <2> SUFFICES ASSUME TypeOK, [Next]_vars PROVE TypeOK'
    OBVIOUS
  <2>1. ASSUME NEW u \in Users, NEW o \in Orders, CreateOrder(u, o) PROVE TypeOK'
    <3>1. [status |-> "pending", owner |-> u, url |-> FALSE, live |-> TRUE, call |-> "asking"]
             \in Order
      BY DEF Order, Statuses
    <3> QED BY <2>1, <3>1 DEF CreateOrder, TypeOK, InvoiceStates
  <2>2. ASSUME NEW u \in Users, WindowOpens(u) PROVE TypeOK'
    BY <2>2 DEF WindowOpens, TypeOK, lava
  <2>3. ASSUME NEW u \in Users, DeleteUser(u) PROVE TypeOK'
    <3>1. \A o \in Orders : [order[o] EXCEPT !.owner = Nobody] \in Order
      BY RowType DEF Order
    <3>2. order' \in [Orders -> Order]
      BY <2>3, <3>1, RowType DEF DeleteUser
    <3> QED BY <2>3, <3>2 DEF DeleteUser, TypeOK, lava
  <2>4. ASSUME NEW u \in Users, RegisterUser(u) PROVE TypeOK'
    BY <2>4 DEF RegisterUser, TypeOK, lava
  <2>5. ASSUME NEW o \in Orders, CreateFailed(o) PROVE TypeOK'
    <3>1. [order[o] EXCEPT !.status = "failed", !.call = "over"] \in Order
      BY RowType DEF Order, Statuses
    <3>2. order' = [order EXCEPT ![o] = [order[o] EXCEPT !.status = "failed", !.call = "over"]]
      BY <2>5 DEF CreateFailed, TypeOK, Order
    <3> QED BY <2>5, <3>1, <3>2 DEF CreateFailed, TypeOK, lava
  <2>6. ASSUME NEW o \in Orders, CreateSucceeded(o) PROVE TypeOK'
    <3> DEFINE new == [order[o] EXCEPT !.url = TRUE, !.call = "over", !.live = inv[o] # "expired"]
    <3>1. new \in Order
      BY RowType DEF Order
    <3>2. order' = [order EXCEPT ![o] = new]
      BY <2>6 DEF CreateSucceeded, TypeOK, Order
    <3> HIDE DEF new
    <3>3. order' \in [Orders -> Order]
      BY <3>1, <3>2 DEF TypeOK
    <3>4. event' \in [Orders -> [Statuses -> {"none", "trusted", "untrusted"}]]
      BY <2>6 DEF CreateSucceeded, TypeOK, Statuses
    <3> QED BY <2>6, <3>3, <3>4 DEF CreateSucceeded, TypeOK, lava
  <2>7. ASSUME NEW o \in Orders, Lava(o) PROVE TypeOK'
    <3>1. \A s \in LavaStatuses : [order |-> o, status |-> s] \in Hook
      BY DEF Hook
    <3>2. hooks' \subseteq Hook
      BY <2>7, <3>1 DEF Lava, LavaOpens, LavaRefuses, LavaPaid, LavaCloses, LavaRefunds, Notify,
                        LavaStatuses, TypeOK
    <3>3. inv' \in [Orders -> InvoiceStates]
      BY <2>7 DEF Lava, LavaOpens, LavaRefuses, LavaPaid, LavaCloses, LavaRefunds, TypeOK,
                  InvoiceStates
    <3>4. UNCHANGED <<store, keyed, acked>>
      BY <2>7 DEF Lava, LavaOpens, LavaRefuses, LavaPaid, LavaCloses, LavaRefunds
    <3> QED BY <3>2, <3>3, <3>4 DEF TypeOK, store
  <2>8. ASSUME NEW o \in Orders, Lapse(o) PROVE TypeOK'
    <3>1. [order[o] EXCEPT !.live = FALSE] \in Order
      BY RowType DEF Order
    <3> QED BY <2>8, <3>1 DEF Lapse, TypeOK, lava
  <2>0. ASSUME NEW h \in Hook, WebhookRejected(h) PROVE TypeOK'
    BY <2>0, LogType DEF WebhookRejected, TypeOK, lava
  <2>9. ASSUME NEW h \in hooks, Deliver(h) PROVE TypeOK'
    <3>1. h \in Hook /\ h.order \in Orders /\ StatusMap[h.status] \in Statuses
      BY DEF TypeOK, Hook, LavaStatuses, StatusMap, Statuses
    <3>2. CASE WebhookRejected(h)
      BY <2>0, <3>1, <3>2
    <3>3. CASE WebhookDuplicate(h)
      BY <3>1, <3>3 DEF WebhookDuplicate, Acknowledge, TypeOK, store
    <3>4. CASE WebhookMismatch(h)
      BY <3>4 DEF WebhookMismatch, TypeOK, vars, store, lava
    <3>5. CASE WebhookApplied(h)
      <4>1. event' \in [Orders -> [Statuses -> {"none", "trusted", "untrusted"}]]
        BY <3>1, <3>5, LogType DEF WebhookApplied
      <4>2. [order[h.order] EXCEPT !.status = StatusMap[h.status]] \in Order
        BY <3>1, RowType DEF Order
      <4>3. order' \in [Orders -> Order]
        BY <3>1, <3>5, <4>2 DEF WebhookApplied, TypeOK
      <4>4. credits' \in [Orders -> Nat] /\ renewable' \in [Users -> BOOLEAN]
        <5>1. CASE h.status = "success" /\ order[h.order].owner \in users
          <6>1. credits[h.order] + 1 \in Nat
            BY <3>1 DEF TypeOK
          <6> QED BY <3>5, <5>1, <6>1 DEF WebhookApplied, Credit, TypeOK
        <5>2. CASE ~(h.status = "success" /\ order[h.order].owner \in users)
          BY <3>5, <5>2 DEF WebhookApplied, Credit, TypeOK
        <5> QED BY <5>1, <5>2
      <4> QED BY <3>1, <3>5, <4>1, <4>3, <4>4 DEF WebhookApplied, Acknowledge, TypeOK
    <3> QED BY <2>9, <3>2, <3>3, <3>4, <3>5 DEF Deliver
  <2>10. CASE Restart
    <3>1. \A o \in Orders : [order[o] EXCEPT !.call = "over"] \in Order
      BY RowType DEF Order
    <3>2. order' \in [Orders -> Order]
      BY <2>10, <3>1, RowType DEF Restart
    <3> QED BY <2>10, <3>2, PaymentsAssumption DEF Restart, TypeOK, lava
  <2>11. CASE UNCHANGED vars
    BY <2>11 DEF vars, store, lava, TypeOK
  <2> QED
    BY <2>0, <2>1, <2>2, <2>3, <2>4, <2>5, <2>6, <2>7, <2>8, <2>9, <2>10, <2>11 DEF Next
<1> QED BY <1>1, <1>2, PTL, PaymentsAssumption DEF Spec
-----------------------------------------------------------------------------
\* What is known of an order stays known if the step leaves it, its invoice,
\* its events and its credits alone.
LEMMA Untouched ==
    ASSUME NEW o \in Orders, Aligned(o), Credited(o), users \subseteq users',
           order'[o] = order[o], inv'[o] = inv[o], event'[o] = event[o], credits'[o] = credits[o]
    PROVE  Aligned(o)' /\ Credited(o)'
BY DEF Aligned, Credited

\* A webhook that is not signed is logged, and nothing else, whoever sent it.
LEMMA RejectedKeeps ==
    ASSUME IInv, NEW h \in Hook, WebhookRejected(h), NEW o \in Orders
    PROVE  Aligned(o)' /\ Credited(o)' /\ order' = order
<1>1. TypeOK /\ Aligned(o) /\ Credited(o)
  BY DEF IInv
<1>2. \A s \in Statuses : event'[o][s] # event[o][s] =>
         event[o][s] = "none" /\ event'[o][s] = "untrusted"
  BY <1>1, LogType DEF WebhookRejected
<1>3. UNCHANGED <<users, order, credits, inv>>
  BY DEF WebhookRejected, lava
<1> QED BY <1>1, <1>2, <1>3 DEF Aligned, Credited, Statuses

\* A webhook is logged: the events of its order grow, all others stay.
LEMMA WebhookKeeps ==
    ASSUME IInv, NEW h \in hooks, Deliver(h), NEW o \in Orders
    PROVE  /\ Aligned(o)' /\ Credited(o)'
           /\ order[o].status \in Settled => order'[o].status \in Settled
<1>1. /\ h \in Hook /\ h.order \in Orders /\ h.status \in LavaStatuses
      /\ inv[h.order] \in Behind[h.status] /\ TypeOK
      /\ Aligned(o) /\ Credited(o) /\ Aligned(h.order) /\ Credited(h.order)
  BY DEF IInv, TypeOK, Hook, HooksTrue
<1>2. CASE WebhookRejected(h)
  BY <1>1, <1>2, RejectedKeeps
<1>3. CASE WebhookDuplicate(h) \/ WebhookMismatch(h)
  <2>1. UNCHANGED <<users, order, event, credits, inv>>
    BY <1>3 DEF WebhookDuplicate, WebhookMismatch, Acknowledge, store, lava, vars
  <2> QED BY <1>1, <2>1 DEF Aligned, Credited
<1>4. CASE WebhookApplied(h)
  <2>1. \A s \in Statuses :
           event'[o][s] = IF o = h.order /\ s = StatusMap[h.status] /\ event[o][s] = "none"
                          THEN "trusted" ELSE event[o][s]
    BY <1>1, <1>4, LogType DEF WebhookApplied
  <2>2. order' = [order EXCEPT ![h.order].status = StatusMap[h.status]]
        /\ inv' = inv /\ users' = users /\ h.status # "short"
        /\ event[h.order][StatusMap[h.status]] = "none"
    BY <1>4 DEF WebhookApplied, Acknowledge, Fresh
  <2>3. CASE o # h.order
    <3>1. order'[o] = order[o]
      BY <2>2, <2>3 DEF TypeOK
    <3>2. credits'[o] = credits[o]
      BY <1>1, <1>4, <2>3 DEF WebhookApplied, Credit, TypeOK
    <3>3. event'[o]["paid"] = event[o]["paid"] /\ event'[o]["pending"] = event[o]["pending"]
      BY <2>1, <2>3 DEF Statuses
    <3> QED BY <1>1, <2>2, <3>1, <3>2, <3>3 DEF Aligned, Credited
  <2>4. CASE o = h.order
    <3>1. /\ order'[o].status = StatusMap[h.status] /\ order'[o].owner = order[o].owner
          /\ order'[o].url = order[o].url /\ order'[o].call = order[o].call
      BY <1>1, <2>2, <2>4 DEF TypeOK, Order
    <3>2. credits[o] \in Nat
      BY <1>1 DEF TypeOK
    <3>3. CASE h.status = "success"
      <4>1. /\ inv[o] \in Settled /\ event[o]["paid"] = "none" /\ order'[o].status = "paid"
            /\ event'[o]["paid"] = "trusted" /\ event'[o]["pending"] = event[o]["pending"]
        BY <1>1, <2>1, <2>2, <2>4, <3>1, <3>3 DEF Behind, StatusMap, Statuses
      <4>2. credits[o] = 0
        BY <1>1, <2>4, <3>2, <4>1 DEF Credited
      <4>3. credits'[o] = 1 \/ (credits'[o] = 0 /\ order[o].owner \notin users)
        BY <1>1, <1>4, <2>4, <3>3, <4>2 DEF WebhookApplied, Credit, TypeOK
      <4> QED BY <1>1, <2>2, <3>1, <4>1, <4>3 DEF Aligned, Credited, Settled
    <3>4. CASE h.status = "refund"
      <4>1. /\ inv[o] \in Settled /\ order'[o].status = "refunded"
            /\ event'[o]["paid"] = event[o]["paid"] /\ event'[o]["pending"] = event[o]["pending"]
        BY <1>1, <2>1, <2>4, <3>1, <3>4 DEF Behind, StatusMap, Statuses, Settled
      <4>2. credits'[o] = credits[o]
        BY <1>4, <3>4 DEF WebhookApplied
      <4> QED BY <1>1, <2>2, <3>1, <4>1, <4>2 DEF Aligned, Credited, Settled
    <3>5. CASE h.status \in {"created", "fail", "expired"}
      <4>1. inv[o] \notin Settled /\ inv[o] # "none"
        <5>1. CASE h.status = "created"
          BY <1>1, <2>2, <2>4, <5>1 DEF Aligned, Behind, StatusMap, Settled
        <5>2. CASE h.status # "created"
          BY <1>1, <2>4, <3>5, <5>2 DEF Behind, Settled
        <5> QED BY <5>1, <5>2
      <4>2. /\ order'[o].status \notin Settled /\ order'[o].status # "none"
            /\ order[o].status \notin Settled /\ event[o]["paid"] # "trusted"
        BY <1>1, <2>4, <3>1, <3>5, <4>1 DEF StatusMap, Settled, Aligned, Credited
      <4>3. /\ event'[o]["paid"] = event[o]["paid"]
            /\ event[o]["pending"] # "none" => event'[o]["pending"] # "none"
        BY <2>1, <3>5 DEF StatusMap, Statuses
      <4>4. credits'[o] = credits[o]
        BY <1>4, <3>5 DEF WebhookApplied
      <4> QED BY <1>1, <2>2, <3>1, <4>1, <4>2, <4>3, <4>4 DEF Aligned, Credited
    <3> QED BY <1>1, <2>2, <2>4, <3>3, <3>4, <3>5 DEF LavaStatuses
  <2> QED BY <2>3, <2>4
<1> QED BY <1>2, <1>3, <1>4 DEF Deliver

\* The two halves of create_sbp_payment.  A call that fails has no page, so no
\* paid invoice and no paid order whose status it could overwrite.
LEMMA CreateKeeps ==
    ASSUME IInv, NEW p \in Orders, NEW o \in Orders,
           (\E u \in Users : CreateOrder(u, p)) \/ CreateFailed(p) \/ CreateSucceeded(p)
    PROVE  /\ Aligned(o)' /\ Credited(o)'
           /\ order[o].status \in Settled => order'[o].status \in Settled
<1>1. Aligned(o) /\ Credited(o) /\ TypeOK /\ order[o] \in Order /\ credits[o] \in Nat
  BY RowType DEF IInv, TypeOK
<1>2. ASSUME NEW u \in Users, CreateOrder(u, p)
      PROVE  /\ Aligned(o)' /\ Credited(o)'
             /\ order[o].status \in Settled => order'[o].status \in Settled
  <2>1. CASE o = p
    <3>1. order'[o] = [status |-> "pending", owner |-> u, url |-> FALSE, live |-> TRUE,
                       call |-> "asking"]
          /\ inv'[o] = "asked" /\ u \in users /\ order[o].status = "none"
          /\ users' = users /\ event' = event /\ credits' = credits
      BY <1>1, <1>2, <2>1 DEF CreateOrder, TypeOK
    <3>2. inv[o] \notin Settled /\ event[o]["paid"] # "trusted"
      BY <1>1, <3>1 DEF Aligned, Credited, Settled
    <3>3. credits[o] = 0
      BY <1>1, <3>2 DEF Credited
    <3>4. /\ order'[o].url = FALSE /\ order'[o].status = "pending" /\ order'[o].owner = u
          /\ inv'[o] = "asked" /\ credits'[o] = 0 /\ event'[o]["paid"] # "trusted" /\ u \in users'
      BY <3>1, <3>2, <3>3
    <3>5. Aligned(o)'
      BY <3>4 DEF Aligned, Settled
    <3>6. Credited(o)'
      BY <3>4 DEF Credited
    <3> QED BY <3>1, <3>5, <3>6 DEF Settled
  <2>2. CASE o # p
    BY <1>1, <1>2, <2>2, Untouched DEF CreateOrder, TypeOK
  <2> QED BY <2>1, <2>2
<1>3. CASE CreateFailed(p)
  <2>1. UNCHANGED <<users, event, credits, inv>>
    BY <1>3 DEF CreateFailed, lava
  <2>2. CASE o = p
    <3>1. /\ order[o].call = "asking" /\ order'[o].status = "failed" /\ order'[o].call = "over"
          /\ order'[o].owner = order[o].owner /\ order'[o].url = order[o].url
      BY <1>1, <1>3, <2>2 DEF CreateFailed, TypeOK, Order
    <3>2. ~order[o].url /\ inv[o] \notin Settled /\ order[o].status \notin Settled
      BY <1>1, <3>1 DEF Aligned
    <3> QED BY <1>1, <2>1, <3>1, <3>2 DEF Aligned, Credited, Settled
  <2>3. CASE o # p
    BY <1>1, <1>3, <2>1, <2>3, Untouched DEF CreateFailed, TypeOK
  <2> QED BY <2>2, <2>3
<1>4. CASE CreateSucceeded(p)
  <2>1. UNCHANGED <<users, credits, inv>>
    BY <1>4 DEF CreateSucceeded, lava
  <2>2. CASE o = p
    <3>1. /\ order'[o].status = order[o].status /\ order'[o].call = "over"
          /\ order[o].call = "asking" /\ order'[o].owner = order[o].owner /\ order'[o].url
      BY <1>1, <1>4, <2>2 DEF CreateSucceeded, TypeOK, Order
    <3>2. event'[o]["paid"] = event[o]["paid"] /\ event'[o]["pending"] # "none"
      BY <1>1, <1>4, <2>2 DEF CreateSucceeded, TypeOK, Statuses
    <3> QED BY <1>1, <2>1, <3>1, <3>2 DEF Aligned, Credited
  <2>3. CASE o # p
    BY <1>1, <1>4, <2>1, <2>3, Untouched DEF CreateSucceeded, TypeOK
  <2> QED BY <2>2, <2>3
<1> QED BY <1>2, <1>3, <1>4

\* Lava settles an invoice once; it is paid only after its page was stored.
LEMMA LavaKeeps ==
    ASSUME IInv, NEW p \in Orders, NEW o \in Orders, Lava(p)
    PROVE  Aligned(o)' /\ Credited(o)' /\ order' = order
<1>1. Aligned(o) /\ Credited(o) /\ TypeOK
  BY DEF IInv
<1>2. UNCHANGED <<users, order, event, credits>>
  BY DEF Lava, LavaOpens, LavaRefuses, LavaPaid, LavaCloses, LavaRefunds, store
<1>3. CASE o # p
  <2>1. inv'[o] = inv[o]
    BY <1>1, <1>3 DEF Lava, LavaOpens, LavaRefuses, LavaPaid, LavaCloses, LavaRefunds, TypeOK
  <2> QED BY <1>1, <1>2, <2>1, Untouched
<1>4. CASE o = p
  <2>1. inv[o] # "none" /\ (inv[o] \in Settled => inv'[o] \in Settled)
        /\ (inv'[o] \in Settled => order[o].url)
    BY <1>1, <1>4 DEF Lava, LavaOpens, LavaRefuses, LavaPaid, LavaCloses, LavaRefunds, TypeOK,
                      Settled, Aligned
  <2> QED BY <1>1, <1>2, <2>1 DEF Aligned, Credited
<1> QED BY <1>3, <1>4

\* Time, users and restarts.
LEMMA OthersKeep ==
    ASSUME IInv, NEW o \in Orders,
           \/ \E u \in Users : WindowOpens(u) \/ DeleteUser(u) \/ RegisterUser(u)
           \/ (\E p \in Orders : Lapse(p)) \/ Restart \/ UNCHANGED vars
    PROVE  Aligned(o)' /\ Credited(o)' /\ order'[o].status = order[o].status
<1>1. Aligned(o) /\ Credited(o) /\ TypeOK /\ order[o] \in Order
  BY RowType DEF IInv
<1>2. ASSUME NEW u \in Users, DeleteUser(u)
      PROVE  Aligned(o)' /\ Credited(o)' /\ order'[o].status = order[o].status
  <2>1. /\ order'[o].status = order[o].status /\ order'[o].url = order[o].url
        /\ order'[o].call = order[o].call
        /\ order'[o].owner = IF order[o].owner = u THEN Nobody ELSE order[o].owner
    BY <1>1, <1>2 DEF DeleteUser, Order
  <2>2. UNCHANGED <<event, credits, inv>> /\ users' = users \ {u}
    BY <1>2 DEF DeleteUser, lava
  <2> QED BY <1>1, <2>1, <2>2 DEF Aligned, Credited
<1>3. ASSUME NEW u \in Users, WindowOpens(u) \/ RegisterUser(u)
      PROVE  Aligned(o)' /\ Credited(o)' /\ order'[o].status = order[o].status
  BY <1>1, <1>3, Untouched DEF WindowOpens, RegisterUser, lava
<1>4. ASSUME NEW p \in Orders, Lapse(p)
      PROVE  Aligned(o)' /\ Credited(o)' /\ order'[o].status = order[o].status
  <2>1. /\ order'[o].status = order[o].status /\ order'[o].url = order[o].url
        /\ order'[o].call = order[o].call /\ order'[o].owner = order[o].owner
    BY <1>1, <1>4 DEF Lapse, TypeOK, Order
  <2>2. UNCHANGED <<users, event, credits, inv>>
    BY <1>4 DEF Lapse, lava
  <2> QED BY <1>1, <2>1, <2>2 DEF Aligned, Credited
<1>5. CASE Restart
  <2>1. /\ order'[o].status = order[o].status /\ order'[o].url = order[o].url
        /\ order'[o].owner = order[o].owner
        /\ (order[o].call # "asking" => order'[o].call = order[o].call)
    BY <1>1, <1>5 DEF Restart, Order
  <2>2. UNCHANGED <<users, event, credits, inv>>
    BY <1>5 DEF Restart, lava
  <2> QED BY <1>1, <2>1, <2>2 DEF Aligned, Credited
<1>6. CASE UNCHANGED vars
  BY <1>1, <1>6, Untouched DEF vars, store, lava
<1> QED BY <1>2, <1>3, <1>4, <1>5, <1>6

\* Webhooks in flight stay true: Lava sends them when it moves the invoice,
\* and a settled invoice moves on to refunded at most.
LEMMA HooksKeep ==
    ASSUME IInv, [Next]_vars PROVE HooksTrue'
<1> USE DEF HooksTrue, Behind, Settled
<1>0. TypeOK /\ HooksTrue /\ \A h \in hooks : h.order \in Orders /\ h.status \in LavaStatuses
  BY DEF IInv, TypeOK, Hook
<1>1. ASSUME NEW o \in Orders, Lava(o) PROVE HooksTrue'
  <2>1. ASSUME NEW h \in hooks PROVE inv'[h.order] \in Behind[h.status]
    BY <1>0, <1>1 DEF Lava, LavaOpens, LavaRefuses, LavaPaid, LavaCloses, LavaRefunds, TypeOK,
                      LavaStatuses
  <2>2. ASSUME NEW h \in hooks', h \notin hooks PROVE inv'[h.order] \in Behind[h.status]
    BY <1>0, <1>1, <2>2 DEF Lava, LavaOpens, LavaRefuses, LavaPaid, LavaCloses, LavaRefunds,
                            TypeOK, Notify
  <2> QED BY <2>1, <2>2
<1>2. ASSUME NEW u \in Users, NEW o \in Orders, CreateOrder(u, o) PROVE HooksTrue'
  <2>1. inv[o] = "none"
    BY <1>2 DEF IInv, Aligned, CreateOrder
  <2> QED BY <1>0, <1>2, <2>1 DEF CreateOrder, TypeOK, LavaStatuses
<1>3. ASSUME NEW h \in hooks, Deliver(h) PROVE HooksTrue'
  <2>1. inv' = inv /\ hooks' \subseteq hooks
    BY <1>3 DEF Deliver, WebhookRejected, WebhookDuplicate, WebhookMismatch, WebhookApplied,
                Acknowledge, lava, vars
  <2> QED BY <1>0, <2>1
<1>4. CASE /\ ~\E u \in Users, o \in Orders : CreateOrder(u, o)
           /\ ~\E o \in Orders : Lava(o)
           /\ ~\E h \in hooks : Deliver(h)
  <2>1. inv' = inv /\ hooks' = hooks
    BY <1>4 DEF Next, WindowOpens, DeleteUser, RegisterUser, CreateFailed, CreateSucceeded, Lapse,
                Restart, WebhookRejected, lava, vars
  <2> QED BY <1>0, <2>1
<1> QED BY <1>1, <1>2, <1>3, <1>4

-----------------------------------------------------------------------------
\* What one step does to one order.
LEMMA OrderStep ==
    ASSUME IInv, [Next]_vars, NEW o \in Orders
    PROVE  /\ Aligned(o)' /\ Credited(o)'
           /\ order[o].status \in Settled => order'[o].status \in Settled
<1>1. CASE \E p \in Orders :
         (\E u \in Users : CreateOrder(u, p)) \/ CreateFailed(p) \/ CreateSucceeded(p)
  BY <1>1, CreateKeeps
<1>2. CASE \E p \in Orders : Lava(p)
  BY <1>2, LavaKeeps
<1>3. CASE \E h \in hooks : Deliver(h)
  BY <1>3, WebhookKeeps
<1>4. CASE \/ \E u \in Users : WindowOpens(u) \/ DeleteUser(u) \/ RegisterUser(u)
           \/ (\E p \in Orders : Lapse(p)) \/ Restart \/ UNCHANGED vars
  BY <1>4, OthersKeep
<1>5. CASE \E h \in Hook : WebhookRejected(h)
  BY <1>5, RejectedKeeps
<1> QED BY <1>1, <1>2, <1>3, <1>4, <1>5 DEF Next

\* IInv is an inductive invariant.
THEOREM Invariance == Spec => []IInv
<1>1. Init => IInv
  <2> SUFFICES ASSUME Init, TypeOK PROVE IInv
    BY PaymentsAssumption DEF Init, TypeOK, NoRow, Order, InvoiceStates
  <2>1. HooksTrue
    BY DEF Init, HooksTrue
  <2>2. ASSUME NEW o \in Orders PROVE Aligned(o) /\ Credited(o)
    BY DEF Init, NoRow, Aligned, Credited, Settled, Statuses
  <2> QED BY <2>1, <2>2 DEF IInv
<1>2. IInv /\ TypeOK' /\ [Next]_vars => IInv'
  BY OrderStep, HooksKeep DEF IInv
<1> QED BY <1>1, <1>2, TypeCorrect, PTL DEF Spec

\* CreditedOnce: whatever is delivered twice, late, unverified or after a
\* restart, an order extends a subscription once, and only for a payment.
THEOREM NoDoubleCredit == Spec => []CreditedOnce
<1>1. IInv => CreditedOnce
  BY DEF IInv, Credited, CreditedOnce, Settled
<1> QED BY <1>1, Invariance, PTL

\* PaidEventMeansCredit: event log and subscription never disagree.
THEOREM LogAgreesWithCredit == Spec => []PaidEventMeansCredit
<1>1. IInv => PaidEventMeansCredit
  BY DEF IInv, Credited, PaidEventMeansCredit, Settled
<1> QED BY <1>1, Invariance, PTL

\* PaidNeverLost: no late webhook and no failed call takes a paid order back.
THEOREM PaidStays == Spec => PaidNeverLost
<1>1. IInv /\ [Next]_vars =>
         [\A o \in Orders : order[o].status \in {"paid", "refunded"} =>
                            order'[o].status \in {"paid", "refunded"}]_vars
  BY OrderStep DEF Settled
<1> QED BY <1>1, Invariance, PTL DEF Spec, PaidNeverLost

-----------------------------------------------------------------------------
\* A step maps to an order, a payment, a return, a gift, a leave or to nothing.
LEMMA StepMaps ==
    ASSUME IInv, [Next]_vars
    PROVE  [Purchase!Next]_<<Buyer, Money, Given, credits>>
<1> DEFINE Book == [Purchase!Next]_<<Buyer, Money, Given, credits>>
<1>1. /\ TypeOK /\ HooksTrue /\ \A o \in Orders : Aligned(o) /\ Credited(o)
      /\ \A h \in hooks : h \in Hook /\ h.order \in Orders /\ h.status \in LavaStatuses
  BY DEF IInv, TypeOK, Hook
<1>2. ASSUME NEW o \in Orders, Lava(o) PROVE Book
  <2>1. event' = event /\ credits' = credits /\ order' = order
    BY <1>2 DEF Lava, LavaOpens, LavaRefuses, LavaPaid, LavaCloses, LavaRefunds, store
  <2>2. Buyer' = Buyer /\ Given' = Given
    BY <2>1 DEF Buyer, Given
  <2>3. CASE LavaPaid(o, "success") \/ LavaPaid(o, "short")
    <3>1. inv[o] = "open" /\ inv' = [inv EXCEPT ![o] = "paid"]
      BY <2>3 DEF LavaPaid
    <3>2. Money[o] = "unpaid" /\ Money' = [Money EXCEPT ![o] = "paid"]
      BY <1>1, <3>1 DEF TypeOK, Money
    <3>3. Buyer[o] # "none"
      BY <1>1, <3>1 DEF Aligned, Buyer
    <3> QED BY <2>1, <2>2, <3>2, <3>3 DEF Purchase!Next, Purchase!Pay
  <2>4. CASE LavaRefunds(o)
    <3>1. inv[o] = "paid" /\ inv' = [inv EXCEPT ![o] = "refunded"]
      BY <2>4 DEF LavaRefunds
    <3>2. Money[o] = "paid" /\ Money' = [Money EXCEPT ![o] = "returned"]
      BY <1>1, <3>1 DEF TypeOK, Money
    <3> QED BY <2>1, <2>2, <3>2 DEF Purchase!Next, Purchase!Return
  <2>5. CASE LavaOpens(o) \/ LavaRefuses(o) \/ LavaCloses(o, "failed", "fail")
             \/ LavaCloses(o, "expired", "expired")
    <3>1. \A p \in Orders : inv'[p] = inv[p] \/ {inv[p], inv'[p]} \cap Settled = {}
      BY <1>1, <2>5 DEF LavaOpens, LavaRefuses, LavaCloses, TypeOK, Settled
    <3>2. Money' = Money
      BY <3>1 DEF Settled, Money
    <3> QED BY <2>1, <2>2, <3>2
  <2> QED BY <1>2, <2>3, <2>4, <2>5 DEF Lava
<1>3. ASSUME NEW h \in Hook, WebhookRejected(h) PROVE Book
  <2>1. \A o \in Orders : event'[o]["paid"] = event[o]["paid"]
           \/ (event[o]["paid"] = "none" /\ event'[o]["paid"] = "untrusted")
    BY <1>1, <1>3, LogType DEF WebhookRejected, Statuses
  <2>2. inv' = inv /\ order' = order /\ credits' = credits
    BY <1>3 DEF WebhookRejected, lava
  <2> QED BY <2>1, <2>2 DEF Buyer, Money, Given
<1>4. ASSUME NEW h \in hooks, Deliver(h) PROVE Book
  <2>1. CASE WebhookRejected(h)
    BY <1>1, <1>3, <2>1
  <2>2. CASE WebhookDuplicate(h) \/ WebhookMismatch(h)
    <3>1. UNCHANGED <<order, event, inv, credits>>
      BY <2>2 DEF WebhookDuplicate, WebhookMismatch, Acknowledge, store, lava, vars
    <3> QED BY <3>1 DEF Buyer, Money, Given
  <2>3. CASE WebhookApplied(h)
    <3> DEFINE o == h.order
    <3>1. \A p \in Orders, s \in Statuses :
             event'[p][s] = IF p = o /\ s = StatusMap[h.status] /\ event[p][s] = "none"
                            THEN "trusted" ELSE event[p][s]
      BY <1>1, <2>3, LogType DEF WebhookApplied
    <3>2. o \in Orders /\ inv' = inv /\ inv[o] \in Behind[h.status] /\ order[o].status # "none"
          /\ StatusMap[h.status] # "none"
      BY <1>1, <2>3 DEF WebhookApplied, Acknowledge, HooksTrue, Behind, Settled, LavaStatuses,
                        Aligned, StatusMap
    <3>3. \A p \in Orders : order'[p].owner = order[p].owner
                            /\ (order'[p].status = "none" <=> order[p].status = "none")
      BY <1>1, <2>3, <3>2, RowType DEF WebhookApplied, TypeOK, Order
    <3>4. Money' = Money /\ Buyer' = Buyer
      BY <3>2, <3>3 DEF Money, Buyer
    <3> HIDE DEF o
    <3>5. CASE h.status = "success"
      <4>1. event[o]["paid"] = "none" /\ inv[o] \in Settled
        BY <1>1, <2>3, <3>2, <3>5 DEF WebhookApplied, Fresh, StatusMap, Behind, o
      <4>2. ~Given[o] /\ Money[o] # "unpaid"
        BY <3>2, <4>1 DEF Settled, Money, Given
      <4>3. \A p \in Orders : event'[p]["paid"] = IF p = o THEN "trusted" ELSE event[p]["paid"]
        BY <3>1, <3>5, <4>1 DEF StatusMap, Statuses
      <4>4. Given' = [Given EXCEPT ![o] = TRUE]
        BY <3>2, <4>3, Zenon DEF Given
      <4>5. Buyer[o] = "there" <=> order[o].owner \in users
        BY <1>1, <3>2, RowType, PaymentsAssumption DEF Buyer, Aligned, TypeOK
      <4>6. credits' = [credits EXCEPT ![o] = IF Buyer[o] = "there" THEN @ + 1 ELSE @]
        BY <1>1, <2>3, <3>2, <3>5, <4>5 DEF WebhookApplied, Credit, TypeOK, o
      <4>7. Purchase!Give(o)
        BY <3>4, <4>2, <4>4, <4>6 DEF Purchase!Give
      <4> QED BY <3>2, <4>7 DEF Purchase!Next
    <3>6. CASE h.status # "success"
      <4>1. StatusMap[h.status] # "paid"
        BY <1>1, <2>3, <3>6 DEF WebhookApplied, StatusMap, LavaStatuses
      <4>2. Given' = Given /\ credits' = credits
        BY <2>3, <3>1, <3>6, <4>1 DEF WebhookApplied, Statuses, Given
      <4> QED BY <3>4, <4>2
    <3> QED BY <3>5, <3>6
  <2> QED BY <1>4, <2>1, <2>2, <2>3 DEF Deliver
<1>5. ASSUME NEW o \in Orders, NEW u \in Users, CreateOrder(u, o) PROVE Book
  <2>1. inv[o] = "none" /\ inv' = [inv EXCEPT ![o] = "asked"] /\ order[o].status = "none"
        /\ event' = event /\ credits' = credits
    BY <1>1, <1>5 DEF CreateOrder, Aligned
  <2>2. Money' = Money /\ Given' = Given
    BY <1>1, <2>1 DEF TypeOK, Money, Given
  <2>3. Buyer[o] = "none" /\ Buyer' = [Buyer EXCEPT ![o] = "there"]
    <3>1. /\ order'[o].status = "pending" /\ order'[o].owner = u /\ u # Nobody
          /\ \A p \in Orders \ {o} : order'[p] = order[p]
      BY <1>1, <1>5, PaymentsAssumption DEF CreateOrder, TypeOK
    <3> QED BY <2>1, <3>1 DEF Buyer
  <2> QED BY <2>1, <2>2, <2>3 DEF Purchase!Next, Purchase!Order
<1>6. ASSUME NEW o \in Orders, CreateSucceeded(o) \/ CreateFailed(o) PROVE Book
  <2>1. \A p \in Orders : event'[p]["paid"] = event[p]["paid"]
    BY <1>1, <1>6 DEF CreateSucceeded, CreateFailed, TypeOK, Statuses
  <2>2. inv' = inv /\ credits' = credits
    BY <1>6 DEF CreateSucceeded, CreateFailed, lava
  <2>3. \A p \in Orders : order'[p].owner = order[p].owner
                          /\ (order'[p].status = "none" <=> order[p].status = "none")
    BY <1>1, <1>6, RowType DEF CreateSucceeded, CreateFailed, TypeOK, Order, Aligned
  <2> QED BY <2>1, <2>2, <2>3 DEF Buyer, Money, Given
<1>7. ASSUME NEW u \in Users, DeleteUser(u) PROVE Book
  <2> DEFINE S == {o \in Orders : order[o].owner = u /\ order[o].status # "none"}
  <2>1. event' = event /\ inv' = inv /\ credits' = credits
    BY <1>7 DEF DeleteUser, lava
  <2>2. Money' = Money /\ Given' = Given
    BY <2>1 DEF Money, Given
  <2>3. \A o \in Orders : order'[o].status = order[o].status
           /\ order'[o].owner = IF order[o].owner = u THEN Nobody ELSE order[o].owner
    BY <1>1, <1>7, RowType DEF DeleteUser, Order
  <2>4. u # Nobody
    BY PaymentsAssumption
  <2>5. \A o \in S : Buyer[o] = "there"
    BY <2>4 DEF Buyer
  <2>6. Buyer' = [o \in Orders |-> IF o \in S THEN "gone" ELSE Buyer[o]]
    BY <2>3, <2>4 DEF Buyer
  <2>7. Purchase!Leave(S)
    BY <2>1, <2>2, <2>5, <2>6 DEF Purchase!Leave
  <2>8. S \in SUBSET Orders
    OBVIOUS
  <2> HIDE DEF S
  <2> QED BY <2>7, <2>8 DEF Purchase!Next
<1>8. CASE \/ \E u \in Users : WindowOpens(u) \/ RegisterUser(u)
           \/ (\E o \in Orders : Lapse(o)) \/ Restart \/ UNCHANGED vars
  <2>1. event' = event /\ inv' = inv /\ credits' = credits
    BY <1>8 DEF WindowOpens, RegisterUser, Lapse, Restart, vars, store, lava
  <2>2. \A p \in Orders : order'[p].owner = order[p].owner /\ order'[p].status = order[p].status
    <3>1. CASE \/ \E u \in Users : WindowOpens(u) \/ RegisterUser(u)
               \/ UNCHANGED vars
      BY <3>1 DEF WindowOpens, RegisterUser, vars, store
    <3>2. ASSUME NEW o \in Orders, Lapse(o), NEW p \in Orders
          PROVE  order'[p].owner = order[p].owner /\ order'[p].status = order[p].status
      BY <1>1, <3>2, RowType DEF Lapse, TypeOK, Order
    <3>3. ASSUME Restart, NEW p \in Orders
          PROVE  order'[p].owner = order[p].owner /\ order'[p].status = order[p].status
      BY <1>1, <3>3, RowType DEF Restart, Order
    <3> QED BY <1>8, <3>1, <3>2, <3>3
  <2> QED BY <2>1, <2>2 DEF Buyer, Money, Given
<1> QED BY <1>2, <1>3, <1>4, <1>5, <1>6, <1>7, <1>8 DEF Next

\* SellsAsPromised: the handlers and Lava implement the book of purchases.
THEOREM ImplementsPurchases == Spec => SellsAsPromised
<1>1. Init => Purchase!Init
  <2> SUFFICES ASSUME Init PROVE Purchase!Init
    OBVIOUS
  <2>1. \A o \in Orders : inv[o] = "none" /\ event[o]["paid"] = "none" /\ order[o].status = "none"
    BY DEF Init, NoRow, Statuses
  <2>2. Money = [o \in Orders |-> "unpaid"]
    BY <2>1 DEF Money
  <2>3. Given = [o \in Orders |-> FALSE]
    BY <2>1 DEF Given
  <2>4. Buyer = [o \in Orders |-> "none"]
    BY <2>1 DEF Buyer
  <2> QED BY <2>2, <2>3, <2>4 DEF Init, Purchase!Init
<1>2. IInv /\ [Next]_vars => [Purchase!Next]_<<Buyer, Money, Given, credits>>
  BY StepMaps
<1> QED BY <1>1, <1>2, Invariance, PTL DEF Spec, SellsAsPromised, Purchase!Spec

-----------------------------------------------------------------------------
(* The subscription of one account                                         *)

LEMMA IdleType == Idle \in Task /\ Idle.at = "idle"
BY DEF Idle, Task, Times, Never

\* A task that goes on keeps what it has read.
LEMMA MovedType ==
    ASSUME task \in [Tasks -> Task], NEW t \in Tasks, NEW at \in {"expired", "check", "credit"},
           Continue(t, at)
    PROVE  task' \in [Tasks -> Task]
<1>1. [task[t] EXCEPT !.at = at] \in Task
  BY DEF Task
<1> QED BY <1>1 DEF Continue

LEMMA TypesStep == SubscriptionTypeOK /\ [SubscriptionNext]_subscriptionVars => SubscriptionTypeOK'
<1> SUFFICES ASSUME SubscriptionTypeOK, [SubscriptionNext]_subscriptionVars
             PROVE  SubscriptionTypeOK'
  OBVIOUS
<1> USE SubscriptionAssumption, IdleType DEF SubscriptionTypeOK, Tasks
<1>1. ASSUME NEW t \in Threads, RequireUser(t) \/ Deactivate(t) PROVE SubscriptionTypeOK'
  <2>1. CASE RequireUser(t)
    BY <2>1, MovedType DEF RequireUser
  <2>2. CASE Deactivate(t)
    BY <2>2 DEF Deactivate, Finish, Row
  <2> QED BY <1>1, <2>1, <2>2
<1>2. ASSUME NEW c \in Coroutines, AuthRead(c) PROVE SubscriptionTypeOK'
  <2>1. [until |-> row.until, time |-> now, at |-> IF Past(row.until) THEN "expired" ELSE "check"]
            \in Task
    BY DEF Task, Row
  <2> QED BY <1>2, <2>1 DEF AuthRead
<1>3. ASSUME NEW c \in Coroutines,
             AuthDeactivate(c) \/ AuthDeactivateFails(c) \/ AuthAnswer(c)
      PROVE  SubscriptionTypeOK'
  <2>1. CASE AuthDeactivate(c)
    BY <2>1 DEF AuthDeactivate, Finish, Row
  <2>2. CASE AuthDeactivateFails(c)
    BY <2>2, MovedType DEF AuthDeactivateFails
  <2>3. CASE AuthAnswer(c)
    BY <2>3 DEF AuthAnswer, Finish
  <2> QED BY <1>3, <2>1, <2>2, <2>3
<1>4. ASSUME NEW c \in Coroutines, CreditRead(c) PROVE SubscriptionTypeOK'
  <2>1. ASSUME NEW paidAt \in 0..(now + 1)
        PROVE  [at |-> "credit", until |-> row.until, time |-> paidAt] \in Task
    BY DEF Task, Row
  <2>2. payments' \in 0..MaxCredits
    BY <1>4 DEF CreditRead
  <2> QED BY <1>4, <2>1, <2>2 DEF CreditRead
<1>5. ASSUME NEW c \in Coroutines, CreditWrite(c) PROVE SubscriptionTypeOK'
  <2>1. task[c].until \in Times /\ task[c].time \in Nat
    BY DEF Task
  <2>2. Later(task[c].until, task[c].time) + Period \in Times
    BY <2>1 DEF Later, Times, Never
  <2> QED BY <1>5, <2>2 DEF CreditWrite, Finish, Row
<1>6. CASE Kick
  BY <1>6 DEF Kick, Row
<1>7. ASSUME NEW allowed \in BOOLEAN, NEW active \in BOOLEAN,
             NEW until \in {row.until, Never, now + Period},
             UpdateUser(allowed, active, until)
      PROVE  SubscriptionTypeOK'
  <2>1. until \in Times
    BY DEF Row, Times
  <2> QED BY <1>7, <2>1 DEF UpdateUser, Edit, Row
<1>8. ASSUME NEW role \in {"user", "admin"}, SetRole(role) PROVE SubscriptionTypeOK'
  BY <1>8 DEF SetRole, Edit, Row, Times
<1>9. CASE Tick
  BY <1>9 DEF Tick
<1>10. CASE ProcessDies
  BY <1>10 DEF ProcessDies
<1>11. CASE UNCHANGED subscriptionVars
  BY <1>11 DEF subscriptionVars
<1> QED
  BY <1>1, <1>2, <1>3, <1>4, <1>5, <1>6, <1>7, <1>8, <1>9, <1>10, <1>11
     DEF SubscriptionNext, Administer

\* SubscriptionTypeOK: every variable keeps its type in every behaviour.
THEOREM SubscriptionTypeCorrect == SubscriptionSpec => []SubscriptionTypeOK
<1>1. SubscriptionInit => SubscriptionTypeOK
  BY SubscriptionAssumption, IdleType
     DEF SubscriptionInit, SubscriptionTypeOK, Row, Times, Never, Tasks
<1> QED BY <1>1, TypesStep, PTL DEF SubscriptionSpec

-----------------------------------------------------------------------------
\* A coroutine that is between two statements has the loop, and what it has read
\* still holds unless an administrator has written the row since.
Exclusive == \A c \in Coroutines :
    /\ task[c].at # "idle" => loop = c
    /\ c \notin edited =>
          /\ task[c].at = "expired" => Past(row.until)
          /\ task[c].at = "credit" => task[c].until = row.until

LEMMA ExclusiveStep ==
    SubscriptionTypeOK /\ Exclusive /\ [SubscriptionNext]_subscriptionVars => Exclusive'
<1> SUFFICES ASSUME SubscriptionTypeOK, Exclusive, [SubscriptionNext]_subscriptionVars
             PROVE  Exclusive'
  OBVIOUS
<1> USE SubscriptionAssumption, IdleType DEF SubscriptionTypeOK, Tasks, Exclusive
<1>1. ASSUME NEW c \in Coroutines, AuthRead(c) PROVE Exclusive'
  <2>1. \A d \in Coroutines : task[d].at = "idle"
    BY <1>1 DEF AuthRead, MayRun
  <2> QED BY <1>1, <2>1 DEF AuthRead, Past
<1>2. ASSUME NEW c \in Coroutines, AuthDeactivate(c) PROVE Exclusive'
  <2>1. \A d \in Coroutines \ {c} : task[d].at = "idle"
    BY <1>2 DEF AuthDeactivate
  <2> QED BY <1>2, <2>1 DEF AuthDeactivate, Finish
<1>3. ASSUME NEW c \in Coroutines, AuthDeactivateFails(c) PROVE Exclusive'
  <2>1. task'[c].at = "check" /\ \A d \in Coroutines \ {c} : task'[d] = task[d]
    BY <1>3 DEF AuthDeactivateFails, Continue, Task
  <2> QED BY <1>3, <2>1 DEF AuthDeactivateFails, Past
<1>4. ASSUME NEW c \in Coroutines, AuthAnswer(c) PROVE Exclusive'
  <2>1. \A d \in Coroutines \ {c} : task[d].at = "idle"
    BY <1>4 DEF AuthAnswer
  <2> QED BY <1>4, <2>1 DEF AuthAnswer, Finish
<1>5. ASSUME NEW c \in Coroutines, CreditRead(c) PROVE Exclusive'
  <2>1. \A d \in Coroutines : task[d].at = "idle"
    BY <1>5 DEF CreditRead, MayRun
  <2> QED BY <1>5, <2>1 DEF CreditRead
<1>6. ASSUME NEW c \in Coroutines, CreditWrite(c) PROVE Exclusive'
  <2>1. \A d \in Coroutines \ {c} : task[d].at = "idle"
    BY <1>6 DEF CreditWrite
  <2> QED BY <1>6, <2>1 DEF CreditWrite, Finish
<1>7. CASE Kick
  <2>1. \A d \in Coroutines : task[d].at = "idle"
    BY <1>7 DEF Kick, MayRun
  <2> QED BY <1>7, <2>1 DEF Kick
<1>8. ASSUME NEW t \in Threads, RequireUser(t) \/ Deactivate(t) PROVE Exclusive'
  <2>1. \A d \in Coroutines : task'[d] = task[d]
    BY <1>8 DEF RequireUser, Deactivate, Continue, Finish
  <2>2. loop' = loop /\ row'.until = row.until /\ now' = now /\ edited' = edited
    BY <1>8 DEF RequireUser, Deactivate, Finish, Row
  <2> QED BY <2>1, <2>2 DEF Past
<1>9. CASE Administer
  <2>1. task' = task /\ loop' = loop /\ \A d \in Coroutines : task[d] # Idle => d \in edited'
    BY <1>9 DEF Administer, UpdateUser, SetRole, Edit
  <2> QED BY <2>1
<1>10. CASE Tick
  BY <1>10 DEF Tick, Past, Row, Times
<1>11. CASE ProcessDies
  BY <1>11 DEF ProcessDies
<1>12. CASE UNCHANGED subscriptionVars
  BY <1>12 DEF subscriptionVars, Past
<1> QED
  BY <1>1, <1>2, <1>3, <1>4, <1>5, <1>6, <1>7, <1>8, <1>9, <1>10, <1>11, <1>12
     DEF SubscriptionNext

\* On one event loop, what a coroutine has read is so when it writes.
THEOREM ExclusiveAlways == SubscriptionSpec => []Exclusive
<1>1. SubscriptionInit => Exclusive
  BY IdleType DEF SubscriptionInit, Exclusive, Tasks
<1> QED BY <1>1, ExclusiveStep, SubscriptionTypeCorrect, PTL DEF SubscriptionSpec

\* LoopDeactivatesExpired: with threads, payments and failing statements around,
\* hysteria_auth switches off an account that has expired, or that an
\* administrator has written since it was read.
THEOREM DeactivatedHasExpired == SubscriptionSpec => LoopDeactivatesExpired
<1>1. Exclusive /\ [SubscriptionNext]_subscriptionVars =>
          [\A c \in Coroutines : AuthDeactivate(c) /\ row.active /\ c \notin edited
                              => Past(row.until)]_subscriptionVars
  BY DEF Exclusive, AuthDeactivate
<1> QED BY <1>1, ExclusiveAlways, PTL DEF SubscriptionSpec, LoopDeactivatesExpired

\* LoopCreditAdds: a paid webhook adds a full period to the end the account has
\* when it writes, unless an administrator has written it since it was read.
THEOREM CreditIsAdded == SubscriptionSpec => LoopCreditAdds
<1>1. SubscriptionTypeOK /\ Exclusive /\ [SubscriptionNext]_subscriptionVars =>
          [\A c \in Coroutines : CreditWrite(c) /\ c \notin edited
                              => row'.until >= row.until + Period]_subscriptionVars
  <2> SUFFICES ASSUME SubscriptionTypeOK, Exclusive, NEW c \in Coroutines, CreditWrite(c),
                      c \notin edited
               PROVE  row'.until >= row.until + Period
    OBVIOUS
  <2>1. row'.until = Later(task[c].until, task[c].time) + Period
    BY DEF CreditWrite, SubscriptionTypeOK, Row
  <2>2. task[c].until = row.until /\ row.until \in Int /\ task[c].time \in Nat
    BY DEF CreditWrite, Exclusive, SubscriptionTypeOK, Tasks, Task, Row, Times, Never
  <2> QED BY <2>1, <2>2, SubscriptionAssumption DEF Later
<1> QED BY <1>1, ExclusiveAlways, SubscriptionTypeCorrect, PTL DEF SubscriptionSpec, LoopCreditAdds
=============================================================================

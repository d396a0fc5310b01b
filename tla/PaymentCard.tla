---------------------------- MODULE PaymentCard -----------------------------
(***************************************************************************)
(* The payment card of the profile page, in one tab: the button creates an *)
(* order or goes on with the one the card shows, and the browser leaves    *)
(* for the page of its invoice.                                            *)
(*                                                                         *)
(* The backend holds an order without a page while Lava is asked, and so   *)
(* two orders at once for one who does not wait; what webhooks do to an    *)
(* order is Payments'.                                                     *)
(***************************************************************************)
EXTENDS FiniteSets, Naturals

CONSTANTS Orders,       \* bound: the orders a run creates, 1..N in this order
          NoOrder       \* null

ASSUME CardAssumption == /\ Orders \subseteq Nat \ {0} /\ IsFiniteSet(Orders)
                         /\ NoOrder \notin Orders

VARIABLES order,        \* order[o]: where it is at the backend
          due,          \* the account may be paid for: inside the renewal window
          card,         \* useCurrentPaymentOrder: the order shown, and its page known
          reads,        \* the request for the current order is under way
          button,       \* createSbpPayment: the creation that the button waits for
          where,        \* the page of an order at Lava, or none: the profile page
          hurried       \* a creation was under way and nobody waited for it any more

cardVars == <<order, due, card, reads, button, where, hurried>>

\* asking: no page yet, Lava is asked; over: paid, failed or expired.
Stages == {"none", "asking", "pageless", "payable", "over"}
Card == [order : Orders, page : BOOLEAN] \cup {NoOrder}
\* asking: Lava is asked for the order; page, error: the answer is on its way.
Sent == [at : {"idle", "sent", "error"}, order : {NoOrder}] \cup [at : {"asking", "page"}, order : Orders]
NotSent == [at |-> "idle", order |-> NoOrder]
Payable == {o \in Orders : order[o] = "payable"}
PendingOrders == {o \in Orders : order[o] \in {"asking", "pageless", "payable"}}
Latest(S) == CHOOSE o \in S : \A p \in S : p <= o

CardInit ==
    /\ order = [o \in Orders |-> "none"] /\ due \in BOOLEAN
    /\ card = NoOrder /\ reads = TRUE /\ button = NotSent
    /\ where = NoOrder /\ hurried = FALSE

OnPage == where = NoOrder
HasPendingPayment == card # NoOrder /\ card.page

\* get_current_order, the newest pending order, with or without a page.
CurrentOrder ==
    IF PendingOrders = {} THEN NoOrder
    ELSE [order |-> Latest(PendingOrders), page |-> order[Latest(PendingOrders)] = "payable"]

ReadsOrder ==
    /\ OnPage /\ reads /\ reads' = FALSE
    /\ card' \in {CurrentOrder, card}
    /\ UNCHANGED <<order, due, button, where, hurried>>

\* handleSbpPayment with a page on the card: that page, unasked.
Continue ==
    /\ OnPage /\ button = NotSent
    /\ HasPendingPayment
    /\ where' = card.order
    /\ UNCHANGED <<order, due, card, reads, button, hurried>>

\* handleSbpPayment without one; the button is disabled until this has ended.
Pay ==
    /\ OnPage /\ button = NotSent
    /\ ~HasPendingPayment
    /\ button' = [NotSent EXCEPT !.at = "sent"]
    /\ UNCHANGED <<order, due, card, reads, where, hurried>>

\* Mutant of Existing: every creation makes an order.
ExistingNone == {}
\* create_sbp_payment looks for a live invoice with a page.
Existing == Payable

Fails == button' = [NotSent EXCEPT !.at = "error"]

\* The request arrives: refused, answered with the invoice there is, or a new
\* order is committed before Lava is asked.
Created ==
    /\ button.at = "sent"
    /\ \/ ~due /\ Fails /\ UNCHANGED order
       \/ /\ due /\ Existing # {}
          /\ button' = [at |-> "page", order |-> Latest(Existing)]
          /\ UNCHANGED order
       \/ /\ due /\ Existing = {}
          /\ \E o \in Orders :
                /\ order[o] = "none" /\ \A p \in Orders : p < o => order[p] # "none"
                /\ order' = [order EXCEPT ![o] = "asking"]
                /\ button' = [at |-> "asking", order |-> o]
    /\ UNCHANGED <<due, card, reads, where, hurried>>

\* Lava gives a page; or fails, and the order with it; or the backend stops in
\* between. Whoever still waits for the creation is answered.
LavaAnswers(o) ==
    /\ order[o] = "asking"
    /\ \E stage \in {"payable", "pageless", "over"} :
          /\ order' = [order EXCEPT ![o] = stage]
          /\ IF button.order # o THEN UNCHANGED button
             ELSE IF stage = "payable" THEN button' = [button EXCEPT !.at = "page"] ELSE Fails
    /\ UNCHANGED <<due, card, reads, where, hurried>>

\* mutateAsync ends: the current order is asked for anew, the browser goes to the
\* page; or the error is shown.
CreateEnds ==
    /\ OnPage /\ button.at \in {"page", "error"}
    /\ button' = NotSent
    /\ IF button.at = "page" THEN reads' = TRUE /\ where' = button.order
       ELSE UNCHANGED <<reads, where>>
    /\ UNCHANGED <<order, due, card, hurried>>

\* Paid or given up, the browser comes back; it may have kept the page as it was.
Back ==
    /\ ~OnPage /\ where' = NoOrder
    /\ \/ UNCHANGED <<card, reads>>
       \/ card' = NoOrder /\ reads' = TRUE
    /\ UNCHANGED <<order, due, button, hurried>>

\* The page is loaded again, or the answer of the creation is lost.
LoadAgain ==
    /\ OnPage /\ button # NotSent
    /\ \/ card' = NoOrder /\ reads' = TRUE
       \/ UNCHANGED <<card, reads>>
    /\ button' = NotSent /\ hurried' = TRUE
    /\ UNCHANGED <<order, due, where>>

\* The invoice is paid at Lava and the account credited.
Paid(o) ==
    /\ order[o] = "payable" /\ where = o
    /\ order' = [order EXCEPT ![o] = "over"]
    /\ due' = FALSE
    /\ UNCHANGED <<card, reads, button, where, hurried>>

\* LAVA_EXPIRE_MINUTES are over, or the subscription is about to be.
Lapses ==
    /\ \/ \E o \in PendingOrders : order[o] # "asking" /\ order' = [order EXCEPT ![o] = "over"]
                             /\ UNCHANGED due
       \/ ~due /\ due' = TRUE /\ UNCHANGED order
    /\ UNCHANGED <<card, reads, button, where, hurried>>

CardNext ==
    \/ ReadsOrder \/ Continue \/ Pay \/ Created \/ CreateEnds \/ Back \/ LoadAgain \/ Lapses
    \/ \E o \in Orders : LavaAnswers(o) \/ Paid(o)

-----------------------------------------------------------------------------
(* Properties *)

\* Whoever waits for the button has at most one order on its way or payable; two
\* invoices can be paid only after the page was loaded again in the middle.
OneInvoice ==
    ~hurried => Cardinality({o \in Orders : order[o] \in {"asking", "payable"}}) <= 1
=============================================================================

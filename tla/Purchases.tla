----------------------------- MODULE Purchases ------------------------------
(***************************************************************************)
(* What a shop promises that is paid through somebody else: what was paid  *)
(* for is handed over once, to the buyer who ordered it; nothing is handed *)
(* over that was not paid for, and what has become of the money afterwards *)
(* takes nothing back.  A buyer who has left gets nothing, and the purchase *)
(* is off the books all the same.                                          *)
(***************************************************************************)
EXTENDS Naturals

CONSTANT Items

VARIABLES buyer,        \* buyer[i]: "none", "there", "gone"
          money,        \* money[i]: "unpaid", "paid", "returned"
          given,        \* given[i]: the purchase is on the books
          credits       \* credits[i]: how often the buyer got it

Init == /\ buyer = [i \in Items |-> "none"]
        /\ money = [i \in Items |-> "unpaid"]
        /\ given = [i \in Items |-> FALSE]
        /\ credits = [i \in Items |-> 0]

Order(i) == /\ buyer[i] = "none" /\ buyer' = [buyer EXCEPT ![i] = "there"]
            /\ UNCHANGED <<money, given, credits>>

\* A buyer leaves, and with him everything he has ordered.
Leave(S) == /\ \A i \in S : buyer[i] = "there"
            /\ buyer' = [i \in Items |-> IF i \in S THEN "gone" ELSE buyer[i]]
            /\ UNCHANGED <<money, given, credits>>

Pay(i) == /\ buyer[i] # "none" /\ money[i] = "unpaid"
          /\ money' = [money EXCEPT ![i] = "paid"]
          /\ UNCHANGED <<buyer, given, credits>>

Return(i) == /\ money[i] = "paid" /\ money' = [money EXCEPT ![i] = "returned"]
             /\ UNCHANGED <<buyer, given, credits>>

Give(i) == /\ money[i] # "unpaid" /\ ~given[i]
           /\ given' = [given EXCEPT ![i] = TRUE]
           /\ credits' = [credits EXCEPT ![i] = IF buyer[i] = "there" THEN @ + 1 ELSE @]
           /\ UNCHANGED <<buyer, money>>

Next == \/ \E i \in Items : Order(i) \/ Pay(i) \/ Return(i) \/ Give(i)
        \/ \E S \in SUBSET Items : Leave(S)

Spec == Init /\ [][Next]_<<buyer, money, given, credits>>
=============================================================================

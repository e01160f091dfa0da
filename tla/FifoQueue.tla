------------------------------- MODULE FifoQueue -------------------------------
(***************************************************************************)
(* What FIFO lot accounting means, share by share: the shares of a symbol  *)
(* form a queue in the order they were bought, a sale takes them from the  *)
(* front, and the realized P&L grows by what each sold share gained.       *)
(***************************************************************************)
EXTENDS Integers, SequencesExt

CONSTANTS Sizes,   \* order sizes
          Prices

VARIABLES queue,   \* the price paid for each share held, oldest first
          gained   \* realized P&L

queueVars == <<queue, gained>>

Init == queue = <<>> /\ gained = 0

Buy(n, price) ==
  /\ queue' = queue \o [i \in 1..n |-> price]
  /\ UNCHANGED gained

Sell(n, price) ==
  /\ n <= Len(queue)
  /\ queue' = SubSeq(queue, n + 1, Len(queue))
  /\ gained' = FoldLeft(LAMBDA sum, paid : sum + (price - paid), gained, SubSeq(queue, 1, n))

Next == \E n \in Sizes, price \in Prices : Buy(n, price) \/ Sell(n, price)

Spec == Init /\ [][Next]_queueVars
=============================================================================

---------------------------- MODULE LogContract ----------------------------
(* What the query log promises, whatever the writer does inside: an answer is *)
(* appended once, answers reach the table in the order in which they were     *)
(* handed over and in whole batches, and only a failed batch or a crash may   *)
(* lose one.                                                                  *)
EXTENDS Naturals, Sequences

CONSTANTS Entry, MaxBatch

VARIABLES table,    \* entries in the table, oldest first
          waiting   \* entries handed over and not settled yet, oldest first

Init == table = <<>> /\ waiting = <<>>

HandOver == /\ \E e \in Entry : waiting' = Append(waiting, e)
            /\ UNCHANGED table

First(n) == SubSeq(waiting, 1, n)
Rest(n) == SubSeq(waiting, n + 1, Len(waiting))

Settle(n) == /\ n <= Len(waiting)
             /\ waiting' = Rest(n)
             /\ \/ table' = table \o First(n)
                \/ UNCHANGED table
SettleBatch == \E n \in 1..MaxBatch : Settle(n)

Crash == waiting' = <<>> /\ UNCHANGED table

Next == HandOver \/ SettleBatch \/ Crash

Spec == Init /\ [][Next]_<<table, waiting>>
=============================================================================

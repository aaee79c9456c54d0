------------------------------- MODULE MCDdos -------------------------------
(* Instances of Ddos for TLC. *)
EXTENDS Ddos

Load(units, max, burst, budget, money, concurrency, topups, failures) ==
    [units |-> units, rateMin |-> 1, rateMax |-> max, burst |-> burst, floor |-> 1,
     budget |-> budget, funds |-> [i \in Senders |-> money[i]],
     concurrency |-> concurrency, refunds |-> topups, misreads |-> failures]

\* Half tokens and a rate that back-pressure halves.
Bucket == Load(2, 2, 1, 2, <<2, 0>>, 1, 0, 0)

\* Two threads run down the budget and the senders.
Budget == Load(1, 1, 1, 1, <<1, 1>>, 2, 0, 0)

\* Senders run dry, are refunded, and cannot always be read.
Poor == Load(1, 1, 1, 0, <<1, 0>>, 1, 1, 1)

MCLoads == {Bucket, Budget, Poor}
=============================================================================

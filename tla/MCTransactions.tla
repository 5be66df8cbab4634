--------------------------- MODULE MCTransactions ---------------------------
(* Two accounts and the runtime's own weights and fees: a block of half a      *)
(* second is 20000 units of weight, a MILLIUNIT 1000 units of balance.         *)
EXTENDS Transactions

CONSTANTS alice, bob

MCEndowment == [a \in {alice, bob} |-> IF a = alice THEN 14000 ELSE 0]

MCCall ==
    [drain  |-> [class |-> "Normal", weight |-> 7, len |-> 150, dest |-> bob, value |-> 12000, unspent |-> 0],
     pay    |-> [class |-> "Normal", weight |-> 7, len |-> 150, dest |-> alice, value |-> 4000, unspent |-> 0],
     fill   |-> [class |-> "Normal", weight |-> 13995, len |-> 100, dest |-> alice, value |-> 0, unspent |-> 5000],
     op     |-> [class |-> "Operational", weight |-> 4000, len |-> 100, dest |-> alice, value |-> 0, unspent |-> 0],
     opFit  |-> [class |-> "Operational", weight |-> 18795, len |-> 100, dest |-> alice, value |-> 0, unspent |-> 0],
     opMax  |-> [class |-> "Operational", weight |-> 18995, len |-> 100, dest |-> alice, value |-> 0, unspent |-> 0]]
=============================================================================

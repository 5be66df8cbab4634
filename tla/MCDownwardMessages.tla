------------------------- MODULE MCDownwardMessages -------------------------
(* Blocks of 500 ms, of which DmpQueue has 125; a message of up to 10 ms is   *)
(* ordinary.  One of 120 ms leaves room for one of 4 and not of 10; behind    *)
(* one of 10 that waits, one of 130 gets into the queue.                      *)
EXTENDS DownwardMessages

MCMessages ==
    {[instructions |-> n, transact |-> 0, refused |-> FALSE] : n \in {4, 10, 120}}
    \cup {[instructions |-> 120, transact |-> 0, refused |-> TRUE],
          [instructions |-> 10, transact |-> 120, refused |-> FALSE]}
=============================================================================

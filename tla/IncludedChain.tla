---------------------------- MODULE IncludedChain ----------------------------
(***************************************************************************)
(* What block production promises to whoever follows the parachain through *)
(* the relay chain: the included blocks form one chain that only grows,    *)
(* one block at a time, however many collators build, on whatever relay    *)
(* parents and with whatever clocks.  Nothing is said of collators, jobs,  *)
(* databases or candidates that came to nothing.                           *)
(***************************************************************************)
EXTENDS Integers

CONSTANTS
    Genesis,        \* the genesis block
    MinimumPeriod,  \* least distance of the timestamps of two blocks
    Lead            \* by how much a timestamp may exceed the relay chain's time

VARIABLES
    clock,    \* time of the relay chain
    included  \* blocks that are or were the head of the parachain

vars == <<clock, included>>

Header == [number : Nat, slot : Nat, timestamp : Nat, relayParent : Nat]

\* The current head; numbers tell included blocks apart.
Last == CHOOSE b \in included : \A a \in included : a.number <= b.number

\* b may follow p.
Follows(p, b) ==
    /\ b.number = p.number + 1
    /\ b.slot > p.slot
    /\ b.relayParent > p.relayParent
    /\ p = Genesis \/ b.timestamp >= p.timestamp + MinimumPeriod

Advance == clock' > clock /\ UNCHANGED included

Include ==
    /\ \E b \in included' :
        /\ b \in Header /\ Follows(Last, b)
        /\ b.timestamp <= clock + Lead
        /\ included' = included \cup {b}
    /\ UNCHANGED clock

Init == clock \in Nat /\ included = {Genesis}

Next == Advance \/ Include

Spec == Init /\ [][Next]_vars

=============================================================================

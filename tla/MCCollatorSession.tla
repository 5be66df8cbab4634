-------------------------- MODULE MCCollatorSession --------------------------
(* One invulnerable and two accounts that may become candidates. *)
EXTENDS CollatorSession, TLC

CONSTANTS alice, bob, carol, k1, k2, k3

MCInvulnerables == << alice >>
MCAccounts == {alice, bob, carol}
MCKeys == {k1, k2, k3}
MCGenesisKey == [a \in {alice} |-> k1]
MCSlots == 0..5
MCCareless == {carol}
KeySymmetry == Permutations({k2, k3})
=============================================================================

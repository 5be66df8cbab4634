----------------------------- MODULE MCCollation -----------------------------
(* Two collators; one unit of time is six seconds: a relay chain slot is one  *)
(* unit, and the drift of thirty seconds five.                                *)
EXTENDS Collation

CONSTANTS alice, bob, SkewOfBob

MCAuthorities == << alice, bob >>
MCSkew == [c \in {alice, bob} |-> IF c = bob THEN SkewOfBob ELSE 0]
=============================================================================

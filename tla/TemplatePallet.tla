--------------------------- MODULE TemplatePallet ---------------------------
(***************************************************************************)
(* The pallet of pallets/template: one storage value of type u32, written  *)
(* by do_something and incremented by cause_error, which fails on a value  *)
(* that is not set and on one at the end of its range.  The width is the   *)
(* real one, and nothing is bounded: the module is proved about, not run.  *)
(***************************************************************************)
EXTENDS Integers, Sequences, TLAPS

CONSTANT AccountIds

VARIABLES
    something, \* Something: << >> for None, << v >> for Some(v)
    events,    \* SomethingStored events, oldest first
    added      \* history: increments since the last event

vars == <<something, events, added>>

U32_MAX == 4294967295
u32 == 0..U32_MAX
None == << >>

\* SomethingStored(u32, AccountId).
Event == [something : u32, who : AccountIds]

\* Origins of a dispatch: a signed account, or one that ensure_signed refuses.
Origins == [signed : {TRUE}, who : AccountIds] \cup [signed : {FALSE}]

-----------------------------------------------------------------------------

\* old.checked_add(1).
CheckedAdd(old) == IF old + 1 \in u32 THEN << old + 1 >> ELSE None

do_something(origin, v) ==
    /\ origin.signed
    /\ something' = << v >>
    /\ events' = Append(events, [something |-> v, who |-> origin.who])
    /\ added' = 0

cause_error(origin) ==
    /\ origin.signed
    /\ something # None
    /\ CheckedAdd(something[1]) # None
    /\ something' = CheckedAdd(something[1])
    /\ added' = added + 1
    /\ UNCHANGED events

\* BadOrigin, NoneValue or StorageOverflow: the dispatch is rolled back.
DispatchError(origin) ==
    /\ \/ ~origin.signed
       \/ something = None
       \/ something # None /\ CheckedAdd(something[1]) = None
    /\ UNCHANGED vars

Init == something = None /\ events = << >> /\ added = 0

Next ==
    \/ \E origin \in Origins, v \in u32 : do_something(origin, v)
    \/ \E origin \in Origins : cause_error(origin)
    \/ \E origin \in Origins : DispatchError(origin)

Spec == Init /\ [][Next]_vars

-----------------------------------------------------------------------------
(* Properties.                                                             *)

\* Storage keeps its type: no increment leaves the range of a u32.
TypeOK ==
    /\ something \in {None} \cup {<< v >> : v \in u32}
    /\ events \in Seq(Event)
    /\ added \in Nat

\* The events tell the story: the value is the last one stored by do_something
\* plus the increments that cause_error reported as successful since, and a value
\* is set exactly when somebody stored one.
ValueExplained ==
    IF events = << >> THEN something = None /\ added = 0
    ELSE something = << events[Len(events)].something + added >>

-----------------------------------------------------------------------------
(* Proofs.                                                                 *)

Inv == TypeOK /\ ValueExplained

\* checked_add gives the successor, and only within the range.
LEMMA CheckedAddRange ==
    ASSUME NEW old \in u32, CheckedAdd(old) # None
    PROVE  old + 1 \in u32 /\ CheckedAdd(old) = << old + 1 >>
  BY DEF CheckedAdd, None

\* For every sequence of calls, with the u32 of the code: storage holds a u32, and
\* it is the last value stored plus the increments that succeeded since.
THEOREM ValueIsExplained == Spec => [](TypeOK /\ ValueExplained)
<1>1. Init => Inv
  BY DEF Init, Inv, TypeOK, ValueExplained, None
<1>2. Inv /\ [Next]_vars => Inv'
  <2> SUFFICES ASSUME Inv, [Next]_vars PROVE Inv'
    OBVIOUS
  <2> USE DEF Inv
  <2>1. ASSUME NEW origin \in Origins, NEW v \in u32, do_something(origin, v)
        PROVE  Inv'
    <3>1. origin.who \in AccountIds /\ [something |-> v, who |-> origin.who] \in Event
      BY <2>1 DEF do_something, Origins, Event
    <3>2. events' \in Seq(Event) /\ Len(events') = Len(events) + 1
          /\ Len(events) \in Nat /\ events'[Len(events')] = [something |-> v, who |-> origin.who]
      BY <3>1, <2>1 DEF do_something, TypeOK
    <3>3. TypeOK'
      BY <3>2, <2>1 DEF do_something, TypeOK
    <3>4. ValueExplained'
      <4>1. events' # << >>
        BY <3>2
      <4>2. events'[Len(events')].something + added' = v
        BY <3>2, <2>1 DEF do_something, u32
      <4> QED
        BY <4>1, <4>2, <2>1 DEF do_something, ValueExplained
    <3> QED
      BY <3>3, <3>4
  <2>2. ASSUME NEW origin \in Origins, cause_error(origin)
        PROVE  Inv'
    <3>1. PICK old \in u32 : something = << old >>
      BY <2>2 DEF cause_error, TypeOK
    <3>2. old + 1 \in u32 /\ something' = << old + 1 >> /\ added' = added + 1 /\ events' = events
      BY <3>1, <2>2, CheckedAddRange DEF cause_error
    <3>3. TypeOK'
      BY <3>2 DEF TypeOK
    <3>4. events # << >> /\ << old >> = << events[Len(events)].something + added >>
      BY <3>1 DEF ValueExplained, None
    <3>5. events[Len(events)].something \in Nat /\ added \in Nat
      <4>1. Len(events) \in 1..Len(events)
        BY <3>4 DEF TypeOK
      <4>2. events[Len(events)] \in Event
        BY <4>1 DEF TypeOK
      <4> QED
        BY <4>2 DEF TypeOK, u32, Event
    <3>6. old = events[Len(events)].something + added
      BY <3>4
    <3>7. events'[Len(events')].something + added' = old + 1
      BY <3>2, <3>5, <3>6
    <3> QED
      BY <3>2, <3>3, <3>4, <3>7 DEF ValueExplained
  <2>3. ASSUME NEW origin \in Origins, DispatchError(origin)
        PROVE  Inv'
    BY <2>3 DEF DispatchError, vars, TypeOK, ValueExplained
  <2>4. CASE UNCHANGED vars
    BY <2>4 DEF vars, TypeOK, ValueExplained
  <2> QED
    BY <2>1, <2>2, <2>3, <2>4 DEF Next
<1> QED
  BY <1>1, <1>2, PTL DEF Spec, Inv

=============================================================================

------------------------------ MODULE SlotPool ------------------------------
(***************************************************************************)
(* What a managed array promises its callers: a pool of at most Capacity   *)
(* slots.  Acquire hands out a slot nobody holds, Refuse answers NULL and  *)
(* happens only when the pool is exhausted, Release gives one slot back.   *)
(***************************************************************************)
EXTENDS Integers, FiniteSets

CONSTANTS Slots, Refused     \* the slots, and the answer "none available"

VARIABLES capacity,          \* how many slots may be held
          held,              \* the slots handed out
          answer             \* what the last Acquire was told

vars == <<capacity, held, answer>>

Init == held = {} /\ answer = Refused /\ capacity \in Nat

Acquire == /\ Cardinality(held) < capacity
           /\ answer' \in Slots /\ answer' \notin held
           /\ held' = held \cup {answer'}

Refuse == Cardinality(held) >= capacity /\ answer' = Refused /\ UNCHANGED held

Release == \E s \in held : held' = held \ {s} /\ UNCHANGED answer

Next == (Acquire \/ Refuse \/ Release) /\ UNCHANGED capacity

Spec == Init /\ [][Next]_vars
=============================================================================

------------------------------ MODULE HashMap ------------------------------
(***************************************************************************)
(* What utils/hashtable.h promises to a caller: a finite map from keys to  *)
(* values, and for every call what it returns.                             *)
(***************************************************************************)
EXTENDS Integers

CONSTANTS Contents,   \* the keys, as the comparison function tells them apart
          Values,     \* the values
          None        \* NULL: no value

VARIABLES map,        \* key -> value or None
          ret         \* the key of the last call, and what it returned

Init == map = [c \in Contents |-> None] /\ ret = <<None, None>>

(* The pair is stored, or nothing happens and the caller is told (-1). *)
Put(c, v) ==
  \/ map' = [map EXCEPT ![c] = v] /\ ret' = <<c, 0>>
  \/ UNCHANGED map /\ ret' = <<c, -1>>

Get(c) == UNCHANGED map /\ ret' = <<c, map[c]>>

Remove(c) == map' = [map EXCEPT ![c] = None] /\ ret' = <<c, None>>

Clear == map' = [c \in Contents |-> None] /\ ret' = <<None, None>>

Next ==
  \/ \E c \in Contents : Get(c) \/ Remove(c) \/ \E v \in Values : Put(c, v)
  \/ Clear

Spec == Init /\ [][Next]_<<map, ret>>
=============================================================================

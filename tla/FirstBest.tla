------------------------------- MODULE FirstBest -------------------------------
(***************************************************************************)
(* "The first entry of a list with the largest (smallest) key".  keys is   *)
(* the sequence of the keys of the entries, in the order of the list.      *)
(***************************************************************************)
EXTENDS Integers, Sequences

FirstMax(keys, i) == /\ i \in DOMAIN keys
                     /\ \A j \in DOMAIN keys : keys[j] <= keys[i]
                     /\ \A j \in 1 .. i-1 : keys[j] < keys[i]

FirstMin(keys, i) == /\ i \in DOMAIN keys
                     /\ \A j \in DOMAIN keys : keys[j] >= keys[i]
                     /\ \A j \in 1 .. i-1 : keys[j] > keys[i]

(* The first entry whose key is below a given one.                         *)
FirstBelow(keys, bound, i) == /\ i \in DOMAIN keys
                              /\ keys[i] < bound
                              /\ \A j \in 1 .. i-1 : keys[j] >= bound

KeysOf(q, field) == [j \in DOMAIN q |-> field[q[j]]]
================================================================================

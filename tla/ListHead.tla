-------------------------------- MODULE ListHead --------------------------------
(***************************************************************************)
(* The intrusive doubly linked lists of list_head.h.  A list is a ring of  *)
(* struct list_head through one head; every function is a handful of       *)
(* pointer writes, and nothing but the discipline of the callers keeps the *)
(* rings whole.  Each function of the header is an operator on the memory; *)
(* each action is a call with the arguments that its comment permits.      *)
(***************************************************************************)
EXTENDS Integers, Sequences, FiniteSets, SequencesExt

CONSTANTS
    Heads,      \* struct list_head objects that stand for lists
    Nodes,      \* those embedded in entries
    POISON1,    \* LIST_POISON1, LIST_POISON2
    POISON2,
    NULL

Addr == Heads \cup Nodes

ASSUME AddrAssumption == /\ {POISON1, POISON2, NULL} \cap Addr = {}
                         /\ Heads \cap Nodes = {}

\* Memory is finite.
ASSUME FiniteAssumption == IsFiniteSet(Addr)

VARIABLE mem    \* the fields next and prev of every object

Memory == [next : [Addr -> Addr \cup {POISON1}], prev : [Addr -> Addr \cup {POISON2}]]

(***************************************************************************)
(* The functions of list_head.h                                            *)
(***************************************************************************)
INIT_LIST_HEAD(m, list) ==
    [next |-> [m.next EXCEPT ![list] = list], prev |-> [m.prev EXCEPT ![list] = list]]

(* __list_add *)
AddBetween(m, new, p, n) ==
    [next |-> [m.next EXCEPT ![new] = n, ![p] = new],
     prev |-> [m.prev EXCEPT ![n] = new, ![new] = p]]

list_add(m, new, head) == AddBetween(m, new, head, m.next[head])

list_add_tail(m, new, head) == AddBetween(m, new, m.prev[head], head)

(* __list_del *)
JoinOver(m, p, n) ==
    [next |-> [m.next EXCEPT ![p] = n], prev |-> [m.prev EXCEPT ![n] = p]]

(* __list_del_entry *)
Unlink(m, entry) == JoinOver(m, m.prev[entry], m.next[entry])

list_del(m, entry) ==
    LET u == Unlink(m, entry)
    IN  [next |-> [u.next EXCEPT ![entry] = POISON1],
         prev |-> [u.prev EXCEPT ![entry] = POISON2]]

(* Mutant: the neighbours are not joined. *)
InitOnly(m, entry) == INIT_LIST_HEAD(m, entry)

list_del_init(m, entry) == INIT_LIST_HEAD(Unlink(m, entry), entry)

(* Mutant: old->prev is read before the writes. *)
ListReplaceEarly(m, old, new) ==
    [next |-> [m.next EXCEPT ![new] = m.next[old], ![m.prev[old]] = new],
     prev |-> [m.prev EXCEPT ![m.next[old]] = new, ![new] = m.prev[old]]]

(* new->prev is read from old after the first write through new->next,     *)
(* which hits old itself when old is alone.                                *)
list_replace(m, old, new) ==
    LET p == [m.prev EXCEPT ![m.next[old]] = new]
    IN  [next |-> [m.next EXCEPT ![new] = m.next[old], ![p[old]] = new],
         prev |-> [p EXCEPT ![new] = p[old]]]

list_replace_init(m, old, new) == INIT_LIST_HEAD(list_replace(m, old, new), old)

list_move(m, list, head) == list_add(Unlink(m, list), list, head)

list_move_tail(m, list, head) == list_add_tail(Unlink(m, list), list, head)

list_is_last(m, list, head) == m.next[list] = head

list_empty(m, head) == m.next[head] = head

list_empty_careful(m, head) == m.next[head] = head /\ m.next[head] = m.prev[head]

list_rotate_left(m, head) ==
    IF list_empty(m, head) THEN m ELSE list_move_tail(m, m.next[head], head)

list_is_singular(m, head) == ~list_empty(m, head) /\ m.next[head] = m.prev[head]

(* __list_cut_position *)
CutAfter(m, list, head, entry) ==
    [next |-> [m.next EXCEPT ![list] = m.next[head], ![entry] = list,
                             ![head] = m.next[entry]],
     prev |-> [m.prev EXCEPT ![m.next[head]] = list, ![list] = entry,
                             ![m.next[entry]] = head]]

list_cut_position(m, list, head, entry) ==
    CASE \/ list_empty(m, head)
         \/ list_is_singular(m, head) /\ m.next[head] # entry /\ head # entry -> m
      [] ~list_empty(m, head) /\ entry = head -> INIT_LIST_HEAD(m, list)
      [] OTHER -> CutAfter(m, list, head, entry)

list_cut_before(m, list, head, entry) ==
    IF m.next[head] = entry THEN INIT_LIST_HEAD(m, list)
    ELSE [next |-> [m.next EXCEPT ![list] = m.next[head], ![m.prev[entry]] = list,
                                  ![head] = entry],
          prev |-> [m.prev EXCEPT ![m.next[head]] = list, ![list] = m.prev[entry],
                                  ![entry] = head]]

(* __list_splice *)
SpliceBetween(m, list, p, n) ==
    [next |-> [m.next EXCEPT ![p] = m.next[list], ![m.prev[list]] = n],
     prev |-> [m.prev EXCEPT ![m.next[list]] = p, ![n] = m.prev[list]]]

list_splice(m, list, head) ==
    IF list_empty(m, list) THEN m ELSE SpliceBetween(m, list, head, m.next[head])

list_splice_tail(m, list, head) ==
    IF list_empty(m, list) THEN m ELSE SpliceBetween(m, list, m.prev[head], head)

list_splice_init(m, list, head) ==
    IF list_empty(m, list) THEN m
    ELSE INIT_LIST_HEAD(SpliceBetween(m, list, head, m.next[head]), list)

list_splice_tail_init(m, list, head) ==
    IF list_empty(m, list) THEN m
    ELSE INIT_LIST_HEAD(SpliceBetween(m, list, m.prev[head], head), list)

list_first_entry(m, head) == m.next[head]

list_last_entry(m, head) == m.prev[head]

list_first_entry_or_null(m, head) == IF m.next[head] # head THEN m.next[head] ELSE NULL

(***************************************************************************)
(* What the callers must know: the states of an object                     *)
(***************************************************************************)
(* Its neighbours point back at it. *)
LiveIn(m, x) == /\ m.next[x] \in Addr /\ m.prev[x] \in Addr
                /\ m.prev[m.next[x]] = x /\ m.next[m.prev[x]] = x

Live(x) == LiveIn(mem, x)
Linked(x) == Live(x) /\ mem.next[x] # x     \* with others
Unused(x) == ~Linked(x)                     \* new, deleted, replaced or alone
Place(x) == Live(x) /\ (x \in Heads \/ Linked(x))

(* The objects met from h along one of the two fields, until h again. *)
Follow(f, h) ==
    LET trail[k \in 0 .. Cardinality(Addr)] ==
          IF k = 0 THEN <<h>>
          ELSE LET t == trail[k - 1]
               IN  IF f[Last(t)] \in Addr \ {h} THEN Append(t, f[Last(t)]) ELSE t
    IN  Tail(trail[Cardinality(Addr)])

(* A memory as the lists its live heads lead to. *)
Lists(m) == [h \in {x \in Heads : LiveIn(m, x)} |-> Follow(m.next, h)]

(***************************************************************************)
(* Calls                                                                   *)
(***************************************************************************)
Init == mem = [next |-> [x \in Addr |-> IF x \in Heads THEN x ELSE POISON1],
               prev |-> [x \in Addr |-> IF x \in Heads THEN x ELSE POISON2]]

(* The lists that list and head stand in are different ones; above all,    *)
(* head is not list and not beside it.                                     *)
Apart(list, head) == /\ list \notin {head, mem.next[head], mem.prev[head]}
                     /\ head \notin ToSet(Lists(mem)[list])

Insert == \E new \in Nodes, head \in Addr :
    /\ Unused(new) /\ Place(head)
    /\ mem' \in {list_add(mem, new, head), list_add_tail(mem, new, head)}

Initialise == \E x \in Addr : Unused(x) /\ mem' = INIT_LIST_HEAD(mem, x)

Delete == \E e \in Nodes :
    Live(e) /\ mem' \in {list_del(mem, e), list_del_init(mem, e)}

(* An entry replaces an entry, a head a head. *)
Replace == \E old, new \in Addr :
    /\ Live(old) /\ Unused(new) /\ new # old /\ (old \in Heads <=> new \in Heads)
    /\ mem' \in {list_replace(mem, old, new), list_replace_init(mem, old, new)}

Move == \E e \in Nodes, head \in Addr :
    /\ Live(e) /\ Place(head) /\ e # head
    /\ mem' \in {list_move(mem, e, head), list_move_tail(mem, e, head)}

Rotate == \E h \in Heads : Live(h) /\ mem' = list_rotate_left(mem, h)

(* entry is on head, or is head; list may be anything, also a list that is *)
(* not needed any more.                                                    *)
CutArgs(list, head, entry) ==
    /\ list # head /\ Live(head)
    /\ \/ entry = head
       \/ Linked(entry) /\ entry \in ToSet(Lists(mem)[head])

(* The entries that list led to and, now that its fields are those of m,   *)
(* does not lead to any more.                                              *)
Lost(m, list) ==
    IF Live(list) /\ m.next[list] # mem.next[list] THEN ToSet(Lists(mem)[list]) ELSE {}

(* Lost entries are as good as never initialised: whoever takes one again  *)
(* writes both of its fields before they are read, and what they hold till *)
(* then is left out.                                                       *)
Forget(m, lost) ==
    [next |-> [x \in Addr |-> IF x \in lost THEN POISON1 ELSE m.next[x]],
     prev |-> [x \in Addr |-> IF x \in lost THEN POISON2 ELSE m.prev[x]]]

Cut == \E list, head \in Heads, entry \in Addr :
    /\ CutArgs(list, head, entry)
    /\ \E m \in {list_cut_position(mem, list, head, entry),
                 list_cut_before(mem, list, head, entry)} :
         mem' = Forget(m, Lost(m, list))

Splice == \E list \in Heads, head \in Addr :
    /\ Live(list) /\ Place(head) /\ Apart(list, head)
    /\ mem' \in {list_splice(mem, list, head), list_splice_tail(mem, list, head),
                 list_splice_init(mem, list, head),
                 list_splice_tail_init(mem, list, head)}

Next == \/ Insert \/ Initialise \/ Delete \/ Replace
        \/ Move \/ Rotate \/ Cut \/ Splice

Spec == Init /\ [][Next]_mem

(***************************************************************************)
(* Properties                                                              *)
(***************************************************************************)
(* The rings stay whole: no neighbour of an object in use is one that was  *)
(* deleted, replaced or never initialised, and the links agree both ways.  *)
WholeIn(m) ==
    /\ m \in Memory
    /\ \A x \in Addr : LiveIn(m, x) => LiveIn(m, m.next[x]) /\ LiveIn(m, m.prev[x])
Rings == WholeIn(mem)

(* No call puts more than one object out of use, the one it deletes,       *)
(* replaces or empties by a splice, except a cut, which may lose the       *)
(* entries of one list: all others stay linked both ways.                  *)
Retired == {y \in Addr : Live(y) /\ ~Live(y)'}
OneRetired == [][\/ \E x \in Addr : Retired \subseteq {x}
                 \/ Cut /\ \E h \in Heads : Live(h) /\ Retired \subseteq ToSet(Lists(mem)[h])]_mem
================================================================================

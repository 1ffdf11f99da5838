-------------------------------- MODULE ListWalk --------------------------------
(***************************************************************************)
(* The loops of list_head.h.  A walk keeps a cursor pos and, when it is    *)
(* "safe against removal of list entry", the object n it goes on with.     *)
(* The macros differ in three respects: the field they follow, whether     *)
(* they keep n, and where they begin.                                      *)
(***************************************************************************)
EXTENDS ListHead

Field == {"next", "prev"}
Begin == {"head",    \* at the first entry
          "after",   \* ..._continue: after the entry pos, or after the head
          "at"}      \* ..._from: at the entry pos
Macro == [field : Field, safe : BOOLEAN, begin : Begin]

VARIABLES
    macro, head,    \* the loop that is executed, and over which list
    pos, n,         \* its variables
    phase,          \* "test": the condition is next; "body"; "step"; "done"
    visited,        \* the entries the body has seen
    due             \* the entries the body has to see, in order

loopVars == <<macro, head, pos, n, phase, visited, due>>
walkVars == <<mem, loopVars>>

Along(m, x) == m[macro.field][x]

(* The lists a walk may find: the ring of h and the entries s. *)
Around(h, s, k) == IF k \in DOMAIN s THEN s[k] ELSE h
At(h, s, x) == IF x = h THEN 0 ELSE CHOOSE k \in DOMAIN s : s[k] = x
Arrange(h, s) ==
    LET ring == {h} \cup ToSet(s)
    IN  [next |-> [x \in Addr |-> IF x \in ring THEN Around(h, s, At(h, s, x) + 1)
                                 ELSE IF x \in Heads THEN x ELSE POISON1],
         prev |-> [x \in Addr |-> IF x = h THEN Around(h, s, Len(s))
                                 ELSE IF x \in ring THEN Around(h, s, At(h, s, x) - 1)
                                 ELSE IF x \in Heads THEN x ELSE POISON2]]

WalkInit ==
    /\ macro \in Macro
    /\ \E s \in {q \in BoundedSeq(Nodes, Cardinality(Nodes)) : IsInjective(q)},
          h \in Heads :
         LET q == IF macro.field = "next" THEN s ELSE Reverse(s)
         IN  /\ head = h /\ mem = Arrange(h, s)
             /\ pos \in CASE macro.begin = "head"  -> {h}
                         [] macro.begin = "after" -> {h} \cup ToSet(s)
                         [] macro.begin = "at"    -> ToSet(s)
             /\ due = SubSeq(q, At(h, q, pos) + IF macro.begin = "at" THEN 0 ELSE 1, Len(q))
    /\ n = head /\ phase = "init" /\ visited = <<>>

(* The first expression of the for statement. *)
WalkBegin ==
    /\ phase = "init" /\ phase' = "test"
    /\ pos' = IF macro.begin = "at" THEN pos ELSE Along(mem, pos)
    /\ n' = IF macro.safe THEN Along(mem, pos') ELSE n
    /\ UNCHANGED <<mem, macro, head, visited, due>>

(* The second. *)
WalkTest ==
    /\ phase = "test"
    /\ IF pos = head THEN phase' = "done" /\ UNCHANGED visited
       ELSE phase' = "body" /\ visited' = Append(visited, pos)
    /\ UNCHANGED <<mem, macro, head, pos, n, due>>

(* Mutant: the entry that was kept is not used. *)
WalkStepUnsafe ==
    /\ phase = "step" /\ phase' = "test"
    /\ pos' = Along(mem, pos) /\ n' = Along(mem, n)
    /\ UNCHANGED <<mem, macro, head, visited, due>>

(* The third. *)
WalkStep ==
    /\ phase = "step" /\ phase' = "test"
    /\ pos' = IF macro.safe THEN n ELSE Along(mem, pos)
    /\ n' = IF macro.safe THEN Along(mem, n) ELSE n
    /\ UNCHANGED <<mem, macro, head, visited, due>>

(* What a body may do to the list: with a safe loop, anything to the entry *)
(* itself; with any loop, add entries behind it.                           *)
Body ==
    /\ phase = "body" /\ phase' = "step"
    /\ UNCHANGED <<macro, head, pos, n, visited>>
    /\ \/ UNCHANGED <<mem, due>>
       \/ /\ macro.safe /\ UNCHANGED due
          /\ \/ mem' \in {list_del(mem, pos), list_del_init(mem, pos)}
             \/ \E h \in Heads \ {head} :
                  mem' \in {list_move(mem, pos, h), list_move_tail(mem, pos, h)}
       \/ \E e \in Nodes :
            /\ Unused(e) /\ e \notin ToSet(visited)
            /\ \/ macro.field = "next" /\ mem' = list_add(mem, e, head)
               \/ macro.field = "prev" /\ mem' = list_add_tail(mem, e, head)
            /\ UNCHANGED due

(* The body removes the next entry, and sets n again: list_safe_reset_next.*)
BodyRemovesNext ==
    /\ phase = "body" /\ phase' = "step"
    /\ macro.safe /\ macro.field = "next" /\ n \in Nodes
    /\ mem' = list_del(mem, n)
    /\ n' = mem'.next[pos]
    /\ due' = RemoveAt(due, Len(visited) + 1)
    /\ UNCHANGED <<macro, head, pos, visited>>

WalkNext == WalkBegin \/ WalkTest \/ WalkStep \/ Body \/ BodyRemovesNext

WalkSpec == WalkInit /\ [][WalkNext]_walkVars

(* A loop shows its body every entry that is ahead of where it begins,     *)
(* once, in order, and the cursor never leaves the list; a safe loop does  *)
(* so although the body deletes the entry or moves it to another list.     *)
WalkVisits ==
    /\ IsPrefix(visited, due)
    /\ phase = "done" => visited = due
    /\ pos \in Addr
    /\ phase \in {"test", "body"} /\ macro.safe => n \in Addr
================================================================================

------------------------------- MODULE PickLoops -------------------------------
(***************************************************************************)
(* The selection loops of pa2.c, one iteration per step.  Each walks a     *)
(* list_head list with a cursor and remembers a best entry; some swap the  *)
(* two, which moves the cursor back, some search the list again from its   *)
(* head, one changes the list under the cursor.  Module SchedPolicies uses *)
(* what they should compute (module FirstBest) in their place.             *)
(*                                                                         *)
(* A list is the sequence of the keys of its entries (prio or lifespan);   *)
(* an index is an entry, and the index past the end is the list head,      *)
(* where list_for_each_entry stops.                                        *)
(***************************************************************************)
EXTENDS FirstBest, SequencesExt

CONSTANTS Keys,          \* values of prio or lifespan
          MaxLen,        \* bound: the length of a list
          MAX_LIFESPAN   \* where the search for a minimum starts

ASSUME KeysAssumption == Keys \subseteq Nat
ASSUME MaxLenAssumption == MaxLen \in Nat
ASSUME MaxLifespanAssumption == MAX_LIFESPAN \in Nat

Loops == {"compete", "swap", "waiter", "least", "preempt"}

VARIABLES
    loop,    \* which loop runs
    given,   \* the list when the loop started
    keys,    \* the list now
    self,    \* the key of the current process (compete, preempt)
    cursor,  \* the loop variable: next, old, iterater or temp
    best,    \* temp, next or waiter: the entry remembered; 0 is NULL
    min,     \* minLife
    pc       \* "scan", "again" (the nested or second walk) or "done"

vars == <<loop, given, keys, self, cursor, best, min, pc>>

(* With compete, the current process has just been added at the tail.      *)
Init == /\ loop \in Loops
        /\ \E n \in 0 .. MaxLen : given \in [1 .. n -> Keys]
        /\ given = <<>> => loop \in {"preempt", "least"}
        /\ keys = given
        /\ self \in IF loop = "compete" THEN {given[Len(given)]}
                    ELSE IF loop = "preempt" THEN Keys ELSE {0}
        /\ cursor = 1
        /\ best = CASE loop = "compete"             -> Len(given)
                    [] loop \in {"swap", "waiter"}  -> 1
                    [] OTHER                        -> 0
        /\ min = MAX_LIFESPAN
        /\ pc = "scan"

AtEnd == cursor > Len(keys)

(***************************************************************************)
(* prio_schedule, first loop; pa, pcp and pip have copies                  *)
(***************************************************************************)
IsSelf(i) == i = Len(keys)

(* Mutant: ties go to the later entry. *)
NotWorse == keys[cursor] >= keys[best]

Better == keys[cursor] > keys[best]
Equal  == keys[cursor] = keys[best]

CompeteStep ==
    /\ loop = "compete" /\ pc = "scan" /\ ~AtEnd
    /\ \/ /\ Better
          /\ best' = cursor /\ cursor' = cursor + 1
          /\ UNCHANGED pc
       \/ /\ Equal /\ keys[best] <= self
          /\ best' = cursor
          /\ IF IsSelf(cursor) THEN pc' = "again" /\ cursor' = 1
                               ELSE pc' = pc /\ cursor' = cursor + 1
       \/ /\ ~Better /\ ~(Equal /\ keys[best] <= self)
          /\ cursor' = cursor + 1
          /\ UNCHANGED <<best, pc>>
    /\ UNCHANGED <<loop, given, keys, self, min>>

(* Mutant: break leaves the outer walk where the nested one stopped. *)
CompeteResume ==
    /\ loop = "compete" /\ pc = "again"
    /\ cursor' = cursor + 1
    /\ IF keys[cursor] = self THEN best' = cursor /\ pc' = "scan"
                              ELSE UNCHANGED <<best, pc>>
    /\ UNCHANGED <<loop, given, keys, self, min>>

(* The nested walk, entered at the last entry of the outer one: the first  *)
(* entry with the key of the current process.  break ends it, and then the *)
(* outer walk is at its end.                                               *)
CompeteAgain ==
    /\ loop = "compete" /\ pc = "again"
    /\ IF keys[cursor] = self
         THEN best' = cursor /\ cursor' = Len(keys) + 1 /\ pc' = "scan"
         ELSE cursor' = cursor + 1 /\ UNCHANGED <<best, pc>>
    /\ UNCHANGED <<loop, given, keys, self, min>>

(***************************************************************************)
(* prio_schedule, pick_next: best and cursor are swapped, and the walk     *)
(* goes on behind the entry that was the best                              *)
(***************************************************************************)
SwapStep ==
    /\ loop = "swap" /\ pc = "scan" /\ ~AtEnd
    /\ IF Better THEN best' = cursor /\ cursor' = best + 1
                 ELSE cursor' = cursor + 1 /\ UNCHANGED best
    /\ UNCHANGED <<loop, given, keys, self, min, pc>>

(***************************************************************************)
(* prio_release: the waiter with the highest priority                      *)
(***************************************************************************)
WaiterStep ==
    /\ loop = "waiter" /\ pc = "scan" /\ ~AtEnd
    /\ best' = IF Better THEN cursor ELSE best
    /\ cursor' = cursor + 1
    /\ UNCHANGED <<loop, given, keys, self, min, pc>>

(***************************************************************************)
(* sjf_schedule and srtf_schedule, pick_next: the least key, then the      *)
(* first entry that has it                                                 *)
(***************************************************************************)
LeastStep ==
    /\ loop = "least" /\ pc = "scan" /\ ~AtEnd
    /\ min' = IF min > keys[cursor] THEN keys[cursor] ELSE min
    /\ cursor' = cursor + 1
    /\ UNCHANGED <<loop, given, keys, self, best, pc>>

(* Mutant: the second walk starts behind the head. *)
LeastSkipsHead ==
    /\ loop = "least" /\ pc = "scan" /\ AtEnd
    /\ cursor' = 2 /\ pc' = "again"
    /\ UNCHANGED <<loop, given, keys, self, best, min>>

LeastFound ==
    /\ loop = "least" /\ pc = "scan" /\ AtEnd
    /\ cursor' = 1 /\ pc' = "again"
    /\ UNCHANGED <<loop, given, keys, self, best, min>>

LeastAgain ==
    /\ loop = "least" /\ pc = "again"
    /\ IF AtEnd THEN pc' = "done" /\ UNCHANGED <<cursor, best>>
       ELSE IF keys[cursor] = min
              THEN best' = cursor /\ pc' = "done" /\ UNCHANGED cursor
              ELSE cursor' = cursor + 1 /\ UNCHANGED <<best, pc>>
    /\ UNCHANGED <<loop, given, keys, self, min>>

(***************************************************************************)
(* srtf_schedule, the loop that preempts: current goes to the tail, the    *)
(* entry under the cursor is detached, and the cursor is moved to the tail *)
(***************************************************************************)
(* Mutant: an entry with as much to do preempts. *)
PreemptOnTies ==
    /\ loop = "preempt" /\ pc = "scan" /\ ~AtEnd
    /\ IF self >= keys[cursor]
         THEN /\ best' = cursor
              /\ keys' = RemoveAt(Append(keys, self), cursor)
              /\ self' = keys[cursor]
              /\ cursor' = Len(keys') + 1
         ELSE cursor' = cursor + 1 /\ UNCHANGED <<keys, self, best>>
    /\ UNCHANGED <<loop, given, min, pc>>

PreemptStep ==
    /\ loop = "preempt" /\ pc = "scan" /\ ~AtEnd
    /\ IF self > keys[cursor]
         THEN /\ best' = cursor
              /\ keys' = RemoveAt(Append(keys, self), cursor)
              /\ self' = keys[cursor]
              /\ cursor' = Len(keys') + 1
         ELSE cursor' = cursor + 1 /\ UNCHANGED <<keys, self, best>>
    /\ UNCHANGED <<loop, given, min, pc>>

(* A walk that has come to the list head.                                  *)
WalkEnds ==
    /\ loop # "least" /\ pc = "scan" /\ AtEnd
    /\ pc' = "done"
    /\ UNCHANGED <<loop, given, keys, self, cursor, best, min>>

Next == \/ CompeteStep \/ CompeteAgain \/ SwapStep \/ WaiterStep
        \/ LeastStep \/ LeastFound \/ LeastAgain \/ PreemptStep \/ WalkEnds

Spec == Init /\ [][Next]_vars
FairSpec == Spec /\ WF_vars(Next)

(***************************************************************************)
(* Properties                                                              *)
(***************************************************************************)
(* The loops of the priority policies (first loop, pick_next, release)     *)
(* come out with the first of the entries with the highest priority.       *)
PicksFirstMax ==
    pc = "done" /\ loop \in {"compete", "swap", "waiter"} => FirstMax(given, best)

(* The loops of SJF and SRTF come out with the first of the smallest       *)
(* entries, and with none if all are above MAX_LIFESPAN.                   *)
PicksFirstMin ==
    pc = "done" /\ loop = "least" =>
      IF best = 0 THEN \A i \in DOMAIN given : given[i] > MAX_LIFESPAN
                  ELSE FirstMin(given, best) /\ given[best] <= MAX_LIFESPAN

(* The preempting loop of SRTF comes out with the first entry below the    *)
(* running process, not the smallest, and puts the process at the tail.    *)
PicksFirstBelow ==
    pc = "done" /\ loop = "preempt" =>
      IF best = 0 THEN keys = given /\ \A i \in DOMAIN given : given[i] >= self
                  ELSE /\ FirstBelow(given, keys[Len(keys)], best)
                       /\ self = given[best]
                       /\ Len(keys) = Len(given)

(* A cursor that is moved back does not go round for ever.                 *)
LoopsEnd == <>(pc = "done")
================================================================================

--------------------------------- MODULE Stack ---------------------------------
(***************************************************************************)
(* OS-pa0: a stack of strings on a list of list_head.h, and the program    *)
(* that exercises it.                                                      *)
(***************************************************************************)
EXTENDS ListHead

CONSTANTS
    stack,          \* the list
    Strings,        \* the strings generate_string() may return
    FirstPushes, FirstPops,     \* 4 and 3 in main()
    Pushes, Pops,               \* 1 << 12 and (1 << 12) - 8
    PrintLimit                  \* 1000

ASSUME StackAssumption ==
    /\ stack \in Heads
    /\ "" \notin Strings
    /\ {FirstPushes, FirstPops, Pushes, Pops, PrintLimit} \subseteq Nat \ {0}
    /\ FirstPops <= FirstPushes     \* it does not pop what it has not pushed

VARIABLES
    allocated,      \* the entries that malloc() gave and free() has not taken
    string,         \* the field of that name
    buffer,         \* main()'s buffer
    step, i,        \* where main() is, and its counter
    printed,        \* what the last dump_stack() printed
    pushed          \* history: what was pushed and not popped, the latest last

stackVars == <<mem, allocated, string, buffer, step, i, printed, pushed>>

None == ""      \* a buffer of zeroes, an entry without a string

StackInit ==
    /\ mem = [next |-> [x \in Addr |-> IF x \in Heads THEN x ELSE POISON1],
              prev |-> [x \in Addr |-> IF x \in Heads THEN x ELSE POISON2]]
    /\ allocated = {} /\ string = [x \in Nodes |-> None]
    /\ buffer = None /\ step = "push4" /\ i = 0 /\ printed = <<>> /\ pushed = <<>>

(***************************************************************************)
(* stack.c                                                                 *)
(***************************************************************************)
(* Mutant: pushed at the other end. *)
PushAtTail(s) == \E element \in Nodes \ allocated :
    /\ allocated' = allocated \cup {element}
    /\ string' = [string EXCEPT ![element] = s]
    /\ mem' = list_add_tail(mem, element, stack)

push_stack(s) == \E element \in Nodes \ allocated :
    /\ allocated' = allocated \cup {element}
    /\ string' = [string EXCEPT ![element] = s]
    /\ mem' = list_add(mem, element, stack)

(* Returns -1 on an empty stack, and leaves the buffer alone. *)
pop_stack ==
    LET node == list_first_entry(mem, stack)
    IN  IF list_empty(mem, stack) THEN UNCHANGED <<mem, allocated, string, buffer>>
        ELSE /\ buffer' = string[node]
             /\ mem' = list_del(mem, node)
             /\ string' = [string EXCEPT ![node] = None]
             /\ allocated' = allocated \ {node}

(* list_for_each_entry_reverse over the stack *)
dump_stack == printed' = LET bottomUp == Follow(mem.prev, stack)
                         IN  [k \in DOMAIN bottomUp |-> string[bottomUp[k]]]

(***************************************************************************)
(* main(): a loop per step                                                 *)
(***************************************************************************)
Loop(here, bound, after) ==
    /\ step = here /\ i < bound
    /\ IF i + 1 < bound THEN step' = here /\ i' = i + 1 ELSE step' = after /\ i' = 0

(* generate_string() writes the string into the buffer. *)
Push(here, bound, after) ==
    /\ Loop(here, bound, after)
    /\ \E s \in Strings : buffer' = s /\ push_stack(s) /\ pushed' = Append(pushed, s)
    /\ UNCHANGED printed

Popped == pushed' = IF pushed = <<>> THEN pushed ELSE Front(pushed)

Pop(here, bound, after) ==
    /\ Loop(here, bound, after) /\ pop_stack /\ Popped
    /\ UNCHANGED printed

Dump(here, after) ==
    /\ step = here /\ step' = after /\ dump_stack
    /\ UNCHANGED <<mem, allocated, string, buffer, i, pushed>>

(* Pops until a pop fails, or i has reached the limit after a pop: one     *)
(* more is popped than is printed.                                         *)
Empty ==
    /\ step = "empty" /\ pop_stack /\ Popped
    /\ IF list_empty(mem, stack) \/ i >= PrintLimit THEN step' = "exit" /\ UNCHANGED i
       ELSE i' = i + 1 /\ UNCHANGED step
    /\ UNCHANGED printed

StackNext ==
    \/ Push("push4", FirstPushes, "dump4") \/ Dump("dump4", "pop3")
    \/ Pop("pop3", FirstPops, "dump3")     \/ Dump("dump3", "pushes")
    \/ Push("pushes", Pushes, "pops")      \/ Pop("pops", Pops, "dump")
    \/ Dump("dump", "empty")               \/ Empty

StackSpec == StackInit /\ [][StackNext]_stackVars

(***************************************************************************)
(* Properties                                                              *)
(***************************************************************************)
(* The list is a stack: the entries from the bottom up hold the strings    *)
(* that were pushed and not popped, in that order, and are what is         *)
(* allocated; a dump prints them, and the program frees all it allocated.  *)
IsStack ==
    /\ LET e == Follow(mem.prev, stack)
       IN  [k \in DOMAIN e |-> string[e[k]]] = pushed /\ ToSet(e) = allocated
    /\ step \in {"pop3", "pushes", "empty"} /\ i = 0 => printed = pushed
    /\ step = "exit" /\ FirstPushes + Pushes <= FirstPops + Pops + PrintLimit
         => allocated = {}
================================================================================

------------------------------ MODULE ProcessLife ------------------------------
(***************************************************************************)
(* What the scheduler simulator promises whatever the policy: one CPU,     *)
(* resources that are assigned exclusively and only to the process that    *)
(* has the CPU, and processes that are forked, do the work of their        *)
(* lifespan, block for a resource somebody else owns until it is released, *)
(* and exit with nothing in their hands.                                   *)
(***************************************************************************)
EXTENDS Integers

CONSTANTS Procs, Resources, NULL

VARIABLES place,  \* where each process is in its life
          left,   \* the ticks of work it has left
          asks,   \* the resource it was refused, or NULL
          own     \* the process each resource is assigned to, or NULL

vars == <<place, left, asks, own>>

Places == {"unborn", "ready", "running", "blocked", "gone"}

Init == /\ place = [p \in Procs |-> "unborn"]
        /\ left \in [Procs -> Nat]
        /\ asks = [p \in Procs |-> NULL]
        /\ own = [r \in Resources |-> NULL]

Move(p, from, to) == /\ place[p] = from
                     /\ place' = [place EXCEPT ![p] = to]

Fork(p) == Move(p, "unborn", "ready") /\ UNCHANGED <<left, asks, own>>

Run(p) == /\ \A q \in Procs : place[q] # "running"
          /\ Move(p, "ready", "running")
          /\ UNCHANGED <<left, asks, own>>

Preempt(p) == Move(p, "running", "ready") /\ UNCHANGED <<left, asks, own>>

Work(p) == /\ place[p] = "running" /\ left[p] > 0
           /\ left' = [left EXCEPT ![p] = @ - 1]
           /\ UNCHANGED <<place, asks, own>>

Take(p, r) == /\ place[p] = "running" /\ own[r] = NULL
              /\ own' = [own EXCEPT ![r] = p]
              /\ asks' = [asks EXCEPT ![p] = NULL]
              /\ UNCHANGED <<place, left>>

Block(p, r) == /\ own[r] \notin {NULL, p}
               /\ Move(p, "running", "blocked")
               /\ asks' = [asks EXCEPT ![p] = r]
               /\ UNCHANGED <<left, own>>

BlockedOn(r) == {q \in Procs : place[q] = "blocked" /\ asks[q] = r}

(* A release makes one of the processes blocked on r ready, if any is; it  *)
(* still has to take r.                                                    *)
Give(p, r) == /\ place[p] = "running" /\ own[r] = p
              /\ own' = [own EXCEPT ![r] = NULL]
              /\ \/ BlockedOn(r) = {} /\ UNCHANGED place
                 \/ \E q \in BlockedOn(r) : Move(q, "blocked", "ready")
              /\ UNCHANGED <<left, asks>>

Exit(p) == /\ left[p] = 0 /\ \A r \in Resources : own[r] # p
           /\ Move(p, "running", "gone")
           /\ UNCHANGED <<left, asks, own>>

Next == \E p \in Procs :
          \/ Fork(p) \/ Run(p) \/ Preempt(p) \/ Work(p) \/ Exit(p)
          \/ \E r \in Resources : Take(p, r) \/ Block(p, r) \/ Give(p, r)

Spec == Init /\ [][Next]_vars
================================================================================

---------------------------- MODULE SchedRefinement ----------------------------
(***************************************************************************)
(* The simulator implements ProcessLife.  The place of a process is read   *)
(* from its status and from the fork queue, the work it has left from its  *)
(* age, and the assignment of the resources from their owner fields.       *)
(***************************************************************************)
EXTENDS SchedProperties

PlaceOf(p) == CASE status[p] = "EXIT"    -> "gone"
                [] status[p] = "WAIT"    -> "blocked"
                [] status[p] = "RUNNING" -> "running"
                [] status[p] = "READY"   -> IF p \in Range(forkqueue) THEN "unborn"
                                                                     ELSE "ready"

Life == INSTANCE ProcessLife WITH
          place <- [p \in Procs |-> PlaceOf(p)],
          left  <- [p \in Procs |-> Lifespan(p) - age[p]],
          asks  <- wanted,
          own   <- owner

(* On a sound script every step of the framework and of a policy is a step *)
(* of ProcessLife or leaves what it speaks of unchanged: one CPU, exclusive*)
(* resources, every release wakes one of those it should.  (PCP queues     *)
(* nobody, so under PCP this needs scripts that never wait.)               *)
ImplementsProcessLife == Life!Spec
================================================================================

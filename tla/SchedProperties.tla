---------------------------- MODULE SchedProperties ----------------------------
(***************************************************************************)
(* What the scheduler simulator should and should not do.  Properties that *)
(* hold only of some scripts say so by name in their antecedent.           *)
(***************************************************************************)
EXTENDS Sched

(***************************************************************************)
(* Kinds of scripts                                                        *)
(***************************************************************************)
Requests(p) == script[p].requests
Ends(rq) == rq.at + rq.duration

(* Two requests of one process whose use of the resources overlaps in time. *)
Overlap(a, b) == a.at < Ends(b) /\ b.at < Ends(a)

UniquePids == \A p, q \in Procs : Pid(p) = Pid(q) => p = q

(* Every process lives, and is given and gives back all it asks for by then. *)
WellFormed == \A p \in Procs :
    /\ Lifespan(p) > 0
    /\ \A i \in DOMAIN Requests(p) :
         Requests(p)[i].duration > 0 /\ Ends(Requests(p)[i]) <= Lifespan(p)

(* No process asks for a resource it still holds. *)
NoReacquire == \A p \in Procs : \A i, j \in DOMAIN Requests(p) :
    i # j /\ Overlap(Requests(p)[i], Requests(p)[j])
      => Requests(p)[i].resource_id # Requests(p)[j].resource_id

(* No process holds two resources at a time. *)
SingleHold == \A p \in Procs : \A i, j \in DOMAIN Requests(p) :
    i # j => ~Overlap(Requests(p)[i], Requests(p)[j])

(* Who holds a resource under PCP runs above everybody else: it holds no   *)
(* other one, and no process has the ceiling for a priority of its own.    *)
UnderCeiling == SingleHold /\ \A p \in Procs : PrioOrig(p) < MAX_PRIO

(* Request i of p is made no later than request j. *)
Before(p, i, j) == \/ Requests(p)[i].at < Requests(p)[j].at
                   \/ Requests(p)[i].at = Requests(p)[j].at /\ i < j

(* What is asked for while something is held has the larger resource id. *)
Ordered == \A p \in Procs : \A i, j \in DOMAIN Requests(p) :
    i # j /\ Overlap(Requests(p)[i], Requests(p)[j]) /\ Before(p, i, j)
      => Requests(p)[i].resource_id < Requests(p)[j].resource_id

Sound == UniquePids /\ WellFormed /\ NoReacquire

Finished(p) == status[p] = "EXIT"
Holds(p, r) == \E i \in DOMAIN holding[p] : holding[p][i].resource_id = r

(***************************************************************************)
(* Type invariant                                                          *)
(***************************************************************************)
(* Every variable has the type its C declaration and its use give it. *)
TypeOK ==
    /\ sched \in Scheds /\ script \in [Procs -> Description]
    /\ ticks \in 0 .. TickCap /\ pc \in PC
    /\ current \in Procs \cup {NULL} /\ prev \in Procs \cup {NULL}
    /\ cursor \in Nat \ {0}
    /\ forkqueue \in Seq(Procs) /\ readyqueue \in Seq(Procs)
    /\ status \in [Procs -> Status]
    /\ age \in [Procs -> Nat] /\ prio \in [Procs -> Nat]
    /\ to_acquire \in [Procs -> Seq(Request)]
    /\ holding \in [Procs -> Seq(Request)]
    /\ wanted \in [Procs -> Resources \cup {NULL}]
    /\ owner \in [Resources -> Procs \cup {NULL}]
    /\ waitqueue \in [Resources -> Seq(Procs)]

(***************************************************************************)
(* Lists                                                                   *)
(***************************************************************************)
(* A process is linked into at most one list, and at most once: struct     *)
(* process has a single list_head, so a second list_add_tail would corrupt *)
(* both lists.  The running process is linked into none.                   *)
ListIntegrity ==
    /\ IsInjective(forkqueue) /\ IsInjective(readyqueue)
    /\ \A r \in Resources : IsInjective(waitqueue[r])
    /\ Range(forkqueue) \cap Range(readyqueue) = {}
    /\ \A r \in Resources :
         /\ Range(waitqueue[r]) \cap (Range(forkqueue) \cup Range(readyqueue)) = {}
         /\ \A s \in Resources \ {r} : Range(waitqueue[r]) \cap Range(waitqueue[s]) = {}
    /\ current # NULL /\ status[current] # "WAIT" => ~Attached(current)

(* Between two ticks a process that has not finished is current or is on   *)
(* some list: none is forgotten, whatever the others ask for or fail to    *)
(* give back.  Only a process with lifespan 0 can be: its age is never     *)
(* equal to its lifespan when it is retired.  pcp_acquire refuses without  *)
(* queueing, so under PCP this is for scripts in which it refuses nobody.  *)
NoLostProcess ==
    (sched = "pcp" => UnderCeiling /\ UniquePids /\ WellFormed) =>
      \A p \in Procs : \/ Finished(p) \/ p \in {current, prev} \/ Attached(p)
                       \/ Lifespan(p) = 0

(* free(p) at exit leaves no pointer to p behind: neither a list, nor the  *)
(* owner of a resource, nor current.                                       *)
NoUseAfterFree ==
    \A p \in Procs : Finished(p) =>
      ~Attached(p) /\ current # p /\ \A r \in Resources : owner[r] # p

(***************************************************************************)
(* Resources                                                               *)
(***************************************************************************)
(* The owner field and the holding lists agree, so no resource is held by  *)
(* two processes: "assigned to processes exclusively".                     *)
OwnerHolds ==
    Sound => \A r \in Resources, p \in Procs : owner[r] = p <=> Holds(p, r)

(* No assert() of the framework or of a release() fails on a sound script. *)
NoAbort == Sound => pc # "aborted"

(* A process waits on r only while r is owned, or while a process that was *)
(* woken for r has yet to ask again: a free resource is never waited for   *)
(* with nobody due to wake the waiter, whatever the script.                *)
NoLostWakeup ==
    \A r \in Resources : waitqueue[r] # <<>> =>
      \/ owner[r] # NULL
      \/ \E p \in Procs : /\ wanted[p] = r
                          /\ status[p] # "WAIT" /\ ~Finished(p)

(* When the simulation ends, every process has finished or waits for a     *)
(* resource that an unfinished process owns: only a circular wait strands. *)
StrandedByCycle ==
    Sound /\ (sched = "pcp" => UnderCeiling) /\ pc = "done" =>
      \A p \in Procs : \/ Finished(p)
                       \/ \E r \in Resources : /\ p \in Range(waitqueue[r])
                                               /\ owner[r] \in Procs \ {p}
                                               /\ ~Finished(owner[r])

(* Scripts that acquire in the order of the resource ids run to the end.   *)
OrderedFinish ==
    Sound /\ Ordered /\ (sched = "pcp" => UnderCeiling) /\ pc = "done" =>
      \A p \in Procs : Finished(p)

(***************************************************************************)
(* Policies                                                                *)
(***************************************************************************)
(* FIFO and SJF do not preempt, so on a sound script no owner ever is off  *)
(* the CPU and nobody ever waits; neither does anybody under PCP while     *)
(* every priority is below the ceiling and one resource is held at a time. *)
NeverWaits ==
    Sound /\ (sched \in {"fifo", "sjf"} \/ (sched = "pcp" /\ UnderCeiling))
      => \A p \in Procs : status[p] # "WAIT"

(* What SRTF compares is the remaining time, although it is kept in a      *)
(* field that is written only when the process is forked or runs.          *)
SrtfKey ==
    sched = "srtf" => \A p \in Procs :
      p \in Range(readyqueue) \/ (\E r \in Resources : p \in Range(waitqueue[r]))
        => prio[p] = Remaining(p)

(* Under PIP no process runs below a process that waits for a resource,    *)
(* when one resource is held at a time and no priority is so large that    *)
(* the donated one wraps around.                                           *)
NoInversion ==
    Sound /\ SingleHold /\ sched = "pip" /\ pc = "acquire"
          /\ (\A p \in Procs : PrioOrig(p) + 1 < UINT) =>
      \A r \in Resources : \A q \in Range(waitqueue[r]) : prio[current] >= prio[q]

(* A priority raised by a donation is given back: a process that holds     *)
(* nothing has its own priority (PCP and PIP).                             *)
PrioGivenBack ==
    Sound /\ sched \in {"pcp", "pip"} =>
      \A p \in Procs : holding[p] = <<>> => prio[p] = PrioOrig(p)

(* Under aging nobody is passed over for long: with N processes of         *)
(* priorities up to M, no effective priority climbs above M + N.           *)
TopPrio == CHOOSE m \in {PrioOrig(p) : p \in Procs} :
             \A p \in Procs : PrioOrig(p) <= m
AgingBound ==
    sched = "pa" => \A p \in Procs : prio[p] < TopPrio + Cardinality(Procs)

(* "If two or more processes are with the same priority, they should be    *)
(* swiched on each tick": a process that has run goes on only when no      *)
(* ready process is as good.                                               *)
AsGood(q, p) == sched = "rr" \/ prio[q] >= prio[p]
SwitchedEachTick ==
    [][ pc = "fork" /\ pc' = "retire" /\ sched \in {"rr", "prio", "pa", "pcp", "pip"}
        /\ current # NULL /\ current' = current
          => \A q \in Range(readyqueue) : ~AsGood(q, current) ]_vars

(***************************************************************************)
(* What comments and the README promise and the code does not do           *)
(***************************************************************************)
(* "Shortest Remaining Time First": what runs has no more to do than what  *)
(* is ready.                                                               *)
ShortestRuns ==
    sched = "srtf" /\ pc = "dispatch" /\ current # NULL =>
      \A q \in Range(readyqueue) : Remaining(current) <= Remaining(q)

(* "The priority can be boosted up to MAX_PRIO."                           *)
BoostedUpToMax == sched = "pa" => \A p \in Procs : prio[p] <= MAX_PRIO

(* "when the current process is blocked while acquiring a resource,        *)
(* @current is (supposed to be) attached to the waitqueue of the           *)
(* corresponding resource".                                                *)
BlockedIsQueued ==
    \A p \in Procs : status[p] = "WAIT" =>
      \E r \in Resources : p \in Range(waitqueue[r])

(* "make sure that the priority of a process is set properly when it       *)
(* releases a resource ... different resources held by a process": an      *)
(* owner has at least the priority of each process that waits for it.      *)
OwnerInherits ==
    sched = "pip" => \A r \in Resources : owner[r] # NULL =>
      \A q \in Range(waitqueue[r]) : prio[owner[r]] >= prio[q]

(***************************************************************************)
(* Progress                                                                *)
(***************************************************************************)
(* The simulation comes to an end, while no lifespan is above MAX_LIFESPAN *)
(* (a longer process is never picked, and the loop idles for ever).        *)
Termination == <>(pc \in {"done", "aborted"})

(* Who waits for a resource finishes, on scripts free of circular waits.   *)
WaitersFinish ==
    \A p \in Procs :
      (status[p] = "WAIT" /\ Sound /\ Ordered /\ (sched = "pcp" => UnderCeiling))
        ~> Finished(p)
================================================================================

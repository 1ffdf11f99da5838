----------------------------- MODULE SchedPolicies -----------------------------
(***************************************************************************)
(* The scheduling policies of pa2.c: what the callbacks schedule(),        *)
(* acquire(), release() and forked() of every struct scheduler do to the   *)
(* state.  A callback is an action that says how the variables a policy    *)
(* may write change; the framework (module Sched) composes it with its own *)
(* steps.                                                                  *)
(*                                                                         *)
(* The selection loops of pa2.c walk a list while they swap and re-aim     *)
(* their cursors.  Here they are replaced by what they compute, "the first *)
(* entry with the largest (smallest) key"; module PickLoops models the     *)
(* loops one iteration at a time and shows that this is what they compute. *)
(***************************************************************************)
EXTENDS SchedState, FirstBest

lifespan == [p \in Procs |-> Lifespan(p)]

(***************************************************************************)
(* schedule()                                                              *)
(***************************************************************************)
(* Mutant: a blocked process is not noticed. *)
MayContinueBlocked == /\ current # NULL
                      /\ age[current] < Lifespan(current)

(* A process ran in the last tick, is not blocked and has time left; when  *)
(* not, the code goes (or falls through) to pick_next.                     *)
MayContinue == /\ current # NULL
               /\ status[current] # "WAIT"
               /\ age[current] < Lifespan(current)

(* Detach the chosen entry i of q; what is left is the ready queue. *)
TakeFrom(q, i) == /\ current' = q[i]
                  /\ readyqueue' = RemoveAt(q, i)

KeepCurrent == UNCHANGED <<current, readyqueue>>

(* pick_next: the chosen entry of the ready queue, NULL when there is none. *)
PickNext(Chosen(_)) ==
    \/ \E i \in DOMAIN readyqueue : Chosen(i) /\ TakeFrom(readyqueue, i)
    \/ /\ \A i \in DOMAIN readyqueue : ~Chosen(i)
       /\ current' = NULL
       /\ UNCHANGED readyqueue

IsHead(i)     == i = 1
HighestPrio(i) == FirstMax(KeysOf(readyqueue, prio), i)

(* The search for the minimum starts from MAX_LIFESPAN: an entry above it  *)
(* is never found.                                                         *)
ShortestJob(i) == /\ FirstMin(KeysOf(readyqueue, lifespan), i)
                  /\ lifespan[readyqueue[i]] <= MAX_LIFESPAN
ShortestRemaining(i) == /\ FirstMin(KeysOf(readyqueue, prio), i)
                        /\ prio[readyqueue[i]] <= MAX_LIFESPAN

FifoSchedule == /\ \/ ~MayContinue /\ PickNext(IsHead)
                   \/ MayContinue  /\ KeepCurrent
                /\ UNCHANGED prio

SjfSchedule == /\ \/ ~MayContinue /\ PickNext(ShortestJob)
                  \/ MayContinue  /\ KeepCurrent
               /\ UNCHANGED prio

(* The current process goes to the tail, the head of the queue runs. *)
RrSchedule == /\ \/ ~MayContinue /\ PickNext(IsHead)
                 \/ MayContinue  /\ TakeFrom(Append(readyqueue, current), 1)
              /\ UNCHANGED prio

Remaining(p) == Unsigned(Lifespan(p) - age[p])

(* The first entry of the ready queue with less to do than the current      *)
(* process; the loop swaps it with current, which now is the tail, and ends. *)
FirstShorter(i) == FirstBelow(KeysOf(readyqueue, prio), Remaining(current), i)

SrtfPreempt ==
    \/ \E i \in DOMAIN readyqueue :
         FirstShorter(i) /\ TakeFrom(Append(readyqueue, current), i)
    \/ (\A i \in DOMAIN readyqueue : ~FirstShorter(i)) /\ KeepCurrent

SrtfSchedule == /\ \/ ~MayContinue /\ PickNext(ShortestRemaining)
                   \/ MayContinue  /\ SrtfPreempt
                /\ IF current = NULL \/ status[current] = "WAIT"
                     THEN UNCHANGED prio
                     ELSE prio' = [prio EXCEPT ![current] = Remaining(current)]

(* Mutant: a process of the same priority does not get its turn. *)
CompeteStrictly ==
    \/ \E i \in DOMAIN readyqueue :
         /\ FirstMax(KeysOf(readyqueue, prio), i)
         /\ prio[readyqueue[i]] > prio[current]
         /\ TakeFrom(Append(readyqueue, current), i)
    \/ /\ \A q \in Range(readyqueue) : prio[q] <= prio[current]
       /\ KeepCurrent

(* The current process joins the queue and the best of all is taken. *)
Compete == LET q == Append(readyqueue, current)
           IN  \E i \in DOMAIN q : FirstMax(KeysOf(q, prio), i) /\ TakeFrom(q, i)

PrioSchedule == /\ \/ ~MayContinue /\ PickNext(HighestPrio)
                   \/ MayContinue  /\ Compete
                /\ UNCHANGED prio

(* One more for every process left in the ready queue; only the loop after *)
(* the competition stops at MAX_PRIO.                                      *)
Aged(p) == IF MayContinue /\ prio[p] >= MAX_PRIO THEN prio[p]
                                               ELSE Unsigned(prio[p] + 1)

(* Mutant: the process that runs keeps the priority it has aged to. *)
PaScheduleNoReset ==
    /\ \/ ~MayContinue /\ PickNext(HighestPrio)
       \/ MayContinue  /\ Compete
    /\ prio' = [p \in Procs |-> IF p \in Range(readyqueue') THEN Aged(p)
                                                           ELSE prio[p]]

PaSchedule ==
    /\ \/ ~MayContinue /\ PickNext(HighestPrio)
       \/ MayContinue  /\ Compete
    /\ prio' = IF current' = NULL THEN prio ELSE
               [p \in Procs |-> CASE p = current'            -> PrioOrig(p)
                                  [] p \in Range(readyqueue') -> Aged(p)
                                  [] OTHER                    -> prio[p]]

PcpSchedule == PrioSchedule
PipSchedule == PrioSchedule

SchedSchedule == CASE sched = "fifo" -> FifoSchedule
                   [] sched = "sjf"  -> SjfSchedule
                   [] sched = "srtf" -> SrtfSchedule
                   [] sched = "rr"   -> RrSchedule
                   [] sched = "prio" -> PrioSchedule
                   [] sched = "pa"   -> PaSchedule
                   [] sched = "pcp"  -> PcpSchedule
                   [] sched = "pip"  -> PipSchedule

(***************************************************************************)
(* acquire(): granted is the value it returns                              *)
(***************************************************************************)
Free(r) == owner[r] = NULL

TakeIt(r) == owner' = [owner EXCEPT ![r] = current]

(* Mutant: the process that has to wait is not put on the wait queue. *)
WaitUnqueued(r) == /\ status' = [status EXCEPT ![current] = "WAIT"]
                   /\ UNCHANGED waitqueue

WaitFor(r) == /\ status' = [status EXCEPT ![current] = "WAIT"]
              /\ waitqueue' = [waitqueue EXCEPT ![r] = Append(@, current)]

(* The owner has the current process's pid: the request is granted again. *)
OwnPid(r) == Pid(owner[r]) = Pid(current)

FcfsAcquire(r, granted) ==
    \/ Free(r) /\ granted /\ TakeIt(r) /\ UNCHANGED <<status, waitqueue, prio>>
    \/ ~Free(r) /\ ~granted /\ WaitFor(r) /\ UNCHANGED <<owner, prio>>

(* Mutant: the refused process stays ready, to try again. *)
PrioAcquireSpins(r, granted) ==
    \/ Free(r) /\ granted /\ TakeIt(r) /\ UNCHANGED <<status, waitqueue, prio>>
    \/ /\ ~Free(r) /\ granted = OwnPid(r)
       /\ UNCHANGED <<owner, status, waitqueue, prio>>

PrioAcquire(r, granted) ==
    \/ Free(r) /\ granted /\ TakeIt(r) /\ UNCHANGED <<status, waitqueue, prio>>
    \/ /\ ~Free(r) /\ ~OwnPid(r) /\ ~granted
       /\ WaitFor(r) /\ UNCHANGED <<owner, prio>>
    \/ /\ ~Free(r) /\ OwnPid(r) /\ granted
       /\ UNCHANGED <<owner, status, waitqueue, prio>>

PaAcquire(r, granted) == PrioAcquire(r, granted)

(* Mutant: the owner does not run at the ceiling. *)
PcpAcquireUnraised(r, granted) ==
    \/ Free(r) /\ granted /\ TakeIt(r) /\ UNCHANGED <<status, waitqueue, prio>>
    \/ /\ ~Free(r) /\ ~OwnPid(r) /\ ~granted
       /\ status' = [status EXCEPT ![current] = "WAIT"]
       /\ UNCHANGED <<owner, waitqueue, prio>>
    \/ /\ ~Free(r) /\ OwnPid(r) /\ granted
       /\ UNCHANGED <<owner, status, waitqueue, prio>>

(* A refused process gets the status WAIT and is put on no queue. *)
PcpAcquire(r, granted) ==
    \/ /\ Free(r) /\ granted /\ TakeIt(r)
       /\ prio' = [prio EXCEPT ![current] = MAX_PRIO]
       /\ UNCHANGED <<status, waitqueue>>
    \/ /\ ~Free(r) /\ ~OwnPid(r) /\ ~granted
       /\ status' = [status EXCEPT ![current] = "WAIT"]
       /\ UNCHANGED <<owner, waitqueue, prio>>
    \/ /\ ~Free(r) /\ OwnPid(r) /\ granted
       /\ UNCHANGED <<owner, status, waitqueue, prio>>

(* Mutant: nothing is inherited. *)
DonateNothing(r) == UNCHANGED prio

(* The owner inherits more than the priority of a process above it. *)
Donate(r) == IF prio[current] > prio[owner[r]]
               THEN prio' = [prio EXCEPT ![owner[r]] = Unsigned(prio[current] + 1)]
               ELSE UNCHANGED prio

PipAcquire(r, granted) ==
    \/ Free(r) /\ granted /\ TakeIt(r) /\ UNCHANGED <<status, waitqueue, prio>>
    \/ /\ ~Free(r) /\ ~OwnPid(r) /\ ~granted
       /\ WaitFor(r) /\ Donate(r) /\ UNCHANGED owner
    \/ /\ ~Free(r) /\ OwnPid(r) /\ granted
       /\ UNCHANGED <<owner, status, waitqueue, prio>>

SchedAcquire(r, granted) ==
    CASE sched \in {"fifo", "sjf", "srtf", "rr"} -> FcfsAcquire(r, granted)
      [] sched = "prio" -> PrioAcquire(r, granted)
      [] sched = "pa"   -> PaAcquire(r, granted)
      [] sched = "pcp"  -> PcpAcquire(r, granted)
      [] sched = "pip"  -> PipAcquire(r, granted)

(***************************************************************************)
(* release()                                                               *)
(***************************************************************************)
FirstWaiter(r, i) == i = 1
BestWaiter(r, i)  == FirstMax(KeysOf(waitqueue[r], prio), i)

(* The waiter that release() is going to wake, under the selected policy.  *)
Waiter(r, i) == IF sched \in {"fifo", "sjf", "srtf", "rr"}
                  THEN FirstWaiter(r, i) ELSE BestWaiter(r, i)

(* Mutant: the owner field is not cleared. *)
WakeOneOwned(r) ==
    /\ UNCHANGED owner
    /\ \/ /\ waitqueue[r] = <<>>
          /\ UNCHANGED <<status, readyqueue, waitqueue>>
       \/ \E i \in DOMAIN waitqueue[r] :
            /\ Waiter(r, i)
            /\ status' = [status EXCEPT ![waitqueue[r][i]] = "READY"]
            /\ readyqueue' = Append(readyqueue, waitqueue[r][i])
            /\ waitqueue' = [waitqueue EXCEPT ![r] = RemoveAt(@, i)]

(* Mutant: the waiter is detached and made ready, and put on no queue. *)
WakeOneDropped(r) ==
    /\ owner' = [owner EXCEPT ![r] = NULL]
    /\ \/ /\ waitqueue[r] = <<>>
          /\ UNCHANGED <<status, waitqueue>>
       \/ \E i \in DOMAIN waitqueue[r] :
            /\ Waiter(r, i)
            /\ status' = [status EXCEPT ![waitqueue[r][i]] = "READY"]
            /\ waitqueue' = [waitqueue EXCEPT ![r] = RemoveAt(@, i)]
    /\ UNCHANGED readyqueue

(* Mutant: the resource is given up and nobody is woken. *)
GiveUpSilently(r) == /\ owner' = [owner EXCEPT ![r] = NULL]
                     /\ UNCHANGED <<status, readyqueue, waitqueue, prio>>

(* Mutant: one waiter is made ready but stays on the wait queue. *)
WakeOneAttached(r) ==
    /\ owner' = [owner EXCEPT ![r] = NULL]
    /\ \/ /\ waitqueue[r] = <<>>
          /\ UNCHANGED <<status, readyqueue>>
       \/ \E i \in DOMAIN waitqueue[r] :
            /\ Waiter(r, i)
            /\ status' = [status EXCEPT ![waitqueue[r][i]] = "READY"]
            /\ readyqueue' = Append(readyqueue, waitqueue[r][i])
    /\ UNCHANGED waitqueue

(* Give the resource up and wake ONE waiter, which has to ask again. *)
WakeOne(r) ==
    /\ owner' = [owner EXCEPT ![r] = NULL]
    /\ \/ /\ waitqueue[r] = <<>>
          /\ UNCHANGED <<status, readyqueue, waitqueue>>
       \/ \E i \in DOMAIN waitqueue[r] :
            /\ Waiter(r, i)
            /\ LET waiter == waitqueue[r][i]
               IN  /\ status' = [status EXCEPT ![waiter] = "READY"]
                   /\ readyqueue' = Append(readyqueue, waiter)
            /\ waitqueue' = [waitqueue EXCEPT ![r] = RemoveAt(@, i)]

ResetPrio(p) == prio' = [prio EXCEPT ![p] = PrioOrig(p)]

(* Mutant: the inherited priority is kept. *)
PipReleaseRaised(r) == WakeOne(r) /\ UNCHANGED prio

FcfsRelease(r) == WakeOne(r) /\ UNCHANGED prio
PrioRelease(r) == WakeOne(r) /\ UNCHANGED prio
PaRelease(r)   == WakeOne(r) /\ UNCHANGED prio
PcpRelease(r)  == WakeOne(r) /\ ResetPrio(current)
PipRelease(r)  == WakeOne(r) /\ ResetPrio(current)

SchedRelease(r) ==
    CASE sched \in {"fifo", "sjf", "srtf", "rr"} -> FcfsRelease(r)
      [] sched = "prio" -> PrioRelease(r)
      [] sched = "pa"   -> PaRelease(r)
      [] sched = "pcp"  -> PcpRelease(r)
      [] sched = "pip"  -> PipRelease(r)

(* The assertions of every release(): its caller owns r, and the process   *)
(* to wake is waiting.                                                     *)
ReleaseAsserts(r) ==
    /\ owner[r] = current
    /\ \A i \in DOMAIN waitqueue[r] :
         Waiter(r, i) => status[waitqueue[r][i]] = "WAIT"

(* Mutant: the key of SRTF is set only when a process runs. *)
ForkedUnset(p) == UNCHANGED prio

(***************************************************************************)
(* forked()                                                                *)
(***************************************************************************)
SchedForked(p) == IF sched = "srtf"
                    THEN prio' = [prio EXCEPT ![p] = Remaining(p)]
                    ELSE UNCHANGED prio
================================================================================

------------------------------ MODULE SchedProofs ------------------------------
(***************************************************************************)
(* Proofs about the scheduler simulator, for every set of processes and    *)
(* resources, every policy and every script (also those that no check of   *)
(* the loader rejects and that end in a failing assertion): types, queues, *)
(* freed memory, where a process is in its life, wake-ups and turns.       *)
(***************************************************************************)
EXTENDS SchedProperties, SeqLemmas, TLAPS

USE ProcsAssumption, NumbersAssumption

(***************************************************************************)
(* What the callbacks of all policies have in common                       *)
(***************************************************************************)
LEMMA UnsignedIsNat == ASSUME NEW n \in Int PROVE Unsigned(n) \in Nat
  BY DEF Unsigned

(* The numbers of a process description.                                   *)
LEMMA ScriptNumbers ==
    ASSUME TypeOK, NEW p \in Procs
    PROVE  /\ PrioOrig(p) \in Nat /\ Lifespan(p) \in Nat
           /\ age[p] \in Nat /\ prio[p] \in Nat
           /\ Remaining(p) \in Nat
  <1>0. script[p] \in Description
    BY DEF TypeOK
  <1>1. PrioOrig(p) \in Nat /\ Lifespan(p) \in Nat
    BY <1>0 DEF Description, PrioOrig, Lifespan
  <1>2. age[p] \in Nat /\ prio[p] \in Nat
    BY DEF TypeOK
  <1> QED BY <1>1, <1>2, UnsignedIsNat DEF Remaining

(* schedule() keeps the current process, takes an entry of the ready queue *)
(* (to which the current process may have been appended), or finds none.   *)
TakesReady == \E i \in DOMAIN readyqueue : TakeFrom(readyqueue, i)
TakesWithCurrent == \E i \in DOMAIN Append(readyqueue, current) :
                      TakeFrom(Append(readyqueue, current), i)
ScheduleShape ==
    \/ MayContinue /\ current' = current /\ readyqueue' = readyqueue
    \/ MayContinue /\ TakesWithCurrent
    \/ ~MayContinue /\ TakesReady
    \/ ~MayContinue /\ current' = NULL /\ readyqueue' = readyqueue

LEMMA PickNextShape ==
    PickNext(IsHead) \/ PickNext(HighestPrio) \/ PickNext(ShortestJob)
      \/ PickNext(ShortestRemaining)
    => TakesReady \/ (current' = NULL /\ readyqueue' = readyqueue)
  BY DEF PickNext, TakesReady

LEMMA CompeteShape == Compete => TakesWithCurrent
  BY DEF Compete, TakesWithCurrent

LEMMA SrtfPreemptShape ==
    ASSUME TypeOK, current # NULL, SrtfPreempt
    PROVE  TakesWithCurrent \/ (current' = current /\ readyqueue' = readyqueue)
  <1>1. readyqueue \in Seq(Procs) /\ current \in Procs
    BY DEF TypeOK
  <1>2. DOMAIN readyqueue \subseteq DOMAIN Append(readyqueue, current)
    BY <1>1
  <1> QED BY <1>2 DEF SrtfPreempt, TakesWithCurrent, KeepCurrent

(* schedule() of every policy. *)
LEMMA SchedScheduleShape ==
    ASSUME TypeOK, SchedSchedule
    PROVE  ScheduleShape /\ prio' \in [Procs -> Nat]
  <1>1. /\ sched \in AllScheds /\ prio \in [Procs -> Nat]
        /\ current \in Procs \cup {NULL}
    BY SchedsAssumption DEF TypeOK
  <1>2. MayContinue => current # NULL
    BY DEF MayContinue
  <1>3. \A p \in Procs : PrioOrig(p) \in Nat /\ Remaining(p) \in Nat /\ prio[p] \in Nat
    BY ScriptNumbers
  <1>4. CASE sched = "fifo"
    <2>1. FifoSchedule
      BY <1>4 DEF SchedSchedule
    <2> QED BY <2>1, <1>1, PickNextShape DEF FifoSchedule, ScheduleShape, KeepCurrent
  <1>5. CASE sched = "sjf"
    <2>1. SjfSchedule
      BY <1>5 DEF SchedSchedule
    <2> QED BY <2>1, <1>1, PickNextShape DEF SjfSchedule, ScheduleShape, KeepCurrent
  <1>6. CASE sched = "srtf"
    <2>1. SrtfSchedule
      BY <1>6 DEF SchedSchedule
    <2>2. ScheduleShape
      BY <2>1, <1>2, PickNextShape, SrtfPreemptShape DEF SrtfSchedule, ScheduleShape
    <2>3. prio' \in [Procs -> Nat]
      BY <2>1, <1>1, <1>3 DEF SrtfSchedule
    <2> QED BY <2>2, <2>3
  <1>7. CASE sched = "rr"
    <2>1. RrSchedule
      BY <1>7 DEF SchedSchedule
    <2>2. ASSUME MayContinue PROVE 1 \in DOMAIN Append(readyqueue, current)
      <3>1. readyqueue \in Seq(Procs) /\ current \in Procs
        BY <2>2, <1>2 DEF TypeOK
      <3> QED BY <3>1
    <2>3. MayContinue /\ TakeFrom(Append(readyqueue, current), 1) => TakesWithCurrent
      BY <2>2 DEF TakesWithCurrent
    <2> QED BY <2>1, <2>3, <1>1, PickNextShape DEF RrSchedule, ScheduleShape
  <1>8. CASE sched \in {"prio", "pcp", "pip"}
    <2>1. PrioSchedule
      BY <1>8 DEF SchedSchedule, PcpSchedule, PipSchedule
    <2> QED BY <2>1, <1>1, PickNextShape, CompeteShape DEF PrioSchedule, ScheduleShape
  <1>9. CASE sched = "pa"
    <2>1. PaSchedule
      BY <1>9 DEF SchedSchedule
    <2>2. ScheduleShape
      BY <2>1, PickNextShape, CompeteShape DEF PaSchedule, ScheduleShape
    <2>3. \A p \in Procs : Aged(p) \in Nat
      BY <1>3, UnsignedIsNat DEF Aged
    <2>4. prio' \in [Procs -> Nat]
      BY <2>1, <2>3, <1>1, <1>3 DEF PaSchedule
    <2> QED BY <2>2, <2>4
  <1> QED BY <1>1, <1>4, <1>5, <1>6, <1>7, <1>8, <1>9 DEF AllScheds

(* acquire() that grants: a free resource gets an owner, or nothing changes. *)
LEMMA GrantShape ==
    ASSUME TypeOK, current # NULL, NEW r \in Resources, SchedAcquire(r, TRUE)
    PROVE  /\ status' = status /\ waitqueue' = waitqueue
           /\ prio' \in [Procs -> Nat]
           /\ \/ owner' = owner /\ Pid(owner[r]) = Pid(current)
              \/ owner[r] = NULL /\ owner' = [owner EXCEPT ![r] = current]
  <1>1. /\ sched \in AllScheds /\ prio \in [Procs -> Nat] /\ current \in Procs
    BY SchedsAssumption DEF TypeOK
  <1>2. \/ FcfsAcquire(r, TRUE) \/ PrioAcquire(r, TRUE) \/ PcpAcquire(r, TRUE)
        \/ PipAcquire(r, TRUE)
    BY <1>1 DEF SchedAcquire, PaAcquire, AllScheds
  <1> QED BY <1>1, <1>2 DEF FcfsAcquire, PrioAcquire, PcpAcquire, PipAcquire,
                            TakeIt, Free, OwnPid

(* acquire() that refuses: the current process waits, on the queue or on none. *)
LEMMA RefuseShape ==
    ASSUME TypeOK, current # NULL, NEW r \in Resources, SchedAcquire(r, FALSE)
    PROVE  /\ owner' = owner /\ owner[r] # NULL
           /\ prio' \in [Procs -> Nat]
           /\ status' = [status EXCEPT ![current] = "WAIT"]
           /\ \/ waitqueue' = waitqueue
              \/ waitqueue' = [waitqueue EXCEPT ![r] = Append(@, current)]
  <1>1. /\ sched \in AllScheds /\ prio \in [Procs -> Nat] /\ current \in Procs
        /\ owner \in [Resources -> Procs \cup {NULL}]
    BY SchedsAssumption DEF TypeOK
  <1>2. \/ FcfsAcquire(r, FALSE) \/ PrioAcquire(r, FALSE) \/ PcpAcquire(r, FALSE)
        \/ PipAcquire(r, FALSE)
    BY <1>1 DEF SchedAcquire, PaAcquire, AllScheds
  <1>3. ASSUME Donate(r), owner[r] # NULL PROVE prio' \in [Procs -> Nat]
    <2>1. Unsigned(prio[current] + 1) \in Nat
      BY <1>1, UnsignedIsNat
    <2> QED BY <1>1, <1>3, <2>1 DEF Donate
  <1> QED BY <1>1, <1>2, <1>3 DEF FcfsAcquire, PrioAcquire, PcpAcquire, PipAcquire,
                                  WaitFor, Free

(* release() gives the resource up and wakes at most one waiter.           *)
LEMMA ReleaseShape ==
    ASSUME TypeOK, current # NULL, NEW r \in Resources, SchedRelease(r)
    PROVE  WakeOne(r) /\ prio' \in [Procs -> Nat]
  <1>1. /\ sched \in AllScheds /\ prio \in [Procs -> Nat] /\ current \in Procs
        /\ PrioOrig(current) \in Nat
    BY SchedsAssumption, ScriptNumbers DEF TypeOK
  <1> QED BY <1>1 DEF SchedRelease, AllScheds, FcfsRelease, PrioRelease, PaRelease,
                      PcpRelease, PipRelease, ResetPrio

LEMMA ForkedShape ==
    ASSUME TypeOK, NEW p \in Procs, SchedForked(p)
    PROVE  prio' \in [Procs -> Nat]
  <1>1. prio \in [Procs -> Nat] /\ Remaining(p) \in Nat
    BY ScriptNumbers DEF TypeOK
  <1> QED BY <1>1 DEF SchedForked

(***************************************************************************)
(* Type correctness                                                        *)
(***************************************************************************)
(* The process that asks and gives back is there; without it the types of  *)
(* Granted and Release say nothing.                                        *)
SomebodyRuns == pc \in {"acquire", "release"} => current # NULL
TypeInv == TypeOK /\ SomebodyRuns

(* A list of the queues shrinks and grows by a process.                    *)
LEMMA QueueTypes ==
    ASSUME NEW S, NEW q \in Seq(S), NEW e \in S
    PROVE  /\ Append(q, e) \in Seq(S)
           /\ \A i \in DOMAIN q : q[i] \in S /\ RemoveAt(q, i) \in Seq(S)
  <1>1. DOMAIN q = 1 .. Len(q)
    OBVIOUS
  <1> QED BY <1>1, RemoveAtEntries

(* The entry that schedule() takes. *)
LEMMA ScheduleTypes ==
    ASSUME TypeOK, ScheduleShape
    PROVE  current' \in Procs \cup {NULL} /\ readyqueue' \in Seq(Procs)
  <1>1. current \in Procs \cup {NULL} /\ readyqueue \in Seq(Procs)
    BY DEF TypeOK
  <1>2. CASE MayContinue /\ TakesWithCurrent
    <2>1. current \in Procs
      BY <1>1, <1>2 DEF MayContinue
    <2> DEFINE q == Append(readyqueue, current)
    <2>2. q \in Seq(Procs)
      BY <1>1, <2>1
    <2> HIDE DEF q
    <2>3. PICK i \in DOMAIN q : current' = q[i] /\ readyqueue' = RemoveAt(q, i)
      BY <1>2 DEF TakesWithCurrent, TakeFrom, q
    <2> QED BY <2>1, <2>2, <2>3, QueueTypes
  <1>3. CASE TakesReady
    <2>1. PICK i \in DOMAIN readyqueue :
            current' = readyqueue[i] /\ readyqueue' = RemoveAt(readyqueue, i)
      BY <1>3 DEF TakesReady, TakeFrom
    <2> DEFINE e == readyqueue[i]
    <2>2. e \in Procs
      BY <1>1, <2>1
    <2> QED BY <1>1, <2>1, <2>2, QueueTypes
  <1> QED BY <1>1, <1>2, <1>3 DEF ScheduleShape

(* What release() does to the queues. *)
LEMMA WakeTypes ==
    ASSUME TypeOK, NEW r \in Resources, WakeOne(r)
    PROVE  /\ owner' \in [Resources -> Procs \cup {NULL}]
           /\ status' \in [Procs -> Status]
           /\ readyqueue' \in Seq(Procs)
           /\ waitqueue' \in [Resources -> Seq(Procs)]
  <1>1. /\ owner \in [Resources -> Procs \cup {NULL}]
        /\ status \in [Procs -> Status] /\ readyqueue \in Seq(Procs)
        /\ waitqueue \in [Resources -> Seq(Procs)]
    BY DEF TypeOK
  <1>2. owner' \in [Resources -> Procs \cup {NULL}]
    BY <1>1 DEF WakeOne
  <1>3. CASE UNCHANGED <<status, readyqueue, waitqueue>>
    BY <1>1, <1>2, <1>3
  <1>4. CASE ~UNCHANGED <<status, readyqueue, waitqueue>>
    <2> DEFINE q == waitqueue[r]
    <2>1. q \in Seq(Procs)
      BY <1>1
    <2>2. PICK i \in DOMAIN q :
            /\ status' = [status EXCEPT ![q[i]] = "READY"]
            /\ readyqueue' = Append(readyqueue, q[i])
            /\ waitqueue' = [waitqueue EXCEPT ![r] = RemoveAt(q, i)]
      BY <1>4 DEF WakeOne
    <2> HIDE DEF q
    <2>3. q[i] \in Procs
      BY <2>1, <2>2
    <2>4. RemoveAt(q, i) \in Seq(Procs) /\ Append(readyqueue, q[i]) \in Seq(Procs)
      BY <1>1, <2>1, <2>2, <2>3, QueueTypes
    <2> QED BY <1>1, <1>2, <2>2, <2>3, <2>4 DEF Status
  <1> QED BY <1>3, <1>4

LEMMA TypeInit == Init => TypeInv
  <1> SUFFICES ASSUME Init PROVE TypeInv
    OBVIOUS
  <1>1. script \in [Procs -> Description] /\ forkqueue \in Seq(Procs)
    BY ScriptsAssumption, FileOrderAssumption DEF Init
  <1>2. \A p \in Procs : PrioOrig(p) \in Nat /\ script[p].requests \in Seq(Request)
    <2> TAKE p \in Procs
    <2>1. script[p] \in Description
      BY <1>1
    <2> QED BY <2>1 DEF Description, PrioOrig
  <1>3. <<>> \in Seq(Procs) /\ <<>> \in Seq(Request)
    OBVIOUS
  <1>4. ticks \in 0 .. TickCap /\ cursor \in Nat \ {0}
    BY DEF Init
  <1>5. /\ prio \in [Procs -> Nat] /\ to_acquire \in [Procs -> Seq(Request)]
        /\ holding \in [Procs -> Seq(Request)]
    BY <1>2, <1>3 DEF Init
  <1>6. age \in [Procs -> Nat] /\ status \in [Procs -> Status]
    BY DEF Init, Status
  <1>7. /\ wanted \in [Procs -> Resources \cup {NULL}]
        /\ owner \in [Resources -> Procs \cup {NULL}]
        /\ waitqueue \in [Resources -> Seq(Procs)] /\ readyqueue \in Seq(Procs)
    BY <1>3 DEF Init
  <1> QED BY <1>1, <1>4, <1>5, <1>6, <1>7
          DEF Init, TypeInv, TypeOK, SomebodyRuns, PC

LEMMA TypeStep == TypeInv /\ [Next]_vars => TypeInv'
  <1> SUFFICES ASSUME TypeInv, [Next]_vars PROVE TypeInv'
    OBVIOUS
  <1> USE DEF configVars, loopVars, queueVars, processVars
  <1>1. TypeOK /\ SomebodyRuns
    BY DEF TypeInv
  <1>2. CASE Fork
    <2>1. PICK i \in DOMAIN forkqueue :
            /\ forkqueue' = RemoveAt(forkqueue, i)
            /\ readyqueue' = Append(readyqueue, forkqueue[i])
            /\ status' = [status EXCEPT ![forkqueue[i]] = "READY"]
            /\ SchedForked(forkqueue[i])
      BY <1>2 DEF Fork
    <2> DEFINE p == forkqueue[i]
    <2>2. forkqueue \in Seq(Procs) /\ readyqueue \in Seq(Procs)
      BY <1>1 DEF TypeOK
    <2>3. p \in Procs
      BY <2>1, <2>2
    <2>4. forkqueue' \in Seq(Procs) /\ readyqueue' \in Seq(Procs)
      BY <2>1, <2>2, <2>3, QueueTypes
    <2>5. prio' \in [Procs -> Nat]
      BY <1>1, <2>1, <2>3, ForkedShape
    <2>6. status' \in [Procs -> Status]
      BY <1>1, <2>1, <2>3 DEF TypeOK, Status
    <2> QED BY <1>1, <1>2, <2>4, <2>5, <2>6 DEF Fork, TypeInv, TypeOK, SomebodyRuns
  <1>3. CASE Schedule
    <2>1. ScheduleShape /\ prio' \in [Procs -> Nat]
      BY <1>1, <1>3, SchedScheduleShape DEF Schedule
    <2>2. current' \in Procs \cup {NULL} /\ readyqueue' \in Seq(Procs)
      BY <1>1, <2>1, ScheduleTypes
    <2> QED BY <1>1, <1>3, <2>1, <2>2 DEF Schedule, TypeInv, TypeOK, SomebodyRuns, PC
  <1>4. CASE Retire
    <2>1. status' \in [Procs -> Status] /\ prev' \in Procs \cup {NULL}
      BY <1>1, <1>4 DEF Retire, TypeOK, Status
    <2>2. pc' \in {"aborted", "dispatch"}
      BY <1>4 DEF Retire
    <2> QED BY <1>1, <1>4, <2>1, <2>2 DEF Retire, TypeInv, TypeOK, SomebodyRuns, PC
  <1>5. CASE Quit
    BY <1>1, <1>5 DEF Quit, TypeInv, TypeOK, SomebodyRuns, PC
  <1>6. ASSUME Tick PROVE ticks' \in 0 .. TickCap /\ pc' = "fork"
    BY <1>1, <1>6 DEF Tick, TypeOK
  <1>7. CASE Idle
    BY <1>1, <1>6, <1>7 DEF Idle, TypeInv, TypeOK, SomebodyRuns, PC
  <1>8. CASE Dispatch
    <2>1. status' \in [Procs -> Status]
      BY <1>1, <1>8 DEF Dispatch, TypeOK, Status
    <2>2. pc' \in {"aborted", "acquire"} /\ current' = current /\ current # NULL
      BY <1>8 DEF Dispatch
    <2> QED BY <1>1, <1>8, <2>1, <2>2 DEF Dispatch, TypeInv, TypeOK, SomebodyRuns, PC
  <1>9. CASE Granted
    <2>1. PICK i \in DOMAIN to_acquire[current] :
            /\ SchedAcquire(to_acquire[current][i].resource_id, TRUE)
            /\ to_acquire' = [to_acquire EXCEPT ![current] = RemoveAt(@, i)]
            /\ holding' = [holding EXCEPT ![current] = Append(@, to_acquire[current][i])]
            /\ wanted' = [wanted EXCEPT ![current] = NULL]
      BY <1>9 DEF Granted
    <2> DEFINE rs == to_acquire[current][i]
    <2>2. current # NULL /\ current \in Procs
      BY <1>1, <1>9 DEF Granted, SomebodyRuns, TypeOK
    <2>3. to_acquire[current] \in Seq(Request) /\ holding[current] \in Seq(Request)
      BY <1>1, <2>2 DEF TypeOK
    <2>4. rs \in Request
      BY <2>1, <2>3
    <2>5. rs.resource_id \in Resources
      BY <2>4 DEF Request
    <2>6. /\ RemoveAt(to_acquire[current], i) \in Seq(Request)
          /\ Append(holding[current], rs) \in Seq(Request)
      BY <2>1, <2>3, <2>4, QueueTypes
    <2>7. /\ status' = status /\ waitqueue' = waitqueue
          /\ prio' \in [Procs -> Nat]
          /\ owner' \in [Resources -> Procs \cup {NULL}]
      <3>1. /\ status' = status /\ waitqueue' = waitqueue
            /\ prio' \in [Procs -> Nat]
            /\ \/ owner' = owner
               \/ owner' = [owner EXCEPT ![rs.resource_id] = current]
        BY <1>1, <2>1, <2>2, <2>5, GrantShape
      <3> QED BY <1>1, <2>2, <2>5, <3>1 DEF TypeOK
    <2>8. /\ to_acquire' \in [Procs -> Seq(Request)]
          /\ holding' \in [Procs -> Seq(Request)]
          /\ wanted' \in [Procs -> Resources \cup {NULL}]
      BY <1>1, <2>1, <2>2, <2>6 DEF TypeOK
    <2> QED BY <1>1, <1>9, <2>7, <2>8 DEF Granted, TypeInv, TypeOK, SomebodyRuns
  <1>10. CASE Refused
    <2>1. PICK i \in DOMAIN to_acquire[current] :
            /\ SchedAcquire(to_acquire[current][i].resource_id, FALSE)
            /\ wanted' = [wanted EXCEPT ![current] =
                                          to_acquire[current][i].resource_id]
      BY <1>10 DEF Refused
    <2> DEFINE r == to_acquire[current][i].resource_id
    <2>2. current # NULL /\ current \in Procs
      BY <1>1, <1>10 DEF Refused, SomebodyRuns, TypeOK
    <2>3. to_acquire[current] \in Seq(Request)
      BY <1>1, <2>2 DEF TypeOK
    <2>4. to_acquire[current][i] \in Request
      BY <2>1, <2>3
    <2>5. r \in Resources
      BY <2>4 DEF Request
    <2>6. /\ owner' = owner /\ prio' \in [Procs -> Nat]
          /\ status' = [status EXCEPT ![current] = "WAIT"]
          /\ \/ waitqueue' = waitqueue
             \/ waitqueue' = [waitqueue EXCEPT ![r] = Append(@, current)]
      BY <1>1, <2>1, <2>2, <2>5, RefuseShape
    <2>7. Append(waitqueue[r], current) \in Seq(Procs)
      BY <1>1, <2>2, <2>5 DEF TypeOK
    <2>8. /\ waitqueue' \in [Resources -> Seq(Procs)]
          /\ status' \in [Procs -> Status]
          /\ wanted' \in [Procs -> Resources \cup {NULL}]
      <3>1. wanted' = [wanted EXCEPT ![current] = r]
        BY <2>1
      <3> HIDE DEF r
      <3>2. waitqueue' \in [Resources -> Seq(Procs)]
        BY <1>1, <2>6, <2>7 DEF TypeOK
      <3>3. status' \in [Procs -> Status]
        BY <1>1, <2>6 DEF TypeOK, Status
      <3>4. wanted' \in [Procs -> Resources \cup {NULL}]
        BY <1>1, <2>5, <3>1 DEF TypeOK
      <3> QED BY <3>2, <3>3, <3>4
    <2> QED BY <1>1, <1>6, <1>10, <2>6, <2>8 DEF Refused, TypeInv, TypeOK,
                                                 SomebodyRuns, PC
  <1>11. CASE Progress
    <2>1. current # NULL /\ current \in Procs
      BY <1>1, <1>11 DEF Progress, SomebodyRuns, TypeOK
    <2>2. age' \in [Procs -> Nat]
      BY <1>1, <1>11, <2>1 DEF Progress, TypeOK
    <2> QED BY <1>1, <1>11, <2>1, <2>2 DEF Progress, TypeInv, TypeOK, SomebodyRuns, PC
  <1>12. CASE KeepHolding
    <2>1. current # NULL /\ current \in Procs /\ pc = "release"
      BY <1>1, <1>12 DEF KeepHolding, SomebodyRuns, TypeOK
    <2> DEFINE h == holding[current]
    <2> DEFINE e == [h[cursor] EXCEPT !.duration = @ - 1]
    <2>2. h \in Seq(Request) /\ cursor \in Nat \ {0} /\ cursor <= Len(h)
      BY <1>1, <1>12, <2>1 DEF KeepHolding, TypeOK
    <2>3. cursor \in DOMAIN h /\ h[cursor] \in Request
      BY <2>2
    <2>4. e \in Request
      BY <2>3 DEF Request
    <2>5. [h EXCEPT ![cursor] = e] \in Seq(Request)
      <3> HIDE DEF h, e
      <3> QED BY <2>2, <2>3, <2>4, ExceptSeq
    <2>6. holding' = [holding EXCEPT ![current] = [h EXCEPT ![cursor] = e]]
      BY <1>12 DEF KeepHolding
    <2>7. holding' \in [Procs -> Seq(Request)]
      <3> HIDE DEF h, e
      <3> QED BY <1>1, <2>1, <2>5, <2>6 DEF TypeOK
    <2>8. cursor' \in Nat \ {0}
      BY <2>2, <1>12 DEF KeepHolding
    <2> QED BY <1>1, <1>12, <2>7, <2>8 DEF KeepHolding, TypeInv, TypeOK, SomebodyRuns
  <1>13. CASE Release
    <2>1. current # NULL /\ current \in Procs /\ pc = "release"
      BY <1>1, <1>13 DEF Release, SomebodyRuns, TypeOK
    <2> DEFINE h == holding[current]
    <2>2. h \in Seq(Request) /\ cursor \in Nat \ {0} /\ cursor <= Len(h)
      BY <1>1, <1>13, <2>1 DEF Release, TypeOK
    <2>3. cursor \in DOMAIN h /\ h[cursor] \in Request
      BY <2>2
    <2>4. RemoveAt(h, cursor) \in Seq(Request)
      <3> HIDE DEF h
      <3> QED BY <2>2, <2>3, QueueTypes
    <2>5. Entry.resource_id \in Resources
      BY <2>3 DEF Entry, Request
    <2>6. /\ WakeOne(Entry.resource_id) /\ prio' \in [Procs -> Nat]
      BY <1>1, <1>13, <2>1, <2>5, ReleaseShape DEF Release
    <2>7. /\ owner' \in [Resources -> Procs \cup {NULL}]
          /\ status' \in [Procs -> Status]
          /\ readyqueue' \in Seq(Procs)
          /\ waitqueue' \in [Resources -> Seq(Procs)]
      BY <1>1, <2>5, <2>6, WakeTypes
    <2>8. holding' \in [Procs -> Seq(Request)]
      BY <1>1, <1>13, <2>1, <2>4 DEF Release, TypeOK
    <2> QED BY <1>1, <1>13, <2>6, <2>7, <2>8 DEF Release, TypeInv, TypeOK, SomebodyRuns
  <1>14. CASE ReleaseAborts
    BY <1>1, <1>14 DEF ReleaseAborts, TypeInv, TypeOK, SomebodyRuns, PC
  <1>15. CASE EndTick
    BY <1>1, <1>6, <1>15 DEF EndTick, TypeInv, TypeOK, SomebodyRuns, PC
  <1>16. CASE UNCHANGED vars
    BY <1>1, <1>16 DEF vars, TypeInv, TypeOK, SomebodyRuns
  <1> QED BY <1>2, <1>3, <1>4, <1>5, <1>7, <1>8, <1>9, <1>10, <1>11, <1>12, <1>13,
             <1>14, <1>15, <1>16 DEF Next

(* Every variable always has its type, whatever the processes, resources,  *)
(* policies and scripts: no callback writes NULL where a process has to be *)
(* (owner, the lists), and unsigned arithmetic stays unsigned.             *)
THEOREM TypeCorrect == Spec => []TypeOK
  <1>1. TypeInv => TypeOK
    BY DEF TypeInv
  <1> QED BY <1>1, TypeInit, TypeStep, PTL DEF Spec

(***************************************************************************)
(* No process is linked twice: proofs for every policy and every script,   *)
(* sound or not                                                            *)
(***************************************************************************)
(* Who is on a wait queue has the status WAIT.                             *)
WaitersWait == \A r \in Resources : \A p \in Range(waitqueue[r]) : status[p] = "WAIT"

(* The current process is never in the fork or the ready queue; between    *)
(* schedule() and the end of the tick it is in no queue, whatever its      *)
(* status: this is what a refusal that queues it needs.                    *)
CurrentDetached ==
    /\ current \notin Range(forkqueue) \cup Range(readyqueue)
    /\ pc \in {"retire", "dispatch", "acquire", "release"} /\ current # NULL
         => ~Attached(current)

ListInv == ListIntegrity /\ WaitersWait /\ CurrentDetached

(* What the lists of ListIntegrity say, one list at a time.                *)
LEMMA ListFacts ==
    ASSUME TypeOK, ListIntegrity
    PROVE  /\ forkqueue \in Seq(Procs) /\ readyqueue \in Seq(Procs)
           /\ Range(forkqueue) \subseteq Procs /\ Range(readyqueue) \subseteq Procs
           /\ \A r \in Resources : /\ waitqueue[r] \in Seq(Procs)
                                   /\ IsInjective(waitqueue[r])
                                   /\ Range(waitqueue[r]) \subseteq Procs
           /\ \A p \in Range(readyqueue) : p \notin Range(forkqueue)
           /\ \A r \in Resources : \A p \in Range(waitqueue[r]) :
                p \notin Range(forkqueue) /\ p \notin Range(readyqueue)
           /\ \A r, s \in Resources : \A p \in Range(waitqueue[r]) :
                p \in Range(waitqueue[s]) => r = s
  <1>1. /\ forkqueue \in Seq(Procs) /\ readyqueue \in Seq(Procs)
        /\ \A r \in Resources : waitqueue[r] \in Seq(Procs)
    BY DEF TypeOK
  <1>2. \A s \in Seq(Procs) : Range(s) \subseteq Procs
    BY DEF Range
  <1> QED BY <1>1, <1>2 DEF ListIntegrity

LEMMA ListInit == Init => ListInv
  <1> SUFFICES ASSUME Init PROVE ListInv
    OBVIOUS
  <1>1. Range(<<>>) = {} /\ IsInjective(<<>>)
    BY DEF Range, IsInjective
  <1>2. IsInjective(forkqueue) /\ Range(forkqueue) = Procs
    BY FileOrderAssumption DEF Init
  <1>3. current = NULL /\ pc = "fork"
    BY DEF Init
  <1>4. readyqueue = <<>> /\ \A r \in Resources : waitqueue[r] = <<>>
    BY DEF Init
  <1>5. Range(readyqueue) = {} /\ IsInjective(readyqueue)
    BY <1>1, <1>4
  <1>6. \A r \in Resources : Range(waitqueue[r]) = {} /\ IsInjective(waitqueue[r])
    BY <1>1, <1>4
  <1> QED BY <1>2, <1>3, <1>5, <1>6
          DEF ListInv, ListIntegrity, WaitersWait, CurrentDetached

(* The queues and the current process after schedule(): who is there was   *)
(* ready, or was the current process and is not blocked.                   *)
LEMMA ScheduleLists ==
    ASSUME TypeOK, ListInv, ScheduleShape
    PROVE  /\ IsInjective(readyqueue')
           /\ current' \notin Range(readyqueue')
           /\ \A p \in Range(readyqueue') \cup {current'} :
                \/ p \in Range(readyqueue)
                \/ p = NULL /\ p = current'
                \/ p = current /\ p # NULL /\ MayContinue
  <1>1. /\ readyqueue \in Seq(Procs) /\ IsInjective(readyqueue)
        /\ current \notin Range(readyqueue) /\ NULL \notin Range(readyqueue)
        /\ current \in Procs \cup {NULL}
    BY ListFacts DEF TypeOK, ListInv, ListIntegrity, CurrentDetached
  <1>2. MayContinue => current # NULL
    BY DEF MayContinue
  <1>3. ASSUME NEW q \in Seq(Procs), IsInjective(q), NEW i \in DOMAIN q,
               current' = q[i], readyqueue' = RemoveAt(q, i)
        PROVE  /\ IsInjective(readyqueue') /\ current' \notin Range(readyqueue')
               /\ Range(readyqueue') \cup {current'} = Range(q)
    <2>1. i \in 1 .. Len(q)
      BY <1>3
    <2>2. IsInjective(RemoveAt(q, i)) /\ Range(RemoveAt(q, i)) = Range(q) \ {q[i]}
      BY <1>3, <2>1, RemoveAtRange
    <2>3. q[i] \in Range(q)
      BY DEF Range
    <2> QED BY <1>3, <2>2, <2>3
  <1>4. CASE MayContinue /\ current' = current /\ readyqueue' = readyqueue
    BY <1>1, <1>2, <1>4
  <1>5. CASE MayContinue /\ TakesWithCurrent
    <2> DEFINE q == Append(readyqueue, current)
    <2>1. q \in Seq(Procs) /\ IsInjective(q) /\ Range(q) = Range(readyqueue) \cup {current}
      BY <1>1, <1>2, <1>5, AppendRange
    <2>2. \E i \in DOMAIN q : current' = q[i] /\ readyqueue' = RemoveAt(q, i)
      BY <1>5 DEF TakesWithCurrent, TakeFrom
    <2> HIDE DEF q
    <2>3. /\ IsInjective(readyqueue') /\ current' \notin Range(readyqueue')
          /\ Range(readyqueue') \cup {current'} = Range(q)
      BY <2>1, <2>2, <1>3
    <2> QED BY <2>1, <2>3, <1>2, <1>5
  <1>6. CASE TakesReady
    <2>1. \E i \in DOMAIN readyqueue :
            current' = readyqueue[i] /\ readyqueue' = RemoveAt(readyqueue, i)
      BY <1>6 DEF TakesReady, TakeFrom
    <2>2. /\ IsInjective(readyqueue') /\ current' \notin Range(readyqueue')
          /\ Range(readyqueue') \cup {current'} = Range(readyqueue)
      BY <2>1, <1>1, <1>3
    <2> QED BY <2>2
  <1>7. CASE current' = NULL /\ readyqueue' = readyqueue
    BY <1>1, <1>7
  <1> QED BY <1>4, <1>5, <1>6, <1>7 DEF ScheduleShape

(* The queues after a release.                                             *)
LEMMA WakeLists ==
    ASSUME TypeOK, ListInv, NEW r \in Resources, WakeOne(r)
    PROVE  \/ UNCHANGED <<status, readyqueue, waitqueue>>
           \/ \E w \in Range(waitqueue[r]) :
                /\ status' = [status EXCEPT ![w] = "READY"]
                /\ IsInjective(readyqueue')
                /\ Range(readyqueue') = Range(readyqueue) \cup {w}
                /\ IsInjective(waitqueue'[r])
                /\ Range(waitqueue'[r]) = Range(waitqueue[r]) \ {w}
                /\ \A s \in Resources \ {r} : waitqueue'[s] = waitqueue[s]
  <1> DEFINE q == waitqueue[r]
  <1> SUFFICES ASSUME ~UNCHANGED <<status, readyqueue, waitqueue>>
               PROVE  \E w \in Range(q) :
                        /\ status' = [status EXCEPT ![w] = "READY"]
                        /\ IsInjective(readyqueue')
                        /\ Range(readyqueue') = Range(readyqueue) \cup {w}
                        /\ IsInjective(waitqueue'[r])
                        /\ Range(waitqueue'[r]) = Range(q) \ {w}
                        /\ \A s \in Resources \ {r} : waitqueue'[s] = waitqueue[s]
    OBVIOUS
  <1>1. PICK i \in DOMAIN q :
          /\ status' = [status EXCEPT ![q[i]] = "READY"]
          /\ readyqueue' = Append(readyqueue, q[i])
          /\ waitqueue' = [waitqueue EXCEPT ![r] = RemoveAt(q, i)]
    BY DEF WakeOne
  <1>2. /\ q \in Seq(Procs) /\ IsInjective(q)
        /\ readyqueue \in Seq(Procs) /\ IsInjective(readyqueue)
        /\ \A p \in Range(q) : p \notin Range(readyqueue)
        /\ waitqueue \in [Resources -> Seq(Procs)]
    BY ListFacts DEF ListInv, ListIntegrity, TypeOK
  <1>3. waitqueue'[r] = RemoveAt(q, i) /\ \A s \in Resources \ {r} : waitqueue'[s] = waitqueue[s]
    BY <1>1, <1>2
  <1> HIDE DEF q
  <1>4. q[i] \in Range(q) /\ q[i] \in Procs /\ i \in 1 .. Len(q)
    BY <1>1, <1>2 DEF Range
  <1>5. IsInjective(RemoveAt(q, i)) /\ Range(RemoveAt(q, i)) = Range(q) \ {q[i]}
    BY <1>2, <1>4, RemoveAtRange
  <1>6. /\ Range(Append(readyqueue, q[i])) = Range(readyqueue) \cup {q[i]}
        /\ IsInjective(Append(readyqueue, q[i]))
    BY <1>2, <1>4, AppendRange
  <1> QED BY <1>1, <1>3, <1>4, <1>5, <1>6

(* A step that leaves the queues and the current process alone.            *)
LEMMA ListsUnchanged ==
    ASSUME TypeOK, ListInv,
           forkqueue' = forkqueue, readyqueue' = readyqueue,
           waitqueue' = waitqueue, current' = current,
           \A r \in Resources : \A p \in Range(waitqueue[r]) : status'[p] = "WAIT",
           current # NULL /\ (\/ status'[current] # "WAIT"
                              \/ pc' \in {"retire", "dispatch", "acquire", "release"})
             => ~Attached(current)
    PROVE  ListInv'
  <1>1. Attached(current)' <=> Attached(current)
    BY DEF Attached
  <1>2. ListIntegrity'
    BY <1>1 DEF ListInv, ListIntegrity
  <1>3. WaitersWait'
    BY DEF WaitersWait
  <1>4. CurrentDetached'
    BY <1>1 DEF ListInv, CurrentDetached
  <1> QED BY <1>2, <1>3, <1>4 DEF ListInv

(* Detached(p): a way to say ~Attached(p) that is easy to use after a step. *)
LEMMA DetachedFacts ==
    ASSUME NEW p
    PROVE  ~Attached(p) <=> /\ p \notin Range(forkqueue)
                            /\ p \notin Range(readyqueue)
                            /\ \A r \in Resources : p \notin Range(waitqueue[r])
  BY DEF Attached

LEMMA ListFork == ASSUME TypeInv, ListInv, Fork PROVE ListInv'
  <1>1. PICK i \in DOMAIN forkqueue :
          /\ forkqueue' = RemoveAt(forkqueue, i)
          /\ readyqueue' = Append(readyqueue, forkqueue[i])
          /\ status' = [status EXCEPT ![forkqueue[i]] = "READY"]
    BY DEF Fork
  <1> DEFINE p == forkqueue[i]
  <1>2. TypeOK /\ ListIntegrity /\ WaitersWait /\ CurrentDetached
    BY DEF TypeInv, ListInv
  <1>3. /\ pc = "fork" /\ pc' = pc
        /\ current' = current /\ waitqueue' = waitqueue
    BY DEF Fork, loopVars
  <1>4. /\ forkqueue \in Seq(Procs) /\ readyqueue \in Seq(Procs)
        /\ IsInjective(forkqueue) /\ IsInjective(readyqueue)
        /\ p \in Range(forkqueue) /\ p \in Procs /\ p \notin Range(readyqueue)
        /\ i \in 1 .. Len(forkqueue)
        /\ status \in [Procs -> Status]
    <2>1. p \in Range(forkqueue)
      BY DEF Range
    <2>2. forkqueue \in Seq(Procs) /\ readyqueue \in Seq(Procs) /\ i \in 1 .. Len(forkqueue)
      BY <1>2, ListFacts
    <2>3. IsInjective(forkqueue) /\ IsInjective(readyqueue) /\ p \notin Range(readyqueue)
      BY <2>1, <1>2 DEF ListIntegrity
    <2> QED BY <2>1, <2>2, <2>3, <1>2 DEF TypeOK
  <1>5. IsInjective(forkqueue') /\ Range(forkqueue') = Range(forkqueue) \ {p}
    BY <1>1, <1>4, RemoveAtRange
  <1>6. IsInjective(readyqueue') /\ Range(readyqueue') = Range(readyqueue) \cup {p}
    BY <1>1, <1>4, AppendRange
  <1>7. current # p /\ \A q \in Procs \ {p} : status'[q] = status[q]
    BY <1>1, <1>2, <1>4 DEF CurrentDetached
  <1> HIDE DEF p
  <1>8. WaitersWait'
    <2>1. \A r \in Resources : \A q \in Range(waitqueue[r]) : q \in Procs \ {p}
      BY <1>2, <1>4, ListFacts
    <2> QED BY <2>1, <1>2, <1>3, <1>7 DEF WaitersWait
  <1>9. CurrentDetached'
    BY <1>2, <1>3, <1>5, <1>6, <1>7 DEF CurrentDetached
  <1>10. ListIntegrity'
    <2>1. Range(forkqueue') \cap Range(readyqueue') = {}
      BY <1>2, <1>5, <1>6 DEF ListIntegrity
    <2>2. \A r \in Resources :
            Range(waitqueue[r]) \cap (Range(forkqueue') \cup Range(readyqueue')) = {}
      BY <1>2, <1>4, <1>5, <1>6 DEF ListIntegrity
    <2>3. current # NULL /\ status'[current] # "WAIT" => ~Attached(current)'
      <3> SUFFICES ASSUME current # NULL, status'[current] # "WAIT"
                   PROVE  ~Attached(current)'
        OBVIOUS
      <3>1. ~Attached(current)
        BY <1>2, <1>7 DEF ListIntegrity, TypeOK
      <3>2. /\ current \notin Range(forkqueue') /\ current \notin Range(readyqueue')
            /\ \A r \in Resources : current \notin Range(waitqueue[r])
        BY <3>1, <1>5, <1>6, <1>7, DetachedFacts
      <3> QED BY <3>2, <1>3 DEF Attached
    <2> QED BY <2>1, <2>2, <2>3, <1>2, <1>3, <1>5, <1>6 DEF ListIntegrity
  <1> QED BY <1>8, <1>9, <1>10 DEF ListInv

LEMMA ListSchedule == ASSUME TypeInv, ListInv, Schedule PROVE ListInv'
  <1>1. TypeOK /\ ListIntegrity /\ WaitersWait /\ CurrentDetached
    BY DEF TypeInv, ListInv
  <1>2. /\ IsInjective(readyqueue') /\ current' \notin Range(readyqueue')
        /\ \A p \in Range(readyqueue') \cup {current'} :
             \/ p \in Range(readyqueue)
             \/ p = NULL /\ p = current'
             \/ p = current /\ p # NULL /\ MayContinue
    BY <1>1, SchedScheduleShape, ScheduleLists DEF Schedule
  <1>3. forkqueue' = forkqueue /\ waitqueue' = waitqueue /\ status' = status
    BY DEF Schedule
  <1>4. current # NULL /\ MayContinue => ~Attached(current)
    BY <1>1 DEF MayContinue, ListIntegrity
  <1>5. \A p \in Range(readyqueue') \cup {current'} :
          p = NULL \/ (/\ p \notin Range(forkqueue)
                       /\ \A r \in Resources : p \notin Range(waitqueue[r]))
    BY <1>1, <1>2, <1>4, ListFacts, DetachedFacts
  <1>6. NULL \notin Range(forkqueue)
    BY <1>1, ListFacts
  <1>7. NULL \notin Range(readyqueue')
    <2>1. readyqueue' \in Seq(Procs)
      BY <1>1, SchedScheduleShape, ScheduleTypes DEF Schedule
    <2> QED BY <2>1 DEF Range
  <1>8. current' # NULL => ~Attached(current)'
    BY <1>2, <1>3, <1>5 DEF Attached
  <1>9. WaitersWait'
    BY <1>1, <1>3 DEF WaitersWait
  <1>10. CurrentDetached'
    BY <1>2, <1>3, <1>5, <1>6, <1>8 DEF CurrentDetached
  <1>11. ListIntegrity'
    <2>1. /\ Range(forkqueue) \cap Range(readyqueue') = {}
          /\ \A r \in Resources :
               Range(waitqueue[r]) \cap (Range(forkqueue) \cup Range(readyqueue')) = {}
      BY <1>1, <1>5, <1>7 DEF ListIntegrity
    <2> QED BY <2>1, <1>1, <1>2, <1>3, <1>8 DEF ListIntegrity
  <1> QED BY <1>9, <1>10, <1>11 DEF ListInv

LEMMA ListRefused == ASSUME TypeInv, ListInv, Refused PROVE ListInv'
  <1>1. TypeOK /\ ListIntegrity /\ WaitersWait /\ CurrentDetached
    BY DEF TypeInv, ListInv
  <1>2. PICK i \in DOMAIN to_acquire[current] :
          SchedAcquire(to_acquire[current][i].resource_id, FALSE)
    BY DEF Refused
  <1> DEFINE r == to_acquire[current][i].resource_id
  <1>3. /\ current # NULL /\ current \in Procs /\ r \in Resources
        /\ ~Attached(current)
    <2>1. current # NULL /\ current \in Procs /\ pc = "acquire"
      BY <1>1 DEF Refused, TypeInv, SomebodyRuns, TypeOK
    <2>2. to_acquire[current][i] \in Request
      BY <1>1, <1>2, <2>1 DEF TypeOK
    <2> QED BY <2>1, <2>2, <1>1 DEF Request, CurrentDetached
  <1>4. /\ status' = [status EXCEPT ![current] = "WAIT"]
        /\ \/ waitqueue' = waitqueue
           \/ waitqueue' = [waitqueue EXCEPT ![r] = Append(@, current)]
    BY <1>1, <1>2, <1>3, RefuseShape
  <1>5. /\ forkqueue' = forkqueue /\ readyqueue' = readyqueue /\ current' = current
        /\ pc' = "fork"
    BY DEF Refused, Tick
  <1> HIDE DEF r
  <1>6. /\ status'[current] = "WAIT"
        /\ \A p \in Procs \ {current} : status'[p] = status[p]
    BY <1>1, <1>3, <1>4 DEF TypeOK, Status
  <1>7. CASE waitqueue' = waitqueue
    <2>1. \A s \in Resources : \A p \in Range(waitqueue[s]) : status'[p] = "WAIT"
      BY <1>1, <1>3, <1>6, ListFacts, DetachedFacts DEF WaitersWait
    <2>2. current # NULL /\ (\/ status'[current] # "WAIT"
                             \/ pc' \in {"retire", "dispatch", "acquire", "release"})
            => ~Attached(current)
      BY <1>3
    <2> QED BY <2>1, <2>2, <1>1, <1>5, <1>7, ListsUnchanged
  <1>8. CASE waitqueue' = [waitqueue EXCEPT ![r] = Append(@, current)]
    <2>1. /\ IsInjective(waitqueue'[r])
          /\ Range(waitqueue'[r]) = Range(waitqueue[r]) \cup {current}
      <3>1. /\ waitqueue[r] \in Seq(Procs) /\ IsInjective(waitqueue[r])
            /\ current \notin Range(waitqueue[r])
        BY <1>1, <1>3, ListFacts, DetachedFacts
      <3>2. waitqueue'[r] = Append(waitqueue[r], current)
        BY <1>1, <1>3, <1>8 DEF TypeOK
      <3> QED BY <1>3, <3>1, <3>2, AppendRange
    <2>2. \A s \in Resources \ {r} : waitqueue'[s] = waitqueue[s]
      BY <1>1, <1>8 DEF TypeOK
    <2>3. WaitersWait'
      <3>1. \A s \in Resources : \A p \in Range(waitqueue[s]) :
              p \in Procs \ {current} /\ status'[p] = "WAIT"
        BY <1>1, <1>3, <1>6, ListFacts, DetachedFacts DEF WaitersWait
      <3>2. \A s \in Resources : \A p \in Range(waitqueue'[s]) : status'[p] = "WAIT"
        BY <3>1, <2>1, <2>2, <1>6
      <3> QED BY <3>2 DEF WaitersWait
    <2>4. CurrentDetached'
      BY <1>1, <1>5 DEF CurrentDetached
    <2>5. ListIntegrity'
      <3>1. \A s \in Resources : IsInjective(waitqueue'[s])
        BY <1>1, <2>1, <2>2 DEF ListIntegrity
      <3>2. \A s \in Resources :
              Range(waitqueue'[s]) \cap (Range(forkqueue) \cup Range(readyqueue)) = {}
        BY <1>1, <1>3, <2>1, <2>2, DetachedFacts DEF ListIntegrity
      <3>3. \A s \in Resources : \A t \in Resources \ {s} :
              Range(waitqueue'[s]) \cap Range(waitqueue'[t]) = {}
        BY <1>1, <1>3, <2>1, <2>2, DetachedFacts DEF ListIntegrity
      <3> QED BY <3>1, <3>2, <3>3, <1>1, <1>5, <1>6 DEF ListIntegrity
    <2> QED BY <2>3, <2>4, <2>5 DEF ListInv
  <1> QED BY <1>4, <1>7, <1>8

LEMMA ListRelease == ASSUME TypeInv, ListInv, Release PROVE ListInv'
  <1>1. TypeOK /\ ListIntegrity /\ WaitersWait /\ CurrentDetached
    BY DEF TypeInv, ListInv
  <1> DEFINE r == Entry.resource_id
  <1>2. /\ current # NULL /\ current \in Procs /\ r \in Resources
        /\ pc = "release" /\ ~Attached(current)
    <2>1. current # NULL /\ current \in Procs /\ pc = "release"
      BY <1>1 DEF Release, TypeInv, SomebodyRuns, TypeOK
    <2>2. cursor \in Nat \ {0} /\ cursor <= Len(holding[current])
          /\ holding[current] \in Seq(Request)
      BY <1>1, <2>1 DEF Release, TypeOK
    <2>3. holding[current][cursor] \in Request
      BY <2>2
    <2> QED BY <2>1, <2>3, <1>1 DEF Entry, Request, CurrentDetached
  <1>3. WakeOne(r)
    BY <1>1, <1>2, ReleaseShape DEF Release
  <1>4. /\ forkqueue' = forkqueue /\ current' = current /\ pc' = pc
    BY DEF Release, loopVars
  <1> HIDE DEF r
  <1>5. CASE UNCHANGED <<status, readyqueue, waitqueue>>
    <2>1. \A s \in Resources : \A p \in Range(waitqueue[s]) : status'[p] = "WAIT"
      BY <1>1, <1>5 DEF WaitersWait
    <2> QED BY <2>1, <1>1, <1>2, <1>4, <1>5, ListsUnchanged
  <1>6. CASE ~UNCHANGED <<status, readyqueue, waitqueue>>
    <2>1. PICK w \in Range(waitqueue[r]) :
            /\ status' = [status EXCEPT ![w] = "READY"]
            /\ IsInjective(readyqueue')
            /\ Range(readyqueue') = Range(readyqueue) \cup {w}
            /\ IsInjective(waitqueue'[r])
            /\ Range(waitqueue'[r]) = Range(waitqueue[r]) \ {w}
            /\ \A s \in Resources \ {r} : waitqueue'[s] = waitqueue[s]
      BY <1>1, <1>2, <1>3, <1>6, WakeLists
    <2>2. /\ w \in Procs /\ w # current
          /\ w \notin Range(forkqueue) /\ w \notin Range(readyqueue)
          /\ \A s \in Resources \ {r} : w \notin Range(waitqueue[s])
      <3>1. w \in Procs /\ w \notin Range(forkqueue) /\ w \notin Range(readyqueue)
        BY <1>1, <1>2, <2>1, ListFacts
      <3>2. \A s \in Resources : w \in Range(waitqueue[s]) => r = s
        BY <1>1, <1>2, <2>1, ListFacts
      <3>3. w # current
        BY <1>2, <2>1, DetachedFacts
      <3> QED BY <3>1, <3>2, <3>3
    <2>3. \A p \in Procs \ {w} : status'[p] = status[p]
      BY <1>1, <2>1, <2>2 DEF TypeOK
    <2>4. \A s \in Resources : /\ IsInjective(waitqueue'[s])
                               /\ w \notin Range(waitqueue'[s])
                               /\ Range(waitqueue'[s]) \subseteq Range(waitqueue[s])
      BY <1>1, <2>1, <2>2 DEF ListIntegrity
    <2>5. WaitersWait'
      <3>1. \A s \in Resources : \A p \in Range(waitqueue'[s]) :
              p \in Procs \ {w} /\ status[p] = "WAIT"
        BY <1>1, <2>4, ListFacts DEF WaitersWait
      <3>2. \A s \in Resources : \A p \in Range(waitqueue'[s]) : status'[p] = "WAIT"
        BY <3>1, <2>3
      <3> QED BY <3>2 DEF WaitersWait
    <2>6. ~Attached(current)'
      <3>1. /\ current \notin Range(forkqueue)
            /\ current \notin Range(readyqueue')
            /\ \A s \in Resources : current \notin Range(waitqueue'[s])
        BY <1>2, <2>1, <2>2, <2>4, DetachedFacts
      <3> QED BY <3>1, <1>4 DEF Attached
    <2>7. CurrentDetached'
      BY <1>1, <1>4, <2>1, <2>2, <2>6 DEF CurrentDetached
    <2>8. ListIntegrity'
      <3>1. Range(forkqueue) \cap Range(readyqueue') = {}
        BY <1>1, <2>1, <2>2 DEF ListIntegrity
      <3>2. \A s \in Resources :
              Range(waitqueue'[s]) \cap (Range(forkqueue) \cup Range(readyqueue')) = {}
        BY <1>1, <2>1, <2>4 DEF ListIntegrity
      <3>3. \A s \in Resources : \A t \in Resources \ {s} :
              Range(waitqueue'[s]) \cap Range(waitqueue'[t]) = {}
        BY <1>1, <2>4 DEF ListIntegrity
      <3> QED BY <3>1, <3>2, <3>3, <1>1, <1>4, <2>1, <2>4, <2>6 DEF ListIntegrity
    <2> QED BY <2>5, <2>7, <2>8 DEF ListInv
  <1> QED BY <1>5, <1>6

(* The steps that only change statuses: they make nobody who waits run.    *)
LEMMA ListRetire == ASSUME TypeInv, ListInv, Retire PROVE ListInv'
  <1>1. TypeOK /\ ListIntegrity /\ WaitersWait /\ CurrentDetached
    BY DEF TypeInv, ListInv
  <1>2. /\ forkqueue' = forkqueue /\ readyqueue' = readyqueue
        /\ waitqueue' = waitqueue /\ current' = current /\ pc = "retire"
    BY DEF Retire, queueVars
  <1>3. \/ status' = status
        \/ /\ prev # NULL /\ ~Attached(prev)
           /\ status' = [status EXCEPT ![prev] = "EXIT"]
        \/ /\ prev # NULL
           /\ status' = [status EXCEPT ![prev] = IF @ = "RUNNING" THEN "READY" ELSE @]
    BY DEF Retire, ExitAsserts
  <1>4. prev \in Procs \cup {NULL} /\ status \in [Procs -> Status]
    BY <1>1 DEF TypeOK
  <1>5. \A p \in Procs : status[p] = "WAIT" /\ p # prev => status'[p] = "WAIT"
    BY <1>3, <1>4
  <1>6. \A r \in Resources : \A p \in Range(waitqueue[r]) :
          p = prev => status'[p] = "WAIT"
    BY <1>1, <1>3, <1>4, DetachedFacts DEF WaitersWait
  <1>7. \A r \in Resources : \A p \in Range(waitqueue[r]) : status'[p] = "WAIT"
    BY <1>1, <1>5, <1>6, ListFacts DEF WaitersWait
  <1>8. current # NULL => ~Attached(current)
    BY <1>1, <1>2 DEF CurrentDetached
  <1> QED BY <1>1, <1>2, <1>7, <1>8, ListsUnchanged

LEMMA ListDispatch == ASSUME TypeInv, ListInv, Dispatch PROVE ListInv'
  <1>1. TypeOK /\ ListIntegrity /\ WaitersWait /\ CurrentDetached
    BY DEF TypeInv, ListInv
  <1>2. /\ forkqueue' = forkqueue /\ readyqueue' = readyqueue
        /\ waitqueue' = waitqueue /\ current' = current
        /\ pc = "dispatch" /\ current # NULL
        /\ status' = [status EXCEPT ![current] = "RUNNING"]
    BY DEF Dispatch, queueVars
  <1>3. ~Attached(current)
    BY <1>1, <1>2 DEF CurrentDetached
  <1>4. current \in Procs /\ status \in [Procs -> Status]
    BY <1>1, <1>2 DEF TypeOK
  <1>5. \A p \in Procs \ {current} : status'[p] = status[p]
    BY <1>2, <1>4
  <1>6. \A r \in Resources : \A p \in Range(waitqueue[r]) : status'[p] = "WAIT"
    BY <1>1, <1>3, <1>5, ListFacts, DetachedFacts DEF WaitersWait
  <1> QED BY <1>1, <1>2, <1>3, <1>6, ListsUnchanged

LEMMA ListGranted == ASSUME TypeInv, ListInv, Granted PROVE ListInv'
  <1>1. TypeOK /\ ListIntegrity /\ WaitersWait /\ CurrentDetached
    BY DEF TypeInv, ListInv
  <1>2. /\ forkqueue' = forkqueue /\ readyqueue' = readyqueue
        /\ current' = current /\ pc = "acquire" /\ current # NULL
    BY DEF Granted, TypeInv, SomebodyRuns
  <1>3. PICK i \in DOMAIN to_acquire[current] :
          SchedAcquire(to_acquire[current][i].resource_id, TRUE)
    BY DEF Granted
  <1> DEFINE r == to_acquire[current][i].resource_id
  <1>4. r \in Resources
    <2>1. to_acquire[current] \in Seq(Request)
      BY <1>1, <1>2 DEF TypeOK
    <2>2. to_acquire[current][i] \in Request
      BY <1>3, <2>1
    <2> QED BY <2>2 DEF Request
  <1>5. status' = status /\ waitqueue' = waitqueue
    BY <1>1, <1>2, <1>3, <1>4, GrantShape
  <1>6. \A s \in Resources : \A p \in Range(waitqueue[s]) : status'[p] = "WAIT"
    BY <1>1, <1>5 DEF WaitersWait
  <1>7. ~Attached(current)
    BY <1>1, <1>2 DEF CurrentDetached
  <1> QED BY <1>1, <1>2, <1>5, <1>6, <1>7, ListsUnchanged

LEMMA ListOthers ==
    ASSUME TypeInv, ListInv,
           \/ Quit \/ Idle \/ Progress \/ KeepHolding \/ ReleaseAborts \/ EndTick
           \/ UNCHANGED vars
    PROVE  ListInv'
  <1>1. TypeOK /\ ListIntegrity /\ WaitersWait /\ CurrentDetached
    BY DEF TypeInv, ListInv
  <1>2. /\ forkqueue' = forkqueue /\ readyqueue' = readyqueue
        /\ waitqueue' = waitqueue /\ current' = current /\ status' = status
    BY DEF Quit, Idle, Progress, KeepHolding, ReleaseAborts, EndTick, vars,
           queueVars, processVars
  <1>3. \A s \in Resources : \A p \in Range(waitqueue[s]) : status'[p] = "WAIT"
    BY <1>1, <1>2 DEF WaitersWait
  <1>4. pc' = pc \/ current = NULL \/ pc \in {"acquire", "release"}
    BY DEF Quit, Idle, Progress, KeepHolding, ReleaseAborts, EndTick, vars, loopVars
  <1>5. current # NULL /\ (\/ status'[current] # "WAIT"
                           \/ pc' \in {"retire", "dispatch", "acquire", "release"})
          => ~Attached(current)
    BY <1>1, <1>2, <1>4 DEF CurrentDetached, ListIntegrity
  <1> QED BY <1>1, <1>2, <1>3, <1>5, ListsUnchanged

LEMMA ListStep == TypeInv /\ ListInv /\ [Next]_vars => ListInv'
  BY ListFork, ListSchedule, ListRetire, ListDispatch, ListGranted, ListRefused,
     ListRelease, ListOthers DEF Next

(* A process is linked into at most one of the queues, and once; the       *)
(* running process is linked into none: so for every policy, with every    *)
(* script, list_add_tail is only given a process whose list_head is free   *)
(* and list_del_init takes each process from the list it is on.            *)
THEOREM ListsIntact == Spec => []ListIntegrity
  <1>1. ListInv => ListIntegrity
    BY DEF ListInv
  <1> QED BY <1>1, TypeInit, TypeStep, ListInit, ListStep, PTL DEF Spec

(***************************************************************************)
(* free(p) at exit leaves no pointer to p behind: proofs for every policy  *)
(* and every script, sound or not                                          *)
(***************************************************************************)
(* The processes some list or the pointer current leads to. *)
Live == {p \in Procs : p = current \/ Attached(p)}

LiveUnfinished == \A p \in Live : status[p] # "EXIT"

(* Who owns a resource has it in the list of what it holds.                *)
OwnersHold == \A r \in Resources : owner[r] # NULL =>
    /\ status[owner[r]] # "EXIT"
    /\ \E i \in DOMAIN holding[owner[r]] : holding[owner[r]][i].resource_id = r

(* The process that exits in this tick is not the one that runs in it.     *)
PrevLeft == pc = "retire" /\ prev # NULL /\ age[prev] = Lifespan(prev)
              => current # prev

FreeInv == LiveUnfinished /\ OwnersHold /\ PrevLeft
Inv == TypeInv /\ ListInv /\ FreeInv

LEMMA FreeInit == Init => FreeInv
  BY DEF Init, FreeInv, LiveUnfinished, OwnersHold, PrevLeft, Live

(***************************************************************************)
(* How the three parts survive a step                                      *)
(***************************************************************************)
NoExit == \A p \in Procs : status'[p] = "EXIT" => status[p] = "EXIT"

LEMMA LiveStays ==
    ASSUME LiveUnfinished, NoExit, Live' \subseteq Live
    PROVE  LiveUnfinished'
  BY DEF LiveUnfinished, NoExit, Live

LEMMA OwnersStay ==
    ASSUME TypeOK, OwnersHold, NoExit, owner' = owner, holding' = holding
    PROVE  OwnersHold'
  <1>1. owner \in [Resources -> Procs \cup {NULL}]
    BY DEF TypeOK
  <1> QED BY <1>1 DEF OwnersHold, NoExit

LEMMA PrevStays ==
    ASSUME pc' # "retire"
    PROVE  PrevLeft'
  BY DEF PrevLeft

(* The processes linked into the queues. *)
LEMMA LiveIn ==
    ASSUME \A p \in Procs : p \in Range(forkqueue') => p \in Live,
           \A p \in Procs : p \in Range(readyqueue') => p \in Live,
           \A r \in Resources : \A p \in Procs : p \in Range(waitqueue'[r]) => p \in Live,
           \A p \in Procs : p = current' => p \in Live
    PROVE  Live' \subseteq Live
  <1> SUFFICES ASSUME NEW p \in Live' PROVE p \in Live
    OBVIOUS
  <1>1. p \in Procs /\ (p = current' \/ Attached(p)')
    BY DEF Live
  <1>2. Attached(p)' => \/ p \in Range(forkqueue')
                        \/ p \in Range(readyqueue')
                        \/ \E r \in Resources : p \in Range(waitqueue'[r])
    BY DEF Attached
  <1> QED BY <1>1, <1>2

LEMMA LiveFacts ==
    /\ \A p \in Procs : p \in Range(forkqueue) => p \in Live
    /\ \A p \in Procs : p \in Range(readyqueue) => p \in Live
    /\ \A r \in Resources : \A p \in Procs : p \in Range(waitqueue[r]) => p \in Live
    /\ \A p \in Procs : p = current => p \in Live
  BY DEF Live, Attached

LEMMA FreeFork == ASSUME Inv, Fork PROVE FreeInv'
  <1>1. TypeOK /\ ListInv /\ LiveUnfinished /\ OwnersHold
    BY DEF Inv, FreeInv, TypeInv
  <1>2. PICK i \in DOMAIN forkqueue :
          /\ forkqueue' = RemoveAt(forkqueue, i)
          /\ readyqueue' = Append(readyqueue, forkqueue[i])
          /\ status' = [status EXCEPT ![forkqueue[i]] = "READY"]
    BY DEF Fork
  <1>3. /\ waitqueue' = waitqueue /\ current' = current /\ owner' = owner
        /\ holding' = holding /\ pc' = "fork"
    BY DEF Fork, loopVars
  <1>4. /\ forkqueue \in Seq(Procs) /\ IsInjective(forkqueue)
        /\ readyqueue \in Seq(Procs) /\ status \in [Procs -> Status]
    BY <1>1 DEF TypeOK, ListInv, ListIntegrity
  <1>5. i \in 1 .. Len(forkqueue) /\ forkqueue[i] \in Procs
        /\ forkqueue[i] \in Range(forkqueue)
    BY <1>2, <1>4 DEF Range
  <1>6. Range(forkqueue') = Range(forkqueue) \ {forkqueue[i]}
    BY <1>2, <1>4, <1>5, RemoveAtRange
  <1>7. Range(readyqueue') = Range(readyqueue) \cup {forkqueue[i]}
    BY <1>2, <1>4, <1>5, AppendRange
  <1>8. Live' \subseteq Live
    BY <1>3, <1>5, <1>6, <1>7, LiveFacts, LiveIn
  <1>9. NoExit
    BY <1>2, <1>4 DEF NoExit
  <1> QED BY <1>1, <1>3, <1>8, <1>9, LiveStays, OwnersStay, PrevStays DEF FreeInv

LEMMA FreeSchedule == ASSUME Inv, Schedule PROVE FreeInv'
  <1>1. TypeOK /\ ListInv /\ LiveUnfinished /\ OwnersHold
    BY DEF Inv, FreeInv, TypeInv
  <1>2. /\ \A p \in Range(readyqueue') \cup {current'} :
             \/ p \in Range(readyqueue)
             \/ p = NULL /\ p = current'
             \/ p = current /\ p # NULL /\ MayContinue
    BY <1>1, SchedScheduleShape, ScheduleLists DEF Schedule
  <1>3. /\ forkqueue' = forkqueue /\ waitqueue' = waitqueue /\ status' = status
        /\ owner' = owner /\ holding' = holding /\ prev' = current /\ age' = age
        /\ script' = script
    BY DEF Schedule, configVars
  <1>4. Live' \subseteq Live
    BY <1>2, <1>3, LiveFacts, LiveIn
  <1>5. NoExit
    BY <1>3 DEF NoExit
  <1>6. PrevLeft'
    <2> SUFFICES ASSUME current # NULL, age[current] = Lifespan(current)
                 PROVE  current' # current
      BY <1>3 DEF PrevLeft, Lifespan
    <2>1. current \in Procs /\ age[current] \in Nat /\ current \notin Range(readyqueue)
      BY <1>1 DEF TypeOK, ListInv, CurrentDetached
    <2>2. ~MayContinue
      BY <2>1 DEF MayContinue
    <2> QED BY <1>2, <2>1, <2>2
  <1> QED BY <1>1, <1>3, <1>4, <1>5, <1>6, LiveStays, OwnersStay DEF FreeInv

LEMMA FreeRetire == ASSUME Inv, Retire PROVE FreeInv'
  <1>1. TypeOK /\ ListInv /\ LiveUnfinished /\ OwnersHold /\ PrevLeft
    BY DEF Inv, FreeInv, TypeInv
  <1>2. /\ forkqueue' = forkqueue /\ readyqueue' = readyqueue
        /\ waitqueue' = waitqueue /\ current' = current
        /\ owner' = owner /\ holding' = holding
        /\ pc = "retire" /\ pc' # "retire"
    BY DEF Retire, queueVars
  <1>3. Live' \subseteq Live
    BY <1>2, LiveFacts, LiveIn
  <1>4. status \in [Procs -> Status] /\ prev \in Procs \cup {NULL}
        /\ owner \in [Resources -> Procs \cup {NULL}]
    BY <1>1 DEF TypeOK
  <1>5. CASE /\ prev # NULL /\ Completed(prev) /\ ExitAsserts(prev)
             /\ status' = [status EXCEPT ![prev] = "EXIT"]
    <2>1. current # prev /\ ~Attached(prev) /\ holding[prev] = <<>>
      BY <1>1, <1>2, <1>5 DEF PrevLeft, Completed, ExitAsserts
    <2>2. \A p \in Procs \ {prev} : status'[p] = status[p]
      BY <1>4, <1>5
    <2>3. prev \notin Live
      BY <2>1 DEF Live
    <2>4. LiveUnfinished'
      BY <1>1, <1>3, <2>2, <2>3 DEF LiveUnfinished, Live
    <2>5. \A r \in Resources : owner[r] # NULL => owner[r] # prev
      BY <1>1, <2>1 DEF OwnersHold
    <2>6. OwnersHold'
      BY <1>1, <1>2, <1>4, <2>2, <2>5 DEF OwnersHold
    <2> QED BY <1>2, <2>4, <2>6, PrevStays DEF FreeInv
  <1>6. CASE \/ status' = status
             \/ /\ prev # NULL
                /\ status' = [status EXCEPT ![prev] =
                                 IF @ = "RUNNING" THEN "READY" ELSE @]
    <2>1. NoExit
      BY <1>4, <1>6 DEF NoExit
    <2> QED BY <1>1, <1>2, <1>3, <2>1, LiveStays, OwnersStay, PrevStays DEF FreeInv
  <1> QED BY <1>5, <1>6 DEF Retire

LEMMA FreeDispatch == ASSUME Inv, Dispatch PROVE FreeInv'
  <1>1. TypeOK /\ LiveUnfinished /\ OwnersHold
    BY DEF Inv, FreeInv, TypeInv
  <1>2. /\ forkqueue' = forkqueue /\ readyqueue' = readyqueue
        /\ waitqueue' = waitqueue /\ current' = current
        /\ owner' = owner /\ holding' = holding
        /\ status' = [status EXCEPT ![current] = "RUNNING"] /\ pc' # "retire"
    BY DEF Dispatch, queueVars
  <1>3. Live' \subseteq Live
    BY <1>2, LiveFacts, LiveIn
  <1>4. NoExit
    BY <1>1, <1>2 DEF NoExit, TypeOK
  <1> QED BY <1>1, <1>2, <1>3, <1>4, LiveStays, OwnersStay, PrevStays DEF FreeInv

(* The request that Granted and Refused look at is one of resources.       *)
LEMMA RequestFacts ==
    ASSUME TypeOK, current # NULL, NEW i \in DOMAIN to_acquire[current]
    PROVE  /\ current \in Procs /\ to_acquire[current][i] \in Request
           /\ to_acquire[current][i].resource_id \in Resources
           /\ holding[current] \in Seq(Request)
  <1>1. current \in Procs
    BY DEF TypeOK
  <1>2. to_acquire[current] \in Seq(Request) /\ holding[current] \in Seq(Request)
    BY <1>1 DEF TypeOK
  <1>3. to_acquire[current][i] \in Request
    BY <1>2
  <1> QED BY <1>1, <1>2, <1>3 DEF Request

LEMMA FreeGranted == ASSUME Inv, Granted PROVE FreeInv'
  <1>1. TypeOK /\ LiveUnfinished /\ OwnersHold
    BY DEF Inv, FreeInv, TypeInv
  <1>2. /\ forkqueue' = forkqueue /\ readyqueue' = readyqueue
        /\ current' = current /\ current # NULL /\ pc' # "retire"
    BY DEF Granted, Inv, TypeInv, SomebodyRuns, loopVars
  <1>3. PICK i \in DOMAIN to_acquire[current] :
          /\ SchedAcquire(to_acquire[current][i].resource_id, TRUE)
          /\ holding' = [holding EXCEPT ![current] = Append(@, to_acquire[current][i])]
    BY DEF Granted
  <1> DEFINE rs == to_acquire[current][i]
  <1> DEFINE r == rs.resource_id
  <1>4. /\ current \in Procs /\ rs \in Request /\ r \in Resources
        /\ holding[current] \in Seq(Request)
    BY <1>1, <1>2, RequestFacts
  <1>5. /\ status' = status /\ waitqueue' = waitqueue
        /\ owner' = owner \/ owner' = [owner EXCEPT ![r] = current]
    BY <1>1, <1>2, <1>3, <1>4, GrantShape
  <1>6. holding' = [holding EXCEPT ![current] = Append(@, rs)]
    BY <1>3
  <1> HIDE DEF rs
  <1>7. Live' \subseteq Live
    BY <1>2, <1>5, LiveFacts, LiveIn
  <1>8. NoExit
    BY <1>5 DEF NoExit
  <1>9. current \in Live
    BY <1>4 DEF Live
  <1>10. OwnersHold'
    <2> DEFINE h == holding[current]
    <2>1. /\ DOMAIN h = 1 .. Len(h) /\ Len(h) \in Nat
          /\ DOMAIN Append(h, rs) = 1 .. Len(h) + 1
          /\ \A j \in 1 .. Len(h) : Append(h, rs)[j] = h[j]
          /\ Append(h, rs)[Len(h) + 1] = rs
      BY <1>4
    <2>2. /\ holding'[current] = Append(h, rs)
          /\ \A p \in Procs \ {current} : holding'[p] = holding[p]
      BY <1>1, <1>4, <1>6 DEF TypeOK
    <2> HIDE DEF h
    <2>3. SUFFICES ASSUME NEW s \in Resources, owner'[s] # NULL
                   PROVE  /\ status[owner'[s]] # "EXIT"
                          /\ \E k \in DOMAIN holding'[owner'[s]] :
                               holding'[owner'[s]][k].resource_id = s
      BY <1>5 DEF OwnersHold
    <2>4. CASE owner'[s] = current /\ s = r
      <3>1. status[current] # "EXIT"
        BY <1>1, <1>9 DEF LiveUnfinished
      <3>2. Len(h) + 1 \in DOMAIN holding'[current]
            /\ holding'[current][Len(h) + 1].resource_id = r
        BY <2>1, <2>2
      <3> QED BY <2>4, <3>1, <3>2
    <2>5. CASE owner'[s] = owner[s]
      <3>1. owner[s] \in Procs
        BY <1>1, <2>3, <2>5 DEF TypeOK
      <3>2. PICK k \in DOMAIN holding[owner[s]] :
              holding[owner[s]][k].resource_id = s
        BY <1>1, <2>3, <2>5 DEF OwnersHold
      <3>3. k \in DOMAIN holding'[owner[s]] /\ holding'[owner[s]][k].resource_id = s
        BY <2>1, <2>2, <3>1, <3>2 DEF h
      <3> QED BY <1>1, <2>3, <2>5, <3>3 DEF OwnersHold
    <2> QED BY <1>1, <1>4, <1>5, <2>4, <2>5 DEF TypeOK
  <1> QED BY <1>1, <1>2, <1>7, <1>8, <1>10, LiveStays, PrevStays DEF FreeInv

LEMMA FreeRefused == ASSUME Inv, Refused PROVE FreeInv'
  <1>1. TypeOK /\ LiveUnfinished /\ OwnersHold
    BY DEF Inv, FreeInv, TypeInv
  <1>2. /\ forkqueue' = forkqueue /\ readyqueue' = readyqueue
        /\ current' = current /\ current # NULL /\ pc' # "retire"
        /\ holding' = holding
    BY DEF Refused, Inv, TypeInv, SomebodyRuns, Tick
  <1>3. PICK i \in DOMAIN to_acquire[current] :
          SchedAcquire(to_acquire[current][i].resource_id, FALSE)
    BY DEF Refused
  <1> DEFINE r == to_acquire[current][i].resource_id
  <1>4. current \in Procs /\ r \in Resources
    BY <1>1, <1>2, RequestFacts
  <1>5. /\ owner' = owner /\ status' = [status EXCEPT ![current] = "WAIT"]
        /\ \/ waitqueue' = waitqueue
           \/ waitqueue' = [waitqueue EXCEPT ![r] = Append(@, current)]
    BY <1>1, <1>2, <1>3, <1>4, RefuseShape
  <1> HIDE DEF r
  <1>6. NoExit
    BY <1>1, <1>4, <1>5 DEF NoExit, TypeOK
  <1>7. waitqueue[r] \in Seq(Procs) /\ waitqueue \in [Resources -> Seq(Procs)]
    BY <1>1, <1>4 DEF TypeOK
  <1>8. Range(Append(waitqueue[r], current)) = Range(waitqueue[r]) \cup {current}
    BY <1>4, <1>7, AppendRange
  <1>9. \A s \in Resources : \/ waitqueue'[s] = waitqueue[s]
                             \/ s = r /\ waitqueue'[s] = Append(waitqueue[r], current)
    BY <1>5, <1>7
  <1>10. \A s \in Resources : \A p \in Procs : p \in Range(waitqueue'[s]) => p \in Live
    BY <1>8, <1>9, LiveFacts
  <1>11. Live' \subseteq Live
    BY <1>2, <1>10, LiveFacts, LiveIn
  <1> QED BY <1>1, <1>2, <1>5, <1>6, <1>11, LiveStays, OwnersStay, PrevStays DEF FreeInv

(* The entry of the holding list that the release loop looks at.           *)
LEMMA EntryFacts ==
    ASSUME Inv, pc = "release", cursor <= Len(holding[current])
    PROVE  /\ current # NULL /\ current \in Procs
           /\ holding[current] \in Seq(Request)
           /\ cursor \in 1 .. Len(holding[current])
           /\ Entry \in Request /\ Entry.resource_id \in Resources
  <1>1. current # NULL /\ current \in Procs
    BY DEF Inv, TypeInv, SomebodyRuns, TypeOK
  <1>2. holding[current] \in Seq(Request) /\ cursor \in Nat \ {0}
    BY <1>1 DEF Inv, TypeInv, TypeOK
  <1>3. cursor \in 1 .. Len(holding[current])
    BY <1>2
  <1>4. holding[current][cursor] \in Request
    BY <1>2, <1>3
  <1> QED BY <1>1, <1>2, <1>3, <1>4 DEF Entry, Request

LEMMA FreeKeepHolding == ASSUME Inv, KeepHolding PROVE FreeInv'
  <1>1. TypeOK /\ LiveUnfinished /\ OwnersHold
    BY DEF Inv, FreeInv, TypeInv
  <1>2. /\ forkqueue' = forkqueue /\ readyqueue' = readyqueue
        /\ waitqueue' = waitqueue /\ current' = current /\ owner' = owner
        /\ status' = status /\ pc' # "retire"
        /\ pc = "release" /\ cursor <= Len(holding[current])
    BY DEF KeepHolding, queueVars
  <1> DEFINE h == holding[current]
  <1> DEFINE e == [h[cursor] EXCEPT !.duration = @ - 1]
  <1>3. current \in Procs /\ h \in Seq(Request) /\ cursor \in 1 .. Len(h)
        /\ h[cursor] \in Request
    BY <1>2, EntryFacts DEF Entry
  <1>4. e \in Request /\ e.resource_id = h[cursor].resource_id
    <2> DEFINE r == h[cursor]
    <2>1. r \in Request
      BY <1>3
    <2>2. r.resource_id \in Resources /\ r.at \in Nat /\ r.duration - 1 \in Int
      BY <2>1 DEF Request
    <2>3. e = [resource_id |-> r.resource_id, at |-> r.at,
               duration |-> r.duration - 1]
      <3>1. r = [resource_id |-> r.resource_id, at |-> r.at, duration |-> r.duration]
        <4> HIDE DEF r
        <4> QED BY <2>1 DEF Request
      <3>2. e = [r EXCEPT !.duration = r.duration - 1]
        OBVIOUS
      <3> HIDE DEF r, e
      <3> QED BY <3>1, <3>2
    <2> HIDE DEF r
    <2> QED BY <2>2, <2>3 DEF Request
  <1>5. holding' = [holding EXCEPT ![current] = [h EXCEPT ![cursor] = e]]
    BY DEF KeepHolding
  <1>6. /\ holding'[current] = [h EXCEPT ![cursor] = e]
        /\ \A p \in Procs \ {current} : holding'[p] = holding[p]
    <2> HIDE DEF h, e
    <2> QED BY <1>1, <1>3, <1>5 DEF TypeOK
  <1>7. /\ DOMAIN holding'[current] = DOMAIN h
        /\ \A k \in DOMAIN h : holding'[current][k].resource_id = h[k].resource_id
    <2> HIDE DEF e
    <2> QED BY <1>3, <1>4, <1>6
  <1>8. \A p \in Procs :
          /\ DOMAIN holding'[p] = DOMAIN holding[p]
          /\ \A k \in DOMAIN holding[p] :
               holding'[p][k].resource_id = holding[p][k].resource_id
    BY <1>6, <1>7
  <1>9. OwnersHold'
    <2> SUFFICES ASSUME NEW s \in Resources, owner[s] # NULL
                 PROVE  /\ status[owner[s]] # "EXIT"
                        /\ \E k \in DOMAIN holding'[owner[s]] :
                             holding'[owner[s]][k].resource_id = s
      BY <1>2 DEF OwnersHold
    <2>1. owner[s] \in Procs
      BY <1>1 DEF TypeOK
    <2>2. PICK k \in DOMAIN holding[owner[s]] : holding[owner[s]][k].resource_id = s
      BY <1>1 DEF OwnersHold
    <2>3. k \in DOMAIN holding'[owner[s]] /\ holding'[owner[s]][k].resource_id = s
      BY <1>8, <2>1, <2>2
    <2> QED BY <1>1, <2>3 DEF OwnersHold
  <1>10. Live' \subseteq Live
    BY <1>2, LiveFacts, LiveIn
  <1>11. NoExit
    BY <1>2 DEF NoExit
  <1> QED BY <1>1, <1>2, <1>9, <1>10, <1>11, LiveStays, PrevStays DEF FreeInv

LEMMA FreeRelease == ASSUME Inv, Release PROVE FreeInv'
  <1>1. TypeOK /\ ListInv /\ LiveUnfinished /\ OwnersHold
    BY DEF Inv, FreeInv, TypeInv
  <1>2. /\ forkqueue' = forkqueue /\ current' = current
        /\ holding' = [holding EXCEPT ![current] = RemoveAt(@, cursor)]
        /\ pc = "release" /\ pc' # "retire" /\ cursor <= Len(holding[current])
    BY DEF Release, loopVars
  <1> DEFINE h == holding[current]
  <1> DEFINE r == Entry.resource_id
  <1>3. /\ current # NULL /\ current \in Procs /\ h \in Seq(Request)
        /\ cursor \in 1 .. Len(h) /\ r = h[cursor].resource_id /\ r \in Resources
    BY <1>2, EntryFacts DEF Entry
  <1>4. WakeOne(r)
    BY <1>1, <1>3, ReleaseShape DEF Release
  <1> HIDE DEF r
  <1>5. owner' = [owner EXCEPT ![r] = NULL]
    BY <1>4 DEF WakeOne
  <1>6. \/ UNCHANGED <<status, readyqueue, waitqueue>>
        \/ \E w \in Range(waitqueue[r]) :
             /\ status' = [status EXCEPT ![w] = "READY"]
             /\ Range(readyqueue') = Range(readyqueue) \cup {w}
             /\ Range(waitqueue'[r]) = Range(waitqueue[r]) \ {w}
             /\ \A s \in Resources \ {r} : waitqueue'[s] = waitqueue[s]
    BY <1>1, <1>3, <1>4, WakeLists
  <1>7. NoExit
    <2>1. status \in [Procs -> Status]
      BY <1>1 DEF TypeOK
    <2> QED BY <1>6, <2>1 DEF NoExit
  <1>8. \A p \in Procs : p \in Range(readyqueue') => p \in Live
    BY <1>3, <1>6, LiveFacts
  <1>9. \A s \in Resources : \A p \in Procs : p \in Range(waitqueue'[s]) => p \in Live
    BY <1>3, <1>6, LiveFacts
  <1>10. Live' \subseteq Live
    BY <1>2, <1>8, <1>9, LiveFacts, LiveIn
  <1>11. OwnersHold'
    <2>1. /\ holding'[current] = RemoveAt(h, cursor)
          /\ \A p \in Procs \ {current} : holding'[p] = holding[p]
      BY <1>1, <1>2, <1>3 DEF TypeOK
    <2>2. /\ Len(h) \in Nat /\ DOMAIN h = 1 .. Len(h)
          /\ RemoveAt(h, cursor) \in Seq(Request)
          /\ Len(RemoveAt(h, cursor)) = Len(h) - 1
          /\ \A j \in 1 .. Len(h) - 1 :
               RemoveAt(h, cursor)[j] = IF j < cursor THEN h[j] ELSE h[j + 1]
      <3>1. h \in Seq(Request) /\ cursor \in 1 .. Len(h)
        BY <1>3
      <3> HIDE DEF h
      <3>2. Len(h) \in Nat /\ DOMAIN h = 1 .. Len(h)
        BY <3>1
      <3>3. /\ RemoveAt(h, cursor) \in Seq(Request)
            /\ Len(RemoveAt(h, cursor)) = Len(h) - 1
            /\ \A j \in 1 .. Len(h) - 1 :
                 RemoveAt(h, cursor)[j] = IF j < cursor THEN h[j] ELSE h[j + 1]
        BY <3>1, RemoveAtEntries
      <3> QED BY <3>2, <3>3
    <2> HIDE DEF h
    <2>3. SUFFICES ASSUME NEW s \in Resources, owner'[s] # NULL
                   PROVE  /\ status'[owner'[s]] # "EXIT"
                          /\ \E k \in DOMAIN holding'[owner'[s]] :
                               holding'[owner'[s]][k].resource_id = s
      BY DEF OwnersHold
    <2>4. s # r /\ owner'[s] = owner[s] /\ owner[s] \in Procs
      BY <1>1, <1>3, <1>5, <2>3 DEF TypeOK
    <2>5. status'[owner[s]] # "EXIT"
      BY <1>1, <1>7, <2>3, <2>4 DEF OwnersHold, NoExit
    <2>6. PICK k \in DOMAIN holding[owner[s]] : holding[owner[s]][k].resource_id = s
      BY <1>1, <2>3, <2>4 DEF OwnersHold
    <2>7. CASE owner[s] # current
      BY <2>1, <2>4, <2>5, <2>6, <2>7
    <2>8. CASE owner[s] = current
      <3> DEFINE j == IF k < cursor THEN k ELSE k - 1
      <3>1. k \in 1 .. Len(h) /\ h[k].resource_id = s /\ k # cursor
        BY <1>3, <2>2, <2>4, <2>6, <2>8 DEF h
      <3>2. j \in 1 .. Len(h) - 1 /\ (IF j < cursor THEN j ELSE j + 1) = k
        BY <1>3, <2>2, <3>1
      <3>3. j \in DOMAIN RemoveAt(h, cursor)
        BY <2>2, <3>2
      <3>4. RemoveAt(h, cursor)[j] = h[k]
        BY <2>2, <3>2
      <3> QED BY <2>1, <2>4, <2>5, <2>8, <3>1, <3>3, <3>4
    <2> QED BY <2>7, <2>8
  <1> QED BY <1>1, <1>2, <1>7, <1>10, <1>11, LiveStays, PrevStays DEF FreeInv

LEMMA FreeOthers ==
    ASSUME Inv, \/ Quit \/ Idle \/ Progress \/ ReleaseAborts \/ EndTick
                \/ UNCHANGED vars
    PROVE  FreeInv'
  <1>1. TypeOK /\ LiveUnfinished /\ OwnersHold /\ PrevLeft
    BY DEF Inv, FreeInv, TypeInv
  <1>2. /\ forkqueue' = forkqueue /\ readyqueue' = readyqueue
        /\ waitqueue' = waitqueue /\ current' = current /\ owner' = owner
        /\ status' = status /\ holding' = holding
    BY DEF Quit, Idle, Progress, ReleaseAborts, EndTick, vars, queueVars, processVars
  <1>3. NoExit
    BY <1>2 DEF NoExit
  <1>4. Live' \subseteq Live
    BY <1>2, LiveFacts, LiveIn
  <1>5. PrevLeft'
    <2>1. CASE Quit \/ Idle \/ Progress \/ ReleaseAborts \/ EndTick
      <3>1. pc' # "retire"
        BY <2>1 DEF Quit, Idle, Progress, ReleaseAborts, EndTick, Tick
      <3> QED BY <3>1, PrevStays
    <2>2. CASE UNCHANGED vars
      <3>1. pc' = pc /\ prev' = prev /\ age' = age /\ script' = script
        BY <2>2 DEF vars, configVars, loopVars, processVars
      <3>2. \A p \in Procs : Lifespan(p)' = Lifespan(p)
        BY <3>1 DEF Lifespan
      <3> QED BY <1>1, <1>2, <3>1, <3>2 DEF PrevLeft, TypeOK
    <2> QED BY <2>1, <2>2
  <1> QED BY <1>1, <1>2, <1>3, <1>4, <1>5, LiveStays, OwnersStay DEF FreeInv

LEMMA FreeStep == Inv /\ [Next]_vars => FreeInv'
  BY FreeFork, FreeSchedule, FreeRetire, FreeDispatch, FreeGranted, FreeRefused,
     FreeKeepHolding, FreeRelease, FreeOthers DEF Next

LEMMA InvInit == Init => Inv
  BY TypeInit, ListInit, FreeInit DEF Inv

LEMMA InvStep == Inv /\ [Next]_vars => Inv'
  BY TypeStep, ListStep, FreeStep DEF Inv

(* When __exit_process frees a process nothing points to it any more, and  *)
(* nothing ever will: no list, no owner field, and not current; for every  *)
(* policy, with every script.                                              *)
THEOREM FreedIsForgotten == Spec => []NoUseAfterFree
  <1>1. Inv => NoUseAfterFree
    <2> SUFFICES ASSUME Inv, NEW p \in Procs, Finished(p)
                 PROVE  /\ ~Attached(p) /\ current # p
                        /\ \A r \in Resources : owner[r] # p
      BY DEF NoUseAfterFree
    <2>1. p \notin Live
      BY DEF Inv, FreeInv, LiveUnfinished, Finished
    <2>2. \A r \in Resources : owner[r] # p
      BY DEF Inv, FreeInv, OwnersHold, Finished
    <2> QED BY <2>1, <2>2 DEF Live
  <1> QED BY <1>1, InvInit, InvStep, PTL DEF Spec

(***************************************************************************)
(* Where a process is in its life, for every policy and for every script:  *)
(* its status tells the place it is at, who waits is queued where it asked *)
(* and is woken, and nobody is forgotten.                                  *)
(***************************************************************************)
HIDE NumbersAssumption

(***************************************************************************)
(* The inductive invariant                                                 *)
(***************************************************************************)
Running(p) == status[p] = "RUNNING"
Waiting(p) == status[p] = "WAIT"
InTick == pc \in {"retire", "dispatch", "acquire"}

(* The process of the previous tick is remembered only until it retires.   *)
PrevForgotten == pc \notin {"retire", "aborted"} => prev = NULL

(* The status of a process, by the place it is at: only the process that   *)
(* has the CPU, or had it until this tick began, is RUNNING.               *)
QueuedAreReady ==
    /\ \A p \in Range(forkqueue) : status[p] = "READY"
    /\ \A p \in Range(readyqueue) :
         status[p] = "READY" \/ (pc = "retire" /\ p = prev /\ Running(p))
OneRuns ==
    /\ \A p \in Procs : Running(p) =>
         \/ p = current /\ pc \in {"fork", "acquire", "release"}
         \/ p = prev /\ pc = "retire"
    /\ current # NULL =>
         /\ pc = "fork" => Running(current) \/ Waiting(current)
         /\ pc = "retire" => \/ status[current] = "READY"
                             \/ Running(current) /\ current = prev
         /\ pc = "dispatch" => status[current] = "READY"
         /\ pc \in {"acquire", "release"} => Running(current)
    /\ pc = "retire" /\ prev # NULL => Running(prev) \/ Waiting(prev)
StatusInv == pc # "aborted" => QueuedAreReady /\ OneRuns

(* Who waits is on the queue of the resource it was refused last; only PCP *)
(* makes a process wait and puts it on no queue.                           *)
WaitersAsked == \A r \in Resources : \A p \in Range(waitqueue[r]) : wanted[p] = r
WaitersQueued ==
    sched # "pcp" => \A p \in Procs : Waiting(p) =>
      \E r \in Resources : p \in Range(waitqueue[r])

(* Until it is granted, what a process was refused is its first due request. *)
RefusedIsFirst ==
    \A p \in Procs : wanted[p] # NULL =>
      \E i \in DOMAIN to_acquire[p] :
        /\ to_acquire[p][i].at = age[p] /\ to_acquire[p][i].resource_id = wanted[p]
        /\ \A j \in 1 .. i-1 : to_acquire[p][j].at # age[p]

(* Who is to run again has time left.                                      *)
HasTime(p) == Lifespan(p) > 0 => age[p] < Lifespan(p)
TimeLeft ==
    /\ \A p \in Procs : Lifespan(p) > 0 => age[p] <= Lifespan(p)
    /\ \A p \in Range(forkqueue) \cup Range(readyqueue) : HasTime(p)
    /\ \A p \in Procs : Waiting(p) => HasTime(p)
    /\ current # NULL /\ InTick => HasTime(current)

(* Nobody is forgotten, and who had the CPU goes on, is ready or waits.    *)
NobodyLost ==
    \A p \in Procs : \/ Finished(p) \/ p \in {current, prev} \/ Attached(p)
                     \/ Waiting(p) \/ Lifespan(p) = 0
PrevKept ==
    pc = "retire" /\ prev # NULL /\ ~Waiting(prev) /\ age[prev] < Lifespan(prev)
      => prev = current \/ prev \in Range(readyqueue)

LifeInv == /\ PrevForgotten /\ StatusInv /\ WaitersAsked /\ WaitersQueued
           /\ RefusedIsFirst /\ TimeLeft /\ NobodyLost /\ PrevKept

(* What SRTF compares, also while the process it has chosen has not run.   *)
SrtfInv ==
    sched = "srtf" => \A p \in Procs :
      \/ p \in Range(readyqueue)
      \/ \E r \in Resources : p \in Range(waitqueue[r])
      \/ p = current /\ InTick
      => prio[p] = Remaining(p)

(***************************************************************************)
(* What the steps that move processes do to the sets of who is on a queue  *)
(***************************************************************************)
LEMMA ForkEffect ==
    ASSUME Inv, Fork
    PROVE  /\ pc = "fork"
           /\ UNCHANGED <<configVars, loopVars, current, age, to_acquire, holding,
                          wanted, owner, waitqueue>>
           /\ \E p \in Procs :
                /\ p \in Range(forkqueue) /\ p \notin Range(readyqueue) /\ p # current
                /\ Range(forkqueue') = Range(forkqueue) \ {p}
                /\ Range(readyqueue') = Range(readyqueue) \cup {p}
                /\ status' = [status EXCEPT ![p] = "READY"]
                /\ SchedForked(p)
  <1>1. TypeOK /\ ListIntegrity /\ CurrentDetached
    BY DEF Inv, TypeInv, ListInv
  <1>2. PICK i \in DOMAIN forkqueue :
          /\ forkqueue' = RemoveAt(forkqueue, i)
          /\ readyqueue' = Append(readyqueue, forkqueue[i])
          /\ status' = [status EXCEPT ![forkqueue[i]] = "READY"]
          /\ SchedForked(forkqueue[i])
    BY DEF Fork
  <1> DEFINE p == forkqueue[i]
  <1>3. /\ forkqueue \in Seq(Procs) /\ IsInjective(forkqueue)
        /\ readyqueue \in Seq(Procs) /\ IsInjective(readyqueue)
        /\ i \in 1 .. Len(forkqueue)
    <2>1. forkqueue \in Seq(Procs) /\ readyqueue \in Seq(Procs)
      BY <1>1 DEF TypeOK
    <2>2. i \in 1 .. Len(forkqueue)
      BY <2>1
    <2> QED BY <1>1, <2>1, <2>2 DEF ListIntegrity
  <1>4. p \in Procs /\ p \in Range(forkqueue)
    BY <1>3 DEF Range
  <1>5. p \notin Range(readyqueue) /\ p # current
    BY <1>1, <1>4 DEF ListIntegrity, CurrentDetached
  <1>6. Range(forkqueue') = Range(forkqueue) \ {p}
    BY <1>2, <1>3, RemoveAtRange
  <1>7. Range(readyqueue') = Range(readyqueue) \cup {p}
    BY <1>2, <1>3, <1>4, <1>5, AppendRange
  <1>8. SchedForked(p) /\ status' = [status EXCEPT ![p] = "READY"]
    BY <1>2
  <1> HIDE DEF p
  <1>9. /\ pc = "fork"
        /\ UNCHANGED <<configVars, loopVars, current, age, to_acquire, holding,
                       wanted, owner, waitqueue>>
    BY DEF Fork
  <1> QED BY <1>4, <1>5, <1>6, <1>7, <1>8, <1>9

(* The process that had the CPU stays in the race exactly when it may      *)
(* continue.                                                               *)
LEMMA ScheduleEffect ==
    ASSUME Inv, Schedule
    PROVE  /\ pc = "fork" /\ pc' = "retire" /\ prev' = current
           /\ UNCHANGED <<configVars, ticks, cursor, forkqueue, waitqueue, status, age,
                          to_acquire, holding, wanted, owner>>
           /\ current' \in Procs \cup {NULL} /\ current' \notin Range(readyqueue')
           /\ MayContinue => /\ current # NULL /\ current' # NULL
                             /\ Range(readyqueue') \cup {current'}
                                  = Range(readyqueue) \cup {current}
           /\ ~MayContinue =>
                \/ current' = NULL /\ readyqueue' = readyqueue
                \/ Range(readyqueue') \cup {current'} = Range(readyqueue)
  <1>1. TypeOK /\ ListInv /\ ListIntegrity /\ CurrentDetached
    BY DEF Inv, TypeInv, ListInv
  <1>2. ScheduleShape
    BY <1>1, SchedScheduleShape DEF Schedule
  <1>3. /\ current' \in Procs \cup {NULL} /\ readyqueue' \in Seq(Procs)
        /\ current' \notin Range(readyqueue')
    BY <1>1, <1>2, ScheduleTypes, ScheduleLists
  <1>4. /\ readyqueue \in Seq(Procs) /\ IsInjective(readyqueue)
        /\ current \in Procs \cup {NULL} /\ current \notin Range(readyqueue)
    BY <1>1 DEF TypeOK, ListIntegrity, CurrentDetached
  <1>5. ASSUME NEW q \in Seq(Procs), IsInjective(q), NEW i \in DOMAIN q, TakeFrom(q, i)
        PROVE  current' # NULL /\ Range(readyqueue') \cup {current'} = Range(q)
    <2>1. i \in 1 .. Len(q) /\ current' = q[i] /\ readyqueue' = RemoveAt(q, i)
      BY <1>5 DEF TakeFrom
    <2>2. Range(readyqueue') = Range(q) \ {q[i]}
      BY <2>1, <1>5, RemoveAtRange
    <2>3. q[i] \in Range(q) /\ q[i] \in Procs
      BY <2>1 DEF Range
    <2> QED BY <2>1, <2>2, <2>3
  <1>6. ASSUME MayContinue, TakesWithCurrent
        PROVE  current' # NULL /\ Range(readyqueue') \cup {current'}
                                    = Range(readyqueue) \cup {current}
    <2> DEFINE q == Append(readyqueue, current)
    <2>1. current \in Procs
      BY <1>4, <1>6 DEF MayContinue
    <2>2. q \in Seq(Procs) /\ IsInjective(q) /\ Range(q) = Range(readyqueue) \cup {current}
      BY <1>4, <2>1, AppendRange
    <2>3. \E i \in DOMAIN q : TakeFrom(q, i)
      BY <1>6 DEF TakesWithCurrent
    <2> HIDE DEF q
    <2> QED BY <2>2, <2>3, <1>5
  <1>7. ASSUME TakesReady PROVE Range(readyqueue') \cup {current'} = Range(readyqueue)
    BY <1>7, <1>4, <1>5 DEF TakesReady
  <1>8. MayContinue => current # NULL
    BY DEF MayContinue
  <1>9. /\ pc = "fork" /\ pc' = "retire" /\ prev' = current
        /\ UNCHANGED <<configVars, ticks, cursor, forkqueue, waitqueue, status, age,
                       to_acquire, holding, wanted, owner>>
    BY DEF Schedule
  <1> QED BY <1>2, <1>3, <1>6, <1>7, <1>8, <1>9 DEF ScheduleShape

(* The request that is due first, and how acquire() answers it.            *)
LEMMA RequestDue ==
    ASSUME Inv, pc = "acquire", NEW i \in DOMAIN to_acquire[current], NextRequest(i)
    PROVE  /\ current # NULL /\ current \in Procs
           /\ to_acquire[current] \in Seq(Request)
           /\ i \in 1 .. Len(to_acquire[current])
           /\ to_acquire[current][i] \in Request
           /\ to_acquire[current][i].at = age[current]
           /\ \A j \in 1 .. i-1 : to_acquire[current][j].at # age[current]
           /\ to_acquire[current][i].resource_id \in Resources
           /\ holding[current] \in Seq(Request)
  <1>1. TypeOK /\ current # NULL
    BY DEF Inv, TypeInv, SomebodyRuns
  <1>2. current \in Procs
    BY <1>1 DEF TypeOK
  <1>3. to_acquire[current] \in Seq(Request) /\ i \in 1 .. Len(to_acquire[current])
    BY <1>1, <1>2 DEF TypeOK
  <1>4. to_acquire[current][i].at = age[current]
    BY DEF NextRequest, DueRequest
  <1>5. \A j \in 1 .. i-1 : to_acquire[current][j].at # age[current]
    BY <1>3 DEF NextRequest, DueRequest
  <1> QED BY <1>1, <1>2, <1>3, <1>4, <1>5, RequestFacts

LEMMA GrantedEffect ==
    ASSUME Inv, Granted
    PROVE  /\ pc = "acquire" /\ current # NULL /\ current \in Procs
           /\ UNCHANGED <<configVars, loopVars, current, forkqueue, readyqueue, age,
                          status, waitqueue>>
           /\ \E i \in DOMAIN to_acquire[current] :
                LET rs == to_acquire[current][i]
                IN  /\ NextRequest(i)
                    /\ SchedAcquire(rs.resource_id, TRUE)
                    /\ \/ owner' = owner /\ Pid(owner[rs.resource_id]) = Pid(current)
                                         /\ owner[rs.resource_id] # NULL
                       \/ /\ owner[rs.resource_id] = NULL
                          /\ owner' = [owner EXCEPT ![rs.resource_id] = current]
                    /\ to_acquire' = [to_acquire EXCEPT ![current] = RemoveAt(@, i)]
                    /\ holding' = [holding EXCEPT ![current] = Append(@, rs)]
                    /\ wanted' = [wanted EXCEPT ![current] = NULL]
  <1>1. TypeOK
    BY DEF Inv, TypeInv
  <1>2. PICK i \in DOMAIN to_acquire[current] :
          /\ NextRequest(i)
          /\ SchedAcquire(to_acquire[current][i].resource_id, TRUE)
          /\ to_acquire' = [to_acquire EXCEPT ![current] = RemoveAt(@, i)]
          /\ holding' = [holding EXCEPT ![current] = Append(@, to_acquire[current][i])]
          /\ wanted' = [wanted EXCEPT ![current] = NULL]
    BY DEF Granted
  <1> DEFINE r == to_acquire[current][i].resource_id
  <1>3. /\ pc = "acquire"
        /\ UNCHANGED <<configVars, loopVars, current, forkqueue, readyqueue, age>>
    BY DEF Granted
  <1>4. current # NULL /\ current \in Procs /\ r \in Resources
    BY <1>2, <1>3, RequestDue
  <1>5. SchedAcquire(r, TRUE)
    BY <1>2
  <1>6. /\ status' = status /\ waitqueue' = waitqueue
        /\ \/ owner' = owner /\ Pid(owner[r]) = Pid(current) /\ owner[r] # NULL
           \/ owner[r] = NULL /\ owner' = [owner EXCEPT ![r] = current]
    <2> HIDE DEF r
    <2>1. sched \in AllScheds
      BY <1>1, SchedsAssumption DEF TypeOK
    <2>2. \/ FcfsAcquire(r, TRUE) \/ PrioAcquire(r, TRUE) \/ PcpAcquire(r, TRUE)
          \/ PipAcquire(r, TRUE)
      BY <1>5, <2>1 DEF SchedAcquire, PaAcquire, AllScheds
    <2> QED BY <2>2 DEF FcfsAcquire, PrioAcquire, PcpAcquire, PipAcquire, TakeIt, Free, OwnPid
  <1> QED BY <1>2, <1>3, <1>4, <1>6

(* Everybody but PCP queues the process it refuses.                        *)
LEMMA RefusedEffect ==
    ASSUME Inv, Refused
    PROVE  /\ pc = "acquire" /\ pc' = "fork" /\ current # NULL /\ current \in Procs
           /\ UNCHANGED <<configVars, prev, cursor, current, forkqueue, readyqueue, age,
                          to_acquire, holding, owner>>
           /\ status' = [status EXCEPT ![current] = "WAIT"]
           /\ \E i \in DOMAIN to_acquire[current] :
                LET r == to_acquire[current][i].resource_id
                IN  /\ NextRequest(i) /\ r \in Resources
                    /\ SchedAcquire(r, FALSE)
                    /\ owner[r] # NULL
                    /\ wanted' = [wanted EXCEPT ![current] = r]
                    /\ sched = "pcp" => waitqueue' = waitqueue
                    /\ sched # "pcp" =>
                         /\ Range(waitqueue'[r]) = Range(waitqueue[r]) \cup {current}
                         /\ \A s \in Resources \ {r} : waitqueue'[s] = waitqueue[s]
  <1>1. TypeOK /\ ListInv /\ ListIntegrity /\ CurrentDetached
    BY DEF Inv, TypeInv, ListInv
  <1>2. PICK i \in DOMAIN to_acquire[current] :
          /\ NextRequest(i)
          /\ SchedAcquire(to_acquire[current][i].resource_id, FALSE)
          /\ wanted' = [wanted EXCEPT ![current] = to_acquire[current][i].resource_id]
    BY DEF Refused
  <1> DEFINE r == to_acquire[current][i].resource_id
  <1>3. /\ pc = "acquire" /\ pc' = "fork"
        /\ UNCHANGED <<configVars, prev, cursor, current, forkqueue, readyqueue, age,
                       to_acquire, holding, owner>>
    BY DEF Refused, Tick
  <1>4. current # NULL /\ current \in Procs /\ r \in Resources
    BY <1>2, <1>3, RequestDue
  <1>5. SchedAcquire(r, FALSE) /\ wanted' = [wanted EXCEPT ![current] = r]
    BY <1>2
  <1>6. /\ owner[r] # NULL /\ status' = [status EXCEPT ![current] = "WAIT"]
        /\ sched = "pcp" => waitqueue' = waitqueue
        /\ sched # "pcp" => waitqueue' = [waitqueue EXCEPT ![r] = Append(@, current)]
    <2> HIDE DEF r
    <2>1. sched \in AllScheds
      BY <1>1, SchedsAssumption DEF TypeOK
    <2>2. CASE sched = "pcp"
      BY <2>2, <1>5 DEF SchedAcquire, PcpAcquire, Free
    <2>3. CASE sched # "pcp"
      <3>1. FcfsAcquire(r, FALSE) \/ PrioAcquire(r, FALSE) \/ PipAcquire(r, FALSE)
        BY <2>1, <2>3, <1>5 DEF SchedAcquire, PaAcquire, AllScheds
      <3> QED BY <2>3, <3>1 DEF FcfsAcquire, PrioAcquire, PipAcquire, WaitFor, Free
    <2> QED BY <2>2, <2>3
  <1>7. ASSUME sched # "pcp"
        PROVE  /\ Range(waitqueue'[r]) = Range(waitqueue[r]) \cup {current}
               /\ \A s \in Resources \ {r} : waitqueue'[s] = waitqueue[s]
    <2> HIDE DEF r
    <2>1. /\ waitqueue \in [Resources -> Seq(Procs)]
          /\ waitqueue[r] \in Seq(Procs) /\ IsInjective(waitqueue[r])
          /\ current \notin Range(waitqueue[r])
      BY <1>1, <1>3, <1>4, ListFacts, DetachedFacts DEF CurrentDetached, TypeOK
    <2>2. waitqueue'[r] = Append(waitqueue[r], current)
      BY <1>4, <1>6, <1>7, <2>1
    <2>3. \A s \in Resources \ {r} : waitqueue'[s] = waitqueue[s]
      BY <1>6, <1>7, <2>1
    <2> QED BY <1>4, <2>1, <2>2, <2>3, AppendRange
  <1> QED BY <1>2, <1>3, <1>4, <1>5, <1>6, <1>7

(* A release gives up the resource of the entry and makes one waiter ready,*)
(* if there is one.                                                        *)
LEMMA ReleaseEffect ==
    ASSUME Inv, Release
    PROVE  /\ pc = "release" /\ cursor \in 1 .. Len(holding[current])
           /\ current # NULL /\ current \in Procs
           /\ holding[current] \in Seq(Request) /\ Entry.resource_id \in Resources
           /\ UNCHANGED <<configVars, loopVars, current, forkqueue, age, to_acquire, wanted>>
           /\ Entry.duration - 1 = 0 /\ owner[Entry.resource_id] = current
           /\ owner' = [owner EXCEPT ![Entry.resource_id] = NULL]
           /\ holding' = [holding EXCEPT ![current] = RemoveAt(@, cursor)]
           /\ SchedRelease(Entry.resource_id)
           /\ \/ /\ UNCHANGED <<status, readyqueue, waitqueue>>
                 /\ waitqueue[Entry.resource_id] = <<>>
              \/ \E w \in Range(waitqueue[Entry.resource_id]) :
                   /\ w \in Procs /\ w # current
                   /\ status' = [status EXCEPT ![w] = "READY"]
                   /\ Range(readyqueue') = Range(readyqueue) \cup {w}
                   /\ Range(waitqueue'[Entry.resource_id])
                        = Range(waitqueue[Entry.resource_id]) \ {w}
                   /\ \A s \in Resources \ {Entry.resource_id} :
                        waitqueue'[s] = waitqueue[s]
                   /\ \E k \in DOMAIN waitqueue[Entry.resource_id] :
                        /\ w = waitqueue[Entry.resource_id][k]
                        /\ Waiter(Entry.resource_id, k)
  <1> DEFINE r == Entry.resource_id
  <1>1. TypeOK /\ ListInv /\ ListIntegrity /\ CurrentDetached
    BY DEF Inv, TypeInv, ListInv
  <1>2. /\ pc = "release" /\ cursor <= Len(holding[current])
        /\ Entry.duration - 1 = 0 /\ ReleaseAsserts(r) /\ SchedRelease(r)
        /\ holding' = [holding EXCEPT ![current] = RemoveAt(@, cursor)]
        /\ UNCHANGED <<configVars, loopVars, current, forkqueue, age, to_acquire, wanted>>
    BY DEF Release
  <1>3. /\ current # NULL /\ current \in Procs /\ holding[current] \in Seq(Request)
        /\ cursor \in 1 .. Len(holding[current]) /\ r \in Resources
    BY <1>2, EntryFacts
  <1>4. WakeOne(r)
    BY <1>1, <1>2, <1>3, ReleaseShape
  <1>5. owner[r] = current
    BY <1>2 DEF ReleaseAsserts
  <1> HIDE DEF r
  <1>6. owner' = [owner EXCEPT ![r] = NULL]
    BY <1>4 DEF WakeOne
  <1>7. \/ UNCHANGED <<status, readyqueue, waitqueue>> /\ waitqueue[r] = <<>>
        \/ \E w \in Range(waitqueue[r]) :
             /\ w \in Procs /\ w # current
             /\ status' = [status EXCEPT ![w] = "READY"]
             /\ Range(readyqueue') = Range(readyqueue) \cup {w}
             /\ Range(waitqueue'[r]) = Range(waitqueue[r]) \ {w}
             /\ \A s \in Resources \ {r} : waitqueue'[s] = waitqueue[s]
             /\ \E k \in DOMAIN waitqueue[r] : w = waitqueue[r][k] /\ Waiter(r, k)
    <2>1. CASE waitqueue[r] = <<>>
      <3>1. DOMAIN waitqueue[r] = {}
        BY <2>1
      <3> QED BY <2>1, <3>1, <1>4 DEF WakeOne
    <2>2. CASE waitqueue[r] # <<>>
      <3> DEFINE q == waitqueue[r]
      <3>1. PICK k \in DOMAIN q :
              /\ Waiter(r, k)
              /\ status' = [status EXCEPT ![q[k]] = "READY"]
              /\ readyqueue' = Append(readyqueue, q[k])
              /\ waitqueue' = [waitqueue EXCEPT ![r] = RemoveAt(q, k)]
        BY <2>2, <1>4 DEF WakeOne
      <3>2. /\ q \in Seq(Procs) /\ IsInjective(q) /\ waitqueue \in [Resources -> Seq(Procs)]
            /\ readyqueue \in Seq(Procs) /\ IsInjective(readyqueue)
            /\ \A p \in Range(q) : p \notin Range(readyqueue)
            /\ current \notin Range(q)
        BY <1>1, <1>2, <1>3, ListFacts, DetachedFacts
           DEF TypeOK, ListIntegrity, CurrentDetached
      <3>3. waitqueue'[r] = RemoveAt(q, k)
            /\ \A s \in Resources \ {r} : waitqueue'[s] = waitqueue[s]
        BY <1>3, <3>1, <3>2
      <3>4. Waiter(r, k)
        BY <3>1
      <3> HIDE DEF q
      <3>5. k \in 1 .. Len(q) /\ q[k] \in Range(q) /\ q[k] \in Procs
        BY <3>1, <3>2 DEF Range
      <3>6. Range(RemoveAt(q, k)) = Range(q) \ {q[k]}
        BY <3>2, <3>5, RemoveAtRange
      <3>7. Range(Append(readyqueue, q[k])) = Range(readyqueue) \cup {q[k]}
        BY <3>2, <3>5, AppendRange
      <3>8. \E w \in Range(q) :
               /\ w \in Procs /\ w # current
               /\ status' = [status EXCEPT ![w] = "READY"]
               /\ Range(readyqueue') = Range(readyqueue) \cup {w}
               /\ Range(waitqueue'[r]) = Range(q) \ {w}
               /\ \A s \in Resources \ {r} : waitqueue'[s] = waitqueue[s]
               /\ \E l \in DOMAIN q : w = q[l] /\ Waiter(r, l)
        BY <3>1, <3>2, <3>3, <3>4, <3>5, <3>6, <3>7
      <3> QED BY <3>8 DEF q
    <2> QED BY <2>1, <2>2
  <1> QED BY <1>2, <1>3, <1>5, <1>6, <1>7 DEF r

(***************************************************************************)
(* Every step keeps LifeInv                                                *)
(***************************************************************************)
LEMMA LifeFacts ==
    ASSUME Inv
    PROVE  /\ TypeOK /\ ListIntegrity /\ WaitersWait /\ CurrentDetached /\ PrevLeft
           /\ status \in [Procs -> Status] /\ age \in [Procs -> Nat]
           /\ wanted \in [Procs -> Resources \cup {NULL}] /\ prio \in [Procs -> Nat]
           /\ current \in Procs \cup {NULL} /\ prev \in Procs \cup {NULL}
           /\ NULL \notin Procs /\ \A p \in Procs : Lifespan(p) \in Nat
           /\ Range(forkqueue) \subseteq Procs /\ Range(readyqueue) \subseteq Procs
           /\ \A r \in Resources : Range(waitqueue[r]) \subseteq Procs
  <1>1. TypeOK /\ ListIntegrity /\ WaitersWait /\ CurrentDetached /\ PrevLeft
    BY DEF Inv, TypeInv, ListInv, FreeInv
  <1>2. /\ status \in [Procs -> Status] /\ age \in [Procs -> Nat]
        /\ wanted \in [Procs -> Resources \cup {NULL}] /\ prio \in [Procs -> Nat]
        /\ current \in Procs \cup {NULL} /\ prev \in Procs \cup {NULL}
    BY <1>1 DEF TypeOK
  <1>3. \A p \in Procs : Lifespan(p) \in Nat
    BY <1>1, ScriptNumbers
  <1> QED BY <1>1, <1>2, <1>3, ListFacts

LEMMA SameLife ==
    ASSUME script' = script, age' = age
    PROVE  \A p : /\ Lifespan(p)' = Lifespan(p) /\ (HasTime(p)' <=> HasTime(p))
                  /\ Remaining(p)' = Remaining(p)
  BY DEF Lifespan, HasTime, Remaining

LEMMA LifeInit == Init => LifeInv /\ SrtfInv
  <1> SUFFICES ASSUME Init PROVE LifeInv /\ SrtfInv
    OBVIOUS
  <1>1. /\ pc = "fork" /\ prev = NULL /\ current = NULL
        /\ status = [p \in Procs |-> "READY"] /\ age = [p \in Procs |-> 0]
        /\ wanted = [p \in Procs |-> NULL] /\ readyqueue = <<>>
        /\ waitqueue = [r \in Resources |-> <<>>]
        /\ Range(forkqueue) = Procs
    BY FileOrderAssumption DEF Init
  <1>2. Range(readyqueue) = {} /\ \A r \in Resources : Range(waitqueue[r]) = {}
    BY <1>1 DEF Range
  <1>3. \A p \in Procs : Lifespan(p) \in Nat
    BY InvInit, LifeFacts
  <1>4. PrevForgotten /\ StatusInv
    BY <1>1, <1>2 DEF PrevForgotten, StatusInv, QueuedAreReady, OneRuns, Running
  <1>5. WaitersAsked /\ WaitersQueued /\ RefusedIsFirst
    BY <1>1, <1>2 DEF WaitersAsked, WaitersQueued, RefusedIsFirst, Waiting
  <1>6. TimeLeft
    BY <1>1, <1>2, <1>3 DEF TimeLeft, HasTime, Waiting
  <1>7. NobodyLost /\ PrevKept
    BY <1>1 DEF NobodyLost, PrevKept, Attached
  <1>8. SrtfInv
    BY <1>1, <1>2 DEF SrtfInv
  <1> QED BY <1>4, <1>5, <1>6, <1>7, <1>8 DEF LifeInv

LEMMA LifeFork == ASSUME Inv, LifeInv, SrtfInv, Fork PROVE LifeInv' /\ SrtfInv'
  <1>1. /\ PrevForgotten /\ StatusInv /\ WaitersAsked /\ WaitersQueued
        /\ RefusedIsFirst /\ TimeLeft /\ NobodyLost
    BY DEF LifeInv
  <1>2. PICK p \in Procs :
          /\ p \in Range(forkqueue) /\ p \notin Range(readyqueue) /\ p # current
          /\ Range(forkqueue') = Range(forkqueue) \ {p}
          /\ Range(readyqueue') = Range(readyqueue) \cup {p}
          /\ status' = [status EXCEPT ![p] = "READY"]
          /\ SchedForked(p)
    BY ForkEffect
  <1>3. /\ pc = "fork" /\ pc' = "fork" /\ prev' = prev /\ current' = current
        /\ sched' = sched /\ script' = script /\ age' = age /\ to_acquire' = to_acquire
        /\ wanted' = wanted /\ waitqueue' = waitqueue
    BY ForkEffect DEF configVars, loopVars
  <1>4. \A q \in Procs : status'[q] = IF q = p THEN "READY" ELSE status[q]
    BY <1>2, LifeFacts
  <1>5. PrevForgotten' /\ PrevKept'
    BY <1>1, <1>3 DEF PrevForgotten, PrevKept
  <1>6. StatusInv'
    <2>1. QueuedAreReady'
      BY <1>1, <1>2, <1>3, <1>4, LifeFacts DEF StatusInv, QueuedAreReady
    <2>2. OneRuns'
      BY <1>1, <1>2, <1>3, <1>4, LifeFacts DEF StatusInv, OneRuns, Running, Waiting
    <2> QED BY <2>1, <2>2 DEF StatusInv
  <1>7. WaitersAsked' /\ WaitersQueued' /\ RefusedIsFirst'
    BY <1>1, <1>3, <1>4 DEF WaitersAsked, WaitersQueued, RefusedIsFirst, Waiting
  <1>8. TimeLeft'
    BY <1>1, <1>2, <1>3, <1>4, SameLife DEF TimeLeft, Waiting, InTick
  <1>9. NobodyLost'
    BY <1>1, <1>2, <1>3, <1>4, SameLife DEF NobodyLost, Attached, Finished, Waiting
  <1>10. SrtfInv'
    <2> SUFFICES ASSUME sched = "srtf", NEW q \in Procs,
                        \/ q \in Range(readyqueue')
                        \/ \E r \in Resources : q \in Range(waitqueue[r])
                 PROVE  prio'[q] = Remaining(q)
      BY <1>3, SameLife DEF SrtfInv, InTick
    <2>1. \A x \in Procs : prio'[x] = IF x = p THEN Remaining(p) ELSE prio[x]
      BY <1>2, LifeFacts DEF SchedForked
    <2> QED BY <1>2, <2>1 DEF SrtfInv
  <1> QED BY <1>5, <1>6, <1>7, <1>8, <1>9, <1>10 DEF LifeInv

LEMMA LifeSchedule == ASSUME Inv, LifeInv, SrtfInv, Schedule PROVE LifeInv' /\ SrtfInv'
  <1>1. /\ PrevForgotten /\ StatusInv /\ WaitersAsked /\ WaitersQueued
        /\ RefusedIsFirst /\ TimeLeft /\ NobodyLost
    BY DEF LifeInv
  <1>2. /\ pc = "fork" /\ pc' = "retire" /\ prev' = current
        /\ sched' = sched /\ script' = script /\ age' = age /\ to_acquire' = to_acquire
        /\ wanted' = wanted /\ waitqueue' = waitqueue /\ forkqueue' = forkqueue
        /\ status' = status /\ current \notin Range(readyqueue)
    BY ScheduleEffect, LifeFacts DEF configVars, CurrentDetached
  <1>3. /\ current' \in Procs \cup {NULL} /\ current' \notin Range(readyqueue')
        /\ MayContinue => /\ current # NULL /\ current' # NULL
                          /\ Range(readyqueue') \cup {current'}
                               = Range(readyqueue) \cup {current}
        /\ ~MayContinue =>
             \/ current' = NULL /\ readyqueue' = readyqueue
             \/ Range(readyqueue') \cup {current'} = Range(readyqueue)
    BY ScheduleEffect
  <1>4. \A p \in Procs : p \in Range(readyqueue') \/ p = current' =>
          \/ p \in Range(readyqueue) /\ p # current
          \/ p = current /\ MayContinue
    BY <1>2, <1>3, LifeFacts
  <1>5. prev = NULL
    BY <1>1, <1>2 DEF PrevForgotten
  <1>6. Range(readyqueue') \subseteq Procs
    BY <1>3, LifeFacts
  <1>7. current # NULL => Running(current) \/ Waiting(current)
    BY <1>1, <1>2 DEF StatusInv, OneRuns
  <1>8. MayContinue => Running(current)
    BY <1>7 DEF MayContinue, Waiting
  <1>9. PrevForgotten'
    BY <1>2 DEF PrevForgotten
  <1>10. StatusInv'
    <2>1. QueuedAreReady'
      BY <1>1, <1>2, <1>4, <1>6, <1>8 DEF StatusInv, QueuedAreReady, Running
    <2>2. OneRuns'
      BY <1>1, <1>2, <1>3, <1>4, <1>7, <1>8
         DEF StatusInv, QueuedAreReady, OneRuns, Running, Waiting
    <2> QED BY <2>1, <2>2 DEF StatusInv
  <1>11. WaitersAsked' /\ WaitersQueued' /\ RefusedIsFirst'
    BY <1>1, <1>2 DEF WaitersAsked, WaitersQueued, RefusedIsFirst, Waiting
  <1>12. TimeLeft'
    BY <1>1, <1>2, <1>3, <1>4, <1>6, SameLife, LifeFacts
       DEF TimeLeft, Waiting, HasTime, MayContinue
  <1>13. NobodyLost'
    BY <1>1, <1>2, <1>3, <1>5, SameLife DEF NobodyLost, Attached, Finished, Waiting
  <1>14. PrevKept'
    BY <1>2, <1>3, SameLife DEF PrevKept, MayContinue, Waiting
  <1>15. SrtfInv'
    <2> SUFFICES ASSUME sched = "srtf", NEW q \in Procs,
                        \/ q \in Range(readyqueue') \/ q = current'
                        \/ \E r \in Resources : q \in Range(waitqueue[r])
                 PROVE  prio'[q] = Remaining(q)
      BY <1>2, SameLife DEF SrtfInv
    <2>1. IF current = NULL \/ status[current] = "WAIT" THEN UNCHANGED prio
            ELSE prio' = [prio EXCEPT ![current] = Remaining(current)]
      BY DEF Schedule, SchedSchedule, SrtfSchedule
    <2>2. CASE q = current /\ status[current] # "WAIT"
      BY <2>1, <2>2, LifeFacts
    <2>3. CASE q = current /\ status[current] = "WAIT"
      BY <2>1, <2>3, <1>4 DEF SrtfInv, MayContinue
    <2>4. CASE q # current
      BY <2>1, <2>4, <1>4, LifeFacts DEF SrtfInv
    <2> QED BY <2>2, <2>3, <2>4
  <1> QED BY <1>9, <1>10, <1>11, <1>12, <1>13, <1>14, <1>15 DEF LifeInv

LEMMA LifeRetire == ASSUME Inv, LifeInv, SrtfInv, Retire PROVE LifeInv' /\ SrtfInv'
  <1>1. /\ PrevForgotten /\ StatusInv /\ WaitersAsked /\ WaitersQueued
        /\ RefusedIsFirst /\ TimeLeft /\ NobodyLost /\ PrevKept
    BY DEF LifeInv
  <1>2. /\ pc = "retire" /\ pc' \in {"aborted", "dispatch"} /\ current' = current
        /\ sched' = sched /\ script' = script /\ age' = age /\ to_acquire' = to_acquire
        /\ wanted' = wanted /\ waitqueue' = waitqueue /\ forkqueue' = forkqueue
        /\ readyqueue' = readyqueue /\ prio' = prio
    BY DEF Retire, configVars, queueVars
  <1>3. \/ pc' = "aborted" /\ prev' = prev /\ status' = status
        \/ /\ prev # NULL /\ age[prev] = Lifespan(prev) /\ ~Attached(prev)
           /\ \A p \in Procs : status'[p] = IF p = prev THEN "EXIT" ELSE status[p]
           /\ prev' = NULL /\ pc' = "dispatch" /\ current # prev
        \/ /\ prev # NULL /\ age[prev] # Lifespan(prev)
           /\ \A p \in Procs : status'[p] = IF p = prev /\ status[p] = "RUNNING"
                                              THEN "READY" ELSE status[p]
           /\ prev' = NULL /\ pc' = "dispatch"
        \/ prev = NULL /\ pc' = "dispatch" /\ prev' = NULL /\ status' = status
    BY <1>2, LifeFacts DEF Retire, Completed, ExitAsserts, PrevLeft
  <1>4. PrevForgotten' /\ PrevKept'
    BY <1>2, <1>3 DEF PrevForgotten, PrevKept
  <1>5. StatusInv'
    <2> SUFFICES ASSUME pc' = "dispatch" PROVE QueuedAreReady' /\ OneRuns'
      BY <1>2 DEF StatusInv
    <2>1. QueuedAreReady'
      BY <1>1, <1>2, <1>3, LifeFacts
         DEF StatusInv, QueuedAreReady, Running, Attached
    <2>2. OneRuns'
      BY <1>1, <1>2, <1>3, LifeFacts DEF StatusInv, OneRuns, Running, Waiting
    <2> QED BY <2>1, <2>2
  <1>6. \A p \in Procs : Waiting(p)' => Waiting(p)
    BY <1>3, LifeFacts DEF Waiting
  <1>7. WaitersAsked' /\ WaitersQueued' /\ RefusedIsFirst'
    BY <1>1, <1>2, <1>6 DEF WaitersAsked, WaitersQueued, RefusedIsFirst
  <1>8. TimeLeft'
    BY <1>1, <1>2, <1>6, SameLife DEF TimeLeft, InTick
  <1>9. NobodyLost'
    <2> SUFFICES ASSUME NEW p \in Procs
                 PROVE  (\/ Finished(p) \/ p \in {current, prev} \/ Attached(p)
                         \/ Waiting(p) \/ Lifespan(p) = 0)'
      BY DEF NobodyLost
    <2>1. Attached(p)' <=> Attached(p)
      BY <1>2 DEF Attached
    <2>2. CASE p # prev \/ prev = NULL
      BY <1>1, <1>2, <1>3, <2>1, <2>2, SameLife, LifeFacts
         DEF NobodyLost, Finished, Waiting
    <2>3. CASE p = prev /\ prev # NULL
      <3>1. CASE age[prev] = Lifespan(prev)
        BY <1>3, <2>3, <3>1 DEF Finished
      <3>2. CASE age[prev] # Lifespan(prev) /\ Waiting(prev)
        BY <1>3, <2>3, <3>2, LifeFacts DEF Waiting
      <3>3. CASE age[prev] # Lifespan(prev) /\ ~Waiting(prev)
        <4>1. Lifespan(prev) = 0 \/ age[prev] < Lifespan(prev)
          BY <1>1, <2>3, <3>3, LifeFacts DEF TimeLeft
        <4> QED BY <1>1, <1>2, <2>1, <2>3, <3>3, <4>1, SameLife DEF PrevKept, Attached
      <3> QED BY <3>1, <3>2, <3>3
    <2> QED BY <2>2, <2>3
  <1>10. SrtfInv'
    BY <1>2, SameLife DEF SrtfInv, InTick
  <1> QED BY <1>4, <1>5, <1>7, <1>8, <1>9, <1>10 DEF LifeInv

LEMMA LifeDispatch == ASSUME Inv, LifeInv, SrtfInv, Dispatch PROVE LifeInv' /\ SrtfInv'
  <1>1. /\ PrevForgotten /\ StatusInv /\ WaitersAsked /\ WaitersQueued
        /\ RefusedIsFirst /\ TimeLeft /\ NobodyLost
    BY DEF LifeInv
  <1>2. /\ pc = "dispatch" /\ pc' = "acquire" /\ current # NULL /\ current' = current
        /\ sched' = sched /\ script' = script /\ age' = age /\ to_acquire' = to_acquire
        /\ wanted' = wanted /\ waitqueue' = waitqueue /\ forkqueue' = forkqueue
        /\ readyqueue' = readyqueue /\ prio' = prio /\ prev' = prev /\ prev = NULL
        /\ ~Attached(current)
    BY <1>1, LifeFacts
       DEF Dispatch, configVars, queueVars, CurrentDetached, PrevForgotten
  <1>3. \A p \in Procs : status'[p] = IF p = current THEN "RUNNING" ELSE status[p]
    BY LifeFacts DEF Dispatch
  <1>4. PrevForgotten' /\ PrevKept'
    BY <1>1, <1>2 DEF PrevForgotten, PrevKept
  <1>5. StatusInv'
    <2>1. QueuedAreReady'
      BY <1>1, <1>2, <1>3, LifeFacts
         DEF StatusInv, QueuedAreReady, Attached
    <2>2. OneRuns'
      BY <1>1, <1>2, <1>3, LifeFacts DEF StatusInv, OneRuns, Running, Waiting
    <2> QED BY <2>1, <2>2 DEF StatusInv
  <1>6. \A p \in Procs : Waiting(p)' => Waiting(p)
    BY <1>3 DEF Waiting
  <1>7. WaitersAsked' /\ WaitersQueued' /\ RefusedIsFirst'
    BY <1>1, <1>2, <1>6 DEF WaitersAsked, WaitersQueued, RefusedIsFirst
  <1>8. TimeLeft'
    BY <1>1, <1>2, <1>6, SameLife DEF TimeLeft, InTick
  <1>9. NobodyLost'
    BY <1>1, <1>2, <1>3, SameLife DEF NobodyLost, Attached, Finished, Waiting
  <1>10. SrtfInv'
    BY <1>2, SameLife DEF SrtfInv, InTick
  <1> QED BY <1>4, <1>5, <1>7, <1>8, <1>9, <1>10 DEF LifeInv

(* The requests of the others are not looked at.                           *)
LEMMA LifeGranted == ASSUME Inv, LifeInv, SrtfInv, Granted PROVE LifeInv' /\ SrtfInv'
  <1>1. /\ PrevForgotten /\ StatusInv /\ WaitersAsked /\ WaitersQueued
        /\ RefusedIsFirst /\ TimeLeft /\ NobodyLost
    BY DEF LifeInv
  <1>2. /\ pc = "acquire" /\ pc' = pc /\ prev' = prev /\ current # NULL
        /\ current \in Procs /\ current' = current
        /\ sched' = sched /\ script' = script /\ age' = age
        /\ waitqueue' = waitqueue /\ forkqueue' = forkqueue
        /\ readyqueue' = readyqueue /\ status' = status
        /\ ~Attached(current)
    BY GrantedEffect, LifeFacts DEF configVars, loopVars, CurrentDetached
  <1>3. PICK i \in DOMAIN to_acquire[current] :
          /\ SchedAcquire(to_acquire[current][i].resource_id, TRUE)
          /\ to_acquire' = [to_acquire EXCEPT ![current] = RemoveAt(@, i)]
          /\ wanted' = [wanted EXCEPT ![current] = NULL]
    BY GrantedEffect
  <1>4. /\ \A p \in Procs : wanted'[p] = IF p = current THEN NULL ELSE wanted[p]
        /\ \A p \in Procs : p # current => to_acquire'[p] = to_acquire[p]
    BY <1>3, LifeFacts DEF TypeOK
  <1>5. PrevForgotten' /\ PrevKept' /\ StatusInv'
    BY <1>1, <1>2 DEF PrevForgotten, PrevKept, StatusInv, QueuedAreReady, OneRuns,
                      Running, Waiting
  <1>6. WaitersAsked' /\ WaitersQueued'
    BY <1>1, <1>2, <1>4, LifeFacts DEF WaitersAsked, WaitersQueued, Waiting, Attached
  <1>7. RefusedIsFirst'
    BY <1>1, <1>2, <1>4 DEF RefusedIsFirst
  <1>8. TimeLeft' /\ NobodyLost'
    BY <1>1, <1>2, SameLife DEF TimeLeft, InTick, Waiting, NobodyLost, Finished, Attached
  <1>9. SrtfInv'
    <2>1. sched = "srtf" => prio' = prio
      BY <1>3 DEF SchedAcquire, FcfsAcquire
    <2> QED BY <1>2, <2>1, SameLife DEF SrtfInv, InTick
  <1> QED BY <1>5, <1>6, <1>7, <1>8, <1>9 DEF LifeInv

LEMMA LifeRefused == ASSUME Inv, LifeInv, SrtfInv, Refused PROVE LifeInv' /\ SrtfInv'
  <1>1. /\ PrevForgotten /\ StatusInv /\ WaitersAsked /\ WaitersQueued
        /\ RefusedIsFirst /\ TimeLeft /\ NobodyLost
    BY DEF LifeInv
  <1>2. /\ pc = "acquire" /\ pc' = "fork" /\ prev' = prev /\ current # NULL
        /\ current \in Procs /\ current' = current
        /\ sched' = sched /\ script' = script /\ age' = age /\ to_acquire' = to_acquire
        /\ forkqueue' = forkqueue /\ readyqueue' = readyqueue
        /\ \A p \in Procs : status'[p] = IF p = current THEN "WAIT" ELSE status[p]
        /\ ~Attached(current)
    BY RefusedEffect, LifeFacts DEF configVars, CurrentDetached
  <1>3. PICK i \in DOMAIN to_acquire[current] :
          LET r == to_acquire[current][i].resource_id
          IN  /\ NextRequest(i) /\ r \in Resources
              /\ SchedAcquire(r, FALSE)
              /\ wanted' = [wanted EXCEPT ![current] = r]
              /\ sched = "pcp" => waitqueue' = waitqueue
              /\ sched # "pcp" =>
                   /\ Range(waitqueue'[r]) = Range(waitqueue[r]) \cup {current}
                   /\ \A s \in Resources \ {r} : waitqueue'[s] = waitqueue[s]
    BY RefusedEffect
  <1> DEFINE r == to_acquire[current][i].resource_id
  <1>4. /\ r \in Resources
        /\ SchedAcquire(r, FALSE)
        /\ \A p \in Procs : wanted'[p] = IF p = current THEN r ELSE wanted[p]
        /\ sched = "pcp" => waitqueue' = waitqueue
        /\ sched # "pcp" => /\ Range(waitqueue'[r]) = Range(waitqueue[r]) \cup {current}
                            /\ \A s \in Resources \ {r} : waitqueue'[s] = waitqueue[s]
    BY <1>3, LifeFacts
  <1>5. /\ to_acquire[current][i].at = age[current]
        /\ \A j \in 1 .. i-1 : to_acquire[current][j].at # age[current]
    BY <1>2, <1>3, RequestDue
  <1>6. RefusedIsFirst'
    BY <1>1, <1>2, <1>4, <1>5 DEF RefusedIsFirst
  <1> HIDE DEF r
  <1>7. PrevForgotten' /\ PrevKept'
    BY <1>1, <1>2 DEF PrevForgotten, PrevKept
  <1>8. StatusInv'
    <2>1. QueuedAreReady'
      BY <1>1, <1>2, LifeFacts DEF StatusInv, QueuedAreReady, Attached
    <2>2. OneRuns'
      BY <1>1, <1>2, LifeFacts DEF StatusInv, OneRuns, Running, Waiting
    <2> QED BY <2>1, <2>2 DEF StatusInv
  <1>9. \A s \in Resources : \A p \in Range(waitqueue'[s]) :
          (p \in Range(waitqueue[s]) /\ p # current) \/ (p = current /\ s = r)
    <2>1. \A s \in Resources : current \notin Range(waitqueue[s])
      BY <1>2 DEF Attached
    <2>2. CASE sched = "pcp"
      BY <1>4, <2>1, <2>2
    <2>3. CASE sched # "pcp"
      <3>1. \A s \in Resources \ {r} : waitqueue'[s] = waitqueue[s]
        BY <1>4, <2>3
      <3>2. Range(waitqueue'[r]) = Range(waitqueue[r]) \cup {current}
        BY <1>4, <2>3
      <3> QED BY <2>1, <3>1, <3>2
    <2> QED BY <2>2, <2>3
  <1>10. WaitersAsked'
    BY <1>1, <1>2, <1>4, <1>9, LifeFacts DEF WaitersAsked
  <1>11. \A s \in Resources : \A p \in Range(waitqueue[s]) : p \in Range(waitqueue'[s])
    BY <1>4
  <1>12. WaitersQueued'
    BY <1>1, <1>2, <1>4, <1>11 DEF WaitersQueued, Waiting
  <1>13. TimeLeft'
    BY <1>1, <1>2, SameLife DEF TimeLeft, InTick, Waiting
  <1>14. NobodyLost'
    BY <1>1, <1>2, <1>11, SameLife DEF NobodyLost, Finished, Waiting, Attached
  <1>15. SrtfInv'
    <2>1. sched = "srtf" => prio' = prio
      BY <1>4 DEF SchedAcquire, FcfsAcquire
    <2> QED BY <1>2, <1>9, <2>1, SameLife DEF SrtfInv, InTick
  <1> QED BY <1>6, <1>7, <1>8, <1>10, <1>12, <1>13, <1>14, <1>15 DEF LifeInv

LEMMA LifeProgress == ASSUME Inv, LifeInv, SrtfInv, Progress PROVE LifeInv' /\ SrtfInv'
  <1>1. /\ PrevForgotten /\ StatusInv /\ WaitersAsked /\ WaitersQueued
        /\ RefusedIsFirst /\ TimeLeft /\ NobodyLost
    BY DEF LifeInv
  <1>2. /\ pc = "acquire" /\ pc' = "release" /\ prev' = prev /\ current # NULL
        /\ current \in Procs /\ current' = current
        /\ sched' = sched /\ script' = script /\ to_acquire' = to_acquire
        /\ forkqueue' = forkqueue /\ readyqueue' = readyqueue /\ waitqueue' = waitqueue
        /\ wanted' = wanted /\ status' = status /\ prio' = prio
        /\ \A p \in Procs : age'[p] = IF p = current THEN age[p] + 1 ELSE age[p]
        /\ ~Attached(current)
        /\ Running(current) /\ HasTime(current)
    BY <1>1, LifeFacts
       DEF Progress, configVars, queueVars, CurrentDetached, StatusInv, OneRuns, TimeLeft,
           InTick, Inv, TypeInv, SomebodyRuns
  <1>3. wanted[current] = NULL
    BY <1>1, <1>2 DEF RefusedIsFirst, Progress, DueRequest
  <1>4. \A p : Lifespan(p)' = Lifespan(p)
    BY <1>2 DEF Lifespan
  <1>5. \A p \in Procs \ {current} : (HasTime(p)' <=> HasTime(p)) /\ Remaining(p)' = Remaining(p)
    BY <1>2, <1>4 DEF HasTime, Remaining
  <1>6. PrevForgotten' /\ PrevKept' /\ StatusInv'
    BY <1>1, <1>2 DEF PrevForgotten, PrevKept, StatusInv, QueuedAreReady, OneRuns,
                      Running, Waiting
  <1>7. WaitersAsked' /\ WaitersQueued' /\ RefusedIsFirst'
    BY <1>1, <1>2, <1>3 DEF WaitersAsked, WaitersQueued, RefusedIsFirst, Waiting
  <1>8. TimeLeft'
    <2>1. \A p \in Procs : Lifespan(p)' > 0 => age'[p] <= Lifespan(p)'
      BY <1>1, <1>2, <1>4, LifeFacts DEF TimeLeft, HasTime
    <2>2. \A p \in Range(forkqueue) \cup Range(readyqueue) : HasTime(p)'
      BY <1>1, <1>2, <1>5, LifeFacts DEF TimeLeft, Attached
    <2>3. \A p \in Procs : Waiting(p)' => HasTime(p)'
      BY <1>1, <1>2, <1>5 DEF TimeLeft, Waiting, Running
    <2> QED BY <1>2, <2>1, <2>2, <2>3 DEF TimeLeft, InTick
  <1>9. NobodyLost'
    BY <1>1, <1>2, <1>4 DEF NobodyLost, Finished, Waiting, Attached
  <1>10. SrtfInv'
    BY <1>2, <1>5 DEF SrtfInv, InTick, Attached
  <1> QED BY <1>6, <1>7, <1>8, <1>9, <1>10 DEF LifeInv

LEMMA LifeRelease == ASSUME Inv, LifeInv, SrtfInv, Release PROVE LifeInv' /\ SrtfInv'
  <1>1. /\ PrevForgotten /\ StatusInv /\ WaitersAsked /\ WaitersQueued
        /\ RefusedIsFirst /\ TimeLeft /\ NobodyLost
    BY DEF LifeInv
  <1> DEFINE r == Entry.resource_id
  <1>2. /\ pc = "release" /\ pc' = pc /\ prev' = prev /\ current # NULL
        /\ current \in Procs /\ current' = current /\ r \in Resources
        /\ sched' = sched /\ script' = script /\ age' = age /\ to_acquire' = to_acquire
        /\ forkqueue' = forkqueue /\ wanted' = wanted
        /\ SchedRelease(r)
    BY ReleaseEffect DEF configVars, loopVars
  <1>3. \/ UNCHANGED <<status, readyqueue, waitqueue>>
        \/ \E w \in Range(waitqueue[r]) :
             /\ w \in Procs /\ w # current
             /\ status' = [status EXCEPT ![w] = "READY"]
             /\ Range(readyqueue') = Range(readyqueue) \cup {w}
             /\ Range(waitqueue'[r]) = Range(waitqueue[r]) \ {w}
             /\ \A s \in Resources \ {r} : waitqueue'[s] = waitqueue[s]
    BY ReleaseEffect
  <1>4. sched = "srtf" => prio' = prio
    BY <1>2 DEF SchedRelease, FcfsRelease
  <1> HIDE DEF r
  <1>5. CASE UNCHANGED <<status, readyqueue, waitqueue>>
    <2>1. PrevForgotten' /\ PrevKept' /\ StatusInv'
      BY <1>1, <1>2, <1>5 DEF PrevForgotten, PrevKept, StatusInv, QueuedAreReady, OneRuns,
                              Running, Waiting
    <2>2. WaitersAsked' /\ WaitersQueued' /\ RefusedIsFirst'
      BY <1>1, <1>2, <1>5 DEF WaitersAsked, WaitersQueued, RefusedIsFirst, Waiting
    <2>3. TimeLeft' /\ NobodyLost'
      BY <1>1, <1>2, <1>5, SameLife
         DEF TimeLeft, NobodyLost, InTick, Finished, Waiting, Attached
    <2>4. SrtfInv'
      BY <1>2, <1>4, <1>5, SameLife DEF SrtfInv, InTick
    <2> QED BY <2>1, <2>2, <2>3, <2>4 DEF LifeInv
  <1>6. CASE ~UNCHANGED <<status, readyqueue, waitqueue>>
    <2>1. PICK w \in Range(waitqueue[r]) :
            /\ w \in Procs /\ w # current
            /\ status' = [status EXCEPT ![w] = "READY"]
            /\ Range(readyqueue') = Range(readyqueue) \cup {w}
            /\ Range(waitqueue'[r]) = Range(waitqueue[r]) \ {w}
            /\ \A s \in Resources \ {r} : waitqueue'[s] = waitqueue[s]
      BY <1>3, <1>6
    <2>2. /\ \A p \in Procs : status'[p] = IF p = w THEN "READY" ELSE status[p]
          /\ status[w] = "WAIT"
      BY <1>2, <2>1, LifeFacts DEF WaitersWait
    <2>3. \A s \in Resources : /\ Range(waitqueue'[s]) \subseteq Range(waitqueue[s])
                               /\ \A p \in Range(waitqueue[s]) :
                                    p # w => p \in Range(waitqueue'[s])
      BY <2>1
    <2>4. PrevForgotten' /\ PrevKept'
      BY <1>1, <1>2 DEF PrevForgotten, PrevKept
    <2>5. StatusInv'
      <3>1. QueuedAreReady'
        BY <1>1, <1>2, <2>1, <2>2, LifeFacts DEF StatusInv, QueuedAreReady
      <3>2. OneRuns'
        BY <1>1, <1>2, <2>1, <2>2, LifeFacts DEF StatusInv, OneRuns, Running, Waiting
      <3> QED BY <3>1, <3>2 DEF StatusInv
    <2>6. WaitersAsked' /\ WaitersQueued' /\ RefusedIsFirst'
      BY <1>1, <1>2, <2>2, <2>3 DEF WaitersAsked, WaitersQueued, RefusedIsFirst, Waiting
    <2>7. TimeLeft'
      BY <1>1, <1>2, <2>1, <2>2, SameLife DEF TimeLeft, InTick, Waiting
    <2>8. NobodyLost'
      BY <1>1, <1>2, <2>1, <2>2, <2>3, SameLife DEF NobodyLost, Finished, Waiting, Attached
    <2>9. SrtfInv'
      BY <1>2, <1>4, <2>1, <2>3, SameLife DEF SrtfInv, InTick
    <2> QED BY <2>4, <2>5, <2>6, <2>7, <2>8, <2>9 DEF LifeInv
  <1> QED BY <1>5, <1>6

(* The steps that only move pc, and what the current process still holds.  *)
LEMMA LifeOthers ==
    ASSUME Inv, LifeInv, SrtfInv,
           \/ Quit \/ Idle \/ KeepHolding \/ ReleaseAborts \/ EndTick \/ UNCHANGED vars
    PROVE  LifeInv' /\ SrtfInv'
  <1>1. /\ PrevForgotten /\ StatusInv /\ WaitersAsked /\ WaitersQueued
        /\ RefusedIsFirst /\ TimeLeft /\ NobodyLost /\ PrevKept
    BY DEF LifeInv
  <1>2. /\ prev' = prev /\ current' = current
        /\ sched' = sched /\ script' = script /\ age' = age /\ to_acquire' = to_acquire
        /\ forkqueue' = forkqueue /\ readyqueue' = readyqueue /\ waitqueue' = waitqueue
        /\ wanted' = wanted /\ status' = status /\ prio' = prio
    BY DEF Quit, Idle, KeepHolding, ReleaseAborts, EndTick, vars, configVars, loopVars,
           queueVars, processVars
  <1>3. \/ pc' = pc
        \/ pc = "dispatch" /\ pc' \in {"done", "fork"} /\ current = NULL
        \/ pc = "release" /\ pc' \in {"aborted", "fork"}
    BY DEF Quit, Idle, KeepHolding, ReleaseAborts, EndTick, vars, loopVars, Tick
  <1>4. PrevForgotten' /\ PrevKept'
    BY <1>1, <1>2, <1>3, SameLife DEF PrevForgotten, PrevKept, Waiting
  <1>5. StatusInv'
    BY <1>1, <1>2, <1>3, LifeFacts DEF StatusInv, QueuedAreReady, OneRuns, Running, Waiting
  <1>6. WaitersAsked' /\ WaitersQueued' /\ RefusedIsFirst'
    BY <1>1, <1>2 DEF WaitersAsked, WaitersQueued, RefusedIsFirst, Waiting
  <1>7. TimeLeft' /\ NobodyLost'
    BY <1>1, <1>2, <1>3, SameLife
       DEF TimeLeft, NobodyLost, InTick, Finished, Waiting, Attached
  <1>8. SrtfInv'
    BY <1>2, <1>3, SameLife DEF SrtfInv, InTick
  <1> QED BY <1>4, <1>5, <1>6, <1>7, <1>8 DEF LifeInv

AllInv == Inv /\ LifeInv /\ SrtfInv

LEMMA AllInit == Init => AllInv
  BY InvInit, LifeInit DEF AllInv

LEMMA AllStep == AllInv /\ [Next]_vars => AllInv'
  BY InvStep, LifeFork, LifeSchedule, LifeRetire, LifeDispatch, LifeGranted, LifeRefused,
     LifeProgress, LifeRelease, LifeOthers DEF Next, AllInv

(***************************************************************************)
(* What follows from it                                                    *)
(***************************************************************************)
(* SRTF compares what is really left to do, for every script.              *)
THEOREM SrtfKeyIsRemaining == Spec => []SrtfKey
  <1>1. AllInv => SrtfKey
    BY DEF AllInv, SrtfInv, SrtfKey
  <1> QED BY <1>1, AllInit, AllStep, PTL DEF Spec

(* Nobody is forgotten by a policy that queues those it refuses.           *)
LEMMA NobodyForgotten ==
    ASSUME AllInv, sched # "pcp", NEW p \in Procs
    PROVE  \/ Finished(p) \/ p \in {current, prev} \/ Attached(p) \/ Lifespan(p) = 0
  <1>1. /\ Waiting(p) => \E r \in Resources : p \in Range(waitqueue[r])
        /\ \/ Finished(p) \/ p \in {current, prev} \/ Attached(p)
           \/ Waiting(p) \/ Lifespan(p) = 0
    BY DEF AllInv, LifeInv, WaitersQueued, NobodyLost
  <1> QED BY <1>1 DEF Attached

(* The request that is due first is the one that was refused before.       *)
LEMMA WantedIsDue ==
    ASSUME AllInv, pc = "acquire", NEW i \in DOMAIN to_acquire[current], NextRequest(i),
           wanted[current] # NULL
    PROVE  to_acquire[current][i].resource_id = wanted[current]
  <1>1. /\ current \in Procs /\ to_acquire[current] \in Seq(Request)
        /\ i \in 1 .. Len(to_acquire[current])
        /\ to_acquire[current][i].at = age[current]
        /\ \A j \in 1 .. i-1 : to_acquire[current][j].at # age[current]
    BY RequestDue DEF AllInv
  <1>2. PICK k \in DOMAIN to_acquire[current] :
          /\ to_acquire[current][k].at = age[current]
          /\ to_acquire[current][k].resource_id = wanted[current]
          /\ \A j \in 1 .. k-1 : to_acquire[current][j].at # age[current]
    BY <1>1 DEF AllInv, LifeInv, RefusedIsFirst
  <1>3. k \in 1 .. Len(to_acquire[current])
    BY <1>1
  <1>4. ~(i < k) /\ ~(k < i)
    BY <1>1, <1>2, <1>3
  <1>5. i = k
    BY <1>1, <1>3, <1>4
  <1> QED BY <1>2, <1>5

(* A process that has been woken and not asked again is still to run.      *)
Woken(p, r) == wanted[p] = r /\ status[p] # "WAIT" /\ ~Finished(p)

LEMMA WakeStep == AllInv /\ NoLostWakeup /\ [Next]_vars => NoLostWakeup'
  <1> SUFFICES ASSUME AllInv, NoLostWakeup, [Next]_vars PROVE NoLostWakeup'
    OBVIOUS
  <1> USE DEF configVars, loopVars, queueVars, processVars
  <1>1. \A r \in Resources : waitqueue[r] # <<>> =>
          owner[r] # NULL \/ \E p \in Procs : Woken(p, r)
    BY DEF NoLostWakeup, Woken
  <1>2. SUFFICES ASSUME NEW r \in Resources, waitqueue'[r] # <<>>, owner'[r] = NULL
                 PROVE  \E p \in Procs : Woken(p, r)'
    BY DEF NoLostWakeup, Woken
  <1>3. Inv /\ LifeInv
    BY DEF AllInv
  <1>4. ASSUME waitqueue[r] # <<>>, owner[r] = NULL, wanted' = wanted,
               \A p \in Procs : \/ status'[p] = status[p]
                                \/ status'[p] \notin {"WAIT", "EXIT"}
        PROVE  \E p \in Procs : Woken(p, r)'
    BY <1>1, <1>4 DEF Woken, Finished
  <1>5. CASE Fork
    <2>1. /\ waitqueue' = waitqueue /\ owner' = owner /\ wanted' = wanted
          /\ \E p \in Procs : status' = [status EXCEPT ![p] = "READY"]
      BY <1>3, <1>5, ForkEffect
    <2> QED BY <1>2, <1>3, <1>4, <2>1, LifeFacts
  <1>6. CASE Schedule
    BY <1>2, <1>4, <1>6 DEF Schedule
  <1>7. CASE Retire
    <2>1. waitqueue' = waitqueue /\ owner' = owner /\ wanted' = wanted
      BY <1>7 DEF Retire
    <2>2. CASE prev # NULL /\ Completed(prev) /\ ExitAsserts(prev)
      <3>1. wanted[prev] = NULL
        <4>1. DOMAIN to_acquire[prev] = {}
          BY <2>2 DEF ExitAsserts
        <4> QED BY <1>3, <2>2, <4>1, LifeFacts DEF LifeInv, RefusedIsFirst
      <3>2. \A p \in Procs \ {prev} : status'[p] = status[p]
        BY <1>3, <1>7, <2>2, LifeFacts DEF Retire
      <3>3. PICK p \in Procs : Woken(p, r)
        BY <1>1, <1>2, <2>1
      <3>4. p # prev
        BY <3>1, <3>3 DEF Woken, Resources
      <3> QED BY <2>1, <3>2, <3>3, <3>4 DEF Woken, Finished
    <2>3. CASE ~(prev # NULL /\ Completed(prev) /\ ExitAsserts(prev))
      <3>1. \A p \in Procs : \/ status'[p] = status[p]
                             \/ status'[p] \notin {"WAIT", "EXIT"}
        BY <1>3, <1>7, <2>3, LifeFacts DEF Retire
      <3> QED BY <1>2, <1>4, <2>1, <3>1
    <2> QED BY <2>2, <2>3
  <1>8. CASE Dispatch
    <2>1. \A p \in Procs : \/ status'[p] = status[p]
                           \/ status'[p] \notin {"WAIT", "EXIT"}
      BY <1>3, <1>8, LifeFacts DEF Dispatch
    <2> QED BY <1>2, <1>4, <1>8, <2>1 DEF Dispatch
  <1>9. CASE Granted
    <2>1. pc = "acquire" /\ current \in Procs /\ status' = status /\ waitqueue' = waitqueue
      BY <1>3, <1>9, GrantedEffect
    <2>2. PICK i \in DOMAIN to_acquire[current] :
            LET s == to_acquire[current][i].resource_id
            IN  /\ NextRequest(i)
                /\ \/ owner' = owner /\ owner[s] # NULL
                   \/ owner' = [owner EXCEPT ![s] = current]
                /\ wanted' = [wanted EXCEPT ![current] = NULL]
      BY <1>3, <1>9, GrantedEffect
    <2> DEFINE s == to_acquire[current][i].resource_id
    <2>3. owner \in [Resources -> Procs \cup {NULL}] /\ s \in Resources
      BY <1>3, <2>1, <2>2, LifeFacts, RequestDue DEF TypeOK
    <2>4. s # r /\ owner[r] = NULL
      BY <1>2, <1>3, <2>1, <2>2, <2>3, LifeFacts
    <2>5. PICK p \in Procs : Woken(p, r)
      BY <1>1, <1>2, <2>1, <2>4
    <2>6. p # current
      BY <1>3, <2>1, <2>2, <2>4, <2>5, LifeFacts, WantedIsDue DEF Woken, Resources
    <2> QED BY <1>3, <2>1, <2>2, <2>5, <2>6, LifeFacts DEF Woken, Finished
  <1>10. CASE Refused
    <2>1. /\ pc = "acquire" /\ current \in Procs /\ owner' = owner
          /\ status' = [status EXCEPT ![current] = "WAIT"]
      BY <1>3, <1>10, RefusedEffect
    <2>2. PICK i \in DOMAIN to_acquire[current] :
            LET s == to_acquire[current][i].resource_id
            IN  /\ NextRequest(i)
                /\ owner[s] # NULL
                /\ wanted' = [wanted EXCEPT ![current] = s]
                /\ sched = "pcp" => waitqueue' = waitqueue
                /\ sched # "pcp" =>
                     \A t \in Resources \ {s} : waitqueue'[t] = waitqueue[t]
      BY <1>3, <1>10, RefusedEffect
    <2> DEFINE s == to_acquire[current][i].resource_id
    <2>3. s # r /\ waitqueue'[r] = waitqueue[r]
      BY <1>2, <2>1, <2>2
    <2>4. PICK p \in Procs : Woken(p, r)
      BY <1>1, <1>2, <2>1, <2>3
    <2>5. p # current
      BY <1>3, <2>1, <2>2, <2>3, <2>4, LifeFacts, WantedIsDue DEF Woken, Resources
    <2> QED BY <1>3, <2>1, <2>2, <2>4, <2>5, LifeFacts DEF Woken, Finished
  <1>11. CASE Release
    <2> DEFINE s == Entry.resource_id
    <2>1. /\ wanted' = wanted /\ s \in Resources
          /\ owner' = [owner EXCEPT ![s] = NULL]
          /\ \/ UNCHANGED <<status, readyqueue, waitqueue>> /\ waitqueue[s] = <<>>
             \/ \E w \in Range(waitqueue[s]) :
                  /\ w \in Procs
                  /\ status' = [status EXCEPT ![w] = "READY"]
                  /\ \A t \in Resources \ {s} : waitqueue'[t] = waitqueue[t]
      BY <1>3, <1>11, ReleaseEffect
    <2> HIDE DEF s
    <2>2. owner \in [Resources -> Procs \cup {NULL}]
      BY <1>3, LifeFacts DEF TypeOK
    <2>3. CASE UNCHANGED <<status, readyqueue, waitqueue>> /\ waitqueue[s] = <<>>
      <3>1. r # s
        BY <1>2, <2>3
      <3>2. owner[r] = NULL /\ waitqueue[r] # <<>>
        BY <1>2, <2>1, <2>2, <2>3, <3>1
      <3> QED BY <1>4, <2>1, <2>3, <3>2
    <2>4. CASE ~(UNCHANGED <<status, readyqueue, waitqueue>> /\ waitqueue[s] = <<>>)
      <3>1. PICK w \in Range(waitqueue[s]) :
              /\ w \in Procs
              /\ status' = [status EXCEPT ![w] = "READY"]
              /\ \A t \in Resources \ {s} : waitqueue'[t] = waitqueue[t]
        BY <2>1, <2>4
      <3>2. wanted[w] = s
        BY <1>3, <2>1, <3>1 DEF LifeInv, WaitersAsked
      <3>3. \A p \in Procs : status'[p] = IF p = w THEN "READY" ELSE status[p]
        BY <1>3, <3>1, LifeFacts
      <3>4. CASE r = s
        BY <2>1, <3>1, <3>2, <3>3, <3>4 DEF Woken, Finished
      <3>5. CASE r # s
        <4>1. owner[r] = NULL /\ waitqueue[r] # <<>>
          BY <1>2, <2>1, <2>2, <3>1, <3>5
        <4> QED BY <1>4, <2>1, <3>3, <4>1
      <3> QED BY <3>4, <3>5
    <2> QED BY <2>3, <2>4
  <1>12. CASE \/ Quit \/ Idle \/ Progress \/ KeepHolding \/ ReleaseAborts \/ EndTick
              \/ UNCHANGED vars
    <2>1. UNCHANGED <<waitqueue, owner, wanted, status>>
      BY <1>12 DEF Quit, Idle, Progress, KeepHolding, ReleaseAborts, EndTick, vars
    <2> QED BY <1>2, <1>4, <2>1
  <1> QED BY <1>5, <1>6, <1>7, <1>8, <1>9, <1>10, <1>11, <1>12 DEF Next

(* Whatever the script asks for, nobody waits for a free resource that no  *)
(* process is due to ask for: a wakeup is never lost.                      *)
THEOREM NoWakeupIsLost == Spec => []NoLostWakeup
  <1>1. Init => NoLostWakeup
    BY DEF Init, NoLostWakeup
  <1> QED BY <1>1, AllInit, AllStep, WakeStep, PTL DEF Spec

(* The policies that let the processes of a priority take turns.           *)
LEMMA CompeteSwitches ==
    ASSUME TypeOK, Compete, current # NULL, current \notin Range(readyqueue),
           current' = current, NEW q \in Range(readyqueue)
    PROVE  ~(prio[q] >= prio[current])
  <1>1. readyqueue \in Seq(Procs) /\ current \in Procs
    BY DEF TypeOK
  <1> DEFINE s == Append(readyqueue, current)
  <1> DEFINE n == Len(readyqueue)
  <1>2. /\ n \in Nat /\ DOMAIN s = 1 .. n + 1 /\ s[n + 1] = current
        /\ \A j \in 1 .. n : s[j] = readyqueue[j] /\ readyqueue[j] \in Range(readyqueue)
    BY <1>1 DEF Range
  <1>3. PICK i \in DOMAIN s : FirstMax(KeysOf(s, prio), i) /\ s[i] = current
    BY DEF Compete, TakeFrom
  <1> HIDE DEF s
  <1>4. i = n + 1
    BY <1>2, <1>3
  <1>5. PICK j \in 1 .. n : q = readyqueue[j]
    BY <1>1 DEF Range
  <1>6. KeysOf(s, prio)[j] < KeysOf(s, prio)[i]
    BY <1>2, <1>4, <1>5, <1>3 DEF FirstMax
  <1>7. prio[q] < prio[current]
    BY <1>2, <1>3, <1>4, <1>5, <1>6 DEF KeysOf
  <1>8. q \in Procs /\ prio[q] \in Nat /\ prio[current] \in Nat
    BY <1>1, <1>5 DEF TypeOK
  <1> QED BY <1>7, <1>8

LEMMA PickSwitches ==
    ASSUME ~MayContinue, current # NULL, current \notin Range(readyqueue),
           PickNext(IsHead) \/ PickNext(HighestPrio)
    PROVE  current' # current
  BY DEF PickNext, TakeFrom, Range

(* A process that has run goes on only when nobody who is ready is as good. *)
THEOREM TurnsAreTaken == Spec => SwitchedEachTick
  <1> DEFINE Switched ==
        pc = "fork" /\ pc' = "retire" /\ sched \in {"rr", "prio", "pa", "pcp", "pip"}
        /\ current # NULL /\ current' = current
          => \A q \in Range(readyqueue) : ~AsGood(q, current)
  <1>1. AllInv /\ [Next]_vars => [Switched]_vars
    <2> SUFFICES ASSUME AllInv, Next, pc = "fork", pc' = "retire",
                        sched \in {"rr", "prio", "pa", "pcp", "pip"},
                        current # NULL, current' = current,
                        NEW q \in Range(readyqueue)
                 PROVE  ~AsGood(q, current)
      OBVIOUS
    <2>1. Schedule
      BY DEF Next, Fork, Schedule, Retire, Quit, Idle, Dispatch, Granted, Refused,
             Progress, KeepHolding, Release, ReleaseAborts, EndTick, Tick, loopVars
    <2>2. TypeOK /\ current \notin Range(readyqueue)
      BY LifeFacts DEF AllInv, CurrentDetached
    <2>3. CASE sched = "rr"
      <3>1. \/ ~MayContinue /\ PickNext(IsHead)
            \/ MayContinue  /\ TakeFrom(Append(readyqueue, current), 1)
        BY <2>1, <2>3 DEF Schedule, SchedSchedule, RrSchedule
      <3>2. TakeFrom(Append(readyqueue, current), 1)
        BY <2>2, <3>1, PickSwitches
      <3>3. readyqueue \in Seq(Procs) /\ current \in Procs
        BY <2>2 DEF TypeOK
      <3>4. PICK j \in 1 .. Len(readyqueue) : q = readyqueue[j]
        BY <3>3 DEF Range
      <3>5. Append(readyqueue, current)[1] = readyqueue[1] /\ 1 \in DOMAIN readyqueue
        BY <3>3, <3>4
      <3> QED BY <2>2, <3>2, <3>5 DEF TakeFrom, Range
    <2>4. CASE sched # "rr"
      <3>1. \/ ~MayContinue /\ PickNext(HighestPrio)
            \/ MayContinue  /\ Compete
        BY <2>1, <2>4
           DEF Schedule, SchedSchedule, PrioSchedule, PaSchedule, PcpSchedule, PipSchedule
      <3>2. Compete
        BY <2>2, <3>1, PickSwitches
      <3> QED BY <2>2, <2>4, <3>2, CompeteSwitches DEF AsGood
    <2> QED BY <2>3, <2>4
  <1> QED BY <1>1, AllInit, AllStep, PTL DEF Spec, SwitchedEachTick
================================================================================

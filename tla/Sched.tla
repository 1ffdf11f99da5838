--------------------------------- MODULE Sched ---------------------------------
(***************************************************************************)
(* The scheduler simulator of OS-pa2: the framework of sched.c composed    *)
(* with the policy callbacks of SchedPolicies.  __do_simulation repeats,   *)
(* once per tick,                                                          *)
(*   fork -> (schedule) -> retire -> dispatch -> acquire -> release        *)
(* and pc says which of these is next.  A failing assert() ends the        *)
(* program: pc = "aborted".                                                *)
(***************************************************************************)
EXTENDS SchedPolicies

(***************************************************************************)
(* Initial state: __initialize and the lists __load_script builds          *)
(***************************************************************************)
Init == /\ sched \in Scheds
        /\ script \in Scripts
        /\ ticks = 0 /\ pc = "fork" /\ current = NULL /\ prev = NULL /\ cursor = 1
        /\ forkqueue = FileOrder
        /\ readyqueue = <<>>
        /\ status = [p \in Procs |-> "READY"]
        /\ age = [p \in Procs |-> 0]
        /\ prio = [p \in Procs |-> PrioOrig(p)]
        /\ to_acquire = [p \in Procs |-> script[p].requests]
        /\ holding = [p \in Procs |-> <<>>]
        /\ wanted = [p \in Procs |-> NULL]
        /\ owner = [r \in Resources |-> NULL]
        /\ waitqueue = [r \in Resources |-> <<>>]

(***************************************************************************)
(* __fork_on_schedule: one iteration that forks a process                  *)
(***************************************************************************)
Due(i) == StartsAt(forkqueue[i]) <= ticks

Fork ==
    /\ pc = "fork"
    /\ \E i \in DOMAIN forkqueue :
         LET p == forkqueue[i]
         IN  /\ Due(i) /\ \A j \in 1 .. i-1 : ~Due(j)
             /\ forkqueue' = RemoveAt(forkqueue, i)
             /\ readyqueue' = Append(readyqueue, p)
             /\ status' = [status EXCEPT ![p] = "READY"]
             /\ SchedForked(p)
    /\ UNCHANGED <<configVars, loopVars, current, age, to_acquire, holding,
                   wanted, owner, waitqueue>>

(* prev = current; current = sched->schedule(); *)
Schedule ==
    /\ pc = "fork"
    /\ \A i \in DOMAIN forkqueue : ~Due(i)
    /\ SchedSchedule
    /\ prev' = current
    /\ pc' = "retire"
    /\ UNCHANGED <<configVars, ticks, cursor, forkqueue, waitqueue, status, age,
                   to_acquire, holding, wanted, owner>>

(***************************************************************************)
(* The process of the previous tick is ready again, or exits               *)
(***************************************************************************)
(* Mutant: a process exits one tick early. *)
CompletedEarly(p) == age[p] + 1 = Lifespan(p)

Completed(p) == age[p] = Lifespan(p)

(* The assertions of __exit_process. *)
ExitAsserts(p) == ~Attached(p) /\ holding[p] = <<>> /\ to_acquire[p] = <<>>

Retire ==
    /\ pc = "retire"
    /\ \/ /\ prev # NULL /\ Completed(prev) /\ ~ExitAsserts(prev)
          /\ pc' = "aborted"
          /\ UNCHANGED <<prev, status>>
       \/ /\ prev # NULL /\ Completed(prev) /\ ExitAsserts(prev)
          /\ status' = [status EXCEPT ![prev] = "EXIT"]
          /\ prev' = NULL /\ pc' = "dispatch"
       \/ /\ prev # NULL /\ ~Completed(prev)
          /\ status' = [status EXCEPT ![prev] =
                           IF @ = "RUNNING" THEN "READY" ELSE @]
          /\ prev' = NULL /\ pc' = "dispatch"
       \/ /\ prev = NULL
          /\ pc' = "dispatch"
          /\ UNCHANGED <<prev, status>>
    /\ UNCHANGED <<configVars, queueVars, ticks, cursor, current, age, prio,
                   to_acquire, holding, wanted, owner>>

(***************************************************************************)
(* Run the current process, idle, or quit                                  *)
(***************************************************************************)
Tick == /\ ticks' = IF ticks < TickCap THEN ticks + 1 ELSE ticks
        /\ pc' = "fork"

(* "Quit simulation if no pending process exists"; a blocked process is on *)
(* neither of the two queues the test looks at.                            *)
Quit == /\ pc = "dispatch" /\ current = NULL
        /\ readyqueue = <<>> /\ forkqueue = <<>>
        /\ pc' = "done"
        /\ UNCHANGED <<configVars, queueVars, processVars, ticks, prev, cursor,
                       current, owner>>

Idle == /\ pc = "dispatch" /\ current = NULL
        /\ ~(readyqueue = <<>> /\ forkqueue = <<>>)
        /\ Tick
        /\ UNCHANGED <<configVars, queueVars, processVars, prev, cursor, current,
                       owner>>

Dispatch ==
    /\ pc = "dispatch" /\ current # NULL
    /\ status' = [status EXCEPT ![current] = "RUNNING"]
    /\ pc' = IF Attached(current) THEN "aborted" ELSE "acquire"
    /\ UNCHANGED <<configVars, queueVars, ticks, prev, cursor, current, age, prio,
                   to_acquire, holding, wanted, owner>>

(***************************************************************************)
(* __run_current_acquire: requests that are due, in the order of the list  *)
(***************************************************************************)
DueRequest(i) == /\ i \in DOMAIN to_acquire[current]
                 /\ to_acquire[current][i].at = age[current]
NextRequest(i) == DueRequest(i) /\ \A j \in 1 .. i-1 : ~DueRequest(j)

Granted ==
    /\ pc = "acquire"
    /\ \E i \in DOMAIN to_acquire[current] :
         LET rs == to_acquire[current][i]
         IN  /\ NextRequest(i)
             /\ SchedAcquire(rs.resource_id, TRUE)
             /\ to_acquire' = [to_acquire EXCEPT ![current] = RemoveAt(@, i)]
             /\ holding' = [holding EXCEPT ![current] = Append(@, rs)]
             /\ wanted' = [wanted EXCEPT ![current] = NULL]
    /\ UNCHANGED <<configVars, loopVars, current, forkqueue, readyqueue, age>>

(* The process makes no progress in this tick. *)
Refused ==
    /\ pc = "acquire"
    /\ \E i \in DOMAIN to_acquire[current] :
         LET r == to_acquire[current][i].resource_id
         IN  /\ NextRequest(i)
             /\ SchedAcquire(r, FALSE)
             /\ wanted' = [wanted EXCEPT ![current] = r]
    /\ Tick
    /\ UNCHANGED <<configVars, prev, cursor, current, forkqueue, readyqueue, age,
                   to_acquire, holding, owner>>

(* Everything due was granted: the process ages by one tick. *)
Progress ==
    /\ pc = "acquire"
    /\ \A i \in DOMAIN to_acquire[current] : ~DueRequest(i)
    /\ age' = [age EXCEPT ![current] = @ + 1]
    /\ cursor' = 1
    /\ pc' = "release"
    /\ UNCHANGED <<configVars, queueVars, ticks, prev, current, status, prio,
                   to_acquire, holding, wanted, owner>>

(***************************************************************************)
(* __run_current_release: one entry of the holding list per step           *)
(***************************************************************************)
Entry == holding[current][cursor]

KeepHolding ==
    /\ pc = "release" /\ cursor <= Len(holding[current])
    /\ Entry.duration - 1 # 0
    /\ holding' = [holding EXCEPT ![current][cursor].duration = @ - 1]
    /\ cursor' = cursor + 1
    /\ UNCHANGED <<configVars, queueVars, ticks, pc, prev, current, status, age,
                   prio, to_acquire, wanted, owner>>

Release ==
    /\ pc = "release" /\ cursor <= Len(holding[current])
    /\ Entry.duration - 1 = 0
    /\ ReleaseAsserts(Entry.resource_id)
    /\ SchedRelease(Entry.resource_id)
    /\ holding' = [holding EXCEPT ![current] = RemoveAt(@, cursor)]
    /\ UNCHANGED <<configVars, loopVars, current, forkqueue, age, to_acquire,
                   wanted>>

ReleaseAborts ==
    /\ pc = "release" /\ cursor <= Len(holding[current])
    /\ Entry.duration - 1 = 0
    /\ ~ReleaseAsserts(Entry.resource_id)
    /\ pc' = "aborted"
    /\ UNCHANGED <<configVars, queueVars, processVars, ticks, prev, cursor,
                   current, owner>>

EndTick ==
    /\ pc = "release" /\ cursor > Len(holding[current])
    /\ Tick
    /\ UNCHANGED <<configVars, queueVars, processVars, prev, cursor, current,
                   owner>>

Next == \/ Fork \/ Schedule \/ Retire
        \/ Quit \/ Idle \/ Dispatch
        \/ Granted \/ Refused \/ Progress
        \/ KeepHolding \/ Release \/ ReleaseAborts \/ EndTick

Spec == Init /\ [][Next]_vars

(* One thread runs the loop and nothing it does can block. *)
FairSpec == Spec /\ WF_vars(Next)
================================================================================

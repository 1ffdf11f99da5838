-------------------------------- MODULE MCSched --------------------------------
(***************************************************************************)
(* Instances of Sched for TLC: the script spaces of the runs.              *)
(***************************************************************************)
EXTENDS SchedRefinement

MCFileOrder == [i \in 1 .. Cardinality(Procs) |-> i]

Req(r, at, duration) == [resource_id |-> r, at |-> at, duration |-> duration]

Describe(pid, lf, pr, start, rq) ==
    [pid |-> pid, lifespan |-> lf, prio |-> pr, starts_at |-> start, requests |-> rq]

(* Three processes that use one resource at a time, every priority pattern. *)
OneHold == {<<>>, <<Req(0, 0, 2)>>, <<Req(0, 1, 2)>>}
SingleScripts ==
    { [p \in Procs |-> Describe(p, 3, pr[p], IF p = 1 THEN 0 ELSE 1, rq[p])] :
        pr \in [Procs -> 0 .. 2], rq \in [Procs -> OneHold] }

(* Nested, hand-over-hand and simultaneous requests, in both orders.       *)
TwoHolds == {<<Req(0, 0, 3), Req(1, 1, 1)>>, <<Req(1, 0, 3), Req(0, 1, 1)>>,
             <<Req(0, 0, 2), Req(1, 1, 2)>>, <<Req(1, 1, 2), Req(0, 1, 1)>>,
             <<Req(0, 1, 2)>>}
NestedScripts ==
    { [p \in Procs |-> Describe(p, 3, pr[p], IF p = 1 THEN 0 ELSE 1, rq[p])] :
        pr \in {<<0, 0, 0>>, <<0, 1, 2>>, <<1, 2, 0>>}, rq \in [Procs -> TwoHolds] }

(* Scripts no check of the loader rejects: no lifespan, requests after the *)
(* end or not given back by then, a resource asked for twice, equal pids;  *)
(* and sound ones that cross.                                              *)
RoughRequests == {<<>>, <<Req(0, 0, 0)>>, <<Req(0, 0, 2)>>, <<Req(0, 2, 1)>>,
                  <<Req(0, 1, 3)>>, <<Req(0, 0, 2), Req(0, 1, 1)>>,
                  <<Req(0, 0, 1), Req(0, 0, 2)>>,
                  <<Req(0, 0, 3), Req(1, 1, 1)>>, <<Req(1, 0, 3), Req(0, 1, 1)>>}
RoughScripts ==
    { [p \in Procs |-> Describe(pid[p], lf[p], p, st[p], rq[p])] :
        pid \in {<<1, 2>>, <<1, 1>>}, lf \in [Procs -> {0, 2, 3}],
        st \in {<<0, 0>>, <<0, 1>>}, rq \in [Procs -> RoughRequests] }

(* Lifespans and arrivals of every kind, one contended resource.           *)
SpreadScripts ==
    { [p \in Procs |-> Describe(p, lf[p], 0, st[p],
                                IF lf[p] > 2 THEN <<Req(0, 1, lf[p] - 1)>> ELSE <<>>)] :
        lf \in [Procs -> 1 .. 4], st \in [Procs -> 0 .. 2] }

(* Long and uneven lives, for what builds up over many ticks.              *)
LongScripts ==
    { [p \in Procs |-> Describe(p, lf[p], pr[p], st[p],
                                IF p > 2 THEN <<Req(0, 1, 1)>> ELSE <<>>)] :
        lf \in {<<6, 6, 6, 6>>, <<6, 5, 3, 4>>, <<2, 4, 6, 5>>},
        pr \in [Procs -> 0 .. 2], st \in {<<0, 0, 0, 0>>, <<0, 1, 3, 5>>, <<0, 4, 5, 5>>} }

(* What sched_three checks.  pcp_acquire forgets a process that it refuses, *)
(* which the run bug_pcp_queue shows; what the other policies promise is    *)
(* asked of PCP on scripts that hold one resource at a time, where it       *)
(* refuses nobody.  The long lives are for the two policies that keep       *)
(* something in prio over many ticks.                                       *)
ThreeScripts == SingleScripts \cup NestedScripts \cup LongScripts
ThreeInit ==
    /\ Init
    /\ sched = "pcp" => UnderCeiling
    /\ script \in LongScripts => sched \in {"pa", "srtf"}
ThreeSpec == ThreeInit /\ [][Next]_vars /\ WF_vars(Next)
================================================================================

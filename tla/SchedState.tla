------------------------------ MODULE SchedState ------------------------------
(***************************************************************************)
(* The state of the scheduler simulator of OS-pa2: what sched.c keeps for  *)
(* the framework (ticks, the fork queue, the ready queue, the current      *)
(* process), what process.h keeps for a process and what resource.h keeps  *)
(* for a resource.  A run of the program is given by a policy (the command *)
(* line option) and a script (the process description file); both are      *)
(* chosen in the initial state and never change.                           *)
(***************************************************************************)
EXTENDS Integers, Sequences, SequencesExt

CONSTANTS
    Procs,         \* the processes a script describes
    NR_RESOURCES,  \* resource.h: 16
    NULL,          \* the null pointer
    FileOrder,     \* the order in which the file describes the processes
    Scheds,        \* the policies a run may select
    Scripts,       \* the scripts a run may load
    MAX_PRIO,      \* process.h: 64
    MAX_LIFESPAN,  \* pa2.c: (int)99999999999
    UINT,          \* 2^32, the number of values of an unsigned int
    TickCap        \* bound: the tick counter stops here; no process starts later

(* The resource ids, the indices of resources[]. *)
Resources == 0 .. NR_RESOURCES - 1

AllScheds == {"fifo", "sjf", "srtf", "rr", "prio", "pa", "pcp", "pip"}

(* One "acquire" line of a script, or the struct resource_schedule it makes. *)
Request == [resource_id : Resources, at : Nat, duration : Int]

(* One process description. *)
Description == [pid : Nat, lifespan : Nat, prio : 0 .. UINT - 1,
                starts_at : 0 .. TickCap, requests : Seq(Request)]

ASSUME ProcsAssumption == NULL \notin Procs \cup Resources
ASSUME FileOrderAssumption == /\ FileOrder \in Seq(Procs)
                              /\ IsInjective(FileOrder)
                              /\ Range(FileOrder) = Procs
ASSUME SchedsAssumption == Scheds \subseteq AllScheds
ASSUME ScriptsAssumption == Scripts \subseteq [Procs -> Description]
ASSUME NumbersAssumption == /\ MAX_PRIO \in Nat /\ MAX_LIFESPAN \in Nat
                            /\ UINT \in Nat \ {0} /\ TickCap \in Nat
                            /\ NR_RESOURCES \in Nat

VARIABLES
    sched,       \* the policy the option selects
    script,      \* the script the file describes
    ticks,       \* the tick counter, up to TickCap
    pc,          \* where __do_simulation is
    current,     \* the process that is running, or NULL
    prev,        \* the process of the previous tick, or NULL
    cursor,      \* the entry __run_current_release looks at
    forkqueue,   \* processes not forked yet, in the order of the file
    readyqueue,  \* processes ready to run
    status, age, prio,    \* fields of struct process
    to_acquire, holding,  \* its __resources_to_acquire and __resources_holding
    owner, waitqueue,     \* fields of struct resource
    wanted       \* history: the resource whose acquire() last refused p

configVars  == <<sched, script>>
loopVars    == <<ticks, pc, prev, cursor>>
queueVars   == <<forkqueue, readyqueue, waitqueue>>
processVars == <<status, age, prio, to_acquire, holding, wanted>>
vars == <<configVars, loopVars, queueVars, processVars, current, owner>>

Status == {"READY", "RUNNING", "WAIT", "EXIT"}
PC == {"fork", "retire", "dispatch", "acquire", "release", "done", "aborted"}

Pid(p)      == script[p].pid
Lifespan(p) == script[p].lifespan
PrioOrig(p) == script[p].prio
StartsAt(p) == script[p].starts_at

(* Mutant: the field were a signed int. *)
Signed(n) == n

(* Arithmetic on an unsigned int. *)
Unsigned(n) == n % UINT

(* !list_empty(&p->list): p is attached to some queue. *)
Attached(p) == \/ p \in Range(forkqueue)
               \/ p \in Range(readyqueue)
               \/ \E r \in Resources : p \in Range(waitqueue[r])
================================================================================

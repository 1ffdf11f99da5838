-------------------------------- MODULE MCLists --------------------------------
(***************************************************************************)
(* The list library and the programs on top of it in one instance.  They   *)
(* share no state, so a behaviour exercises one of them, subject, and      *)
(* leaves the variables of the others as they are.                         *)
(***************************************************************************)
EXTENDS ListMeaning, ListWalk, HList, Stack, LoadScript

VARIABLE subject    \* "calls", "loops", "hlist", "stack" or "script"

OfCalls == subject = "calls"
OfLoops == subject = "loops"
OfHList == subject = "hlist"
OfStack == subject = "stack"
OfScript == subject = "script"

MCSymmetry == Permutations(Nodes) \cup Permutations(HNodes)

Line(w, args) == [word |-> w, args |-> args]
MCFileLines ==
    {Line("", <<>>), Line("end", <<>>), Line("unknown", <<>>), Line("lifespan", <<>>),
     Line("process", <<1>>), Line("process", <<2>>), Line("lifespan", <<2>>),
     Line("lifespan", <<3>>), Line("prio", <<1>>), Line("start", <<4>>),
     Line("acquire", <<0, 1, 2>>), Line("acquire", <<1, 0, 1>>), Line("acquire", <<1>>)}

(* The variables of a program that is not the subject. *)
IdleLoops == /\ macro = "" /\ head = NULL /\ pos = NULL /\ n = NULL
             /\ phase = "idle" /\ visited = <<>> /\ due = <<>>
IdleStack == /\ allocated = {} /\ string = << >> /\ buffer = None
             /\ step = "idle" /\ i = 0 /\ printed = <<>> /\ pushed = <<>>
IdleScript == /\ chosen = "fifo" /\ p = NULL /\ process = << >>
              /\ stage = "idle" /\ opts = <<>> /\ file = <<>>

hVars == <<hmem>>
stackOnly == <<allocated, string, buffer, step, i, printed, pushed>>
scriptOnly == <<chosen, p, process, stage, opts, file>>

MCInit ==
    /\ HInit
    /\ \/ OfCalls /\ Init /\ IdleLoops /\ IdleStack /\ IdleScript
       \/ OfLoops /\ WalkInit /\ IdleStack /\ IdleScript
       \/ OfHList /\ Init /\ IdleLoops /\ IdleStack /\ IdleScript
       \/ OfStack /\ StackInit /\ IdleLoops /\ IdleScript
       \/ OfScript /\ LoadInit /\ IdleLoops /\ IdleStack

MCNext ==
    /\ UNCHANGED subject
    /\ \/ OfCalls /\ Next /\ UNCHANGED <<hVars, loopVars, stackOnly, scriptOnly>>
       \/ OfLoops /\ WalkNext /\ UNCHANGED <<hVars, stackOnly, scriptOnly>>
       \/ OfHList /\ HNext /\ UNCHANGED <<mem, loopVars, stackOnly, scriptOnly>>
       \/ OfStack /\ StackNext /\ UNCHANGED <<hVars, loopVars, scriptOnly>>
       \/ OfScript /\ LoadNext /\ UNCHANGED <<hVars, loopVars, stackOnly>>

MCSpec == MCInit /\ [][MCNext]_<<subject, mem, hVars, loopVars, stackOnly, scriptOnly>>

(***************************************************************************)
(* The properties, each of its subject                                     *)
(***************************************************************************)
(* ListMeaning: every call of list_head.h does what its comment says. *)
ListCallsMean == OfCalls => CallsMean

(* HList: so does every call of the hlist functions. *)
HListCallsMean == OfHList => HCallsMean

(* ListWalk: the loops show their body every entry once. *)
LoopsVisit == OfLoops => WalkVisits

(* Stack: the list of OS-pa0 is a stack. *)
StackIsStack == OfStack => IsStack

(* LoadScript: the fork queue is what the script describes, and a script   *)
(* that cannot be taken stops the loader in the line it cannot take.       *)
LoaderLoads == OfScript => QueueIsScript /\ StopsAtBadLine
================================================================================

------------------------------- MODULE LoadScript -------------------------------
(***************************************************************************)
(* How OS-pa2 starts: main() reads the options, and __load_script() turns  *)
(* the lines of the script, in any order a file may have them, into the    *)
(* fork queue that the simulation begins with.                             *)
(***************************************************************************)
EXTENDS ListHead

CONSTANTS
    forkqueue,      \* the list __forkqueue
    Options,        \* letters the command line may have
    FileLines,      \* lines a script may have: a word and its arguments
    MaxInput        \* bound for model checking: options and lines together

Policy == [f |-> "fifo", s |-> "sjf", S |-> "srtf", r |-> "rr", p |-> "prio",
           a |-> "pa", c |-> "pcp", i |-> "pip"]

ASSUME LoadAssumption == forkqueue \in Heads /\ MaxInput \in Nat

VARIABLES
    chosen,     \* main()'s sched
    p,          \* the process that is being described
    process,    \* the fields of the processes that were allocated
    stage,      \* "options", "load", "simulate", or how the program ended
    opts, file  \* history: the options and the lines read so far

loadVars == <<mem, chosen, p, process, stage, opts, file>>

(* memset(p, 0) *)
Blank(pid) == [pid |-> pid, lifespan |-> 0, prio |-> 0, starts_at |-> 0, requests |-> <<>>]

Request(args) == [resource_id |-> args[1], at |-> args[2], duration |-> args[3]]

LoadInit ==
    /\ mem = [next |-> [x \in Addr |-> IF x \in Heads THEN x ELSE POISON1],
              prev |-> [x \in Addr |-> IF x \in Heads THEN x ELSE POISON2]]
    /\ chosen = "fifo" /\ p = NULL /\ process = << >>
    /\ stage = "options" /\ opts = <<>> /\ file = <<>>

(***************************************************************************)
(* main()                                                                  *)
(***************************************************************************)
Option == \E o \in Options :
    /\ stage = "options" /\ Len(opts) < MaxInput
    /\ opts' = Append(opts, o)
    /\ IF o \in DOMAIN Policy THEN chosen' = Policy[o] /\ UNCHANGED stage
       ELSE UNCHANGED chosen /\ stage' = IF o = "q" THEN stage ELSE "usage"
    /\ UNCHANGED <<mem, p, process, file>>

(* The script file is missing, or the script is about to be read. *)
Arguments ==
    /\ stage = "options" /\ stage' \in {"usage", "load"}
    /\ mem' = INIT_LIST_HEAD(mem, forkqueue)
    /\ UNCHANGED <<chosen, p, process, opts, file>>

(***************************************************************************)
(* __load_script(): one iteration of its loop per line                     *)
(***************************************************************************)
Fails(how) == stage' = how /\ UNCHANGED <<mem, p, process>>

(* A description that is open is forgotten. *)
ProcessLine(args) ==
    IF Len(args) # 1 THEN Fails("aborted")
    ELSE \E new \in Nodes \ DOMAIN process :
           /\ p' = new
           /\ process' = [x \in DOMAIN process \cup {new} |->
                            IF x = new THEN Blank(args[1]) ELSE process[x]]
           /\ mem' = INIT_LIST_HEAD(mem, new)
           /\ UNCHANGED stage

(* Mutant: the description stays open. *)
EndLineOpen ==
    IF p = NULL THEN Fails("aborted")
    ELSE mem' = list_add_tail(mem, p, forkqueue) /\ UNCHANGED <<p, process, stage>>

EndLine ==
    IF p = NULL THEN Fails("aborted")
    ELSE mem' = list_add_tail(mem, p, forkqueue) /\ p' = NULL /\ UNCHANGED <<process, stage>>

(* lifespan, prio, start and acquire: the number of tokens is asserted, an *)
(* open description is not.                                                *)
PropertyLine(nr_args, Update(_)) ==
    CASE Len(file'[Len(file')].args) # nr_args -> Fails("aborted")
      [] Len(file'[Len(file')].args) = nr_args /\ p = NULL -> Fails("crashed")
      [] OTHER -> process' = [process EXCEPT ![p] = Update(@)] /\ UNCHANGED <<mem, p, stage>>

ReadLine == \E line \in FileLines :
    LET word == line.word
        args == line.args
    IN  /\ stage = "load" /\ Len(opts) + Len(file) < MaxInput
        /\ file' = Append(file, line)
        /\ UNCHANGED <<chosen, opts>>
        /\ \/ word = "" /\ UNCHANGED <<mem, p, process, stage>>
           \/ word = "process" /\ ProcessLine(args)
           \/ word = "end" /\ EndLine
           \/ word = "lifespan" /\ PropertyLine(1, LAMBDA d : [d EXCEPT !.lifespan = args[1]])
           \/ word = "prio" /\ PropertyLine(1, LAMBDA d : [d EXCEPT !.prio = args[1]])
           \/ word = "start" /\ PropertyLine(1, LAMBDA d : [d EXCEPT !.starts_at = args[1]])
           \/ word = "acquire" /\ PropertyLine(3, LAMBDA d :
                [d EXCEPT !.requests = Append(@, Request(args))])
           \/ word = "unknown" /\ Fails("rejected")

(* The end of the file; an open description is forgotten. *)
EndOfFile ==
    /\ stage = "load" /\ stage' = "simulate"
    /\ UNCHANGED <<mem, chosen, p, process, opts, file>>

LoadNext == Option \/ Arguments \/ ReadLine \/ EndOfFile

LoadSpec == LoadInit /\ [][LoadNext]_loadVars

(***************************************************************************)
(* What a script means, read as a whole                                    *)
(***************************************************************************)
Arity == [process |-> 1, lifespan |-> 1, prio |-> 1, start |-> 1, acquire |-> 3]
Marks(w) == {k \in DOMAIN file : file[k].word = w}
LastOf(S) == CHOOSE k \in S : \A j \in S : j <= k
Rank(S, k) == Cardinality({j \in S : j <= k})
InOrder(S) == [i \in 1 .. Cardinality(S) |-> CHOOSE k \in S : Rank(S, k) = i]

(* Line k stands between a line "process" and the "end" that belongs to it.*)
Inside(k) == \E b \in Marks("process") :
    b < k /\ \A e \in Marks("end") : ~(b < e /\ e < k)

(* The description that is open before line k, and its lines of a word.   *)
Opened(k) == LastOf({j \in Marks("process") : j < k})
Since(w, k) == {j \in Marks(w) : Opened(k) < j /\ j < k}
LastValue(w, k) == IF Since(w, k) = {} THEN 0 ELSE file[LastOf(Since(w, k))].args[1]

(* The process that the "end" in line k completes: of each property the    *)
(* last line since "process" counts, the requests are all kept in order.   *)
Described(k) ==
    [pid |-> file[Opened(k)].args[1], lifespan |-> LastValue("lifespan", k),
     prio |-> LastValue("prio", k), starts_at |-> LastValue("start", k),
     requests |-> LET acquires == InOrder(Since("acquire", k))
                  IN  [i \in DOMAIN acquires |-> Request(file[acquires[i]].args)]]

(* The fork queue holds the processes of the complete descriptions in the  *)
(* order of their "end" lines, each as described; and the policy is that   *)
(* of the last option that names one.                                      *)
QueueIsScript ==
    stage \in {"load", "simulate", "rejected", "crashed"} =>
      /\ LET q == Follow(mem.next, forkqueue)
         IN  [k \in DOMAIN q |-> process[q[k]]] =
               LET ends == InOrder(Marks("end"))
               IN  [k \in DOMAIN ends |-> Described(ends[k])]
      /\ LET named == {k \in DOMAIN opts : opts[k] \in DOMAIN Policy}
         IN  chosen = IF named = {} THEN "fifo" ELSE Policy[opts[LastOf(named)]]

(* The loader gives up at the first line it cannot take: it aborts at a    *)
(* wrong number of tokens and at an "end" that ends nothing, and crashes   *)
(* at a property that belongs to no description.                           *)
Verdict(k) ==
    LET l == file[k]
        miscounted == l.word \in DOMAIN Arity /\ Len(l.args) # Arity[l.word]
    IN  IF miscounted \/ (l.word = "end" /\ ~Inside(k)) THEN "aborted"
        ELSE IF l.word \in DOMAIN Arity \ {"process"} /\ ~Inside(k) THEN "crashed"
        ELSE IF l.word = "unknown" THEN "rejected" ELSE "load"

StopsAtBadLine ==
    stage \in {"load", "simulate", "aborted", "crashed", "rejected"} =>
      LET bad == {k \in DOMAIN file : Verdict(k) # "load"}
      IN  IF bad = {} THEN stage \in {"load", "simulate"}
          ELSE bad = {Len(file)} /\ stage = Verdict(Len(file))
================================================================================

--------------------------------- MODULE Shell ---------------------------------
(***************************************************************************)
(* OS-pa1: the shell posh, the child that it forks for a command, and the  *)
(* child of that child that runs the left side of a pipe.  The programs    *)
(* that are executed, the pipe and wait() are the environment.             *)
(***************************************************************************)
EXTENDS Integers, Sequences, FiniteSets, SequencesExt

CONSTANTS
    Lines,          \* the command lines a user may type
    Dirs, Home,     \* the directories that exist
    Capacity,       \* how much a pipe holds
    MaxHistory,     \* bound for model checking: lines typed in a session
    NONE            \* no number after the first token, no pipe

(* A program as far as the shell can tell: whether execvp() finds it, how  *)
(* much it writes, and whether it reads its input to the end.              *)
Program == [runs : BOOLEAN, out : Nat, reads : BOOLEAN]
NotFound == [runs |-> FALSE, out |-> 0, reads |-> FALSE]

(* A line: what the first token is ("run!" is a program with a '!' in its  *)
(* name), atoi() of the second, where cd goes, what is run.                *)
Word == {"", "exit", "cd", "history", "!", "run", "run!"}
CommandLine == [word : Word, n : Int \cup {NONE}, dir : STRING,
                left : Program, right : Program \cup {NONE}]

ASSUME ShellAssumption ==
    /\ Lines \subseteq CommandLine
    /\ Home \in Dirs
    /\ Capacity \in Nat \ {0} /\ MaxHistory \in Nat

ASSUME NoneAssumption == NONE \notin Int

VARIABLES
    pc,         \* the shell: "prompt", "wait", "exited", "eof" or "crashed"
    history,    \* the lines typed
    cwd,        \* the shell's directory
    job,        \* the command that is run
    middle,     \* the child of the shell
    left,       \* the child of middle
    readers, writers,   \* who has the ends of the pipe open
    inPipe,     \* how much is in the pipe
    written, got        \* how much left wrote, and the right command read

shellVars == <<pc, history, cwd>>
pipeVars == <<readers, writers, inPipe, written, got>>
vars == <<shellVars, job, middle, left, pipeVars>>

Init ==
    /\ pc = "prompt" /\ history = <<>> /\ cwd = Home
    /\ job = [left |-> NotFound, right |-> NONE]
    /\ middle = "none" /\ left = "none"
    /\ readers = {} /\ writers = {} /\ inPipe = 0 /\ written = 0 /\ got = 0

Piped == job.right # NONE

(***************************************************************************)
(* The history                                                             *)
(***************************************************************************)
(* Mutant: the history is counted from one. *)
RecordedFromOne(h, k) == k \in 1 .. Len(h) - 1
Recorded(h, k) == k \in 0 .. Len(h) - 1
Bang(l) == l.word \in {"!", "run!"}

(* Mutant: a recorded '!' is not replayed in turn. *)
ReplayedOnce(h, k) == k

(* num_to_tokens() calls itself while the entry has a '!' in its first     *)
(* token: the entry it comes to, if the calls ever end.                    *)
Replayed(h, k) ==
    LET at[d \in 0 .. Len(h)] ==
          IF d = 0 THEN k
          ELSE LET j == at[d - 1]
               IN  IF Recorded(h, j) /\ Bang(h[j + 1]) /\ h[j + 1].n # NONE
                   THEN h[j + 1].n ELSE j
    IN  at[Len(h)]

(* history_to_command() returns NULL for a number that is not recorded,    *)
(* an empty line has no first token to look at, a '!' without a number no  *)
(* second one; each is read through a null pointer, and calls that never   *)
(* end exhaust the memory.                                                 *)
Replays(h, k) ==
    /\ k # NONE
    /\ LET j == Replayed(h, k)
       IN  Recorded(h, j) /\ ~Bang(h[j + 1]) /\ h[j + 1].word # ""

(* The line that is carried out in the end.  The test for "exit" comes     *)
(* before the replay: an "exit" that is replayed is a program.             *)
Meant(h, l) ==
    IF l.word # "!" THEN l
    ELSE LET e == h[Replayed(h, l.n) + 1]
         IN  IF e.word = "exit" THEN [e EXCEPT !.word = "run", !.left = NotFound] ELSE e

(***************************************************************************)
(* The shell                                                               *)
(***************************************************************************)
(* Mutant: the words of every replayed command are overwritten. *)
LeftOutcomesReplayed(l, replay) ==
    IF replay /\ l.left.runs THEN {[l.left EXCEPT !.out = o] : o \in 0 .. Capacity + 1}
    ELSE {l.left}

(* What the left command comes out as.  Its argument list has no end mark  *)
(* but what malloc() left there, so that execvp() may fail; after a replay *)
(* its words lie in freed memory, which the child overwrites.              *)
LeftOutcomes(l, replay) ==
    IF l.right = NONE THEN {l.left}
    ELSE {l.left, NotFound} \cup
         IF replay /\ l.left.runs THEN {[l.left EXCEPT !.out = o] : o \in 0 .. Capacity + 1}
         ELSE {}

(* fork() may fail; wait() then returns at once. *)
StartJob(l, replay) ==
    \/ \E prog \in LeftOutcomes(l, replay) :
         /\ job' = [left |-> prog, right |-> l.right]
         /\ middle' = "forked" /\ pc' = "wait"
         /\ inPipe' = 0 /\ written' = 0 /\ got' = 0
         /\ UNCHANGED cwd
    \/ UNCHANGED <<job, middle, pc, inPipe, written, got, cwd>>

(* Mutant: a cd that fails goes home. *)
ChangeDirHome(l) ==
    /\ cwd' = IF l.dir \in Dirs THEN l.dir ELSE Home
    /\ UNCHANGED <<pc, job, middle, inPipe, written, got>>

(* chdir() to what does not exist fails, and nobody looks. *)
ChangeDir(l) ==
    /\ cwd' = IF l.dir \in Dirs THEN l.dir ELSE cwd
    /\ UNCHANGED <<pc, job, middle, inPipe, written, got>>

run_command(l, replay) ==
    CASE l.word = "cd"      -> ChangeDir(l)
      [] l.word = "history" -> UNCHANGED <<pc, cwd, job, middle, inPipe, written, got>>
      [] OTHER              -> StartJob(l, replay)

Stop(how) == pc' = how /\ UNCHANGED <<cwd, job, middle, inPipe, written, got>>

(* One round of main()'s loop: the line is recorded before it is parsed.   *)
TypeLine == \E l \in Lines :
    /\ pc = "prompt" /\ Len(history) < MaxHistory
    /\ history' = Append(history, l)
    /\ CASE l.word = ""     -> UNCHANGED <<pc, cwd, job, middle, inPipe, written, got>>
         [] l.word = "exit" -> Stop("exited")
         [] l.word = "!" /\ ~Replays(history', l.n) -> Stop("crashed")
         [] OTHER           -> run_command(Meant(history', l), l.word = "!")
    /\ UNCHANGED <<left, readers, writers>>

EndOfInput == pc = "prompt" /\ pc' = "eof" /\ UNCHANGED <<history, cwd, job, middle, left, pipeVars>>

(* Mutant: the shell does not wait. *)
ShellWaitNot ==
    /\ pc = "wait" /\ pc' = "prompt"
    /\ UNCHANGED <<history, cwd, job, middle, left, pipeVars>>

(* wait() returns when the child has ended. *)
ShellWait ==
    /\ pc = "wait" /\ middle = "zombie"
    /\ pc' = "prompt" /\ middle' = "none"
    /\ UNCHANGED <<history, cwd, job, left, pipeVars>>

(***************************************************************************)
(* The child of the shell                                                  *)
(***************************************************************************)
(* Without a pipe it becomes the command, or reports and exits. *)
MiddleExec ==
    /\ middle = "forked" /\ ~Piped
    /\ middle' = IF job.left.runs THEN "running" ELSE "zombie"
    /\ UNCHANGED <<shellVars, job, left, pipeVars>>

(* pipe() and fork(); the second child has both ends too. *)
MiddlePipe ==
    /\ middle = "forked" /\ Piped
    /\ middle' = "waiting"
    /\ \/ left' = "forked" /\ readers' = {"middle", "left"} /\ writers' = {"middle", "left"}
       \/ left' = "none" /\ readers' = {"middle"} /\ writers' = {"middle"}
    /\ UNCHANGED <<shellVars, job, inPipe, written, got>>

(* Mutant: the right command is started at once. *)
MiddleWaitNot ==
    /\ middle = "waiting" /\ middle' = "ready"
    /\ UNCHANGED <<shellVars, job, left, pipeVars>>

(* It waits for the left command before it starts the right one. *)
MiddleWait ==
    /\ middle = "waiting" /\ left \in {"zombie", "none"}
    /\ middle' = "ready" /\ left' = "none"
    /\ UNCHANGED <<shellVars, job, pipeVars>>

(* Mutant: the end of the pipe that is written to stays open. *)
MiddleExecRightOpen ==
    /\ middle = "ready"
    /\ middle' = IF job.right.runs THEN "running" ELSE "zombie"
    /\ writers' = IF job.right.runs THEN {"middle"} ELSE {}
    /\ readers' = IF job.right.runs THEN {"middle"} ELSE {}
    /\ UNCHANGED <<shellVars, job, left, inPipe, written, got>>

(* dup2(), the two close() and execvp() of the right command. *)
MiddleExecRight ==
    /\ middle = "ready"
    /\ middle' = IF job.right.runs THEN "running" ELSE "zombie"
    /\ writers' = {}
    /\ readers' = IF job.right.runs THEN {"middle"} ELSE {}
    /\ UNCHANGED <<shellVars, job, left, inPipe, written, got>>

(***************************************************************************)
(* The child of the child                                                  *)
(***************************************************************************)
(* dup2(), the two close() and execvp(); it reports and exits if that fails. *)
LeftExec ==
    /\ left = "forked"
    /\ left' = IF job.left.runs THEN "running" ELSE "zombie"
    /\ readers' = readers \ {"left"}
    /\ writers' = IF job.left.runs THEN writers ELSE writers \ {"left"}
    /\ UNCHANGED <<shellVars, job, middle, inPipe, written, got>>

(***************************************************************************)
(* The environment: programs on a pipe                                     *)
(***************************************************************************)
(* write() blocks while the pipe is full, as long as somebody may read it; *)
(* without readers it kills the writer.                                    *)
LeftWrite ==
    /\ left = "running" /\ written < job.left.out
    /\ IF readers = {} THEN left' = "zombie" /\ writers' = writers \ {"left"}
                            /\ UNCHANGED <<inPipe, written>>
       ELSE /\ inPipe < Capacity
            /\ inPipe' = inPipe + 1 /\ written' = written + 1
            /\ UNCHANGED <<left, writers>>
    /\ UNCHANGED <<shellVars, job, middle, readers, got>>

LeftEnds ==
    /\ left = "running" /\ written = job.left.out
    /\ left' = "zombie" /\ writers' = writers \ {"left"}
    /\ UNCHANGED <<shellVars, job, middle, readers, inPipe, written, got>>

RightReads ==
    /\ middle = "running" /\ Piped /\ job.right.reads /\ inPipe > 0
    /\ inPipe' = inPipe - 1 /\ got' = got + 1
    /\ UNCHANGED <<shellVars, job, middle, left, readers, writers, written>>

(* A program that reads ends at the end of its input: when the pipe is     *)
(* empty and nobody can write to it any more.                              *)
MiddleEnds ==
    /\ middle = "running"
    /\ Piped /\ job.right.reads => inPipe = 0 /\ writers = {}
    /\ middle' = "zombie" /\ readers' = {} /\ writers' = {}
    /\ UNCHANGED <<shellVars, job, left, inPipe, written, got>>

Middle == MiddleExec \/ MiddlePipe \/ MiddleWait \/ MiddleExecRight \/ RightReads \/ MiddleEnds
Left == LeftExec \/ LeftWrite \/ LeftEnds

Next == TypeLine \/ EndOfInput \/ ShellWait \/ Middle \/ Left

Spec == Init /\ [][Next]_vars

(* Processes run; the user may stop typing.                                *)
FairSpec == Spec /\ WF_vars(ShellWait) /\ WF_vars(Middle) /\ WF_vars(Left)
================================================================================

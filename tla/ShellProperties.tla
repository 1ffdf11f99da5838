---------------------------- MODULE ShellProperties ----------------------------
(***************************************************************************)
(* What a user may rely on in the shell of OS-pa1.                         *)
(***************************************************************************)
EXTENDS Shell

(***************************************************************************)
(* The processes of a command                                              *)
(***************************************************************************)
(* "Note that the shell should be sane after processing the pipe": at the  *)
(* prompt, and when the shell has ended, no child is left and nobody has   *)
(* an end of the pipe; and the shell is never waiting for no child.        *)
Sane ==
    /\ pc # "wait" => middle = "none" /\ left = "none"
    /\ pc = "wait" => middle # "none"
    /\ middle \in {"none", "zombie"} => left = "none" /\ readers = {} /\ writers = {}

(* "All output of the first command should be carried to the input of the  *)
(* second command": the right command starts when the left one has ended   *)
(* with all it had to write in the pipe (or did not run), so it finds all  *)
(* of it, and, if it reads to the end, has read all of it when it ends.    *)
(* It therefore never starts if the pipe cannot hold that much.            *)
AllCarried ==
    Piped /\ middle \in {"ready", "running", "zombie"} =>
      /\ left = "none"
      /\ written \in {0, job.left.out} /\ written <= Capacity
      /\ written = inPipe + got
      /\ middle = "zombie" /\ job.right.runs /\ job.right.reads => got = written

(* The prompt comes back, except from a left command that writes more than *)
(* the pipe holds: the shell waits for ever, since the one process that    *)
(* would read waits for the one that writes.                               *)
Fits == Piped /\ job.left.runs => job.left.out <= Capacity
Returns == (pc = "wait" /\ Fits) ~> (pc = "prompt")

(***************************************************************************)
(* The history                                                             *)
(***************************************************************************)
(* Line k of history h refers to line j: it has a '!' in its first word,   *)
(* and its number is j.                                                    *)
Refers(h, k, j) == Bang(h[k + 1]) /\ h[k + 1].n = j

(* Where a chain of references from the number k leads, if it leads        *)
(* anywhere: the command at the end of a chain without repetition.         *)
Ends(h, k) ==
    {j \in 0 .. Len(h) - 1 :
       /\ ~Bang(h[j + 1]) /\ h[j + 1].word # ""
       /\ \E s \in UNION {[1 .. m -> 0 .. Len(h) - 1] : m \in 1 .. Len(h)} :
            /\ IsInjective(s) /\ s[1] = k /\ Last(s) = j
            /\ \A i \in 1 .. Len(s) - 1 : Refers(h, s[i], s[i + 1])}

Before(i) == SubSeq(history, 1, i)

(* The shell runs until "exit" is typed, in so many letters (an "exit"     *)
(* that is replayed does not end it), or until a '!' whose references lead *)
(* nowhere, by a number that is not recorded or in a circle, crashes it.   *)
Fatal(i) == \/ history[i].word = "exit"
            \/ history[i].word = "!" /\ Ends(Before(i), history[i].n) = {}
EndsAsTyped ==
    LET l == Last(history)
    IN  /\ pc = "exited" => l.word = "exit"
        /\ pc = "crashed" => l.word = "!" /\ Ends(history, l.n) = {}
        /\ \A i \in 1 .. Len(history) : Fatal(i) =>
             i = Len(history) /\ pc \in {"exited", "crashed"}

(* Who refers only to earlier lines that are not empty never crashes the   *)
(* shell, however the references are chained.                              *)
BackwardReplay ==
    (\A i \in 1 .. Len(history) : Bang(history[i]) =>
        /\ history[i].n \in 0 .. i - 2
        /\ history[history[i].n + 1].word # "")
      => pc # "crashed"

(* The working directory is that of the last successful cd of the session, *)
(* replayed ones included, or the one the shell was started in: no command *)
(* that runs in a child changes it.                                        *)
Replay(i) ==
    IF history[i].word = "!"
    THEN LET e == Ends(Before(i), history[i].n)
         IN  IF e = {} THEN history[i] ELSE history[(CHOOSE j \in e : TRUE) + 1]
    ELSE history[i]
Moves == {i \in 1 .. Len(history) : Replay(i).word = "cd" /\ Replay(i).dir \in Dirs}
CwdFromHistory ==
    cwd = IF Moves = {} THEN Home ELSE Replay(CHOOSE i \in Moves : \A j \in Moves : j <= i).dir

(* "Allow the user to execute n-th command in the history": the command    *)
(* that the shell waits for is the one that was typed or that the          *)
(* references of the '!' lead to, as it was recorded, if it runs at all.   *)
(* Not so the left command of a pipe that is replayed: its words lie in a  *)
(* buffer that num_to_tokens() has freed and its child allocates again.    *)
RunsAsRecorded ==
    LET l == Replay(Len(history))
    IN  pc = "wait" =>
          /\ job.right = l.right
          /\ job.left.runs /\ ~(Piped /\ Last(history).word = "!") => job.left = l.left
================================================================================

------------------------------- MODULE ShellProofs -------------------------------
(***************************************************************************)
(* TLAPS proofs about Shell, for any lines, any capacity of the pipe and   *)
(* sessions of any length: the shell is sane at the prompt, a pipe         *)
(* carries all or its right command never starts, and what "!" replays,    *)
(* where the session ends and which directory it is in follow from the     *)
(* lines typed.                                                            *)
(***************************************************************************)
EXTENDS ShellProperties, SeqLemmas, FiniteSetTheorems, TLAPS

USE ShellAssumption

Job == [left : Program, right : Program \cup {NONE}]

TypeInv ==
    /\ pc \in {"prompt", "wait", "exited", "eof", "crashed"}
    /\ history \in Seq(Lines)
    /\ job \in Job
    /\ inPipe \in Nat /\ written \in Nat /\ got \in Nat

(* What the state of the middle process says about the others and about    *)
(* the pipe.  Only while it waits may the left command be there; it holds  *)
(* both ends then, so the left command cannot lose its reader.             *)
NoMiddle == left = "none" /\ readers = {} /\ writers = {}
Fresh == NoMiddle /\ inPipe = 0 /\ written = 0 /\ got = 0
Waiting ==
    /\ Piped /\ got = 0 /\ inPipe = written /\ written <= Capacity
    /\ left \in {"none", "forked", "running", "zombie"}
    /\ left \in {"none", "forked"} => written = 0
    /\ left = "running" => written <= job.left.out
    /\ left = "zombie" => written \in {0, job.left.out}
    /\ readers = {"middle"} \cup (IF left = "forked" THEN {"left"} ELSE {})
    /\ writers = {"middle"} \cup (IF left \in {"forked", "running"} THEN {"left"} ELSE {})
Filled == /\ left = "none" /\ written \in {0, job.left.out} /\ written <= Capacity
          /\ written = inPipe + got

MiddleInv ==
    /\ middle \in {"none", "forked", "waiting", "ready", "running", "zombie"}
    /\ pc = "wait" <=> middle # "none"
    /\ middle = "none" => NoMiddle
    /\ middle = "forked" => Fresh
    /\ middle = "waiting" => Waiting
    /\ middle = "ready" => Piped /\ Filled /\ readers = {"middle"} /\ writers = {"middle"}
    /\ middle = "running" => left = "none" /\ writers = {} /\ (Piped => Filled)
    /\ middle = "zombie" =>
         /\ NoMiddle /\ (Piped => Filled)
         /\ Piped /\ job.right.runs /\ job.right.reads => got = written

Inv == TypeInv /\ MiddleInv

LEMMA InitInv == Init => Inv
  BY DEF Init, Inv, TypeInv, MiddleInv, NoMiddle, Job, Program, NotFound

(* The line that is carried out is one of the lines, or an "exit" that is  *)
(* run as a program.                                                       *)
LEMMA MeantLine ==
    ASSUME NEW h \in Seq(Lines), NEW l \in Lines, l.word = "!" => Replays(h, l.n)
    PROVE  Meant(h, l).left \in Program /\ Meant(h, l).right \in Program \cup {NONE}
  <1>1. \A k \in Lines : k.left \in Program /\ k.right \in Program \cup {NONE}
    BY DEF CommandLine
  <1>2. CASE l.word # "!"
    BY <1>1, <1>2 DEF Meant
  <1>3. CASE l.word = "!"
    <2> DEFINE e == h[Replayed(h, l.n) + 1]
    <2>1. Replayed(h, l.n) \in 0 .. Len(h) - 1
      BY <1>3 DEF Replays, Recorded
    <2>2. e \in Lines
      BY <2>1
    <2>3. NotFound \in Program
      BY DEF NotFound, Program
    <2>4. e \in CommandLine
      BY <2>2
    <2>5. [e EXCEPT !.word = "run", !.left = NotFound].left = NotFound
          /\ [e EXCEPT !.word = "run", !.left = NotFound].right = e.right
      BY <2>4 DEF CommandLine
    <2> QED BY <1>1, <1>3, <2>2, <2>3, <2>5 DEF Meant
  <1> QED BY <1>2, <1>3

LEMMA OutcomeIsProgram ==
    ASSUME NEW l, l.left \in Program, NEW replay \in BOOLEAN, NEW p \in LeftOutcomes(l, replay)
    PROVE  p \in Program
  <1>1. NotFound \in Program
    BY DEF NotFound, Program
  <1>2. \A o \in 0 .. Capacity + 1 : [l.left EXCEPT !.out = o] \in Program
    BY DEF Program
  <1> QED BY <1>1, <1>2 DEF LeftOutcomes

(***************************************************************************)
(* The steps of the shell                                                  *)
(***************************************************************************)
LEMMA TypeLineInv == ASSUME Inv, TypeLine PROVE Inv'
  <1>1. PICK l \in Lines :
          /\ pc = "prompt" /\ history' = Append(history, l)
          /\ CASE l.word = ""     -> UNCHANGED <<pc, cwd, job, middle, inPipe, written, got>>
               [] l.word = "exit" -> Stop("exited")
               [] l.word = "!" /\ ~Replays(history', l.n) -> Stop("crashed")
               [] OTHER           -> run_command(Meant(history', l), l.word = "!")
          /\ UNCHANGED <<left, readers, writers>>
    BY DEF TypeLine
  <1>2. history' \in Seq(Lines)
    <2>1. history' = Append(history, l) /\ history \in Seq(Lines)
      BY <1>1 DEF Inv, TypeInv
    <2> QED BY <2>1
  <1>3. middle = "none" /\ NoMiddle
    BY <1>1 DEF Inv, MiddleInv
  <1>4. CASE /\ UNCHANGED <<job, middle, inPipe, written, got>>
             /\ pc' \in {"prompt", "exited", "crashed"}
    BY <1>1, <1>2, <1>3, <1>4 DEF Inv, TypeInv, MiddleInv, NoMiddle
  <1>5. CASE ~(/\ UNCHANGED <<job, middle, inPipe, written, got>>
               /\ pc' \in {"prompt", "exited", "crashed"})
    <2> DEFINE m == Meant(history', l)
    <2>1. /\ l.word \notin {"", "exit"} /\ ~(l.word = "!" /\ ~Replays(history', l.n))
          /\ run_command(m, l.word = "!")
      BY <1>1, <1>5 DEF Stop
    <2>2. m.left \in Program /\ m.right \in Program \cup {NONE}
      BY <1>2, <2>1, MeantLine
    <2> HIDE DEF m
    <2>3. StartJob(m, l.word = "!")
      BY <1>1, <1>5, <2>1 DEF run_command, ChangeDir
    <2>4. PICK prog \in LeftOutcomes(m, l.word = "!") :
            /\ job' = [left |-> prog, right |-> m.right]
            /\ middle' = "forked" /\ pc' = "wait"
            /\ inPipe' = 0 /\ written' = 0 /\ got' = 0
      BY <1>1, <1>5, <2>3 DEF StartJob
    <2>5. prog \in Program
      BY <2>2, OutcomeIsProgram
    <2>6. job' \in Job
      BY <2>2, <2>4, <2>5 DEF Job
    <2> QED BY <1>1, <1>2, <1>3, <2>4, <2>6 DEF Inv, TypeInv, MiddleInv, NoMiddle, Fresh
  <1> QED BY <1>4, <1>5

LEMMA OtherShellInv == ASSUME Inv, EndOfInput \/ ShellWait PROVE Inv'
  BY DEF Inv, TypeInv, MiddleInv, EndOfInput, ShellWait, pipeVars, NoMiddle

(***************************************************************************)
(* The steps of the children and of the programs they become               *)
(***************************************************************************)
LEMMA ChildTypes ==
    ASSUME Inv, Middle \/ Left PROVE TypeInv' /\ (pc' = pc) /\ (job' = job)
  <1>1. UNCHANGED <<shellVars, job>>
    BY DEF Middle, Left, MiddleExec, MiddlePipe, MiddleWait, MiddleExecRight, RightReads,
           MiddleEnds, LeftExec, LeftWrite, LeftEnds
  <1>2. inPipe' \in Nat /\ written' \in Nat /\ got' \in Nat
    BY DEF Middle, Left, MiddleExec, MiddlePipe, MiddleWait, MiddleExecRight, RightReads,
           MiddleEnds, LeftExec, LeftWrite, LeftEnds, pipeVars, Inv, TypeInv
  <1> QED BY <1>1, <1>2 DEF Inv, TypeInv, shellVars

LEMMA MiddleStepInv == ASSUME Inv, Middle PROVE MiddleInv'
  <1>1. pc' = pc /\ job' = job /\ Piped' = Piped
    BY ChildTypes DEF Piped
  <1>2. CASE MiddleExec
    BY <1>1, <1>2 DEF MiddleExec, Inv, MiddleInv, Fresh, NoMiddle, Filled, pipeVars
  <1>3. CASE MiddlePipe
    BY <1>1, <1>3 DEF MiddlePipe, Inv, MiddleInv, Fresh, Waiting
  <1>4. CASE MiddleWait
    BY <1>1, <1>4 DEF MiddleWait, Inv, MiddleInv, TypeInv, Waiting, Filled, pipeVars
  <1>5. CASE MiddleExecRight
    BY <1>1, <1>5 DEF MiddleExecRight, Inv, MiddleInv, Filled, NoMiddle
  <1>6. CASE RightReads
    BY <1>1, <1>6 DEF RightReads, Inv, MiddleInv, TypeInv, Filled
  <1>7. CASE MiddleEnds
    BY <1>1, <1>7 DEF MiddleEnds, Inv, MiddleInv, TypeInv, Filled, NoMiddle
  <1> QED BY <1>2, <1>3, <1>4, <1>5, <1>6, <1>7 DEF Middle

LEMMA LeftStepInv == ASSUME Inv, Left PROVE MiddleInv'
  <1>1. pc' = pc /\ job' = job /\ Piped' = Piped
    BY ChildTypes DEF Piped
  <1>2. middle = "waiting" /\ middle' = middle /\ Waiting
    BY DEF Left, LeftExec, LeftWrite, LeftEnds, Inv, MiddleInv, NoMiddle, Fresh, Filled
  <1>3. job.left.out \in Nat
    BY DEF Inv, TypeInv, Job, Program
  <1>4. CASE LeftExec
    BY <1>1, <1>2, <1>3, <1>4 DEF LeftExec, Inv, MiddleInv, Waiting
  <1>5. CASE LeftWrite
    BY <1>1, <1>2, <1>3, <1>5 DEF LeftWrite, Inv, MiddleInv, TypeInv, Waiting
  <1>6. CASE LeftEnds
    BY <1>1, <1>2, <1>3, <1>6 DEF LeftEnds, Inv, MiddleInv, Waiting
  <1> QED BY <1>4, <1>5, <1>6 DEF Left

LEMMA Inductive == Inv /\ [Next]_vars => Inv'
  <1> SUFFICES ASSUME Inv, [Next]_vars PROVE Inv'
    OBVIOUS
  <1>1. CASE TypeLine
    BY <1>1, TypeLineInv
  <1>2. CASE EndOfInput \/ ShellWait
    BY <1>2, OtherShellInv
  <1>3. CASE Middle
    BY <1>3, ChildTypes, MiddleStepInv DEF Inv
  <1>4. CASE Left
    BY <1>4, ChildTypes, LeftStepInv DEF Inv
  <1>5. CASE UNCHANGED vars
    BY <1>5 DEF vars, shellVars, pipeVars, Inv, TypeInv, MiddleInv, NoMiddle, Fresh,
                Waiting, Filled, Piped
  <1> QED BY <1>1, <1>2, <1>3, <1>4, <1>5 DEF Next

LEMMA Invariant == Spec => []Inv
  BY InitInv, Inductive, PTL DEF Spec

(***************************************************************************)
(* What is replayed: the calls of num_to_tokens() come to the end of the   *)
(* chain of references, when there is one.  The inductions along the chain *)
(* are on the least number for which something would not hold.             *)
(***************************************************************************)
RefersOn(h, j) == Recorded(h, j) /\ Bang(h[j + 1]) /\ h[j + 1].n # NONE
Step(h, j) == IF RefersOn(h, j) THEN h[j + 1].n ELSE j

(* The numbers the calls have come to after 0 .. m of them.                *)
IsChain(h, k, m, at) ==
    at = [d \in 0 .. m |-> IF d = 0 THEN k ELSE Step(h, at[d - 1])]

LEMMA ChainExists ==
    ASSUME NEW h, NEW k, NEW m \in Nat
    PROVE  \E at : IsChain(h, k, m, at)
  <1> DEFINE T == {n \in Nat : ~\E at : IsChain(h, k, n, at)}
  <1> SUFFICES ASSUME T # {} PROVE FALSE
    OBVIOUS
  <1>1. PICK n \in T : \A o \in T : n <= o
    <2> HIDE DEF T
    <2>1. T \subseteq Nat
      BY DEF T
    <2> QED BY <2>1, LeastNumber
  <1>2. n # 0
    <2>1. IsChain(h, k, 0, [d \in 0 .. 0 |-> k])
      BY DEF IsChain
    <2> QED BY <2>1
  <1>3. PICK g : IsChain(h, k, n - 1, g)
    BY <1>1, <1>2
  <1> DEFINE f == [d \in 0 .. n |-> IF d = 0 THEN k ELSE Step(h, g[d - 1])]
  <1>4. \A d \in 0 .. n - 1 : g[d] = IF d = 0 THEN k ELSE Step(h, g[d - 1])
    BY <1>3 DEF IsChain
  <1>5. \A d \in 1 .. n : f[d - 1] = g[d - 1]
    <2> SUFFICES ASSUME NEW d \in 1 .. n PROVE f[d - 1] = g[d - 1]
      OBVIOUS
    <2>1. d - 1 \in 0 .. n - 1 /\ d - 1 \in 0 .. n
      OBVIOUS
    <2> QED BY <1>4, <2>1
  <1>6. f = [d \in 0 .. n |-> IF d = 0 THEN k ELSE Step(h, f[d - 1])]
    <2>1. \A d \in 0 .. n : d # 0 => d \in 1 .. n
      OBVIOUS
    <2>2. \A d \in 0 .. n : (IF d = 0 THEN k ELSE Step(h, g[d - 1]))
                            = IF d = 0 THEN k ELSE Step(h, f[d - 1])
      <3> HIDE DEF f
      <3> QED BY <1>5, <2>1
    <2> QED BY <2>2
  <1>7. IsChain(h, k, n, f)
    <2> HIDE DEF f
    <2> QED BY <1>6 DEF IsChain
  <1> QED BY <1>1, <1>7

LEMMA ReplayedChain ==
    ASSUME NEW h \in Seq(Lines), NEW k
    PROVE  \E at : IsChain(h, k, Len(h), at) /\ Replayed(h, k) = at[Len(h)]
  <1> DEFINE at == CHOOSE f : f = [d \in 0 .. Len(h) |->
                      IF d = 0 THEN k
                      ELSE LET j == f[d - 1]
                           IN  IF Recorded(h, j) /\ Bang(h[j + 1]) /\ h[j + 1].n # NONE
                               THEN h[j + 1].n ELSE j]
  <1>1. \E f : f = [d \in 0 .. Len(h) |->
                      IF d = 0 THEN k
                      ELSE LET j == f[d - 1]
                           IN  IF Recorded(h, j) /\ Bang(h[j + 1]) /\ h[j + 1].n # NONE
                               THEN h[j + 1].n ELSE j]
    <2> DEFINE m == Len(h)
    <2>1. m \in Nat
      OBVIOUS
    <2>2. \E f : IsChain(h, k, m, f)
      <3> HIDE DEF m
      <3> QED BY <2>1, ChainExists
    <2> QED BY <2>2 DEF IsChain, Step, RefersOn
  <1>2. IsChain(h, k, Len(h), at)
    BY <1>1 DEF IsChain, Step, RefersOn
  <1>3. Replayed(h, k) = at[Len(h)]
    BY DEF Replayed
  <1> QED BY <1>2, <1>3

(* The chain goes on from where it is, stays where it does not refer on,   *)
(* and goes the same way from the same place.                              *)
LEMMA ChainStep ==
    ASSUME NEW h, NEW k, NEW m \in Nat, NEW at, IsChain(h, k, m, at)
    PROVE  /\ at[0] = k
           /\ \A d \in 1 .. m : at[d] = Step(h, at[d - 1])
  <1>1. \A d \in 0 .. m : at[d] = IF d = 0 THEN k ELSE Step(h, at[d - 1])
    BY DEF IsChain
  <1> QED BY <1>1

LEMMA ChainStays ==
    ASSUME NEW h, NEW k, NEW m \in Nat, NEW at, IsChain(h, k, m, at),
           NEW a \in 0 .. m, ~RefersOn(h, at[a])
    PROVE  \A b \in a .. m : at[b] = at[a]
  <1> DEFINE T == {c \in a .. m : at[c] # at[a]}
  <1> SUFFICES ASSUME T # {} PROVE FALSE
    OBVIOUS
  <1>1. PICK n \in T : \A o \in T : n <= o
    <2> HIDE DEF T
    <2>1. T \subseteq Nat
      BY DEF T
    <2> QED BY <2>1, LeastNumber
  <1>2. n # a /\ n \in 1 .. m /\ n - 1 \in a .. m
    OBVIOUS
  <1>3. at[n - 1] = at[a]
    BY <1>1, <1>2
  <1>4. at[n] = Step(h, at[n - 1])
    BY <1>2, ChainStep
  <1> QED BY <1>3, <1>4 DEF Step

SameFromHere(m, at, a, b) ==
    \A c \in Nat : a + c <= m /\ b + c <= m => at[a + c] = at[b + c]

LEMMA ChainShift ==
    ASSUME NEW h, NEW k, NEW m \in Nat, NEW at, IsChain(h, k, m, at)
    PROVE  \A a, b \in 0 .. m : at[a] = at[b] => SameFromHere(m, at, a, b)
  <1> SUFFICES ASSUME NEW a \in 0 .. m, NEW b \in 0 .. m, at[a] = at[b]
               PROVE  \A c \in Nat : a + c <= m /\ b + c <= m => at[a + c] = at[b + c]
    BY DEF SameFromHere
  <1> DEFINE T == {d \in Nat : a + d <= m /\ b + d <= m /\ at[a + d] # at[b + d]}
  <1> SUFFICES ASSUME T # {} PROVE FALSE
    OBVIOUS
  <1>1. PICK n \in T : \A o \in T : n <= o
    <2> HIDE DEF T
    <2>1. T \subseteq Nat
      BY DEF T
    <2> QED BY <2>1, LeastNumber
  <1>2. n # 0
    OBVIOUS
  <1>3. at[a + (n - 1)] = at[b + (n - 1)]
    BY <1>1, <1>2
  <1>4. /\ a + n \in 1 .. m /\ (a + n) - 1 = a + (n - 1)
        /\ b + n \in 1 .. m /\ (b + n) - 1 = b + (n - 1)
    BY <1>2
  <1>5. at[a + n] = Step(h, at[(a + n) - 1]) /\ at[b + n] = Step(h, at[(b + n) - 1])
    <2> DEFINE Next1(d) == at[d] = Step(h, at[d - 1])
    <2>1. \A d \in 1 .. m : Next1(d)
      BY ChainStep
    <2> HIDE DEF Next1
    <2>2. Next1(a + n) /\ Next1(b + n)
      BY <1>4, <2>1
    <2> QED BY <2>2 DEF Next1
  <1> QED BY <1>3, <1>4, <1>5

(* A replay that comes to a command has followed a chain that ends there.  *)
LEMMA ReplayEnds ==
    ASSUME NEW h \in Seq(Lines), NEW k, Replays(h, k)
    PROVE  Replayed(h, k) \in Ends(h, k)
  <1>a. PICK L : L = Len(h)
    OBVIOUS
  <1>b. PICK j : j = Replayed(h, k)
    OBVIOUS
  <1>1. PICK at : IsChain(h, k, L, at) /\ j = at[L]
    BY <1>a, <1>b, ReplayedChain
  <1>2. L \in Nat /\ j \in 0 .. L - 1
    <2>1. L \in Nat
      BY <1>a
    <2>2. j \in 0 .. L - 1
      BY <1>a, <1>b DEF Replays, Recorded
    <2> QED BY <2>1, <2>2
  <1>c. ~Bang(h[j + 1]) /\ h[j + 1].word # ""
    BY <1>b DEF Replays
  <1> DEFINE T == {d \in 0 .. L : at[d] = j}
  <1>3. PICK m \in T : \A d \in T : m <= d
    <2>1. L \in T
      BY <1>1, <1>2
    <2> HIDE DEF T
    <2>2. T \subseteq Nat
      BY DEF T
    <2> QED BY <2>1, <2>2, LeastNumber
  <1>4. m \in 0 .. L /\ at[m] = j
    OBVIOUS
  <1>5. ASSUME NEW d \in 0 .. m - 1
        PROVE  at[d] \in 0 .. L - 1 /\ Refers(h, at[d], at[d + 1])
    <2>1. d \in 0 .. L /\ L \in d .. L /\ d + 1 \in 1 .. L /\ (d + 1) - 1 = d
      BY <1>2, <1>4
    <2>2. at[d] # j
      BY <1>3, <1>4, <2>1
    <2>3. RefersOn(h, at[d])
      <3> SUFFICES ASSUME ~RefersOn(h, at[d]) PROVE FALSE
        OBVIOUS
      <3>1. \A b \in d .. L : at[b] = at[d]
        BY <1>1, <1>2, <2>1, ChainStays
      <3> QED BY <1>1, <2>1, <2>2, <3>1
    <2>4. at[d + 1] = Step(h, at[d])
      <3>1. \A b \in 1 .. L : at[b] = Step(h, at[b - 1])
        BY <1>1, <1>2, ChainStep
      <3> QED BY <2>1, <3>1
    <2> QED BY <1>a, <2>3, <2>4 DEF RefersOn, Step, Recorded, Refers
  <1> DEFINE s == [i \in 1 .. m + 1 |-> at[i - 1]]
  <1>6. s \in [1 .. m + 1 -> 0 .. L - 1]
    <2> SUFFICES ASSUME NEW i \in 1 .. m + 1 PROVE at[i - 1] \in 0 .. L - 1
      OBVIOUS
    <2>1. CASE i = m + 1
      BY <1>2, <1>4, <2>1
    <2>2. CASE i # m + 1
      <3>1. i - 1 \in 0 .. m - 1
        BY <2>2
      <3> QED BY <3>1, <1>5
    <2> QED BY <2>1, <2>2
  <1>7. \A a, b \in 1 .. m + 1 : a < b => s[a] # s[b]
    <2> SUFFICES ASSUME NEW a \in 1 .. m + 1, NEW b \in 1 .. m + 1, a < b,
                        at[a - 1] = at[b - 1]
                 PROVE  FALSE
      OBVIOUS
    <2> DEFINE c == m - (b - 1)
    <2>1. /\ a - 1 \in 0 .. L /\ b - 1 \in 0 .. L /\ c \in Nat
          /\ (a - 1) + c \in 0 .. L /\ (a - 1) + c < m /\ (b - 1) + c = m
      BY <1>2, <1>4
    <2> HIDE DEF c
    <2>2. at[(a - 1) + c] = at[(b - 1) + c]
      <3>1. \A e \in Nat : (a - 1) + e <= L /\ (b - 1) + e <= L
                            => at[(a - 1) + e] = at[(b - 1) + e]
        <4> DEFINE a0 == a - 1
        <4> DEFINE b0 == b - 1
        <4>1. a0 \in 0 .. L /\ b0 \in 0 .. L /\ at[a0] = at[b0]
          BY <2>1
        <4> HIDE DEF a0, b0
        <4>2. \A a1, b1 \in 0 .. L : at[a1] = at[b1] => SameFromHere(L, at, a1, b1)
          BY <1>1, <1>2, ChainShift
        <4>3. SameFromHere(L, at, a0, b0)
          BY <4>1, <4>2
        <4> QED BY <4>3 DEF SameFromHere, a0, b0
      <3> QED BY <1>2, <1>4, <2>1, <3>1
    <2>3. (a - 1) + c \in T
      BY <1>4, <2>1, <2>2
    <2> QED BY <1>3, <2>1, <2>3
  <1>8. IsInjective(s)
    <2>1. \A a, b \in 1 .. m + 1 : a = b \/ a < b \/ b < a
      OBVIOUS
    <2>2. DOMAIN s = 1 .. m + 1
      OBVIOUS
    <2> HIDE DEF s
    <2> QED BY <1>7, <2>1, <2>2 DEF IsInjective
  <1>9. m + 1 \in 1 .. L
    <2>1. /\ IsFiniteSet(1 .. m + 1) /\ Cardinality(1 .. m + 1) = m + 1
          /\ IsFiniteSet(0 .. L - 1) /\ Cardinality(0 .. L - 1) = L
      <3>1. /\ 1 \in Int /\ m + 1 \in Int /\ 0 \in Int /\ L - 1 \in Int
            /\ ~(1 > m + 1) /\ ~(0 > L - 1) /\ (m + 1) - 1 + 1 = m + 1 /\ L - 1 - 0 + 1 = L
        BY <1>2, <1>4
      <3>2. IsFiniteSet(1 .. m + 1) /\ Cardinality(1 .. m + 1) = (m + 1) - 1 + 1
        BY <3>1, FS_Interval
      <3>3. IsFiniteSet(0 .. L - 1) /\ Cardinality(0 .. L - 1) = L - 1 - 0 + 1
        BY <3>1, FS_Interval
      <3> QED BY <3>1, <3>2, <3>3
    <2>2. s \in Injection(1 .. m + 1, 0 .. L - 1)
      BY <1>6, <1>8 DEF Injection
    <2> HIDE DEF s
    <2>3. Cardinality(1 .. m + 1) <= Cardinality(0 .. L - 1)
      BY <2>1, <2>2, FS_Injection
    <2> QED BY <1>2, <1>4, <2>1, <2>3
  <1>10. Len(s) = m + 1 /\ s[1] = k /\ Last(s) = j
    <2>1. s[1] = at[0] /\ at[0] = k /\ s[m + 1] = at[m]
      BY <1>1, <1>2, <1>4, ChainStep
    <2>2. Len(s) = m + 1
      OBVIOUS
    <2> HIDE DEF s
    <2> QED BY <1>4, <2>1, <2>2 DEF Last
  <1>11. \A i \in 1 .. Len(s) - 1 : Refers(h, s[i], s[i + 1])
    <2>0. Len(s) - 1 = m
      BY <1>4, <1>10
    <2> SUFFICES ASSUME NEW i \in 1 .. m PROVE Refers(h, s[i], s[i + 1])
      BY <2>0
    <2>1. i - 1 \in 0 .. m - 1 /\ (i - 1) + 1 = i /\ s[i] = at[i - 1] /\ s[i + 1] = at[i]
      BY <1>4
    <2> QED BY <1>5, <2>1
  <1>12. s \in UNION {[1 .. n -> 0 .. L - 1] : n \in 1 .. L}
    BY <1>6, <1>9
  <1> HIDE DEF s
  <1> QED BY <1>a, <1>b, <1>c, <1>2, <1>8, <1>10, <1>11, <1>12 DEF Ends

(* Entry j is not an empty line.                                           *)
NotEmpty(h, j) == h[j + 1].word # ""

(* And the other way round: where a chain ends is what is replayed.        *)
LEMMA EndIsReplayed ==
    ASSUME NEW h \in Seq(Lines), NEW k, NEW j \in Ends(h, k)
    PROVE  Replayed(h, k) = j /\ Replays(h, k)
  <1>a. PICK L : L = Len(h)
    OBVIOUS
  <1>1. PICK at : IsChain(h, k, L, at) /\ Replayed(h, k) = at[L]
    BY <1>a, ReplayedChain
  <1>2. L \in Nat /\ j \in 0 .. L - 1
    <2>1. L \in Nat
      BY <1>a
    <2>2. j \in 0 .. Len(h) - 1
      BY DEF Ends
    <2> QED BY <1>a, <2>1, <2>2
  <1>3. ~Bang(h[j + 1]) /\ h[j + 1].word # ""
    BY DEF Ends
  <1>4. PICK s \in UNION {[1 .. n -> 0 .. L - 1] : n \in 1 .. L} :
          /\ s[1] = k /\ Last(s) = j
          /\ \A i \in 1 .. Len(s) - 1 : Refers(h, s[i], s[i + 1])
    <2>1. PICK s \in UNION {[1 .. m -> 0 .. Len(h) - 1] : m \in 1 .. Len(h)} :
            /\ s[1] = k /\ Last(s) = j
            /\ \A i \in 1 .. Len(s) - 1 : Refers(h, s[i], s[i + 1])
      BY DEF Ends
    <2> QED BY <1>a, <2>1
  <1>5. PICK m \in 1 .. L : s \in [1 .. m -> 0 .. L - 1]
    BY <1>4
  <1>6. Len(s) = m
    BY <1>5
  <1>7. \A b \in 1 .. L : at[b] = Step(h, at[b - 1])
    BY <1>1, <1>2, ChainStep
  <1>8. \A i \in 1 .. m : at[i - 1] = s[i]
    <2> DEFINE T == {i \in 1 .. m : at[i - 1] # s[i]}
    <2> SUFFICES ASSUME T # {} PROVE FALSE
      OBVIOUS
    <2>1. PICK n \in T : \A o \in T : n <= o
      <3> HIDE DEF T
      <3>1. T \subseteq Nat
        BY DEF T
      <3> QED BY <3>1, LeastNumber
    <2>2. n # 1
      <3>1. at[0] = k
        BY <1>1, <1>2, ChainStep
      <3>2. at[1 - 1] = s[1]
        BY <1>4, <3>1
      <3> QED BY <3>2
    <2>3. n - 1 \in 1 .. m /\ n - 1 \in 1 .. L /\ n - 1 \in 1 .. m - 1 /\ (n - 1) + 1 = n
      BY <1>2, <1>5, <2>2
    <2>4. at[(n - 1) - 1] = s[n - 1]
      BY <2>1, <2>3
    <2>5. at[n - 1] = Step(h, s[n - 1])
      BY <1>7, <2>3, <2>4
    <2>6. Refers(h, s[n - 1], s[n])
      BY <1>4, <1>6, <2>3
    <2>7. s[n - 1] \in 0 .. L - 1 /\ s[n] \in 0 .. L - 1
      BY <1>5, <2>3
    <2>8. s[n] # NONE
      BY <2>7, NoneAssumption
    <2>9. RefersOn(h, s[n - 1]) /\ h[s[n - 1] + 1].n = s[n]
      BY <1>a, <2>6, <2>7, <2>8 DEF Refers, RefersOn, Recorded
    <2> QED BY <2>1, <2>5, <2>9 DEF Step
  <1>9. at[m - 1] = j
    BY <1>4, <1>5, <1>6, <1>8 DEF Last
  <1>10. Replayed(h, k) = j
    <2>1. ~RefersOn(h, at[m - 1])
      BY <1>3, <1>9 DEF RefersOn
    <2> DEFINE a == m - 1
    <2>2. a \in 0 .. L /\ L \in a .. L
      BY <1>2, <1>5
    <2> HIDE DEF a
    <2>3. \A b \in a .. L : at[b] = at[a]
      BY <1>1, <1>2, <2>1, <2>2, ChainStays DEF a
    <2> QED BY <1>1, <1>9, <2>2, <2>3 DEF a
  <1>11. k # NONE
    <2>1. k \in 0 .. L - 1
      BY <1>2, <1>4, <1>5
    <2> QED BY <2>1, NoneAssumption
  <1>12. Recorded(h, j)
    BY <1>a, <1>2 DEF Recorded
  <1> QED BY <1>3, <1>10, <1>11, <1>12 DEF Replays

LEMMA EndsIs ==
    ASSUME NEW h \in Seq(Lines), NEW k
    PROVE  Ends(h, k) = IF Replays(h, k) THEN {Replayed(h, k)} ELSE {}
  <1>1. \A j \in Ends(h, k) : Replayed(h, k) = j /\ Replays(h, k)
    BY EndIsReplayed
  <1>2. Replays(h, k) => Replayed(h, k) \in Ends(h, k)
    BY ReplayEnds
  <1> QED BY <1>1, <1>2

(* References to earlier lines that are not empty come to an end.          *)
LooksBack(h) ==
    \A i \in 1 .. Len(h) : Bang(h[i]) =>
      /\ h[i].n \in 0 .. i - 2
      /\ h[h[i].n + 1].word # ""

LEMMA BackwardEnds ==
    ASSUME NEW h \in Seq(Lines), LooksBack(h),
           NEW k \in 0 .. Len(h) - 1, NotEmpty(h, k)
    PROVE  Replays(h, k)
  <1>a. PICK L : L = Len(h)
    OBVIOUS
  <1>1. PICK at : IsChain(h, k, L, at) /\ Replayed(h, k) = at[L]
    BY <1>a, ReplayedChain
  <1>2. L \in Nat /\ k \in 0 .. L - 1
    BY <1>a
  <1>3. at[0] = k /\ \A b \in 1 .. L : at[b] = Step(h, at[b - 1])
    <2>1. L \in Nat
      BY <1>2
    <2>2. at[0] = k
      <3>1. PICK c : c = k
        OBVIOUS
      <3>2. IsChain(h, c, L, at)
        BY <1>1, <3>1
      <3>3. at[0] = c
        BY <2>1, <3>2, ChainStep
      <3> QED BY <3>1, <3>3
    <2>3. \A b \in 1 .. L : at[b] = Step(h, at[b - 1])
      BY <1>1, <2>1, ChainStep
    <2> QED BY <2>2, <2>3
  <1> DEFINE Fine(d) == /\ at[d] \in 0 .. L - 1 /\ NotEmpty(h, at[d])
                        /\ Bang(h[at[d] + 1]) => at[d] <= L - 1 - d
  <1>4. \A d \in 0 .. L : Fine(d)
    <2> DEFINE T == {d \in 0 .. L : ~Fine(d)}
    <2> SUFFICES ASSUME T # {} PROVE FALSE
      OBVIOUS
    <2>1. PICK n \in T : \A o \in T : n <= o
      <3> HIDE DEF T
      <3>1. T \subseteq Nat
        BY DEF T
      <3> QED BY <3>1, LeastNumber
    <2>2. Fine(0)
      BY <1>2, <1>3
    <2>3. n \in 1 .. L /\ n - 1 \in 0 .. L /\ n - 1 < n
      <3> HIDE DEF Fine
      <3> QED BY <1>2, <2>2
    <2>4. Fine(n - 1)
      <3> HIDE DEF Fine
      <3> QED BY <2>1, <2>3
    <2>5. PICK j : j = at[n - 1]
      OBVIOUS
    <2>6. j \in 0 .. L - 1 /\ (Bang(h[j + 1]) => j <= L - 1 - (n - 1))
      BY <2>4, <2>5
    <2>7. at[n] = Step(h, j)
      BY <1>3, <2>3, <2>5
    <2>8. CASE ~Bang(h[j + 1])
      <3>1. at[n] = j
        BY <2>7, <2>8 DEF Step, RefersOn
      <3> QED BY <2>4, <2>5, <2>8, <3>1
    <2>9. CASE Bang(h[j + 1])
      <3>1. j + 1 \in 1 .. Len(h)
        BY <1>a, <1>2, <2>6
      <3>2. h[j + 1].n \in 0 .. (j + 1) - 2 /\ NotEmpty(h, h[j + 1].n)
        BY <2>9, <3>1 DEF LooksBack, NotEmpty
      <3>3. h[j + 1].n # NONE
        BY <2>6, <3>2, NoneAssumption
      <3>4. at[n] = h[j + 1].n
        BY <1>a, <2>6, <2>7, <2>9, <3>3 DEF Step, RefersOn, Recorded
      <3>5. at[n] \in 0 .. L - 1 /\ at[n] <= L - 1 - n
        BY <1>2, <2>3, <2>6, <2>9, <3>2, <3>4
      <3>6. NotEmpty(h, at[n])
        BY <3>2, <3>4
      <3> QED BY <3>5, <3>6
    <2> QED BY <2>8, <2>9
  <1>5. L \in 0 .. L
    BY <1>2
  <1>6. Fine(L)
    <2> HIDE DEF Fine
    <2> QED BY <1>4, <1>5
  <1>7. at[L] \in 0 .. L - 1 /\ NotEmpty(h, at[L])
    BY <1>6
  <1>8. ~Bang(h[at[L] + 1])
    <2>1. ~(at[L] <= L - 1 - L)
      BY <1>2, <1>7
    <2> QED BY <1>6, <2>1
  <1>9. k # NONE
    BY <1>2, NoneAssumption
  <1>10. Recorded(h, at[L])
    BY <1>a, <1>7 DEF Recorded
  <1> QED BY <1>1, <1>7, <1>8, <1>9, <1>10 DEF Replays, NotEmpty

(***************************************************************************)
(* What the history says of the session                                    *)
(***************************************************************************)
Extends(h, l, g) ==
    /\ g \in Seq(Lines) /\ g # <<>> /\ Len(h) \in Nat /\ Len(g) = Len(h) + 1
    /\ Last(g) = l /\ g[Len(g)] = l /\ SubSeq(g, 1, Len(g)) = g
    /\ \A i \in 1 .. Len(h) : g[i] = h[i] /\ SubSeq(g, 1, i) = SubSeq(h, 1, i)

LEMMA AppendLine ==
    ASSUME NEW h \in Seq(Lines), NEW l \in Lines, NEW g, g = Append(h, l)
    PROVE  Extends(h, l, g)
  <1>1. g \in Seq(Lines) /\ Len(h) \in Nat /\ Len(g) = Len(h) + 1
    OBVIOUS
  <1>2. g[Len(h) + 1] = l /\ \A i \in 1 .. Len(h) : g[i] = h[i]
    OBVIOUS
  <1>3. Last(g) = l
    BY <1>1, <1>2 DEF Last
  <1>4. SubSeq(g, 1, Len(g)) = g
    BY <1>1
  <1>5. ASSUME NEW i \in 1 .. Len(h) PROVE SubSeq(g, 1, i) = SubSeq(h, 1, i)
    <2>1. /\ SubSeq(g, 1, i) \in Seq(Lines) /\ SubSeq(h, 1, i) \in Seq(Lines)
          /\ Len(SubSeq(g, 1, i)) = i /\ Len(SubSeq(h, 1, i)) = i
          /\ \A k \in 1 .. i : SubSeq(g, 1, i)[k] = g[k] /\ SubSeq(h, 1, i)[k] = h[k]
      BY <1>1
    <2>2. \A k \in 1 .. i : SubSeq(g, 1, i)[k] = SubSeq(h, 1, i)[k]
      BY <1>2, <2>1
    <2> QED BY <2>1, <2>2, SeqEqual
  <1>6. g # <<>>
    BY <1>1
  <1> QED BY <1>1, <1>2, <1>3, <1>4, <1>5, <1>6 DEF Extends

(* The shell has just been told to end, or will crash.                     *)
Unreplayable(h, l) == l.word = "!" /\ ~Replays(h, l.n)
Carried(h, l) == /\ l.word \notin {"", "exit"} /\ ~Unreplayable(h, l)
                 /\ Meant(h, l).word = "cd" /\ Meant(h, l).dir \in Dirs

(* A line typed, as far as it ends the shell or moves it.                  *)
LEMMA TypeLineOutcome ==
    ASSUME Inv, TypeLine
    PROVE  \E l \in Lines :
             /\ pc = "prompt" /\ history' = Append(history, l)
             /\ l.word = "exit" => pc' = "exited"
             /\ Unreplayable(history', l) => pc' = "crashed"
             /\ l.word # "exit" /\ ~Unreplayable(history', l) => pc' \in {"prompt", "wait"}
             /\ cwd' = IF Carried(history', l) THEN Meant(history', l).dir ELSE cwd
  <1>1. PICK l \in Lines :
          /\ pc = "prompt" /\ history' = Append(history, l)
          /\ CASE l.word = ""     -> UNCHANGED <<pc, cwd, job, middle, inPipe, written, got>>
               [] l.word = "exit" -> Stop("exited")
               [] l.word = "!" /\ ~Replays(history', l.n) -> Stop("crashed")
               [] OTHER           -> run_command(Meant(history', l), l.word = "!")
    BY DEF TypeLine
  <1>2. CASE l.word = ""
    BY <1>1, <1>2 DEF Unreplayable, Carried
  <1>3. CASE l.word = "exit"
    BY <1>1, <1>3 DEF Unreplayable, Carried, Stop
  <1>4. CASE Unreplayable(history', l)
    BY <1>1, <1>4 DEF Unreplayable, Carried, Stop
  <1>5. CASE l.word \notin {"", "exit"} /\ ~Unreplayable(history', l)
    <2>1. run_command(Meant(history', l), l.word = "!")
      BY <1>1, <1>5 DEF Unreplayable
    <2>2. PICK m : m = Meant(history', l)
      OBVIOUS
    <2>3. CASE m.word = "cd"
      <3>1. pc' = pc /\ cwd' = IF m.dir \in Dirs THEN m.dir ELSE cwd
        BY <2>1, <2>2, <2>3 DEF run_command, ChangeDir
      <3> QED BY <1>1, <1>5, <2>2, <2>3, <3>1 DEF Carried
    <2>4. CASE m.word # "cd"
      <3>1. cwd' = cwd /\ pc' \in {pc, "wait"}
        BY <2>1, <2>2, <2>4 DEF run_command, StartJob
      <3> QED BY <1>1, <1>5, <2>2, <2>4, <3>1 DEF Carried
    <2> QED BY <2>3, <2>4
  <1> QED BY <1>2, <1>3, <1>4, <1>5

LEMMA OthersKeep ==
    ASSUME Inv, [Next]_vars, ~TypeLine
    PROVE  /\ history' = history /\ cwd' = cwd /\ job' = job
           /\ pc' = pc \/ (pc \in {"prompt", "wait"} /\ pc' \in {"prompt", "eof"})
  BY DEF Next, EndOfInput, ShellWait, Middle, Left, MiddleExec, MiddlePipe, MiddleWait,
         MiddleExecRight, RightReads, MiddleEnds, LeftExec, LeftWrite, LeftEnds,
         shellVars, pipeVars, vars

(* Line i of a history ends the shell.                                     *)
FatalIn(h, i) == \/ h[i].word = "exit"
                 \/ h[i].word = "!" /\ Ends(SubSeq(h, 1, i), h[i].n) = {}

Over == pc \in {"exited", "crashed"}
EndInv ==
    /\ Over => history # <<>>
    /\ pc = "exited" => Last(history).word = "exit"
    /\ pc = "crashed" => /\ Last(history).word = "!"
                         /\ Ends(history, Last(history).n) = {}
    /\ \A i \in 1 .. Len(history) : FatalIn(history, i) => i = Len(history) /\ Over

LEMMA EndTypeLine == ASSUME Inv, EndInv, TypeLine PROVE EndInv'
  <1>1. PICK l \in Lines :
          /\ pc = "prompt" /\ history' = Append(history, l)
          /\ l.word = "exit" => pc' = "exited"
          /\ Unreplayable(history', l) => pc' = "crashed"
          /\ l.word # "exit" /\ ~Unreplayable(history', l) => pc' \in {"prompt", "wait"}
    BY TypeLineOutcome
  <1>2. PICK h : h = history
    OBVIOUS
  <1>3. PICK g : g = history'
    OBVIOUS
  <1>4. h \in Seq(Lines) /\ g = Append(h, l)
    BY <1>1, <1>2, <1>3 DEF Inv, TypeInv
  <1>5. /\ g \in Seq(Lines) /\ g # <<>> /\ Len(h) \in Nat /\ Len(g) = Len(h) + 1
        /\ Last(g) = l /\ g[Len(g)] = l /\ SubSeq(g, 1, Len(g)) = g
        /\ \A i \in 1 .. Len(h) : g[i] = h[i] /\ SubSeq(g, 1, i) = SubSeq(h, 1, i)
    <2>1. Extends(h, l, g)
      BY <1>4, AppendLine
    <2> QED BY <2>1 DEF Extends
  <1>6. Unreplayable(g, l) <=> l.word = "!" /\ Ends(g, l.n) = {}
    <2>1. Ends(g, l.n) = {} <=> ~Replays(g, l.n)
      BY <1>5, EndsIs
    <2> QED BY <2>1 DEF Unreplayable
  <1>7. ASSUME NEW i \in 1 .. Len(g), FatalIn(g, i)
        PROVE  i = Len(g) /\ (l.word = "exit" \/ Unreplayable(g, l))
    <2>1. i = Len(g)
      <3> SUFFICES ASSUME i \in 1 .. Len(h) PROVE FALSE
        BY <1>5
      <3>1. FatalIn(h, i)
        BY <1>5, <1>7 DEF FatalIn
      <3> QED BY <1>1, <1>2, <3>1 DEF EndInv, Over
    <2> QED BY <1>5, <1>6, <1>7, <2>1 DEF FatalIn
  <1>8. (pc' \in {"exited", "crashed"} => g # <<>>)
        /\ (pc' = "exited" => Last(g).word = "exit")
        /\ (pc' = "crashed" => Last(g).word = "!" /\ Ends(g, Last(g).n) = {})
    BY <1>1, <1>3, <1>5, <1>6
  <1>9. \A i \in 1 .. Len(g) : FatalIn(g, i) => i = Len(g) /\ pc' \in {"exited", "crashed"}
    BY <1>1, <1>3, <1>7
  <1> QED BY <1>3, <1>8, <1>9 DEF EndInv, Over

LEMMA EndStep == Inv /\ EndInv /\ [Next]_vars => EndInv'
  <1> SUFFICES ASSUME Inv, EndInv, [Next]_vars PROVE EndInv'
    OBVIOUS
  <1>1. CASE TypeLine
    BY <1>1, EndTypeLine
  <1>2. CASE ~TypeLine
    <2>1. history' = history /\ Over' = Over /\ (Over' => pc' = pc)
      BY <1>2, OthersKeep DEF Over
    <2> QED BY <2>1 DEF EndInv, Over
  <1> QED BY <1>1, <1>2

LEMMA EndInit == Init => EndInv
  BY DEF Init, EndInv, Over

(* What line i of a history stands for, and where the session has led.     *)
LedTo(h, x, e) == IF e = {} THEN x ELSE h[(CHOOSE j \in e : TRUE) + 1]
ReplayOf(h, i) ==
    IF h[i].word = "!" THEN LedTo(h, h[i], Ends(SubSeq(h, 1, i), h[i].n)) ELSE h[i]
MovesOf(h) == {i \in 1 .. Len(h) : ReplayOf(h, i).word = "cd" /\ ReplayOf(h, i).dir \in Dirs}
CwdOf(h) ==
    IF MovesOf(h) = {} THEN Home
    ELSE ReplayOf(h, CHOOSE i \in MovesOf(h) : \A j \in MovesOf(h) : j <= i).dir

(* A line typed later does not change what the earlier ones stand for.     *)
LEMMA EarlierReplays ==
    ASSUME NEW h \in Seq(Lines), NEW l, NEW g, Extends(h, l, g), NEW i \in 1 .. Len(h)
    PROVE  ReplayOf(g, i) = ReplayOf(h, i)
  <1>1. g[i] = h[i] /\ SubSeq(g, 1, i) = SubSeq(h, 1, i)
    BY DEF Extends
  <1>2. PICK b : b = SubSeq(h, 1, i) /\ Len(b) = i
    <2>1. Len(SubSeq(h, 1, i)) = i
      OBVIOUS
    <2> QED BY <2>1
  <1>3. PICK e : e = Ends(b, h[i].n)
    OBVIOUS
  <1>4. LedTo(g, h[i], e) = LedTo(h, h[i], e)
    <2>1. CASE e = {}
      BY <2>1 DEF LedTo
    <2>2. CASE e # {}
      <3>1. PICK j : j = CHOOSE k \in e : TRUE
        OBVIOUS
      <3>2. j \in e
        BY <2>2, <3>1
      <3>3. j \in 0 .. Len(b) - 1
        BY <1>3, <3>2 DEF Ends
      <3>4. j + 1 \in 1 .. Len(h)
        BY <1>2, <3>3
      <3>5. g[j + 1] = h[j + 1]
        BY <3>4 DEF Extends
      <3> QED BY <2>2, <3>1, <3>5 DEF LedTo
    <2> QED BY <2>1, <2>2
  <1>5. Ends(SubSeq(g, 1, i), g[i].n) = e /\ Ends(SubSeq(h, 1, i), h[i].n) = e
    BY <1>1, <1>2, <1>3
  <1> QED BY <1>1, <1>4, <1>5 DEF ReplayOf

LEMMA LargestMove ==
    ASSUME NEW h \in Seq(Lines), MovesOf(h) # {}
    PROVE  \E i \in MovesOf(h) : \A j \in MovesOf(h) : j <= i
  <1>1. PICK L \in Nat : L = Len(h)
    OBVIOUS
  <1>2. PICK M : M = MovesOf(h)
    OBVIOUS
  <1>3. M \subseteq 1 .. L /\ M # {}
    BY <1>1, <1>2 DEF MovesOf
  <1> DEFINE T == {L - i : i \in M}
  <1>4. PICK n \in T : \A o \in T : n <= o
    <2>1. T # {}
      BY <1>3
    <2>2. T \subseteq Nat
      <3> SUFFICES ASSUME NEW i \in M PROVE L - i \in Nat
        OBVIOUS
      <3>1. i \in 1 .. L
        BY <1>3
      <3> QED BY <3>1
    <2> HIDE DEF T
    <2> QED BY <2>1, <2>2, LeastNumber
  <1>5. PICK i \in M : n = L - i
    OBVIOUS
  <1>6. ASSUME NEW j \in M PROVE j <= i
    <2>1. n <= L - j
      BY <1>4
    <2>2. i \in 1 .. L /\ j \in 1 .. L
      BY <1>3
    <2> QED BY <1>5, <2>1, <2>2
  <1> QED BY <1>2, <1>5, <1>6

(* The line typed last leads somewhere, or where the others have led.      *)
LEMMA CwdAppend ==
    ASSUME NEW h \in Seq(Lines), NEW l \in Lines, NEW g, Extends(h, l, g)
    PROVE  CwdOf(g) = LET r == ReplayOf(g, Len(g))
                      IN  IF r.word = "cd" /\ r.dir \in Dirs THEN r.dir ELSE CwdOf(h)
  <1>1. PICK n : n = Len(g)
    OBVIOUS
  <1>2. n \in Nat /\ n = Len(h) + 1 /\ Len(h) \in Nat
    BY <1>1 DEF Extends
  <1>3. PICK r : r = ReplayOf(g, n)
    OBVIOUS
  <1>4. \A i \in 1 .. Len(h) : ReplayOf(g, i) = ReplayOf(h, i)
    BY EarlierReplays
  <1>5. 1 .. n = 1 .. Len(h) \cup {n} /\ n \notin 1 .. Len(h)
    BY <1>2
  <1> DEFINE Leads == r.word = "cd" /\ r.dir \in Dirs
  <1>6. MovesOf(g) = MovesOf(h) \cup (IF Leads THEN {n} ELSE {})
    BY <1>1, <1>3, <1>4, <1>5 DEF MovesOf
  <1>7. CASE Leads
    <2>1. \A j \in MovesOf(g) : j \in Nat /\ j <= n
      BY <1>1, <1>2 DEF MovesOf
    <2>2. n \in MovesOf(g)
      BY <1>6, <1>7
    <2>3. \A i \in MovesOf(g) : (\A j \in MovesOf(g) : j <= i) => i = n
      BY <1>2, <2>1, <2>2
    <2>4. (CHOOSE i \in MovesOf(g) : \A j \in MovesOf(g) : j <= i) = n
      BY <2>1, <2>2, <2>3
    <2>5. CwdOf(g) = r.dir
      BY <1>3, <2>2, <2>4 DEF CwdOf
    <2> QED BY <1>1, <1>3, <1>7, <2>5
  <1>8. CASE ~Leads
    <2>1. MovesOf(g) = MovesOf(h)
      BY <1>6, <1>8
    <2>2. CASE MovesOf(h) = {}
      <3>1. CwdOf(g) = CwdOf(h)
        BY <2>1, <2>2 DEF CwdOf
      <3> QED BY <1>1, <1>3, <1>8, <3>1
    <2>3. CASE MovesOf(h) # {}
      <3>1. PICK i : i = CHOOSE k \in MovesOf(h) : \A j \in MovesOf(h) : j <= k
        OBVIOUS
      <3>2. i \in MovesOf(h)
        BY <2>3, <3>1, LargestMove
      <3>3. i \in 1 .. Len(h)
        BY <3>2 DEF MovesOf
      <3>4. CwdOf(g) = ReplayOf(g, i).dir /\ CwdOf(h) = ReplayOf(h, i).dir
        BY <2>1, <2>3, <3>1 DEF CwdOf
      <3>5. CwdOf(g) = CwdOf(h)
        BY <1>4, <3>3, <3>4
      <3> QED BY <1>1, <1>3, <1>8, <3>5
    <2> QED BY <2>2, <2>3
  <1> QED BY <1>7, <1>8

(* What the last line is carried out as is what it stands for; a replayed  *)
(* "exit" is not carried out as one.                                       *)
LEMMA LastMeant ==
    ASSUME NEW g \in Seq(Lines), g # <<>>, NEW l, l = g[Len(g)],
           l.word = "!" => Replays(g, l.n)
    PROVE  LET r == ReplayOf(g, Len(g))
           IN  /\ r \in CommandLine
               /\ Meant(g, l) = IF l.word = "!" /\ r.word = "exit"
                                THEN [r EXCEPT !.word = "run", !.left = NotFound] ELSE r
  <1>1. SubSeq(g, 1, Len(g)) = g /\ Lines \subseteq CommandLine /\ l \in Lines
    BY ShellAssumption
  <1> DEFINE r == ReplayOf(g, Len(g))
  <1>2. CASE l.word # "!"
    BY <1>1, <1>2 DEF ReplayOf, Meant
  <1>3. CASE l.word = "!"
    <2>1. PICK k : k = Replayed(g, l.n)
      OBVIOUS
    <2>2. Ends(g, l.n) = {k}
      BY <1>3, <2>1, EndsIs
    <2>3. PICK c : c = g[k + 1]
      OBVIOUS
    <2>4. (CHOOSE j \in {k} : TRUE) = k
      OBVIOUS
    <2>5. r = c
      BY <1>1, <1>3, <2>2, <2>3, <2>4 DEF ReplayOf, LedTo
    <2>6. c \in CommandLine
      <3>1. k \in 0 .. Len(g) - 1
        BY <1>3, <2>1 DEF Replays, Recorded
      <3> QED BY <1>1, <2>3, <3>1
    <2> QED BY <1>3, <2>1, <2>3, <2>5, <2>6 DEF Meant
  <1> QED BY <1>2, <1>3

CwdInv == cwd = CwdOf(history)

LEMMA CwdTypeLine == ASSUME Inv, CwdInv, TypeLine PROVE CwdInv'
  <1>1. PICK l \in Lines :
          /\ pc = "prompt" /\ history' = Append(history, l)
          /\ cwd' = IF Carried(history', l) THEN Meant(history', l).dir ELSE cwd
    BY TypeLineOutcome
  <1>2. PICK h : h = history
    OBVIOUS
  <1>3. PICK g : g = history'
    OBVIOUS
  <1>4. h \in Seq(Lines) /\ g = Append(h, l)
    BY <1>1, <1>2, <1>3 DEF Inv, TypeInv
  <1>5. Extends(h, l, g)
    BY <1>4, AppendLine
  <1>6. PICK r : r = ReplayOf(g, Len(g))
    OBVIOUS
  <1>7. cwd = CwdOf(h)
    BY <1>2 DEF CwdInv
  <1>8. /\ Carried(g, l) <=> r.word = "cd" /\ r.dir \in Dirs
        /\ Carried(g, l) => Meant(g, l).dir = r.dir
    <2>1. g \in Seq(Lines) /\ g[Len(g)] = l /\ SubSeq(g, 1, Len(g)) = g
      BY <1>5 DEF Extends
    <2>2. CASE l.word # "!"
      <3>1. r = l /\ Meant(g, l) = l
        BY <1>6, <2>1, <2>2 DEF ReplayOf, LedTo, Meant
      <3> QED BY <2>2, <3>1 DEF Carried, Unreplayable
    <2>3. CASE Unreplayable(g, l)
      <3>1. l.word = "!" /\ Ends(g, l.n) = {}
        BY <2>1, <2>3, EndsIs DEF Unreplayable
      <3>2. r = l
        BY <1>6, <2>1, <3>1 DEF ReplayOf, LedTo
      <3> QED BY <2>3, <3>1, <3>2 DEF Carried
    <2>4. CASE l.word = "!" /\ Replays(g, l.n)
      <3>1. /\ r \in CommandLine
            /\ Meant(g, l) = IF r.word = "exit"
                             THEN [r EXCEPT !.word = "run", !.left = NotFound] ELSE r
        <4>1. g # <<>>
          BY <1>5 DEF Extends
        <4> QED BY <1>6, <2>1, <2>4, <4>1, LastMeant
      <3>2. CASE r.word = "exit"
        <4>1. Meant(g, l).word = "run"
          BY <3>1, <3>2 DEF CommandLine
        <4> QED BY <3>2, <4>1 DEF Carried
      <3>3. CASE r.word # "exit"
        BY <2>4, <3>1, <3>3 DEF Carried, Unreplayable
      <3> QED BY <3>2, <3>3
    <2> QED BY <2>2, <2>3, <2>4 DEF Unreplayable
  <1>9. CwdOf(g) = IF r.word = "cd" /\ r.dir \in Dirs THEN r.dir ELSE CwdOf(h)
    BY <1>4, <1>5, <1>6, CwdAppend
  <1>10. cwd' = CwdOf(g)
    BY <1>1, <1>3, <1>7, <1>8, <1>9
  <1> QED BY <1>3, <1>10 DEF CwdInv

LEMMA CwdStep == Inv /\ CwdInv /\ [Next]_vars => CwdInv'
  <1> SUFFICES ASSUME Inv, CwdInv, [Next]_vars PROVE CwdInv'
    OBVIOUS
  <1>1. CASE TypeLine
    BY <1>1, CwdTypeLine
  <1>2. CASE ~TypeLine
    BY <1>2, OthersKeep DEF CwdInv
  <1> QED BY <1>1, <1>2

LEMMA CwdInit == Init => CwdInv
  <1> SUFFICES ASSUME Init PROVE cwd = CwdOf(history)
    BY DEF CwdInv
  <1>1. history = <<>> /\ cwd = Home
    BY DEF Init
  <1>2. MovesOf(history) = {}
    BY <1>1 DEF MovesOf
  <1> QED BY <1>1, <1>2 DEF CwdOf

(* The command that the shell waits for is the one that is recorded.       *)
RecordedIn(h, run) ==
    LET r == ReplayOf(h, Len(h))
    IN  /\ run.right = r.right
        /\ run.left.runs /\ ~(run.right # NONE /\ Last(h).word = "!") => run.left = r.left
RanInv == pc = "wait" => RecordedIn(history, job)

LEMMA RanTypeLine == ASSUME Inv, TypeLine PROVE RanInv'
  <1> SUFFICES ASSUME pc' = "wait" PROVE RecordedIn(history', job')
    BY DEF RanInv
  <1>1. PICK l \in Lines :
          /\ pc = "prompt" /\ history' = Append(history, l)
          /\ CASE l.word = ""     -> UNCHANGED <<pc, cwd, job, middle, inPipe, written, got>>
               [] l.word = "exit" -> Stop("exited")
               [] l.word = "!" /\ ~Replays(history', l.n) -> Stop("crashed")
               [] OTHER           -> run_command(Meant(history', l), l.word = "!")
    BY DEF TypeLine
  <1>2. PICK g, m, r : /\ g = history' /\ m = Meant(history', l)
                       /\ r = ReplayOf(history', Len(history'))
    OBVIOUS
  <1>3. g \in Seq(Lines) /\ g # <<>> /\ l = g[Len(g)] /\ Last(g) = l
    <2>1. g = Append(history, l) /\ history \in Seq(Lines)
      BY <1>1, <1>2 DEF Inv, TypeInv
    <2> QED BY <2>1 DEF Last
  <1>4. (l.word = "!" => Replays(g, l.n)) /\ run_command(m, l.word = "!")
    BY <1>1, <1>2 DEF Stop
  <1>5. StartJob(m, l.word = "!")
    BY <1>1, <1>4 DEF run_command, ChangeDir
  <1>6. PICK prog \in LeftOutcomes(m, l.word = "!") : job' = [left |-> prog, right |-> m.right]
    BY <1>1, <1>5 DEF StartJob
  <1>7. /\ r \in CommandLine
        /\ m = IF l.word = "!" /\ r.word = "exit"
               THEN [r EXCEPT !.word = "run", !.left = NotFound] ELSE r
    <2>1. /\ ReplayOf(g, Len(g)) \in CommandLine
          /\ Meant(g, l) = IF l.word = "!" /\ ReplayOf(g, Len(g)).word = "exit"
                           THEN [ReplayOf(g, Len(g)) EXCEPT !.word = "run", !.left = NotFound]
                           ELSE ReplayOf(g, Len(g))
      BY <1>3, <1>4, LastMeant
    <2> QED BY <1>2, <2>1
  <1>8. job'.left = prog /\ job'.right = m.right /\ NotFound.runs = FALSE
    BY <1>6 DEF NotFound
  <1>9. CASE m = r
    <2>1. prog.runs /\ ~(m.right # NONE /\ l.word = "!") => prog = m.left
      BY <1>6, <1>8 DEF LeftOutcomes
    <2> QED BY <1>2, <1>3, <1>8, <1>9, <2>1 DEF RecordedIn
  <1>10. CASE m = [r EXCEPT !.word = "run", !.left = NotFound]
    <2>1. m.left = NotFound /\ m.right = r.right
      BY <1>7, <1>10 DEF CommandLine
    <2>2. ~prog.runs
      BY <1>6, <1>8, <2>1 DEF LeftOutcomes
    <2> QED BY <1>2, <1>8, <2>1, <2>2 DEF RecordedIn
  <1> QED BY <1>7, <1>9, <1>10

LEMMA RanStep == Inv /\ RanInv /\ [Next]_vars => RanInv'
  <1> SUFFICES ASSUME Inv, RanInv, [Next]_vars PROVE RanInv'
    OBVIOUS
  <1>1. CASE TypeLine
    BY <1>1, RanTypeLine
  <1>2. CASE ~TypeLine
    BY <1>2, OthersKeep DEF RanInv
  <1> QED BY <1>1, <1>2

(***************************************************************************)
(* The theorems                                                            *)
(***************************************************************************)
(* At the prompt no child is left and nobody has an end of the pipe, and   *)
(* the shell never waits without a child (run_command of pa1.c).           *)
THEOREM ShellIsSane == Spec => []Sane
  <1>1. Inv => Sane
    BY DEF Inv, MiddleInv, Sane, NoMiddle
  <1> QED BY Invariant, <1>1, PTL

(* The right command of a pipe finds all the left one wrote, or nothing if *)
(* it did not run, and never starts if the pipe cannot hold it.            *)
THEOREM PipeCarriesAll == Spec => []AllCarried
  <1>1. Inv => AllCarried
    <2> SUFFICES ASSUME Inv, Piped, middle \in {"ready", "running", "zombie"}
                 PROVE  /\ left = "none"
                        /\ written \in {0, job.left.out} /\ written <= Capacity
                        /\ written = inPipe + got
                        /\ middle = "zombie" /\ job.right.runs /\ job.right.reads => got = written
      BY DEF AllCarried
    <2>1. Filled
      BY DEF Inv, MiddleInv
    <2> QED BY <2>1 DEF Inv, MiddleInv, Filled
  <1> QED BY Invariant, <1>1, PTL

(* The shell ends when "exit" is typed, or crashes at a "!" from which no  *)
(* chain of references leads to a command, and goes on after every other   *)
(* line: what num_to_tokens() comes to is what the history says.           *)
THEOREM ShellEndsAsTyped == Spec => []EndsAsTyped
  <1>1. EndInv => EndsAsTyped
    BY DEF EndInv, EndsAsTyped, FatalIn, Fatal, Over, Before
  <1> QED BY <1>1, InitInv, Inductive, EndInit, EndStep, PTL DEF Spec

(* References to earlier lines that are not empty never crash the shell.   *)
THEOREM BackwardIsSafe == Spec => []BackwardReplay
  <1>1. Inv /\ EndInv => BackwardReplay
    <2> SUFFICES ASSUME Inv, EndInv, LooksBack(history), pc = "crashed" PROVE FALSE
      BY DEF BackwardReplay, LooksBack
    <2>1. PICK h \in Seq(Lines) : h = history
      BY DEF Inv, TypeInv
    <2>2. /\ h # <<>> /\ Last(h).word = "!" /\ Ends(h, Last(h).n) = {} /\ LooksBack(h)
      BY <2>1 DEF EndInv, Over
    <2>3. PICK l : l = Last(h)
      OBVIOUS
    <2>4. Len(h) \in 1 .. Len(h) /\ l = h[Len(h)]
      BY <2>2, <2>3 DEF Last
    <2>5. Bang(l)
      BY <2>2, <2>3 DEF Bang
    <2>6. l.n \in 0 .. Len(h) - 2 /\ NotEmpty(h, l.n)
      BY <2>2, <2>4, <2>5 DEF LooksBack, NotEmpty
    <2>7. l.n \in 0 .. Len(h) - 1
      BY <2>4, <2>6
    <2>8. Replays(h, l.n)
      BY <2>2, <2>6, <2>7, BackwardEnds
    <2>9. Ends(h, l.n) # {}
      BY <2>8, EndsIs
    <2> QED BY <2>2, <2>3, <2>9
  <1> QED BY <1>1, InitInv, Inductive, EndInit, EndStep, PTL DEF Spec

(* The directory is where the last cd that succeeded has led, typed or     *)
(* replayed: run_command changes it in the shell itself and nowhere else.  *)
THEOREM CwdFollowsHistory == Spec => []CwdFromHistory
  <1>1. CwdInv => CwdFromHistory
    BY DEF CwdInv, CwdFromHistory, CwdOf, MovesOf, Moves, ReplayOf, LedTo, Replay, Before
  <1> QED BY <1>1, InitInv, Inductive, CwdInit, CwdStep, PTL DEF Spec

(* A command that runs is the one that was typed or that the references    *)
(* of the "!" lead to, as num_to_tokens() finds it, but for the left side  *)
(* of a replayed pipe, whose words run_command() overwrites in the child.  *)
THEOREM RecordedRuns == Spec => []RunsAsRecorded
  <1>1. RanInv => RunsAsRecorded
    BY DEF RanInv, RunsAsRecorded, RecordedIn, ReplayOf, LedTo, Replay, Before, Piped
  <1>2. Init => RanInv
    BY DEF Init, RanInv
  <1> QED BY <1>1, <1>2, InitInv, Inductive, RanStep, PTL DEF Spec

================================================================================

---------------------------- MODULE PickLoopsProofs ----------------------------
(***************************************************************************)
(* The selection loops pick what FirstBest says, for lists of every length *)
(* and with every keys.                                                    *)
(***************************************************************************)
EXTENDS PickLoops, SeqLemmas, TLAPS

USE KeysAssumption, MaxLenAssumption, MaxLifespanAssumption

(***************************************************************************)
(* The inductive invariant                                                 *)
(***************************************************************************)
n == Len(given)

Shape == /\ loop \in Loops /\ pc \in {"scan", "again", "done"}
         /\ given \in Seq(Nat) /\ keys \in Seq(Nat) /\ Len(keys) = n
         /\ loop # "preempt" => keys = given
         /\ cursor \in 1 .. n + 1 /\ best \in 0 .. n
         /\ self \in Nat /\ min \in Nat

(* best is the first of the best entries the walk has passed.              *)
BestSoFar == /\ best \in 1 .. n
             /\ \A j \in 1 .. n : j < cursor => given[j] <= given[best]
             /\ \A j \in 1 .. n : j < best => given[j] < given[best]

(* compete: best is above self and the first, or is as good as self; the   *)
(* nested walk is entered when nothing is above self.                      *)
CompeteInv ==
    loop = "compete" =>
      /\ n > 0 /\ self = given[n] /\ best \in 1 .. n
      /\ pc = "scan" => \/ given[best] > self /\ BestSoFar
                        \/ given[best] = self /\ BestSoFar /\ cursor = n + 1
                        \/ /\ given[best] = self /\ cursor <= n
                           /\ \A j \in 1 .. n : j < cursor => given[j] <= self
      /\ pc = "again" => /\ cursor <= n
                         /\ \A j \in 1 .. n : given[j] <= self
                         /\ \A j \in 1 .. n : j < cursor => given[j] # self

(* swap and waiter *)
MaxInv == loop \in {"swap", "waiter"} => pc # "again" /\ BestSoFar

MaxDone == pc = "done" /\ loop \in {"compete", "swap", "waiter"}
             => BestSoFar /\ cursor = n + 1

(* least: min is the least key passed, or still where it started.          *)
MinSoFar(k) == /\ min <= MAX_LIFESPAN
               /\ \A j \in 1 .. n : j < k => min <= given[j]
               /\ min = MAX_LIFESPAN \/ \E j \in 1 .. n : given[j] = min

LeastInv ==
    loop = "least" =>
      /\ pc = "scan" => best = 0 /\ MinSoFar(cursor)
      /\ pc = "again" => /\ best = 0 /\ MinSoFar(n + 1)
                         /\ \A j \in 1 .. n : j < cursor => given[j] # min
      /\ pc = "done" =>
           /\ MinSoFar(n + 1)
           /\ \/ best = 0 /\ \A j \in 1 .. n : given[j] # min
              \/ /\ best \in 1 .. n /\ given[best] = min
                 /\ \A j \in 1 .. n : j < best => given[j] # min

(* preempt: nothing below self so far, or the exchange is made and the     *)
(* walk is over.                                                           *)
PreemptInv ==
    loop = "preempt" =>
      /\ pc # "again"
      /\ pc = "done" => cursor = n + 1
      /\ best = 0 => /\ keys = given
                     /\ \A j \in 1 .. n : j < cursor => given[j] >= self
      /\ best # 0 => /\ best \in 1 .. n /\ cursor = n + 1 /\ self = given[best]
                     /\ given[best] < keys[n]
                     /\ \A j \in 1 .. n : j < best => given[j] >= keys[n]

PickInv == /\ Shape /\ CompeteInv /\ MaxInv /\ MaxDone /\ LeastInv /\ PreemptInv

LEMMA PickInit == Init => PickInv
  <1> SUFFICES ASSUME Init PROVE PickInv
    OBVIOUS
  <1>1. PICK m \in 0 .. MaxLen : given \in [1 .. m -> Keys]
    BY DEF Init
  <1>2. given \in Seq(Nat) /\ n = m /\ n \in Nat /\ \A j \in 1 .. n : given[j] \in Keys
    <2>1. m \in Nat
      BY <1>1
    <2>2. \A j \in 1 .. m : given[j] \in Keys
      BY <1>1
    <2>3. \A j \in 1 .. m : given[j] \in Nat
      BY <2>2
    <2>4. given \in [1 .. m -> Nat] /\ m \in Nat
      BY <1>1, <2>1, <2>3
    <2>5. given \in Seq(Nat)
      BY <2>4, SeqDef
    <2> QED BY <1>1, <2>4, <2>5 DEF n
  <1>3. loop \notin {"preempt", "least"} => n > 0
    <2> SUFFICES ASSUME loop \notin {"preempt", "least"}, n = 0 PROVE FALSE
      BY <1>2
    <2>1. given = <<>>
      BY <1>2 DEF n
    <2> QED BY <2>1 DEF Init
  <1>4. loop = "compete" => self = given[n]
    BY DEF Init, n
  <1>5. /\ keys = given /\ cursor = 1 /\ pc = "scan" /\ min = MAX_LIFESPAN
        /\ loop \in Loops
    BY DEF Init
  <1>6. self \in Nat
    BY <1>2, <1>3, <1>4 DEF Init, Loops
  <1>7. /\ loop = "compete" => best = n
        /\ loop \in {"swap", "waiter"} => best = 1
        /\ loop \in {"least", "preempt"} => best = 0
    BY DEF Init, n
  <1>8. Shape
    BY <1>2, <1>3, <1>5, <1>6, <1>7 DEF Shape, Loops, n
  <1> HIDE DEF n
  <1>9. CompeteInv /\ MaxInv /\ MaxDone /\ LeastInv /\ PreemptInv
    BY <1>2, <1>3, <1>4, <1>5, <1>6, <1>7
       DEF CompeteInv, MaxInv, MaxDone, LeastInv, PreemptInv, BestSoFar, MinSoFar
  <1> QED BY <1>8, <1>9 DEF PickInv

(* What every step can read. *)
LEMMA ShapeFacts ==
    ASSUME Shape
    PROVE  /\ n \in Nat /\ cursor \in Int /\ best \in Int
           /\ \A j \in 1 .. n : given[j] \in Nat /\ keys[j] \in Nat
           /\ DOMAIN given = 1 .. n /\ DOMAIN keys = 1 .. n
           /\ ~AtEnd => cursor \in 1 .. n
           /\ AtEnd => cursor = n + 1
  <1>1. Len(given) \in Nat /\ given \in Seq(Nat) /\ keys \in Seq(Nat)
        /\ Len(keys) = Len(given) /\ cursor \in 1 .. Len(given) + 1
        /\ best \in 0 .. Len(given)
    BY DEF Shape, n
  <1>2. DOMAIN given = 1 .. n /\ DOMAIN keys = 1 .. n
    BY <1>1 DEF n
  <1>3. \A j \in 1 .. n : given[j] \in Nat /\ keys[j] \in Nat
    BY <1>1, <1>2 DEF n
  <1>4. n \in Nat /\ cursor \in Int /\ best \in Int /\ cursor \in 1 .. n + 1
    BY <1>1 DEF n
  <1>5. AtEnd <=> cursor > n
    BY <1>1 DEF n, AtEnd
  <1> HIDE DEF n
  <1> QED BY <1>2, <1>3, <1>4, <1>5

(* The steps that leave the list alone. *)
Steady == given' = given /\ keys' = keys /\ self' = self /\ loop' = loop

LEMMA ShapeStays ==
    ASSUME Shape, Steady, pc' \in {"scan", "again", "done"},
           cursor' \in 1 .. n + 1, best' \in 0 .. n, min' \in Nat
    PROVE  Shape'
  BY DEF Shape, Steady, n

LEMMA CompeteStepInv == ASSUME PickInv, CompeteStep PROVE PickInv'
  <1>1. /\ Shape /\ CompeteInv /\ loop = "compete" /\ pc = "scan" /\ ~AtEnd
        /\ Steady /\ min' = min /\ n' = n
    BY DEF PickInv, CompeteStep, Steady, n
  <1>2. /\ n \in Nat /\ n > 0 /\ cursor \in 1 .. n /\ best \in 1 .. n
        /\ self = given[n] /\ keys = given /\ min \in Nat
        /\ \A j \in 1 .. n : given[j] \in Nat
    BY <1>1, ShapeFacts DEF CompeteInv, Shape
  <1>3. \/ given[best] > self /\ BestSoFar
        \/ given[best] = self /\ \A j \in 1 .. n : j < cursor => given[j] <= self
    BY <1>1, <1>2, ShapeFacts DEF CompeteInv
  <1>4. \/ /\ given[cursor] > given[best] /\ best' = cursor /\ cursor' = cursor + 1
           /\ pc' = "scan"
        \/ /\ given[cursor] = given[best] /\ given[best] <= self /\ best' = cursor
           /\ IF cursor = n THEN pc' = "again" /\ cursor' = 1
                            ELSE pc' = "scan" /\ cursor' = cursor + 1
        \/ /\ ~(given[cursor] > given[best])
           /\ ~(given[cursor] = given[best] /\ given[best] <= self)
           /\ cursor' = cursor + 1 /\ best' = best /\ pc' = "scan"
    BY <1>1, <1>2 DEF CompeteStep, Better, Equal, IsSelf, n
  <1>5. Shape'
    <2>1. pc' \in {"scan", "again", "done"} /\ cursor' \in 1 .. n + 1 /\ best' \in 0 .. n
      BY <1>2, <1>4
    <2> QED BY <2>1, <1>1, <1>2, ShapeStays
  <1> HIDE DEF n
  <1>6. CompeteInv'
    <2> SUFFICES /\ best' \in 1 .. n
                 /\ pc' = "scan" =>
                      \/ given[best'] > self /\ BestSoFar'
                      \/ /\ given[best'] = self /\ cursor' <= n
                         /\ \A j \in 1 .. n : j < cursor' => given[j] <= self
                 /\ pc' = "again" => /\ cursor' <= n
                                     /\ \A j \in 1 .. n : given[j] <= self
                                     /\ \A j \in 1 .. n : j < cursor' => given[j] # self
      BY <1>1, <1>2 DEF CompeteInv, Steady
    <2>1. CASE given[cursor] > given[best]
      <3>1. best' = cursor /\ cursor' = cursor + 1 /\ pc' = "scan"
        BY <1>2, <1>4, <2>1
      <3>2. given[cursor] > self /\ BestSoFar'
        BY <1>1, <1>2, <1>3, <2>1, <3>1 DEF BestSoFar, Steady
      <3> QED BY <1>2, <3>1, <3>2
    <2>2. CASE given[cursor] = given[best] /\ given[best] <= self
      <3>1. given[best] = self /\ best' = cursor
            /\ \A j \in 1 .. n : j < cursor => given[j] <= self
        BY <1>2, <1>3, <1>4, <2>2
      <3> QED BY <1>2, <1>4, <2>2, <3>1
    <2>3. CASE ~(given[cursor] > given[best])
               /\ ~(given[cursor] = given[best] /\ given[best] <= self)
      <3>1. best' = best /\ cursor' = cursor + 1 /\ pc' = "scan"
        BY <1>2, <1>4, <2>3
      <3>2. CASE given[best] > self /\ BestSoFar
        <4>1. BestSoFar'
          BY <1>1, <1>2, <2>3, <3>1, <3>2 DEF BestSoFar, Steady
        <4> QED BY <1>2, <3>1, <3>2, <4>1
      <3>3. CASE given[best] = self /\ \A j \in 1 .. n : j < cursor => given[j] <= self
        <4>1. given[cursor] < self
          BY <1>2, <2>3, <3>3
        <4>2. cursor # n
          BY <1>2, <4>1
        <4> QED BY <1>2, <3>1, <3>3, <4>1, <4>2
      <3> QED BY <1>3, <3>2, <3>3
    <2> QED BY <2>1, <2>2, <2>3
  <1> QED BY <1>1, <1>4, <1>5, <1>6
          DEF PickInv, MaxInv, MaxDone, LeastInv, PreemptInv, Steady

LEMMA CompeteAgainInv == ASSUME PickInv, CompeteAgain PROVE PickInv'
  <1>1. /\ Shape /\ CompeteInv /\ loop = "compete" /\ pc = "again"
        /\ Steady /\ min' = min /\ n' = n
    BY DEF PickInv, CompeteAgain, Steady, n
  <1>2. /\ n \in Nat /\ n > 0 /\ cursor \in 1 .. n /\ best \in 1 .. n
        /\ self = given[n] /\ keys = given /\ min \in Nat
        /\ \A j \in 1 .. n : given[j] \in Nat
        /\ \A j \in 1 .. n : given[j] <= self
        /\ \A j \in 1 .. n : j < cursor => given[j] # self
    BY <1>1, ShapeFacts DEF CompeteInv, Shape
  <1>3. \/ given[cursor] = self /\ best' = cursor /\ cursor' = n + 1 /\ pc' = "scan"
        \/ given[cursor] # self /\ best' = best /\ cursor' = cursor + 1 /\ pc' = "again"
    BY <1>1, <1>2 DEF CompeteAgain, n
  <1>4. Shape'
    <2>1. pc' \in {"scan", "again", "done"} /\ cursor' \in 1 .. n + 1 /\ best' \in 0 .. n
      BY <1>2, <1>3
    <2> QED BY <2>1, <1>1, <1>2, ShapeStays
  <1> HIDE DEF n
  <1>5. CompeteInv'
    <2>1. CASE given[cursor] = self
      <3>1. best' = cursor /\ cursor' = n + 1 /\ pc' = "scan"
        BY <1>3, <2>1
      <3>2. BestSoFar'
        BY <1>1, <1>2, <2>1, <3>1 DEF BestSoFar, Steady
      <3> QED BY <1>1, <1>2, <2>1, <3>1, <3>2 DEF CompeteInv, Steady
    <2>2. CASE given[cursor] # self
      <3>1. cursor # n /\ best' = best /\ cursor' = cursor + 1 /\ pc' = "again"
        BY <1>2, <1>3, <2>2
      <3>2. cursor' <= n /\ \A j \in 1 .. n : j < cursor' => given[j] # self
        BY <1>2, <2>2, <3>1
      <3> QED BY <1>1, <1>2, <3>1, <3>2 DEF CompeteInv, Steady
    <2> QED BY <2>1, <2>2
  <1> QED BY <1>1, <1>3, <1>4, <1>5
          DEF PickInv, MaxInv, MaxDone, LeastInv, PreemptInv, Steady

LEMMA SwapWaiterInv == ASSUME PickInv, SwapStep \/ WaiterStep PROVE PickInv'
  <1>1. /\ Shape /\ BestSoFar /\ loop \in {"swap", "waiter"} /\ pc = "scan" /\ ~AtEnd
        /\ Steady /\ min' = min /\ n' = n /\ pc' = pc
    BY DEF PickInv, SwapStep, WaiterStep, Steady, MaxInv, n
  <1>2. /\ n \in Nat /\ cursor \in 1 .. n /\ best \in 1 .. n
        /\ keys = given /\ min \in Nat
        /\ \A j \in 1 .. n : given[j] \in Nat
    BY <1>1, ShapeFacts DEF Shape, BestSoFar
  <1>3. \/ /\ given[cursor] > given[best] /\ best' = cursor
           /\ cursor' = best + 1 \/ cursor' = cursor + 1
        \/ ~(given[cursor] > given[best]) /\ best' = best /\ cursor' = cursor + 1
    BY <1>2 DEF SwapStep, WaiterStep, Better
  <1>4. Shape'
    <2>1. pc' \in {"scan", "again", "done"} /\ cursor' \in 1 .. n + 1 /\ best' \in 0 .. n
      BY <1>1, <1>2, <1>3
    <2> QED BY <2>1, <1>1, <1>2, ShapeStays
  <1> HIDE DEF n
  <1>5. BestSoFar'
    <2>1. CASE given[cursor] > given[best]
      <3>1. \A j \in 1 .. n : j < cursor \/ j <= best => given[j] < given[cursor]
        BY <1>1, <1>2, <2>1 DEF BestSoFar
      <3>2. best' = cursor /\ (cursor' = best + 1 \/ cursor' = cursor + 1)
        BY <1>3, <2>1
      <3>3. \A j \in 1 .. n : j < cursor' => given[j] <= given[cursor]
        BY <1>2, <3>1, <3>2
      <3> QED BY <1>1, <1>2, <3>1, <3>2, <3>3 DEF BestSoFar, Steady
    <2>2. CASE ~(given[cursor] > given[best])
      <3>1. best' = best /\ cursor' = cursor + 1
        BY <1>3, <2>2
      <3> QED BY <1>1, <1>2, <2>2, <3>1 DEF BestSoFar, Steady
    <2> QED BY <2>1, <2>2
  <1> QED BY <1>1, <1>4, <1>5
          DEF PickInv, CompeteInv, MaxInv, MaxDone, LeastInv, PreemptInv, Steady

LEMMA LeastStepInv == ASSUME PickInv, LeastStep PROVE PickInv'
  <1>1. /\ Shape /\ LeastInv /\ loop = "least" /\ pc = "scan" /\ ~AtEnd
        /\ Steady /\ n' = n /\ pc' = pc /\ best' = best /\ cursor' = cursor + 1
    BY DEF PickInv, LeastStep, Steady, n
  <1>2. /\ n \in Nat /\ cursor \in 1 .. n /\ best = 0 /\ MinSoFar(cursor)
        /\ keys = given /\ min \in Nat
        /\ \A j \in 1 .. n : given[j] \in Nat
    BY <1>1, ShapeFacts DEF Shape, LeastInv
  <1>3. min' = IF min > given[cursor] THEN given[cursor] ELSE min
    BY <1>2 DEF LeastStep
  <1>4. Shape'
    BY <1>1, <1>2, <1>3, ShapeStays
  <1> HIDE DEF n
  <1>5. /\ min' <= MAX_LIFESPAN
        /\ \A j \in 1 .. n : j < cursor' => min' <= given[j]
        /\ min' = MAX_LIFESPAN \/ \E j \in 1 .. n : given[j] = min'
    BY <1>1, <1>2, <1>3 DEF MinSoFar
  <1>6. LeastInv'
    BY <1>1, <1>2, <1>5 DEF LeastInv, MinSoFar, Steady
  <1> QED BY <1>1, <1>4, <1>6
          DEF PickInv, CompeteInv, MaxInv, MaxDone, PreemptInv, Steady

LEMMA LeastFoundInv == ASSUME PickInv, LeastFound PROVE PickInv'
  <1>1. /\ Shape /\ LeastInv /\ loop = "least" /\ pc = "scan" /\ AtEnd
        /\ Steady /\ n' = n /\ pc' = "again" /\ best' = best /\ cursor' = 1
        /\ min' = min
    BY DEF PickInv, LeastFound, Steady, n
  <1>2. /\ n \in Nat /\ cursor = n + 1 /\ best = 0 /\ MinSoFar(cursor) /\ min \in Nat
    BY <1>1, ShapeFacts DEF Shape, LeastInv
  <1>3. Shape'
    BY <1>1, <1>2, ShapeStays
  <1> HIDE DEF n
  <1>4. LeastInv'
    BY <1>1, <1>2 DEF LeastInv, MinSoFar, Steady
  <1> QED BY <1>1, <1>3, <1>4
          DEF PickInv, CompeteInv, MaxInv, MaxDone, PreemptInv, Steady

LEMMA LeastAgainInv == ASSUME PickInv, LeastAgain PROVE PickInv'
  <1>1. /\ Shape /\ LeastInv /\ loop = "least" /\ pc = "again"
        /\ Steady /\ n' = n /\ min' = min
    BY DEF PickInv, LeastAgain, Steady, n
  <1>2. /\ n \in Nat /\ cursor \in 1 .. n + 1 /\ best = 0 /\ MinSoFar(n + 1)
        /\ keys = given /\ min \in Nat
        /\ \A j \in 1 .. n : given[j] \in Nat
        /\ \A j \in 1 .. n : j < cursor => given[j] # min
    BY <1>1, ShapeFacts DEF Shape, LeastInv
  <1>3. \/ cursor = n + 1 /\ pc' = "done" /\ cursor' = cursor /\ best' = best
        \/ /\ cursor \in 1 .. n /\ given[cursor] = min
           /\ pc' = "done" /\ cursor' = cursor /\ best' = cursor
        \/ /\ cursor \in 1 .. n /\ given[cursor] # min
           /\ pc' = "again" /\ cursor' = cursor + 1 /\ best' = best
    BY <1>1, <1>2, ShapeFacts DEF LeastAgain
  <1>4. Shape'
    <2>1. pc' \in {"scan", "again", "done"} /\ cursor' \in 1 .. n + 1 /\ best' \in 0 .. n
      BY <1>2, <1>3
    <2> QED BY <2>1, <1>1, <1>2, ShapeStays
  <1> HIDE DEF n
  <1>5. MinSoFar(n + 1)'
    BY <1>1, <1>2 DEF MinSoFar, Steady
  <1>6. LeastInv'
    <2>1. CASE cursor = n + 1 /\ pc' = "done" /\ cursor' = cursor /\ best' = best
      <3>1. \A j \in 1 .. n : given[j] # min
        BY <1>2, <2>1
      <3> QED BY <1>1, <1>2, <1>5, <2>1, <3>1 DEF LeastInv, Steady
    <2>2. CASE /\ cursor \in 1 .. n /\ given[cursor] = min
               /\ pc' = "done" /\ cursor' = cursor /\ best' = cursor
      BY <1>1, <1>2, <1>5, <2>2 DEF LeastInv, Steady
    <2>3. CASE /\ cursor \in 1 .. n /\ given[cursor] # min
               /\ pc' = "again" /\ cursor' = cursor + 1 /\ best' = best
      <3>1. \A j \in 1 .. n : j < cursor' => given[j] # min
        BY <1>2, <2>3
      <3> QED BY <1>1, <1>2, <1>5, <2>3, <3>1 DEF LeastInv, Steady
    <2> QED BY <1>3, <2>1, <2>2, <2>3
  <1> QED BY <1>1, <1>4, <1>6
          DEF PickInv, CompeteInv, MaxInv, MaxDone, PreemptInv, Steady

LEMMA PreemptStepInv == ASSUME PickInv, PreemptStep PROVE PickInv'
  <1>1. /\ Shape /\ PreemptInv /\ loop = "preempt" /\ pc = "scan" /\ ~AtEnd
        /\ given' = given /\ loop' = loop /\ min' = min /\ pc' = pc /\ n' = n
    BY DEF PickInv, PreemptStep, n
  <1>2. /\ n \in Nat /\ cursor \in 1 .. n /\ best = 0 /\ keys = given
        /\ self \in Nat /\ min \in Nat /\ given \in Seq(Nat) /\ Len(given) = n
        /\ \A j \in 1 .. n : given[j] \in Nat
        /\ \A j \in 1 .. n : j < cursor => given[j] >= self
    <2>1. n \in Nat /\ cursor \in 1 .. n /\ \A j \in 1 .. n : given[j] \in Nat
      BY <1>1, ShapeFacts
    <2>2. best = 0
      BY <1>1, <2>1 DEF PreemptInv
    <2> QED BY <1>1, <2>1, <2>2 DEF Shape, PreemptInv, n
  <1>3. CASE self > given[cursor]
    <2> DEFINE t == Append(given, self)
    <2>1. /\ best' = cursor /\ keys' = RemoveAt(t, cursor)
          /\ self' = given[cursor] /\ cursor' = Len(keys') + 1
      BY <1>2, <1>3 DEF PreemptStep
    <2>2. t \in Seq(Nat) /\ Len(t) = n + 1 /\ t[n + 1] = self /\ cursor \in 1 .. Len(t)
      BY <1>2, AppendProperties
    <2> HIDE DEF t
    <2>3. /\ keys' \in Seq(Nat) /\ Len(keys') = Len(t) - 1
          /\ \A j \in 1 .. Len(t) - 1 : keys'[j] = IF j < cursor THEN t[j] ELSE t[j + 1]
      BY <2>1, <2>2, RemoveAtEntries
    <2>4. Len(keys') = n /\ keys'[n] = self /\ cursor' = n + 1
      BY <1>2, <2>1, <2>2, <2>3
    <2>5. Shape'
      BY <1>1, <1>2, <2>1, <2>3, <2>4 DEF Shape, n, Loops
    <2> HIDE DEF n
    <2>6. PreemptInv'
      BY <1>1, <1>2, <1>3, <2>1, <2>4 DEF PreemptInv
    <2> QED BY <1>1, <2>5, <2>6
            DEF PickInv, CompeteInv, MaxInv, MaxDone, LeastInv
  <1>4. CASE ~(self > given[cursor])
    <2>1. best' = best /\ keys' = keys /\ self' = self /\ cursor' = cursor + 1
      BY <1>2, <1>4 DEF PreemptStep
    <2>2. Shape'
      BY <1>1, <1>2, <2>1, ShapeStays DEF Steady
    <2> HIDE DEF n
    <2>3. PreemptInv'
      BY <1>1, <1>2, <1>4, <2>1 DEF PreemptInv
    <2> QED BY <1>1, <2>2, <2>3
            DEF PickInv, CompeteInv, MaxInv, MaxDone, LeastInv
  <1> QED BY <1>3, <1>4

LEMMA WalkEndsInv == ASSUME PickInv, WalkEnds PROVE PickInv'
  <1>1. /\ Shape /\ CompeteInv /\ MaxInv /\ PreemptInv
        /\ loop # "least" /\ pc = "scan" /\ AtEnd
        /\ Steady /\ n' = n /\ pc' = "done" /\ best' = best /\ cursor' = cursor
        /\ min' = min
    BY DEF PickInv, WalkEnds, Steady, n
  <1>2. n \in Nat /\ cursor = n + 1 /\ cursor \in 1 .. n + 1 /\ best \in 0 .. n
        /\ min \in Nat
    BY <1>1, ShapeFacts DEF Shape
  <1>3. Shape'
    BY <1>1, <1>2, ShapeStays
  <1> HIDE DEF n
  <1>4. loop \in {"compete", "swap", "waiter"} => BestSoFar
    BY <1>1, <1>2 DEF CompeteInv, MaxInv
  <1>5. BestSoFar <=> BestSoFar'
    BY <1>1 DEF BestSoFar, Steady
  <1>6. CompeteInv' /\ MaxInv' /\ MaxDone'
    BY <1>1, <1>2, <1>4, <1>5 DEF CompeteInv, MaxInv, MaxDone, Steady
  <1>7. PreemptInv'
    BY <1>1, <1>2 DEF PreemptInv, Steady
  <1> QED BY <1>1, <1>3, <1>6, <1>7 DEF PickInv, LeastInv, Steady

LEMMA PickStep == PickInv /\ [Next]_vars => PickInv'
  <1>1. ASSUME PickInv, UNCHANGED vars PROVE PickInv'
    BY <1>1 DEF vars, PickInv, Shape, CompeteInv, MaxInv, MaxDone, LeastInv,
                PreemptInv, BestSoFar, MinSoFar, n
  <1> QED BY <1>1, CompeteStepInv, CompeteAgainInv, SwapWaiterInv, LeastStepInv,
             LeastFoundInv, LeastAgainInv, PreemptStepInv, WalkEndsInv DEF Next

(***************************************************************************)
(* The theorems                                                            *)
(***************************************************************************)
(* The loops of the priority policies end with the first entry that has    *)
(* the highest priority, for every list: the competition in schedule(),    *)
(* pick_next and release().  This is what SchedPolicies puts in their      *)
(* place.                                                                  *)
THEOREM FirstMaxPicked == Spec => []PicksFirstMax
  <1>1. PickInv => PicksFirstMax
    <2> SUFFICES ASSUME PickInv, pc = "done", loop \in {"compete", "swap", "waiter"}
                 PROVE  FirstMax(given, best)
      BY DEF PicksFirstMax
    <2>1. Shape /\ BestSoFar /\ cursor = n + 1
      BY DEF PickInv, MaxDone
    <2> QED BY <2>1, ShapeFacts DEF BestSoFar, FirstMax
  <1> QED BY <1>1, PickInit, PickStep, PTL DEF Spec

(* SJF and SRTF end with the first of the least entries, and with none if  *)
(* and only if all are above MAX_LIFESPAN.                                 *)
THEOREM FirstMinPicked == Spec => []PicksFirstMin
  <1>1. PickInv => PicksFirstMin
    <2> SUFFICES ASSUME PickInv, pc = "done", loop = "least"
                 PROVE  IF best = 0 THEN \A i \in DOMAIN given : given[i] > MAX_LIFESPAN
                        ELSE FirstMin(given, best) /\ given[best] <= MAX_LIFESPAN
      BY DEF PicksFirstMin
    <2>1. /\ n \in Nat /\ \A j \in 1 .. n : given[j] \in Nat
          /\ DOMAIN given = 1 .. n /\ min \in Nat
      BY ShapeFacts DEF PickInv, Shape
    <2>2. /\ MinSoFar(n + 1)
          /\ \/ best = 0 /\ \A j \in 1 .. n : given[j] # min
             \/ /\ best \in 1 .. n /\ given[best] = min
                /\ \A j \in 1 .. n : j < best => given[j] # min
      BY DEF PickInv, LeastInv
    <2> HIDE DEF n
    <2>3. \A j \in 1 .. n : min <= given[j]
      BY <2>1, <2>2 DEF MinSoFar
    <2> QED BY <2>1, <2>2, <2>3 DEF MinSoFar, FirstMin
  <1> QED BY <1>1, PickInit, PickStep, PTL DEF Spec

(* The loop that preempts under SRTF ends with the FIRST entry below the   *)
(* running process, whatever comes after it, and the process at the tail.  *)
THEOREM FirstBelowPicked == Spec => []PicksFirstBelow
  <1>1. PickInv => PicksFirstBelow
    <2> SUFFICES ASSUME PickInv, pc = "done", loop = "preempt"
                 PROVE  IF best = 0
                          THEN keys = given /\ \A i \in DOMAIN given : given[i] >= self
                          ELSE /\ FirstBelow(given, keys[Len(keys)], best)
                               /\ self = given[best]
                               /\ Len(keys) = Len(given)
      BY DEF PicksFirstBelow
    <2>1. /\ n \in Nat /\ DOMAIN given = 1 .. n /\ Len(keys) = n /\ Len(given) = n
      BY ShapeFacts DEF PickInv, Shape, n
    <2>2. PreemptInv /\ cursor = n + 1
      BY DEF PickInv, PreemptInv
    <2> HIDE DEF n
    <2>3. CASE best = 0
      BY <2>1, <2>2, <2>3 DEF PreemptInv
    <2>4. CASE best # 0
      BY <2>1, <2>2, <2>4 DEF PreemptInv, FirstBelow
    <2> QED BY <2>3, <2>4
  <1> QED BY <1>1, PickInit, PickStep, PTL DEF Spec
================================================================================

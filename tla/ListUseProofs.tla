------------------------------ MODULE ListUseProofs ----------------------------
(***************************************************************************)
(* TLAPS proofs about what is built on the lists and beside them: the      *)
(* stack of OS-pa0 (the ring of its list, read backwards, is what was      *)
(* pushed and not popped), the loop macros (what lies ahead of the cursor  *)
(* stays in place), the script loader (what is built is what the lines     *)
(* read so far say), and the lists with a one-pointer head (every place    *)
(* that leads to an entry is the one the entry points back to).            *)
(***************************************************************************)
EXTENDS ListProofs

USE AddrAssumption

(***************************************************************************)
(* The stack of OS-pa0: the ring of the list, read from the bottom up      *)
(***************************************************************************)
(* list_add at the head makes the object the last one met backwards.       *)
LEMMA PushRing ==
    ASSUME NEW m \in Memory, NEW h \in Addr, NEW q, Ring(m.prev, m.next, h, q),
           NEW x \in Addr \ {h}, \A k \in 1 .. Len(q) : q[k] # x
    PROVE  LET m2 == list_add(m, x, h)
           IN  m2 \in Memory /\ Ring(m2.prev, m2.next, h, Append(q, x))
  <1>1. PICK L : L = Len(q) /\ RingOf(m.prev, m.next, h, q, L)
    BY MetFacts
  <1>0. L \in Nat
    BY <1>1 DEF RingOf
  <1>2. PICK last \in Addr : last = Met(h, q, L) /\ m.next[h] = last
    BY <1>0, <1>1 DEF RingOf
  <1>3. PICK m2 : m2 = list_add(m, x, h)
    OBVIOUS
  <1>4. last # x
    BY <1>0, <1>1, <1>2 DEF RingOf
  <1>5. /\ m2 \in Memory
        /\ \A y \in Addr : /\ m2.next[y] = IF y = h THEN x ELSE IF y = x THEN last ELSE m.next[y]
                           /\ m2.prev[y] = IF y = x THEN h ELSE IF y = last THEN x ELSE m.prev[y]
    BY <1>2, <1>3, <1>4 DEF list_add, AddBetween, Memory
  <1>6. PICK r : r = Append(q, x)
    OBVIOUS
  <1>7. r \in Seq(Addr \ {h}) /\ Len(r) = L + 1 /\ r[L + 1] = x /\ \A k \in 1 .. L : r[k] = q[k]
    BY <1>1, <1>6 DEF Ring
  <1>8. \A j, k \in 1 .. L + 1 : r[j] = r[k] => j = k
    BY <1>1, <1>7 DEF Ring
  <1>9. /\ \A k \in 0 .. L : Met(h, r, k) = Met(h, q, k)
        /\ Met(h, r, L + 1) = x /\ Met(h, r, L + 2) = h
    BY <1>1, <1>7 DEF Met
  <1>10. ASSUME NEW k \in 0 .. L + 1
         PROVE  /\ m2.prev[Met(h, r, k)] = Met(h, r, k + 1)
                /\ m2.next[Met(h, r, k + 1)] = Met(h, r, k)
    <2>1. CASE k < L
      <3>1. Met(h, q, k) \in Addr \ {x, last}
        BY <1>0, <1>1, <1>2, <2>1 DEF RingOf
      <3>2. Met(h, q, k + 1) \in Addr \ {x, h}
        BY <1>0, <1>1, <2>1 DEF RingOf
      <3>3. m.prev[Met(h, q, k)] = Met(h, q, k + 1) /\ m.next[Met(h, q, k + 1)] = Met(h, q, k)
        BY <1>0, <1>1, <2>1 DEF RingOf
      <3> QED BY <1>0, <1>5, <1>9, <2>1, <3>1, <3>2, <3>3
    <2>2. CASE k = L
      BY <1>2, <1>4, <1>5, <1>9, <2>2
    <2>3. CASE k = L + 1
      BY <1>0, <1>5, <1>9, <2>3
    <2> QED BY <1>0, <2>1, <2>2, <2>3
  <1>11. Ring(m2.prev, m2.next, h, r)
    BY <1>7, <1>8, <1>10 DEF Ring
  <1> QED BY <1>3, <1>5, <1>6, <1>11

(* list_del of the first object takes away the last one met backwards.     *)
LEMMA PopRing ==
    ASSUME NEW m \in Memory, NEW h \in Addr, NEW q, Ring(m.prev, m.next, h, q), q # <<>>
    PROVE  LET m2 == list_del(m, m.next[h])
           IN  /\ m2 \in Memory /\ Ring(m2.prev, m2.next, h, Front(q))
               /\ m.next[h] = Last(q)
  <1>1. PICK L : L = Len(q) /\ RingOf(m.prev, m.next, h, q, L)
    BY MetFacts
  <1>0. L \in Nat /\ L >= 1
    BY <1>1 DEF Ring
  <1>2. PICK x \in Addr \ {h} : x = q[L] /\ Met(h, q, L) = x /\ m.next[h] = x
    BY <1>0, <1>1 DEF RingOf
  <1>3. PICK below \in Addr : below = Met(h, q, L - 1) /\ m.next[x] = below /\ m.prev[x] = h
    <2>1. L - 1 \in 0 .. L /\ (L - 1) + 1 = L
      BY <1>1
    <2>2. Met(h, q, L - 1) \in Addr
      BY <1>0, <1>1, <2>1 DEF RingOf
    <2>3. m.next[Met(h, q, (L - 1) + 1)] = Met(h, q, L - 1) /\ m.prev[Met(h, q, L)] = Met(h, q, L + 1)
      BY <1>0, <1>1, <2>1 DEF RingOf
    <2> QED BY <1>0, <1>1, <1>2, <2>1, <2>2, <2>3 DEF RingOf
  <1>4. below # x
    BY <1>0, <1>1, <1>2, <1>3 DEF RingOf
  <1>5. PICK m2 : m2 = list_del(m, x)
    OBVIOUS
  <1>6. /\ m2 \in Memory
        /\ \A y \in Addr \ {x} : /\ m2.next[y] = IF y = h THEN below ELSE m.next[y]
                                 /\ m2.prev[y] = IF y = below THEN h ELSE m.prev[y]
    BY <1>2, <1>3, <1>5 DEF list_del, Unlink, JoinOver, Memory
  <1>7. PICK r : r = Front(q)
    OBVIOUS
  <1>8. r \in Seq(Addr \ {h}) /\ Len(r) = L - 1 /\ \A k \in 1 .. L - 1 : r[k] = q[k]
    BY <1>1, <1>7 DEF Ring, Front
  <1>9. \A j, k \in 1 .. L - 1 : r[j] = r[k] => j = k
    BY <1>1, <1>8 DEF Ring
  <1>10. Met(h, r, L) = h /\ \A k \in 0 .. L - 1 : Met(h, r, k) = Met(h, q, k)
    BY <1>1, <1>8 DEF Met
  <1>11. ASSUME NEW k \in 0 .. L - 1
         PROVE  /\ m2.prev[Met(h, r, k)] = Met(h, r, k + 1)
                /\ m2.next[Met(h, r, k + 1)] = Met(h, r, k)
    <2>1. CASE k < L - 1
      <3>1. Met(h, q, k) \in Addr \ {x, below}
        BY <1>0, <1>1, <1>2, <1>3, <2>1 DEF RingOf
      <3>2. Met(h, q, k + 1) \in Addr \ {x, h}
        BY <1>0, <1>1, <1>2, <2>1 DEF RingOf
      <3>3. m.prev[Met(h, q, k)] = Met(h, q, k + 1) /\ m.next[Met(h, q, k + 1)] = Met(h, q, k)
        BY <1>0, <1>1, <2>1 DEF RingOf
      <3> QED BY <1>1, <1>6, <1>10, <2>1, <3>1, <3>2, <3>3
    <2>2. CASE k = L - 1
      BY <1>1, <1>2, <1>3, <1>4, <1>6, <1>10, <2>2
    <2> QED BY <1>1, <2>1, <2>2
  <1>12. Ring(m2.prev, m2.next, h, r)
    BY <1>8, <1>9, <1>11 DEF Ring
  <1>13. Last(q) = x
    BY <1>1, <1>2 DEF Last
  <1> QED BY <1>2, <1>5, <1>6, <1>7, <1>12, <1>13

(* The entries of the stack from the bottom up, and what they hold.        *)
BottomUp == Follow(mem.prev, stack)
Held(e) == [k \in DOMAIN e |-> string[e[k]]]

EntriesInv ==
    /\ mem \in Memory /\ string \in [Nodes -> Strings \cup {None}]
    /\ Ring(mem.prev, mem.next, stack, BottomUp)
    /\ BottomUp \in Seq(Nodes) /\ ToSet(BottomUp) = allocated
    /\ Held(BottomUp) = pushed

(* What main() has pushed and not popped at each of its steps.             *)
Over(a, b) == IF a > b THEN a - b ELSE 0
AfterThree == FirstPushes - FirstPops
AfterPops == Over(AfterThree + Pushes, Pops)
Height ==
    CASE step = "push4"  -> i
      [] step = "dump4"  -> FirstPushes
      [] step = "pop3"   -> FirstPushes - i
      [] step = "dump3"  -> AfterThree
      [] step = "pushes" -> AfterThree + i
      [] step = "pops"   -> Over(AfterThree + Pushes, i)
      [] step = "dump"   -> AfterPops
      [] OTHER           -> Over(AfterPops, i)
CounterInv ==
    /\ i \in Nat
    /\ \/ step = "push4" /\ i < FirstPushes
       \/ step = "pop3" /\ i < FirstPops
       \/ step = "pushes" /\ i < Pushes
       \/ step = "pops" /\ i < Pops
       \/ step \in {"dump4", "dump3", "dump"} /\ i = 0
       \/ step = "empty" /\ i <= PrintLimit
       \/ step = "exit"
HeightInv ==
    /\ step # "exit" => Len(pushed) = Height
    /\ step = "exit" /\ FirstPushes + Pushes <= FirstPops + Pops + PrintLimit
         => pushed = <<>>

PrintedInv == step \in {"pop3", "pushes", "empty"} /\ i = 0 => printed = pushed

StackInv == EntriesInv /\ CounterInv /\ HeightInv /\ PrintedInv

LEMMA StackInitInv == StackInit => StackInv
  <1> SUFFICES ASSUME StackInit PROVE StackInv
    OBVIOUS
  <1>1. stack \in Heads /\ stack \in Addr /\ FirstPushes \in Nat \ {0}
    BY StackAssumption DEF Addr
  <1>2. /\ mem \in Memory /\ mem.next[stack] = stack /\ mem.prev[stack] = stack
        /\ string \in [Nodes -> Strings \cup {None}]
        /\ allocated = {} /\ pushed = <<>> /\ step = "push4" /\ i = 0
    BY <1>1 DEF StackInit, Memory, Addr
  <1>3. Ring(mem.prev, mem.next, stack, <<>>)
    BY <1>2 DEF Ring, Met
  <1>4. BottomUp = <<>>
    BY <1>1, <1>3, FollowRing DEF BottomUp
  <1>5. ToSet(<<>>) = {} /\ Held(<<>>) = <<>>
    BY DEF ToSet, Held
  <1>6. EntriesInv
    BY <1>2, <1>3, <1>4, <1>5 DEF EntriesInv
  <1>7. CounterInv /\ HeightInv /\ PrintedInv
    BY <1>1, <1>2 DEF CounterInv, HeightInv, Height, PrintedInv
  <1> QED BY <1>6, <1>7 DEF StackInv

LEMMA EntriesFacts ==
    ASSUME EntriesInv
    PROVE  /\ stack \in Addr /\ mem \in Memory
           /\ \A k \in 1 .. Len(BottomUp) : BottomUp[k] \in allocated
           /\ Len(BottomUp) = Len(pushed) /\ Len(pushed) \in Nat
           /\ pushed \in Seq(Strings \cup {None})
           /\ \A k \in 1 .. Len(pushed) : pushed[k] = string[BottomUp[k]]
  <1>1. stack \in Addr
    BY StackAssumption DEF Addr
  <1>2. PICK q \in Seq(Nodes) : q = BottomUp
    BY DEF EntriesInv
  <1>3. ToSet(q) = allocated /\ pushed = [k \in 1 .. Len(q) |-> string[q[k]]]
    BY <1>2 DEF EntriesInv, Held
  <1>4. \A k \in 1 .. Len(q) : q[k] \in allocated /\ q[k] \in Nodes
    BY <1>3 DEF ToSet
  <1>5. \A k \in 1 .. Len(q) : string[q[k]] \in Strings \cup {None}
    BY <1>4 DEF EntriesInv
  <1>6. pushed \in Seq(Strings \cup {None}) /\ Len(pushed) = Len(q)
    BY <1>3, <1>5
  <1> QED BY <1>1, <1>2, <1>3, <1>4, <1>6 DEF EntriesInv

(* push_stack and the history of what was pushed.                          *)
LEMMA PushEntries ==
    ASSUME EntriesInv, NEW s \in Strings, push_stack(s), pushed' = Append(pushed, s)
    PROVE  EntriesInv'
  <1>1. PICK q : q = BottomUp
    OBVIOUS
  <1>2. /\ Ring(mem.prev, mem.next, stack, q) /\ q \in Seq(Nodes)
        /\ ToSet(q) = allocated /\ Held(q) = pushed
        /\ mem \in Memory /\ string \in [Nodes -> Strings \cup {None}]
    BY <1>1 DEF EntriesInv
  <1>3. PICK x \in Nodes \ allocated :
          /\ allocated' = allocated \cup {x}
          /\ string' = [string EXCEPT ![x] = s]
          /\ mem' = list_add(mem, x, stack)
    BY DEF push_stack
  <1>4. stack \in Addr /\ x \in Addr \ {stack}
    BY StackAssumption DEF Addr
  <1>5. \A k \in 1 .. Len(q) : q[k] # x
    BY <1>2, <1>3 DEF ToSet
  <1>6. mem' \in Memory /\ Ring(mem'.prev, mem'.next, stack, Append(q, x))
    BY <1>2, <1>3, <1>4, <1>5, PushRing
  <1>7. BottomUp' = Append(q, x)
    BY <1>4, <1>6, FollowRing DEF BottomUp
  <1>8. PICK r : r = Append(q, x)
    OBVIOUS
  <1>9. /\ r \in Seq(Nodes) /\ Len(r) = Len(q) + 1 /\ r[Len(q) + 1] = x
        /\ \A k \in 1 .. Len(q) : r[k] = q[k] /\ q[k] \in allocated
    BY <1>2, <1>3, <1>8 DEF ToSet
  <1>10. ToSet(r) = allocated'
    <2>1. \A k \in 1 .. Len(q) + 1 : r[k] \in allocated'
      BY <1>2, <1>3, <1>9
    <2>2. \A y \in allocated' : \E k \in 1 .. Len(q) + 1 : r[k] = y
      <3> SUFFICES ASSUME NEW y \in allocated' PROVE \E k \in 1 .. Len(q) + 1 : r[k] = y
        OBVIOUS
      <3>1. CASE y = x
        BY <1>2, <1>9, <3>1
      <3>2. CASE y \in allocated
        BY <1>2, <1>9, <3>2 DEF ToSet
      <3> QED BY <1>3, <3>1, <3>2
    <2>3. ToSet(r) = {r[k] : k \in 1 .. Len(q) + 1}
      BY <1>9 DEF ToSet
    <2> QED BY <2>1, <2>2, <2>3
  <1>11. string' \in [Nodes -> Strings \cup {None}]
    BY <1>2, <1>3
  <1>12. Held(r)' = pushed'
    <2>1. pushed = [k \in 1 .. Len(q) |-> string[q[k]]]
      BY <1>2 DEF Held
    <2>2. pushed' = [k \in 1 .. Len(q) + 1 |-> IF k = Len(q) + 1 THEN s ELSE string[q[k]]]
      BY <1>2, <2>1
    <2>3. \A k \in 1 .. Len(q) + 1 :
            string'[r[k]] = IF k = Len(q) + 1 THEN s ELSE string[q[k]]
      BY <1>2, <1>3, <1>9
    <2>4. [k \in DOMAIN r |-> string'[r[k]]]
            = [k \in 1 .. Len(q) + 1 |-> IF k = Len(q) + 1 THEN s ELSE string[q[k]]]
      BY <1>9, <2>3
    <2> QED BY <2>2, <2>4 DEF Held
  <1> QED BY <1>6, <1>7, <1>8, <1>9, <1>10, <1>11, <1>12 DEF EntriesInv, Held

(* pop_stack, which leaves an empty stack alone.                           *)
LEMMA PopEntries ==
    ASSUME EntriesInv, pop_stack, Popped
    PROVE  EntriesInv' /\ (list_empty(mem, stack) <=> pushed = <<>>)
  <1>1. PICK q : q = BottomUp
    OBVIOUS
  <1>2. /\ Ring(mem.prev, mem.next, stack, q) /\ q \in Seq(Nodes)
        /\ ToSet(q) = allocated /\ Held(q) = pushed
        /\ mem \in Memory /\ string \in [Nodes -> Strings \cup {None}]
        /\ Len(pushed) = Len(q) /\ pushed \in Seq(Strings \cup {None})
        /\ \A k \in 1 .. Len(q) : pushed[k] = string[q[k]] /\ q[k] \in allocated
    BY <1>1, EntriesFacts DEF EntriesInv
  <1>3. stack \in Addr
    BY EntriesFacts
  <1>4. CASE q = <<>>
    <2>1. pushed = <<>> /\ mem.next[stack] = stack
      BY <1>2, <1>4 DEF Ring, Met
    <2>2. UNCHANGED <<mem, allocated, string, pushed>>
      BY <2>1 DEF pop_stack, Popped, list_empty
    <2> QED BY <2>1, <2>2 DEF EntriesInv, BottomUp, Held, list_empty
  <1>5. CASE q # <<>>
    <2>1. PICK L \in Nat : L = Len(q) /\ L >= 1
      BY <1>2, <1>5
    <2>2. PICK x : x = mem.next[stack]
      OBVIOUS
    <2>3. x = q[L] /\ x \in allocated /\ x \in Nodes /\ x # stack
      BY <1>2, <1>3, <1>5, <2>1, <2>2, PopRing DEF Ring, Last
    <2>4. pushed # <<>> /\ ~list_empty(mem, stack)
      BY <1>2, <2>1, <2>2, <2>3 DEF list_empty
    <2>5. /\ mem' = list_del(mem, x) /\ string' = [string EXCEPT ![x] = None]
          /\ allocated' = allocated \ {x} /\ pushed' = Front(pushed)
      BY <2>2, <2>4 DEF pop_stack, Popped, list_first_entry
    <2>6. mem' \in Memory /\ Ring(mem'.prev, mem'.next, stack, Front(q))
      BY <1>2, <1>3, <1>5, <2>2, <2>5, PopRing
    <2>7. PICK r : r = Front(q)
      OBVIOUS
    <2>8. BottomUp' = r
      BY <1>3, <2>6, <2>7, FollowRing DEF BottomUp
    <2>9. r \in Seq(Nodes) /\ Len(r) = L - 1 /\ \A k \in 1 .. L - 1 : r[k] = q[k]
      BY <1>2, <2>1, <2>7 DEF Front
    <2>10. \A k \in 1 .. L - 1 : q[k] # x
      BY <1>2, <2>1, <2>3 DEF Ring
    <2>11. ToSet(r) = allocated'
      <3>1. \A k \in 1 .. L - 1 : r[k] \in allocated'
        BY <1>2, <2>1, <2>5, <2>9, <2>10
      <3>2. \A y \in allocated' : \E k \in 1 .. L - 1 : r[k] = y
        <4> SUFFICES ASSUME NEW y \in allocated' PROVE \E k \in 1 .. L - 1 : r[k] = y
          OBVIOUS
        <4>1. PICK k \in 1 .. L : q[k] = y
          BY <1>2, <2>1, <2>5 DEF ToSet
        <4> QED BY <2>1, <2>3, <2>5, <2>9, <4>1
      <3> QED BY <2>1, <2>9, <3>1, <3>2 DEF ToSet
    <2>12. string' \in [Nodes -> Strings \cup {None}]
      BY <1>2, <2>5
    <2>13. Held(r)' = pushed'
      <3>1. pushed' = [k \in 1 .. L - 1 |-> pushed[k]]
        BY <1>2, <2>1, <2>5 DEF Front
      <3>2. \A k \in 1 .. L - 1 : string'[r[k]] = pushed[k]
        BY <1>2, <2>1, <2>5, <2>9, <2>10
      <3>3. [k \in DOMAIN r |-> string'[r[k]]] = [k \in 1 .. L - 1 |-> pushed[k]]
        BY <2>1, <2>9, <3>2
      <3> QED BY <3>1, <3>3 DEF Held
    <2> QED BY <2>4, <2>6, <2>7, <2>8, <2>9, <2>11, <2>12, <2>13 DEF EntriesInv, Held
  <1> QED BY <1>4, <1>5

(***************************************************************************)
(* main() of OS-pa0                                                        *)
(***************************************************************************)
LEMMA StackNumbers ==
    /\ FirstPushes \in Nat /\ FirstPops \in Nat /\ Pushes \in Nat /\ Pops \in Nat
    /\ PrintLimit \in Nat
    /\ FirstPushes > 0 /\ FirstPops > 0 /\ Pushes > 0 /\ Pops > 0 /\ PrintLimit > 0
    /\ FirstPops <= FirstPushes
  <1>1. FirstPops <= FirstPushes
    BY StackAssumption
  <1>2. {FirstPushes, FirstPops, Pushes, Pops, PrintLimit} \subseteq Nat \ {0}
    BY StackAssumption
  <1>3. \A a \in {FirstPushes, FirstPops, Pushes, Pops, PrintLimit} : a \in Nat /\ a > 0
    BY <1>2
  <1> QED BY <1>1, <1>3

(* A push at the step here, which goes on to after.                        *)
LEMMA PushHeights ==
    ASSUME StackInv,
           \/ Push("push4", FirstPushes, "dump4")
           \/ Push("pushes", Pushes, "pops")
    PROVE  StackInv'
  <1>1. PICK s \in Strings : push_stack(s) /\ pushed' = Append(pushed, s)
    BY DEF Push
  <1>2. EntriesInv'
    BY <1>1, PushEntries DEF StackInv
  <1>3. PICK L \in Nat : L = Len(pushed)
    BY EntriesFacts DEF StackInv
  <1>4. Len(pushed') = L + 1
    BY <1>1, <1>3, EntriesFacts DEF StackInv
  <1>5. CASE Push("push4", FirstPushes, "dump4")
    <2>1. /\ L = i /\ i \in Nat /\ i < FirstPushes
          /\ IF i + 1 < FirstPushes THEN step' = "push4" /\ i' = i + 1
             ELSE step' = "dump4" /\ i' = 0
      BY <1>3, <1>5 DEF Push, Loop, StackInv, CounterInv, HeightInv, Height
    <2>2. Height' = L + 1 /\ CounterInv' /\ PrintedInv' /\ step' # "exit"
      BY <2>1, StackNumbers DEF CounterInv, Height, PrintedInv
    <2> QED BY <1>2, <1>4, <2>2 DEF StackInv, HeightInv
  <1>6. CASE Push("pushes", Pushes, "pops")
    <2>1. /\ L = AfterThree + i /\ i \in Nat /\ i < Pushes
          /\ IF i + 1 < Pushes THEN step' = "pushes" /\ i' = i + 1
             ELSE step' = "pops" /\ i' = 0
      BY <1>3, <1>6 DEF Push, Loop, StackInv, CounterInv, HeightInv, Height
    <2>2. Height' = L + 1 /\ CounterInv' /\ PrintedInv' /\ step' # "exit"
      BY <2>1, StackNumbers DEF CounterInv, Height, PrintedInv, AfterThree, Over
    <2> QED BY <1>2, <1>4, <2>2 DEF StackInv, HeightInv
  <1> QED BY <1>5, <1>6

LEMMA FrontLength ==
    ASSUME NEW S, NEW s \in Seq(S), NEW r, r = IF s = <<>> THEN s ELSE Front(s)
    PROVE  /\ s = <<>> <=> Len(s) = 0
           /\ Len(r) = IF Len(s) > 1 THEN Len(s) - 1 ELSE 0
           /\ r = <<>> <=> Len(s) <= 1
  <1>1. CASE s = <<>>
    BY <1>1
  <1>2. CASE s # <<>>
    <2>1. PICK L \in Nat : L = Len(s) /\ L >= 1
      BY <1>2
    <2>2. r = SubSeq(s, 1, L - 1)
      BY <1>2, <2>1 DEF Front
    <2>3. r \in Seq(S) /\ Len(r) = L - 1
      BY <2>1, <2>2
    <2> QED BY <1>2, <2>1, <2>3
  <1> QED BY <1>1, <1>2

LEMMA PopHeights ==
    ASSUME StackInv,
           Pop("pop3", FirstPops, "dump3") \/ Pop("pops", Pops, "dump") \/ Empty
    PROVE  StackInv'
  <1>1. pop_stack /\ Popped /\ printed' = printed
    BY DEF Pop, Empty
  <1>2. EntriesInv' /\ (list_empty(mem, stack) <=> pushed = <<>>)
    BY <1>1, PopEntries DEF StackInv
  <1>3. PICK L \in Nat : L = Len(pushed)
    BY EntriesFacts DEF StackInv
  <1>4. Len(pushed') = Over(L, 1) /\ (pushed = <<>> <=> L = 0) /\ (pushed' = <<>> <=> L <= 1)
    <2>1. PICK S : pushed \in Seq(S)
      BY EntriesFacts DEF StackInv
    <2> QED BY <1>1, <1>3, <2>1, FrontLength DEF Popped, Over
  <1>5. CASE Pop("pop3", FirstPops, "dump3")
    <2>1. /\ L = FirstPushes - i /\ i \in Nat /\ i < FirstPops
          /\ IF i + 1 < FirstPops THEN step' = "pop3" /\ i' = i + 1
             ELSE step' = "dump3" /\ i' = 0
      BY <1>3, <1>5 DEF Pop, Loop, StackInv, CounterInv, HeightInv, Height
    <2>2. Height' = Over(L, 1) /\ CounterInv' /\ PrintedInv' /\ step' # "exit"
      BY <2>1, StackNumbers DEF CounterInv, Height, PrintedInv, Over, AfterThree
    <2> QED BY <1>2, <1>4, <2>2 DEF StackInv, HeightInv
  <1>6. CASE Pop("pops", Pops, "dump")
    <2>1. /\ L = Over(AfterThree + Pushes, i) /\ i \in Nat /\ i < Pops
          /\ IF i + 1 < Pops THEN step' = "pops" /\ i' = i + 1
             ELSE step' = "dump" /\ i' = 0
      BY <1>3, <1>6 DEF Pop, Loop, StackInv, CounterInv, HeightInv, Height
    <2>2. Height' = Over(L, 1) /\ CounterInv' /\ PrintedInv' /\ step' # "exit"
      BY <2>1, StackNumbers DEF CounterInv, Height, PrintedInv, Over, AfterThree, AfterPops
    <2> QED BY <1>2, <1>4, <2>2 DEF StackInv, HeightInv
  <1>7. CASE Empty
    <2>1. /\ L = Over(AfterPops, i) /\ i \in Nat /\ i <= PrintLimit
          /\ IF L = 0 \/ i >= PrintLimit THEN step' = "exit" /\ i' = i
             ELSE step' = "empty" /\ i' = i + 1
      BY <1>2, <1>3, <1>4, <1>7 DEF Empty, StackInv, CounterInv, HeightInv, Height
    <2>2. CounterInv' /\ PrintedInv'
      BY <2>1, StackNumbers DEF CounterInv, PrintedInv
    <2>3. step' # "exit" => Height' = Over(L, 1)
      BY <2>1, StackNumbers DEF Height, Over, AfterThree, AfterPops
    <2>4. step' = "exit" /\ FirstPushes + Pushes <= FirstPops + Pops + PrintLimit => L <= 1
      BY <2>1, StackNumbers DEF Over, AfterThree, AfterPops
    <2> QED BY <1>2, <1>4, <2>2, <2>3, <2>4 DEF StackInv, HeightInv
  <1> QED BY <1>5, <1>6, <1>7

LEMMA DumpHeights ==
    ASSUME StackInv, Dump("dump4", "pop3") \/ Dump("dump3", "pushes") \/ Dump("dump", "empty")
    PROVE  StackInv'
  <1>1. UNCHANGED <<mem, allocated, string, i, pushed>> /\ printed' = Held(BottomUp)
    BY DEF Dump, dump_stack, Held, BottomUp
  <1>2. EntriesInv' /\ printed' = pushed'
    BY <1>1 DEF StackInv, EntriesInv, Held, BottomUp
  <1>3. CounterInv' /\ HeightInv'
    BY <1>1, StackNumbers
       DEF Dump, StackInv, CounterInv, HeightInv, Height, Over, AfterThree, AfterPops
  <1> QED BY <1>2, <1>3 DEF StackInv, PrintedInv

LEMMA StackStep == StackInv /\ StackNext => StackInv'
  BY PushHeights, PopHeights, DumpHeights DEF StackNext

LEMMA StackStutter == StackInv /\ UNCHANGED stackVars => StackInv'
  BY DEF StackInv, EntriesInv, CounterInv, HeightInv, Height, PrintedInv, Held, BottomUp,
         stackVars

LEMMA StackMeans == StackInv => IsStack
  <1> SUFFICES ASSUME StackInv PROVE IsStack
    OBVIOUS
  <1>1. Held(BottomUp) = pushed /\ ToSet(BottomUp) = allocated
    BY DEF StackInv, EntriesInv
  <1>2. pushed = <<>> => allocated = {}
    <2>1. Len(BottomUp) = Len(pushed) /\ BottomUp \in Seq(Nodes)
      BY EntriesFacts DEF StackInv, EntriesInv
    <2> QED BY <1>1, <2>1 DEF ToSet
  <1> QED BY <1>1, <1>2 DEF IsStack, StackInv, HeightInv, PrintedInv, Held, BottomUp

(* The list of OS-pa0 is a stack, whatever is pushed: what is popped is    *)
(* what was pushed last, a dump prints from the bottom up what is left,    *)
(* and when the program ends all that malloc() gave is free.               *)
THEOREM TheListIsAStack == MCSpec => []StackIsStack
  <1> DEFINE SInv == OfStack => StackInv
  <1>1. MCInit => SInv
    BY StackInitInv DEF MCInit, OfStack, OfCalls, OfLoops, OfHList, OfScript
  <1>2. SInv /\ [MCNext]_<<subject, mem, hVars, loopVars, stackOnly, scriptOnly>> => SInv'
    BY StackStep, StackStutter
       DEF MCNext, OfStack, OfCalls, OfLoops, OfHList, OfScript, stackOnly, stackVars
  <1>3. SInv => StackIsStack
    BY StackMeans DEF StackIsStack
  <1> QED BY <1>1, <1>2, <1>3, PTL DEF MCSpec

(***************************************************************************)
(* The loops: what lies ahead of the cursor stays in place                 *)
(***************************************************************************)
(* The field that the loop follows, and the other one.                     *)
Fwd(m) == IF macro.field = "next" THEN m.next ELSE m.prev
Bwd(m) == IF macro.field = "next" THEN m.prev ELSE m.next
Seen == Len(visited)

(* The entries due from number k on are linked, each to the one after it.  *)
Ahead(k) == \A j \in k .. Len(due) :
    LiveIn(mem, due[j]) /\ Fwd(mem)[due[j]] = Met(head, due, j + 1)

LoopInv ==
    /\ Rings /\ \A h \in Heads : Live(h)
    /\ macro \in Macro /\ head \in Heads /\ pos \in Addr
    /\ phase \in {"init", "test", "body", "step", "done"}

DueInv ==
    /\ due \in Seq(Nodes) /\ IsInjective(due)
    /\ visited \in Seq(Nodes) /\ Seen <= Len(due)
    /\ \A k \in 1 .. Seen : visited[k] = due[k]

CursorInv ==
    /\ phase = "init" =>
         /\ Seen = 0 /\ Ahead(1)
         /\ Met(head, due, 1) = IF macro.begin = "at" THEN pos ELSE Fwd(mem)[pos]
    /\ phase = "test" =>
         /\ pos = Met(head, due, Seen + 1) /\ Ahead(Seen + 1)
         /\ macro.safe => n = Fwd(mem)[pos]
    /\ phase = "body" =>
         /\ Seen > 0 /\ pos = due[Seen] /\ Ahead(Seen)
         /\ macro.safe => n = Met(head, due, Seen + 1)
    /\ phase = "step" =>
         IF macro.safe THEN n = Met(head, due, Seen + 1) /\ Ahead(Seen + 1)
                       ELSE Seen > 0 /\ pos = due[Seen] /\ Ahead(Seen)
    /\ phase = "done" => Seen = Len(due)

WalkInv == LoopInv /\ DueInv /\ CursorInv

LEMMA AlongIsFwd ==
    ASSUME macro \in Macro, NEW m, NEW x
    PROVE  Along(m, x) = Fwd(m)[x]
  BY DEF Macro, Field, Along, Fwd

(* The links of objects in use lead to each other, whichever is followed.  *)
LEMMA FwdFacts ==
    ASSUME NEW m, WholeIn(m), NEW x \in Addr, LiveIn(m, x)
    PROVE  /\ Fwd(m)[x] \in Addr /\ Bwd(m)[x] \in Addr
           /\ Bwd(m)[Fwd(m)[x]] = x /\ Fwd(m)[Bwd(m)[x]] = x
           /\ LiveIn(m, Fwd(m)[x]) /\ LiveIn(m, Bwd(m)[x])
  BY Neighbours DEF Fwd, Bwd

(* What the calls in a body write into the field that is followed.         *)
LEMMA UnlinkFwd ==
    ASSUME NEW m, WholeIn(m), NEW e \in Addr, LiveIn(m, e)
    PROVE  /\ Unlink(m, e) \in Memory
           /\ \A y \in Addr : Fwd(Unlink(m, e))[y] =
                IF y = Bwd(m)[e] THEN Fwd(m)[e] ELSE Fwd(m)[y]
  BY DEF WholeIn, LiveIn, Memory, Unlink, JoinOver, Fwd, Bwd

LEMMA DeleteFwd ==
    ASSUME NEW m, WholeIn(m), NEW e \in Addr, LiveIn(m, e),
           NEW m2 \in {list_del(m, e), list_del_init(m, e)}
    PROVE  \A y \in Addr \ {e} : Fwd(m2)[y] =
             IF y = Bwd(m)[e] THEN Fwd(m)[e] ELSE Fwd(m)[y]
  <1> DEFINE u == Unlink(m, e)
  <1>1. u \in Memory /\ \A y \in Addr : Fwd(u)[y] =
            IF y = Bwd(m)[e] THEN Fwd(m)[e] ELSE Fwd(m)[y]
    BY UnlinkFwd
  <1>2. \A y \in Addr \ {e} : Fwd(m2)[y] = Fwd(u)[y]
    <2> HIDE DEF u
    <2>1. CASE m2 = list_del(m, e)
      <3>1. m2 = [next |-> [u.next EXCEPT ![e] = POISON1], prev |-> [u.prev EXCEPT ![e] = POISON2]]
        BY <2>1 DEF list_del, u
      <3> QED BY <1>1, <3>1 DEF Memory, Fwd
    <2>2. CASE m2 = list_del_init(m, e)
      <3>1. m2 = INIT_LIST_HEAD(u, e)
        BY <2>2 DEF list_del_init, u
      <3> QED BY <1>1, <3>1 DEF Memory, Fwd, INIT_LIST_HEAD
    <2> QED BY <2>1, <2>2
  <1> QED BY <1>1, <1>2

LEMMA AddFwd ==
    ASSUME NEW m \in Memory, NEW e \in Addr, NEW h \in Addr, LiveIn(m, h),
           NEW m2 \in {list_add(m, e, h), list_add_tail(m, e, h)}
    PROVE  \A y \in Addr \ {e, h} : y # Bwd(m)[h] => Fwd(m2)[y] = Fwd(m)[y]
  BY DEF LiveIn, Memory, list_add, list_add_tail, AddBetween, Fwd, Bwd

(* To add behind the cursor is to write only at the head.                  *)
LEMMA AddBehindFwd ==
    ASSUME NEW m \in Memory, NEW e \in Addr, NEW h \in Addr, LiveIn(m, h), NEW m2,
           \/ macro.field = "next" /\ m2 = list_add(m, e, h)
           \/ macro.field = "prev" /\ m2 = list_add_tail(m, e, h)
    PROVE  \A y \in Addr \ {e, h} : Fwd(m2)[y] = Fwd(m)[y]
  BY DEF LiveIn, Memory, list_add, list_add_tail, AddBetween, Fwd

(***************************************************************************)
(* One loop, one expression at a time                                      *)
(***************************************************************************)
(* Every entry due is met once, and none of them is the head.              *)
LEMMA DueFacts ==
    ASSUME LoopInv, DueInv
    PROVE  /\ Len(due) \in Nat /\ Seen \in Nat /\ Seen <= Len(due)
           /\ head \in Addr /\ head \notin Nodes /\ LiveIn(mem, head)
           /\ \A j \in 1 .. Len(due) : due[j] \in Nodes /\ Met(head, due, j) = due[j]
           /\ \A j \in Nat : j > Len(due) => Met(head, due, j) = head
           /\ \A j \in Nat : Met(head, due, j) \in Addr
           /\ \A j, k \in 1 .. Len(due) : due[j] = due[k] => j = k
  <1>1. Len(due) \in Nat /\ Seen \in Nat /\ Seen <= Len(due)
    BY DEF DueInv, Seen
  <1>2. head \in Addr /\ head \notin Nodes /\ LiveIn(mem, head)
    BY DEF LoopInv, Live, Addr
  <1>3. \A j \in 1 .. Len(due) : due[j] \in Nodes /\ Met(head, due, j) = due[j]
    BY DEF DueInv, Met
  <1>4. \A j \in Nat : j > Len(due) => Met(head, due, j) = head
    BY <1>1 DEF Met
  <1>5. \A j \in Nat : Met(head, due, j) \in Addr
    BY <1>1, <1>2, <1>3 DEF Met, Addr
  <1>6. \A j, k \in 1 .. Len(due) : due[j] = due[k] => j = k
    BY DEF DueInv, IsInjective
  <1> QED BY <1>1, <1>2, <1>3, <1>4, <1>5, <1>6

LEMMA InitExpression == WalkInv /\ WalkBegin => WalkInv'
  <1> SUFFICES ASSUME WalkInv, WalkBegin PROVE WalkInv'
    OBVIOUS
  <1>1. LoopInv /\ DueInv /\ Seen = 0 /\ Ahead(1)
        /\ Met(head, due, 1) = IF macro.begin = "at" THEN pos ELSE Fwd(mem)[pos]
    BY DEF WalkInv, CursorInv, WalkBegin
  <1>2. pos' = Met(head, due, 1) /\ pos' \in Addr
    BY <1>1, AlongIsFwd, DueFacts DEF WalkBegin, LoopInv
  <1>3. macro.safe => n' = Fwd(mem)[pos']
    BY <1>1, AlongIsFwd DEF WalkBegin, LoopInv
  <1>4. LoopInv'
    BY <1>1, <1>2 DEF LoopInv, WalkBegin, Rings, WholeIn, LiveIn, Live
  <1>5. DueInv'
    BY <1>1 DEF DueInv, WalkBegin, Seen
  <1>6. CursorInv'
    <2>1. Ahead(1)' /\ Seen' = 0 /\ phase' = "test"
      BY <1>1 DEF WalkBegin, Ahead, LiveIn, Fwd, Seen
    <2>2. 0 + 1 = 1
      OBVIOUS
    <2>3. /\ pos' = Met(head, due, Seen + 1)' /\ Ahead(Seen + 1)'
          /\ (macro.safe => n = Fwd(mem)[pos])'
      BY <1>2, <1>3, <2>1, <2>2 DEF WalkBegin, Fwd
    <2> QED BY <2>1, <2>3 DEF CursorInv
  <1> QED BY <1>4, <1>5, <1>6 DEF WalkInv

LEMMA TestExpression == WalkInv /\ WalkTest => WalkInv'
  <1> SUFFICES ASSUME WalkInv, WalkTest PROVE WalkInv'
    OBVIOUS
  <1>1. LoopInv /\ DueInv /\ pos = Met(head, due, Seen + 1) /\ Ahead(Seen + 1)
        /\ (macro.safe => n = Fwd(mem)[pos])
    BY DEF WalkInv, CursorInv, WalkTest
  <1>2. PICK L \in Nat, c \in Nat : c <= L /\ L = Len(due) /\ c = Seen
    BY <1>1, DueFacts
  <1>3. LoopInv'
    BY <1>1 DEF LoopInv, WalkTest, Rings, WholeIn, LiveIn, Live
  <1>4. CASE pos = head
    <2>1. c = L
      BY <1>1, <1>2, <1>4, DueFacts
    <2>2. DueInv'
      BY <1>1, <1>4 DEF DueInv, WalkTest, Seen
    <2>3. CursorInv'
      BY <1>2, <1>4, <2>1 DEF CursorInv, WalkTest, Seen
    <2> QED BY <1>3, <2>2, <2>3 DEF WalkInv
  <1>5. CASE pos # head
    <2>1. c + 1 \in 1 .. L /\ pos = due[c + 1] /\ pos \in Nodes
      BY <1>1, <1>2, <1>5, DueFacts
    <2>2. visited \in Seq(Nodes) /\ Len(visited) = c /\ visited' = Append(visited, pos)
      BY <1>1, <1>2, <1>5 DEF DueInv, WalkTest, Seen
    <2>3. visited' \in Seq(Nodes) /\ Seen' = c + 1 /\ visited'[c + 1] = pos
          /\ \A k \in 1 .. c : visited'[k] = visited[k]
      BY <2>1, <2>2 DEF Seen
    <2>4. DueInv'
      <3>1. \A k \in 1 .. c + 1 : visited'[k] = due[k]
        BY <1>1, <1>2, <2>1, <2>3 DEF DueInv
      <3> QED BY <1>1, <1>2, <2>1, <2>3, <3>1 DEF DueInv, WalkTest
    <2>5. Ahead(Seen)'
      BY <1>1, <1>2, <2>3 DEF Ahead, WalkTest, LiveIn, Fwd
    <2>6. macro.safe => n = Met(head, due, c + 2)
      BY <1>1, <1>2, <2>1 DEF Ahead
    <2>7. (c + 1) + 1 = c + 2 /\ c + 1 > 0
      BY <1>2
    <2>8. CursorInv'
      BY <1>5, <2>1, <2>3, <2>5, <2>6, <2>7 DEF CursorInv, WalkTest, Met
    <2> QED BY <1>3, <2>4, <2>8 DEF WalkInv
  <1> QED BY <1>4, <1>5

LEMMA StepExpression == WalkInv /\ WalkStep => WalkInv'
  <1> SUFFICES ASSUME WalkInv, WalkStep PROVE WalkInv'
    OBVIOUS
  <1>1. LoopInv /\ DueInv
        /\ IF macro.safe THEN n = Met(head, due, Seen + 1) /\ Ahead(Seen + 1)
                         ELSE Seen > 0 /\ pos = due[Seen] /\ Ahead(Seen)
    BY DEF WalkInv, CursorInv, WalkStep
  <1>2. PICK L \in Nat, c \in Nat : c <= L /\ L = Len(due) /\ c = Seen
    BY <1>1, DueFacts
  <1>3. pos' = Met(head, due, c + 1) /\ Ahead(c + 1) /\ (macro.safe => n' = Fwd(mem)[pos'])
    <2>1. CASE macro.safe
      <3>1. n' = Fwd(mem)[n] /\ pos' = n
        BY <1>1, <2>1, AlongIsFwd DEF WalkStep, LoopInv
      <3> QED BY <1>1, <1>2, <2>1, <3>1
    <2>2. CASE ~macro.safe
      <3>1. pos' = Fwd(mem)[pos]
        BY <1>1, <2>2, AlongIsFwd DEF WalkStep, LoopInv
      <3>2. Fwd(mem)[pos] = Met(head, due, c + 1) /\ Ahead(c + 1)
        BY <1>1, <1>2, <2>2 DEF Ahead
      <3> QED BY <2>2, <3>1, <3>2
    <2> QED BY <2>1, <2>2
  <1>4. pos' \in Addr
    BY <1>1, <1>2, <1>3, DueFacts
  <1>5. LoopInv'
    BY <1>1, <1>4 DEF LoopInv, WalkStep, Rings, WholeIn, LiveIn, Live
  <1>6. DueInv'
    BY <1>1 DEF DueInv, WalkStep, Seen
  <1>7. CursorInv'
    <2>1. Seen' = c /\ Ahead(c + 1)' /\ Met(head, due, c + 1)' = Met(head, due, c + 1)
      BY <1>2, <1>3 DEF WalkStep, Ahead, LiveIn, Fwd, Seen, Met
    <2>2. (macro.safe => n = Fwd(mem)[pos])'
      BY <1>3 DEF WalkStep, Fwd
    <2>3. phase' = "test"
      BY DEF WalkStep
    <2> QED BY <1>3, <2>1, <2>2, <2>3 DEF CursorInv
  <1> QED BY <1>5, <1>6, <1>7 DEF WalkInv

(* A body may do whatever leaves the links ahead as they are.              *)
From == IF macro.safe THEN Seen + 1 ELSE Seen

LEMMA BodyKeepsAhead ==
    ASSUME WalkInv, phase = "body", phase' = "step",
           UNCHANGED <<macro, head, pos, n, visited, due>>,
           WholeIn(mem'), \A h \in Heads : LiveIn(mem', h),
           \A j \in From .. Len(due) :
             LiveIn(mem', due[j]) /\ Fwd(mem')[due[j]] = Fwd(mem)[due[j]]
    PROVE  WalkInv'
  <1>1. LoopInv /\ DueInv /\ Seen > 0 /\ pos = due[Seen] /\ Ahead(Seen)
        /\ (macro.safe => n = Met(head, due, Seen + 1))
    BY DEF WalkInv, CursorInv
  <1>2. PICK c \in Nat : c = Seen
    BY <1>1, DueFacts
  <1>3. LoopInv'
    BY <1>1 DEF LoopInv, Rings, WholeIn, LiveIn, Live, Memory
  <1>4. DueInv'
    BY <1>1 DEF DueInv, Seen
  <1>5. PICK k \in Nat : k = From /\ k >= c
    BY <1>2 DEF From
  <1>6. Ahead(k)
    BY <1>1, <1>2, <1>5, DueFacts DEF Ahead
  <1>7. Ahead(k)'
    <2>1. \A j \in k .. Len(due) :
            LiveIn(mem', due[j]) /\ Fwd(mem')[due[j]] = Met(head, due, j + 1)
      BY <1>5, <1>6 DEF Ahead
    <2> QED BY <2>1 DEF Ahead, LiveIn, Fwd, Met
  <1>8. CursorInv'
    <2>1. Seen' = c /\ Met(head, due, c + 1)' = Met(head, due, c + 1)
      BY <1>2 DEF Seen, Met
    <2>2. CASE macro.safe
      BY <1>1, <1>2, <1>5, <1>7, <2>1, <2>2 DEF CursorInv, From
    <2>3. CASE ~macro.safe
      BY <1>1, <1>2, <1>5, <1>7, <2>1, <2>3 DEF CursorInv, From
    <2> QED BY <2>2, <2>3
  <1> QED BY <1>3, <1>4, <1>8 DEF WalkInv

(* The facts about a body that is about to run.                            *)
LEMMA BodyFacts ==
    ASSUME WalkInv, phase = "body"
    PROVE  /\ WholeIn(mem) /\ mem \in Memory
           /\ Seen \in Nat /\ Seen > 0 /\ Seen <= Len(due) /\ pos = due[Seen]
           /\ pos \in Nodes /\ LiveIn(mem, pos)
           /\ From \in Nat /\ From >= Seen /\ (macro.safe => From > Seen)
           /\ \A j \in From .. Len(due) :
                /\ due[j] \in Nodes /\ due[j] # head /\ LiveIn(mem, due[j])
                /\ Fwd(mem)[due[j]] \in Addr
                /\ Fwd(mem)[due[j]] \in Nodes \cup {head}
                /\ Fwd(mem)[due[j]] # pos /\ Fwd(mem)[due[j]] # due[j]
                /\ macro.safe => due[j] # pos
  <1>1. LoopInv /\ DueInv /\ Seen > 0 /\ pos = due[Seen] /\ Ahead(Seen)
    BY DEF WalkInv, CursorInv
  <1>2. WholeIn(mem) /\ mem \in Memory
    BY <1>1 DEF LoopInv, Rings, WholeIn
  <1>3. PICK c \in Nat, L \in Nat : c = Seen /\ L = Len(due) /\ c <= L
    BY <1>1, DueFacts
  <1>4. PICK k \in Nat : k = From /\ k >= c /\ (macro.safe => k = c + 1)
    BY <1>3 DEF From
  <1>5. c \in 1 .. L /\ pos = due[c] /\ pos \in Nodes /\ LiveIn(mem, pos)
    BY <1>1, <1>3, DueFacts DEF Ahead
  <1>6. ASSUME NEW j \in k .. L
        PROVE  /\ due[j] \in Nodes /\ due[j] # head /\ LiveIn(mem, due[j])
               /\ Fwd(mem)[due[j]] \in Addr
               /\ Fwd(mem)[due[j]] \in Nodes \cup {head}
               /\ Fwd(mem)[due[j]] # pos /\ Fwd(mem)[due[j]] # due[j]
               /\ macro.safe => due[j] # pos
    <2>1. j \in 1 .. L /\ j >= c /\ (macro.safe => j # c) /\ j \in Seen .. Len(due)
      BY <1>3, <1>4, <1>5
    <2>2. due[j] \in Nodes /\ due[j] # head
      BY <1>1, <1>3, <2>1, DueFacts
    <2>3. LiveIn(mem, due[j]) /\ Fwd(mem)[due[j]] = Met(head, due, j + 1)
      BY <1>1, <2>1 DEF Ahead
    <2>4. macro.safe => due[j] # pos
      BY <1>1, <1>3, <1>5, <2>1, DueFacts
    <2>5. CASE j = L
      <3>1. Met(head, due, j + 1) = head
        BY <1>1, <1>3, <2>5, DueFacts
      <3> QED BY <1>1, <1>5, <2>2, <2>3, <2>4, <3>1, DueFacts
    <2>6. CASE j < L
      <3>1. j + 1 \in 1 .. L /\ j + 1 # c /\ j + 1 # j
        BY <2>1, <2>6
      <3>2. Met(head, due, j + 1) = due[j + 1] /\ due[j + 1] \in Nodes
        BY <1>1, <1>3, <3>1, DueFacts
      <3>3. due[j + 1] # due[j] /\ due[j + 1] # due[c]
        BY <1>1, <1>3, <1>5, <2>1, <3>1, DueFacts
      <3>4. Nodes \subseteq Addr
        BY DEF Addr
      <3> QED BY <1>5, <2>2, <2>3, <2>4, <3>2, <3>3, <3>4
    <2> QED BY <2>1, <2>5, <2>6
  <1> QED BY <1>1, <1>2, <1>3, <1>4, <1>5, <1>6

LEMMA BodyDeletes ==
    ASSUME WalkInv, phase = "body", macro.safe,
           NEW m2 \in {list_del(mem, pos), list_del_init(mem, pos)}
    PROVE  /\ WholeIn(m2) /\ \A h \in Heads : LiveIn(m2, h)
           /\ \A j \in From .. Len(due) :
                LiveIn(m2, due[j]) /\ Fwd(m2)[due[j]] = Fwd(mem)[due[j]]
  <1>1. pos \in Addr /\ WholeIn(mem) /\ LiveIn(mem, pos) /\ pos \notin Heads
    BY BodyFacts DEF Addr
  <1>2. WholeIn(m2) /\ Kept(mem, m2, pos)
    BY <1>1, DeleteSound DEF SoundBut
  <1>3. \A h \in Heads : LiveIn(m2, h)
    BY <1>1, <1>2 DEF WalkInv, LoopInv, Live, Kept, Addr
  <1>4. ASSUME NEW j \in From .. Len(due)
        PROVE  LiveIn(m2, due[j]) /\ Fwd(m2)[due[j]] = Fwd(mem)[due[j]]
    <2>1. /\ due[j] \in Nodes /\ LiveIn(mem, due[j]) /\ due[j] # pos
          /\ Fwd(mem)[due[j]] # pos
      BY BodyFacts
    <2>2. due[j] # Bwd(mem)[pos]
      BY <1>1, <2>1, FwdFacts
    <2>3. due[j] \in Addr \ {pos}
      BY <2>1 DEF Addr
    <2> QED BY <1>1, <1>2, <2>1, <2>2, <2>3, DeleteFwd DEF Kept
  <1> QED BY <1>2, <1>3, <1>4

LEMMA BodyMoves ==
    ASSUME WalkInv, phase = "body", macro.safe, NEW h \in Heads \ {head},
           NEW m2 \in {list_move(mem, pos, h), list_move_tail(mem, pos, h)}
    PROVE  /\ WholeIn(m2) /\ \A g \in Heads : LiveIn(m2, g)
           /\ \A j \in From .. Len(due) :
                LiveIn(m2, due[j]) /\ Fwd(m2)[due[j]] = Fwd(mem)[due[j]]
  <1>1. pos \in Addr /\ WholeIn(mem) /\ LiveIn(mem, pos) /\ pos \notin Heads
    BY BodyFacts DEF Addr
  <1>2. h \in Addr /\ LiveIn(mem, h) /\ h # pos /\ h \notin Nodes \cup {head}
    BY <1>1 DEF WalkInv, LoopInv, Live, Addr
  <1>3. WholeIn(m2) /\ Kept(mem, m2, pos)
    BY <1>1, <1>2, MoveSound DEF SoundBut
  <1>4. \A g \in Heads : LiveIn(m2, g)
    BY <1>1, <1>3 DEF WalkInv, LoopInv, Live, Kept, Addr
  <1>5. PICK u : u = Unlink(mem, pos)
    OBVIOUS
  <1>6. /\ u \in Memory /\ WholeIn(u) /\ Kept(mem, u, pos)
        /\ \A y \in Addr : Fwd(u)[y] = IF y = Bwd(mem)[pos] THEN Fwd(mem)[pos] ELSE Fwd(mem)[y]
    BY <1>1, <1>5, UnlinkWhole, UnlinkFwd
  <1>7. LiveIn(u, h) /\ m2 \in {list_add(u, pos, h), list_add_tail(u, pos, h)}
    BY <1>2, <1>5, <1>6 DEF Kept, list_move, list_move_tail
  <1>8. \A y \in Addr \ {pos, h} : y # Bwd(u)[h] => Fwd(m2)[y] = Fwd(u)[y]
    BY <1>1, <1>2, <1>6, <1>7, AddFwd
  <1>9. ASSUME NEW j \in From .. Len(due)
        PROVE  LiveIn(m2, due[j]) /\ Fwd(m2)[due[j]] = Fwd(mem)[due[j]]
    <2>1. /\ due[j] \in Nodes /\ LiveIn(mem, due[j]) /\ due[j] # pos
          /\ Fwd(mem)[due[j]] # pos /\ Fwd(mem)[due[j]] \in Nodes \cup {head}
      BY BodyFacts
    <2>2. due[j] # Bwd(mem)[pos]
      BY <1>1, <2>1, FwdFacts
    <2>3. due[j] \in Addr \ {pos, h} /\ Fwd(u)[due[j]] = Fwd(mem)[due[j]]
      BY <1>2, <1>6, <2>1, <2>2 DEF Addr
    <2>4. due[j] # Bwd(u)[h]
      BY <1>2, <1>6, <1>7, <2>1, <2>3, FwdFacts
    <2> QED BY <1>3, <1>8, <2>1, <2>3, <2>4 DEF Kept
  <1> QED BY <1>3, <1>4, <1>9

LEMMA BodyAddsBehind ==
    ASSUME WalkInv, phase = "body", NEW e \in Nodes, Unused(e), NEW m2,
           \/ macro.field = "next" /\ m2 = list_add(mem, e, head)
           \/ macro.field = "prev" /\ m2 = list_add_tail(mem, e, head)
    PROVE  /\ WholeIn(m2) /\ \A h \in Heads : LiveIn(m2, h)
           /\ \A j \in From .. Len(due) :
                LiveIn(m2, due[j]) /\ Fwd(m2)[due[j]] = Fwd(mem)[due[j]]
  <1>1. /\ e \in Addr /\ WholeIn(mem) /\ mem \in Memory /\ UnusedIn(mem, e)
        /\ head \in Addr /\ LiveIn(mem, head) /\ e # head
    BY BodyFacts, DueFacts DEF WalkInv, Addr, Unused, Linked, Live, UnusedIn
  <1>2. WholeIn(m2) /\ \A y \in Addr : LiveIn(mem, y) => LiveIn(m2, y)
    BY <1>1, AddSound
  <1>3. \A h \in Heads : LiveIn(m2, h)
    BY <1>2 DEF WalkInv, LoopInv, Live, Addr
  <1>4. \A y \in Addr \ {e, head} : Fwd(m2)[y] = Fwd(mem)[y]
    BY <1>1, AddBehindFwd
  <1>5. ASSUME NEW j \in From .. Len(due)
        PROVE  LiveIn(m2, due[j]) /\ Fwd(m2)[due[j]] = Fwd(mem)[due[j]]
    <2>1. /\ due[j] \in Nodes /\ LiveIn(mem, due[j]) /\ due[j] # head
          /\ Fwd(mem)[due[j]] # due[j]
      BY BodyFacts
    <2>2. due[j] # e
      <3>1. mem.next[due[j]] # due[j]
        BY <1>1, <2>1 DEF LiveIn, Fwd
      <3> QED BY <1>1, <2>1, <3>1 DEF UnusedIn
    <2> QED BY <1>2, <1>4, <2>1, <2>2 DEF Addr
  <1> QED BY <1>2, <1>3, <1>5

LEMMA AnyBody == WalkInv /\ Body => WalkInv'
  <1> SUFFICES ASSUME WalkInv, Body PROVE WalkInv'
    OBVIOUS
  <1>1. phase = "body" /\ phase' = "step" /\ UNCHANGED <<macro, head, pos, n, visited>>
    BY DEF Body
  <1>2. CASE UNCHANGED <<mem, due>>
    <2>1. WholeIn(mem') /\ \A h \in Heads : LiveIn(mem', h)
      BY <1>2 DEF WalkInv, LoopInv, Rings, WholeIn, LiveIn, Live
    <2>2. \A j \in From .. Len(due) :
            LiveIn(mem', due[j]) /\ Fwd(mem')[due[j]] = Fwd(mem)[due[j]]
      BY <1>1, <1>2, BodyFacts DEF LiveIn, Fwd
    <2> QED BY <1>1, <1>2, <2>1, <2>2, BodyKeepsAhead
  <1>3. CASE macro.safe /\ due' = due /\ mem' \in {list_del(mem, pos), list_del_init(mem, pos)}
    BY <1>1, <1>3, BodyDeletes, BodyKeepsAhead
  <1>4. CASE /\ macro.safe /\ due' = due
             /\ \E h \in Heads \ {head} :
                  mem' \in {list_move(mem, pos, h), list_move_tail(mem, pos, h)}
    BY <1>1, <1>4, BodyMoves, BodyKeepsAhead
  <1>5. CASE /\ due' = due
             /\ \E e \in Nodes :
                  /\ Unused(e)
                  /\ \/ macro.field = "next" /\ mem' = list_add(mem, e, head)
                     \/ macro.field = "prev" /\ mem' = list_add_tail(mem, e, head)
    BY <1>1, <1>5, BodyAddsBehind, BodyKeepsAhead
  <1> QED BY <1>2, <1>3, <1>4, <1>5 DEF Body

(* The entry that was to come next is taken out of what is due.            *)
LEMMA BodyTakesNext == WalkInv /\ BodyRemovesNext => WalkInv'
  <1> SUFFICES ASSUME WalkInv, BodyRemovesNext PROVE WalkInv'
    OBVIOUS
  <1>1. /\ phase = "body" /\ phase' = "step" /\ macro.safe /\ macro.field = "next"
        /\ n \in Nodes /\ mem' = list_del(mem, n) /\ n' = mem'.next[pos]
        /\ due' = RemoveAt(due, Seen + 1) /\ UNCHANGED <<macro, head, pos, visited>>
    BY DEF BodyRemovesNext, Seen
  <1>2. LoopInv /\ DueInv /\ Seen > 0 /\ pos = due[Seen] /\ Ahead(Seen)
        /\ n = Met(head, due, Seen + 1)
    BY <1>1 DEF WalkInv, CursorInv
  <1>3. PICK c \in Nat, L \in Nat : c = Seen /\ L = Len(due) /\ c <= L /\ c > 0
    BY <1>2, DueFacts
  <1>4. c + 1 \in 1 .. L /\ n = due[c + 1]
    BY <1>1, <1>2, <1>3, DueFacts
  <1>5. PICK d : d = RemoveAt(due, c + 1)
    OBVIOUS
  <1>6. /\ d \in Seq(Nodes) /\ Len(d) = L - 1
        /\ \A j \in 1 .. L - 1 : d[j] = IF j < c + 1 THEN due[j] ELSE due[j + 1]
    BY <1>2, <1>3, <1>4, <1>5, RemoveAtEntries DEF DueInv
  <1>7. IsInjective(d)
    BY <1>2, <1>3, <1>4, <1>5, RemoveAtRange DEF DueInv
  <1>8. due' = d /\ Seen' = c
    BY <1>1, <1>3, <1>5 DEF Seen
  <1>9. DueInv'
    <2>1. \A k \in 1 .. c : visited[k] = d[k]
      BY <1>2, <1>3, <1>4, <1>6 DEF DueInv
    <2> QED BY <1>1, <1>2, <1>3, <1>4, <1>6, <1>7, <1>8, <2>1 DEF DueInv
  <1>10. n \in Addr /\ n \notin Heads /\ LiveIn(mem, n) /\ WholeIn(mem)
    BY <1>1, <1>2, <1>3, <1>4 DEF Ahead, LoopInv, Rings, Addr
  <1>11. WholeIn(mem') /\ Kept(mem, mem', n)
    BY <1>1, <1>10, DeleteSound DEF SoundBut
  <1>12. LoopInv'
    <2>1. \A h \in Heads : LiveIn(mem', h)
      BY <1>2, <1>10, <1>11 DEF LoopInv, Live, Kept, Addr
    <2> QED BY <1>1, <1>2, <1>11, <2>1 DEF LoopInv, Rings, WholeIn, LiveIn, Live, Memory
  <1>13. \A y \in Addr \ {n} : Fwd(mem')[y] = IF y = Bwd(mem)[n] THEN Fwd(mem)[n] ELSE Fwd(mem)[y]
    BY <1>1, <1>10, DeleteFwd
  <1>14. \A j \in c .. L : LiveIn(mem, due[j]) /\ Fwd(mem)[due[j]] = Met(head, due, j + 1)
    BY <1>2, <1>3 DEF Ahead
  <1>15. Met(head, d, c + 1) = Met(head, due, c + 2)
    <2>1. CASE c + 1 = L
      BY <1>3, <1>6, <2>1 DEF Met
    <2>2. CASE c + 1 < L
      BY <1>3, <1>4, <1>6, <2>2 DEF Met
    <2> QED BY <1>4, <2>1, <2>2
  <1>16. n' = Met(head, d, c + 1)
    <2>1. pos = due[c] /\ pos # n /\ pos \in Addr /\ Fwd(mem)[pos] = n /\ LiveIn(mem, pos)
      BY <1>2, <1>3, <1>4, <1>14, DueFacts DEF Addr
    <2>2. pos = Bwd(mem)[n]
      BY <1>10, <2>1, FwdFacts
    <2>3. (c + 1) + 1 = c + 2
      OBVIOUS
    <2>4. Fwd(mem)[n] = Met(head, due, c + 2)
      BY <1>3, <1>4, <1>14, <2>3
    <2> QED BY <1>1, <1>13, <1>15, <2>1, <2>2, <2>4 DEF Fwd
  <1>17. ASSUME NEW j \in c + 1 .. L - 1
         PROVE  LiveIn(mem', d[j]) /\ Fwd(mem')[d[j]] = Met(head, d, j + 1)
    <2>1. j + 1 \in c + 2 .. L /\ j + 1 \in 1 .. L /\ j + 1 # c + 1 /\ d[j] = due[j + 1]
      <3>1. j \in 1 .. L - 1 /\ ~(j < c + 1)
        BY <1>3
      <3> QED BY <1>3, <1>6, <3>1
    <2>2. d[j] \in Addr \ {n} /\ LiveIn(mem, d[j]) /\ Fwd(mem)[d[j]] = Met(head, due, j + 2)
      <3>1. (j + 1) + 1 = j + 2 /\ j + 1 \in c .. L
        BY <1>3, <2>1
      <3> QED BY <1>2, <1>3, <1>4, <1>14, <2>1, <3>1, DueFacts DEF Addr
    <2>3. Met(head, d, j + 1) = Met(head, due, j + 2)
      BY <1>3, <1>4, <1>6, <2>1 DEF Met
    <2>4. Fwd(mem)[d[j]] # n
      <3>1. CASE j + 2 > L
        <4>1. Met(head, due, j + 2) = head
          BY <1>2, <1>3, <2>1, <3>1, DueFacts
        <4> QED BY <1>2, <1>10, <2>2, <4>1, DueFacts DEF LoopInv
      <3>2. CASE j + 2 <= L
        <4>1. j + 2 \in 1 .. L /\ j + 2 # c + 1
          BY <1>3, <2>1, <3>2
        <4> QED BY <1>2, <1>3, <1>4, <2>2, <4>1, DueFacts
      <3> QED BY <1>3, <2>1, <3>1, <3>2
    <2>5. d[j] # Bwd(mem)[n]
      BY <1>10, <2>4, FwdFacts
    <2> QED BY <1>11, <1>13, <2>2, <2>3, <2>5 DEF Kept
  <1>18. CursorInv'
    <2>1. Met(head, due, c + 1)' = Met(head, d, c + 1)
      BY <1>1, <1>8 DEF Met
    <2>2. Ahead(c + 1)'
      <3>1. \A j \in c + 1 .. Len(d) : LiveIn(mem', d[j]) /\ Fwd(mem')[d[j]] = Met(head, d, j + 1)
        BY <1>6, <1>17
      <3> QED BY <1>1, <1>8, <3>1 DEF Ahead, LiveIn, Fwd, Met
    <2> QED BY <1>1, <1>8, <1>16, <2>1, <2>2 DEF CursorInv
  <1> QED BY <1>9, <1>12, <1>18 DEF WalkInv

(***************************************************************************)
(* Where the loops begin                                                   *)
(***************************************************************************)
LEMMA ArrangeRing ==
    ASSUME NEW h \in Heads, NEW s \in Seq(Nodes), IsInjective(s),
           NEW m, m = Arrange(h, s)
    PROVE  /\ Ring(m.next, m.prev, h, s) /\ WholeIn(m)
           /\ \A x \in Heads \cup ToSet(s) : LiveIn(m, x)
  <1>1. PICK L : L = Len(s)
    OBVIOUS
  <1>2. L \in Nat /\ DOMAIN s = 1 .. L /\ \A k \in 1 .. L : s[k] \in Nodes
    BY <1>1
  <1>3. h \in Addr /\ h \notin Nodes /\ Nodes \subseteq Addr /\ Heads \subseteq Addr
    BY DEF Addr
  <1>4. \A k \in 1 .. L : At(h, s, s[k]) = k
    BY <1>2, <1>3 DEF At, IsInjective
  <1>5. At(h, s, h) = 0
    BY DEF At
  <1>6. \A k : Around(h, s, k) = Met(h, s, k)
    BY <1>1, <1>2 DEF Around, Met
  <1> DEFINE ring == {h} \cup ToSet(s)
  <1>7. ring = {Met(h, s, k) : k \in 0 .. L} /\ ring \subseteq Addr
    BY <1>1, <1>2, <1>3 DEF Met, ToSet
  <1>8. \A k \in 0 .. L : At(h, s, Met(h, s, k)) = k
    BY <1>1, <1>2, <1>4, <1>5 DEF Met
  <1>9. /\ \A x \in Addr : m.next[x] = IF x \in ring THEN Met(h, s, At(h, s, x) + 1)
                                       ELSE IF x \in Heads THEN x ELSE POISON1
        /\ \A x \in Addr : m.prev[x] = IF x = h THEN Met(h, s, L)
                                       ELSE IF x \in ring THEN Met(h, s, At(h, s, x) - 1)
                                       ELSE IF x \in Heads THEN x ELSE POISON2
        /\ DOMAIN m = {"next", "prev"}
    BY <1>1, <1>6 DEF Arrange
  <1>10. \A k \in 0 .. L : m.next[Met(h, s, k)] = Met(h, s, k + 1)
    BY <1>7, <1>8, <1>9
  <1>11. \A k \in 0 .. L : m.prev[Met(h, s, k + 1)] = Met(h, s, k)
    <2> SUFFICES ASSUME NEW k \in 0 .. L PROVE m.prev[Met(h, s, k + 1)] = Met(h, s, k)
      OBVIOUS
    <2>1. CASE k = L
      <3>1. Met(h, s, k + 1) = h
        BY <1>1, <1>2, <2>1 DEF Met
      <3> QED BY <1>3, <1>9, <2>1, <3>1
    <2>2. CASE k < L
      <3>1. k + 1 \in 1 .. L /\ k + 1 \in 0 .. L /\ (k + 1) - 1 = k
        BY <1>2, <2>2
      <3>2. Met(h, s, k + 1) = s[k + 1] /\ Met(h, s, k + 1) # h
        BY <1>1, <1>2, <1>3, <3>1 DEF Met
      <3> QED BY <1>7, <1>8, <1>9, <3>1, <3>2
    <2> QED BY <1>2, <2>1, <2>2
  <1>12. Ring(m.next, m.prev, h, s)
    <2>1. s \in Seq(Addr \ {h})
      BY <1>1, <1>2, <1>3
    <2>2. \A j, k \in 1 .. Len(s) : s[j] = s[k] => j = k
      BY <1>1, <1>2 DEF IsInjective
    <2> QED BY <1>1, <1>10, <1>11, <2>1, <2>2 DEF Ring
  <1>13. ASSUME NEW x \in ring
         PROVE  /\ m.next[x] \in ring /\ m.prev[x] \in ring
                /\ m.prev[m.next[x]] = x /\ m.next[m.prev[x]] = x
    <2>1. PICK k \in 0 .. L : x = Met(h, s, k)
      BY <1>7
    <2>2. m.next[x] = Met(h, s, k + 1) /\ m.prev[m.next[x]] = x
      BY <1>10, <1>11, <2>1
    <2>3. Met(h, s, L + 1) = h /\ Met(h, s, 0) = h
      BY <1>1, <1>2 DEF Met
    <2>4. Met(h, s, k + 1) \in ring
      <3>1. CASE k = L
        BY <2>3, <3>1
      <3>2. CASE k < L
        <4>1. k + 1 \in 0 .. L
          BY <1>2, <3>2
        <4> QED BY <1>7, <4>1
      <3> QED BY <1>2, <3>1, <3>2
    <2>5. PICK j \in 0 .. L : x = Met(h, s, j + 1)
      <3>1. CASE k = 0
        BY <1>2, <2>1, <2>3, <3>1
      <3>2. CASE k > 0
        <4>1. k - 1 \in 0 .. L /\ (k - 1) + 1 = k
          BY <1>2, <3>2
        <4> QED BY <2>1, <4>1
      <3> QED BY <1>2, <3>1, <3>2
    <2>6. m.prev[x] = Met(h, s, j) /\ m.next[m.prev[x]] = x
      BY <1>10, <1>11, <2>5
    <2> QED BY <1>7, <2>2, <2>4, <2>6
  <1> HIDE DEF ring
  <1>14. m \in Memory
    <2>1. m = [next |-> m.next, prev |-> m.prev] /\ m.next = [x \in Addr |-> m.next[x]]
          /\ m.prev = [x \in Addr |-> m.prev[x]]
      BY DEF Arrange
    <2>2. \A x \in Addr : m.next[x] \in Addr \cup {POISON1}
      BY <1>3, <1>7, <1>9, <1>13
    <2>3. \A x \in Addr : m.prev[x] \in Addr \cup {POISON2}
      <3>1. \A x \in Addr \ ring : m.prev[x] \in Addr \cup {POISON2}
        BY <1>3, <1>9 DEF ring
      <3> QED BY <1>7, <1>13, <3>1
    <2>4. m.next \in [Addr -> Addr \cup {POISON1}] /\ m.prev \in [Addr -> Addr \cup {POISON2}]
      BY <2>1, <2>2, <2>3
    <2> QED BY <2>1, <2>4 DEF Memory
  <1>15. \A x \in ring : LiveIn(m, x)
    BY <1>7, <1>13 DEF LiveIn
  <1>16. \A x \in Addr \ ring : /\ x \in Heads => m.next[x] = x /\ m.prev[x] = x /\ LiveIn(m, x)
                                /\ x \notin Heads => ~LiveIn(m, x)
    BY <1>3, <1>9 DEF LiveIn, ring
  <1>17. WholeIn(m)
    BY <1>13, <1>14, <1>15, <1>16 DEF WholeIn
  <1>18. \A x \in Heads \cup ToSet(s) : LiveIn(m, x)
    BY <1>3, <1>15, <1>16 DEF ring
  <1> QED BY <1>12, <1>17, <1>18

LEMMA WalkInitInv == WalkInit => WalkInv
  <1> SUFFICES ASSUME WalkInit PROVE WalkInv
    OBVIOUS
  <1>1. PICK h \in Heads, s \in {q \in BoundedSeq(Nodes, Cardinality(Nodes)) : IsInjective(q)} :
          LET q == IF macro.field = "next" THEN s ELSE Reverse(s)
          IN  /\ head = h /\ mem = Arrange(h, s)
              /\ pos \in CASE macro.begin = "head"  -> {h}
                          [] macro.begin = "after" -> {h} \cup ToSet(s)
                          [] macro.begin = "at"    -> ToSet(s)
              /\ due = SubSeq(q, At(h, q, pos) + IF macro.begin = "at" THEN 0 ELSE 1, Len(q))
    BY DEF WalkInit
  <1>2. s \in Seq(Nodes) /\ IsInjective(s)
    <2>1. PICK k \in 0 .. Cardinality(Nodes) : s \in [1 .. k -> Nodes]
      BY <1>1 DEF BoundedSeq, SeqOf
    <2>2. Cardinality(Nodes) \in Nat
      BY FiniteAssumption, FS_Subset, FS_CardinalityType DEF Addr
    <2> QED BY <1>1, <2>1, <2>2
  <1>3. PICK q : q = IF macro.field = "next" THEN s ELSE Reverse(s)
    OBVIOUS
  <1>4. macro \in Macro /\ macro.field \in {"next", "prev"} /\ macro.begin \in {"head", "after", "at"}
    BY DEF WalkInit, Macro, Field, Begin
  <1>5. h \in Addr /\ head = h /\ h \notin Nodes
    BY <1>1 DEF Addr
  <1>6. /\ Ring(mem.next, mem.prev, h, s) /\ WholeIn(mem)
        /\ \A x \in Heads \cup ToSet(s) : LiveIn(mem, x)
    BY <1>1, <1>2, ArrangeRing
  <1>7. Ring(Fwd(mem), Bwd(mem), h, q)
    BY <1>3, <1>4, <1>5, <1>6, ReverseRing DEF Fwd, Bwd
  <1>8. ToSet(q) = ToSet(s) /\ q \in Seq(Nodes)
    <2>1. CASE macro.field = "next"
      BY <1>2, <1>3, <2>1
    <2>2. CASE macro.field # "next"
      <3>1. q = [k \in 1 .. Len(s) |-> s[(Len(s) - k) + 1]]
        BY <1>3, <2>2 DEF Reverse
      <3>2. PICK L \in Nat : L = Len(s)
        BY <1>2
      <3>3. \A k \in 1 .. L : (L - k) + 1 \in 1 .. L /\ (L - ((L - k) + 1)) + 1 = k
        BY <3>2
      <3>4. DOMAIN s = 1 .. L /\ DOMAIN q = 1 .. L
        BY <1>2, <3>1, <3>2
      <3>5. \A k \in 1 .. L : q[k] = s[(L - k) + 1] /\ s[k] = q[(L - k) + 1]
        BY <3>1, <3>2, <3>3
      <3>6. q \in Seq(Nodes)
        BY <1>2, <3>1, <3>2, <3>3
      <3> QED BY <3>3, <3>4, <3>5, <3>6 DEF ToSet
    <2> QED BY <2>1, <2>2
  <1>9. PICK L : L = Len(q) /\ RingOf(Fwd(mem), Bwd(mem), h, q, L)
    BY <1>5, <1>7, MetFacts
  <1>10. L \in Nat /\ DOMAIN q = 1 .. L
    BY <1>8, <1>9 DEF RingOf
  <1>11. pos \in {h} \cup ToSet(q) /\ (macro.begin = "at" => pos \in ToSet(q))
    BY <1>1, <1>4, <1>8
  <1>12. PICK a \in 0 .. L : /\ a = At(h, q, pos) /\ pos = Met(h, q, a)
                             /\ macro.begin = "at" => a > 0
    <2>1. CASE pos = h
      <3>1. At(h, q, pos) = 0 /\ pos = Met(h, q, 0) /\ 0 \in 0 .. L
        BY <1>9, <1>10, <2>1 DEF At, RingOf
      <3>2. h \notin ToSet(q)
        BY <1>9, <1>10 DEF ToSet, RingOf
      <3> QED BY <1>11, <2>1, <3>1, <3>2
    <2>2. CASE pos # h
      <3>1. PICK k \in 1 .. L : pos = q[k]
        BY <1>10, <1>11, <2>2 DEF ToSet
      <3>2. At(h, q, pos) \in 1 .. L /\ q[At(h, q, pos)] = pos
        BY <1>10, <2>2, <3>1 DEF At
      <3>3. PICK b \in 1 .. L : b = At(h, q, pos) /\ q[b] = pos
        BY <3>2
      <3>4. b \in 0 .. L /\ b > 0 /\ Met(h, q, b) = pos
        BY <1>9, <1>10, <3>3 DEF RingOf
      <3> QED BY <3>3, <3>4
    <2> QED BY <2>1, <2>2
  <1>13. PICK d \in {0, 1} : d = IF macro.begin = "at" THEN 0 ELSE 1
    OBVIOUS
  <1>14. PICK b \in 1 .. L + 1 : b = a + d /\ due = SubSeq(q, b, L)
    <2>1. d = 0 => a > 0
      BY <1>12, <1>13
    <2>2. a + d \in 1 .. L + 1
      BY <1>10, <2>1
    <2>3. due = SubSeq(q, a + d, L)
      BY <1>1, <1>3, <1>9, <1>12, <1>13
    <2> QED BY <2>2, <2>3
  <1>15. /\ due \in Seq(Nodes) /\ Len(due) = (L + 1) - b
         /\ \A j \in 1 .. (L + 1) - b : due[j] = q[(b + j) - 1]
    <2>1. b \in Nat /\ \A j \in b .. L : q[j] \in Nodes
      BY <1>8, <1>9, <1>10
    <2>2. /\ due \in Seq(Nodes) /\ Len(due) = IF b <= L THEN L - b + 1 ELSE 0
          /\ \A j \in 1 .. L - b + 1 : due[j] = q[b + j - 1]
      BY <1>8, <1>9, <1>10, <1>14, <2>1, SubSeqProperties
    <2> QED BY <1>10, <2>1, <2>2
  <1>16. ASSUME NEW j \in 1 .. (L + 1) - b
         PROVE  /\ due[j] \in Nodes /\ LiveIn(mem, due[j])
                /\ Fwd(mem)[due[j]] = Met(h, due, j + 1)
    <2>1. PICK k \in 1 .. L : k = (b + j) - 1 /\ due[j] = q[k]
      BY <1>10, <1>15
    <2>2. due[j] \in Nodes /\ due[j] \in ToSet(q) /\ LiveIn(mem, due[j])
      <3>1. due[j] \in ToSet(q)
        BY <1>10, <2>1 DEF ToSet
      <3>2. due[j] \in Nodes
        BY <1>8, <1>9, <2>1
      <3> QED BY <1>6, <1>8, <3>1, <3>2
    <2>3. Fwd(mem)[due[j]] = Met(h, q, k + 1)
      BY <1>9, <2>1 DEF RingOf
    <2>4. Met(h, q, k + 1) = Met(h, due, j + 1)
      <3>1. CASE k = L
        <4>1. j + 1 \notin 1 .. Len(due)
          BY <1>10, <1>15, <2>1, <3>1
        <4> QED BY <1>9, <3>1, <4>1 DEF Met, RingOf
      <3>2. CASE k < L
        <4>1. k + 1 \in 1 .. L /\ j + 1 \in 1 .. (L + 1) - b /\ (b + (j + 1)) - 1 = k + 1
          BY <1>10, <2>1, <3>2
        <4>2. due[j + 1] = q[(b + (j + 1)) - 1]
          BY <1>15, <4>1
        <4> QED BY <1>9, <1>15, <4>1, <4>2 DEF Met
      <3> QED BY <1>10, <2>1, <3>1, <3>2
    <2> QED BY <2>2, <2>3, <2>4
  <1>17. Met(h, due, 1) = Met(h, q, b)
    <2>1. CASE b = L + 1
      <3>1. 1 \notin 1 .. Len(due)
        BY <1>10, <1>15, <2>1
      <3> QED BY <1>9, <2>1, <3>1 DEF Met, RingOf
    <2>2. CASE b <= L
      <3>1. 1 \in 1 .. (L + 1) - b /\ (b + 1) - 1 = b /\ b \in 1 .. L
        BY <1>10, <2>2
      <3>2. due[1] = q[(b + 1) - 1]
        BY <1>15, <3>1
      <3> QED BY <1>9, <1>15, <3>1, <3>2 DEF Met
    <2> QED BY <1>10, <2>1, <2>2
  <1>18. Met(h, due, 1) = IF macro.begin = "at" THEN pos ELSE Fwd(mem)[pos]
    <2>1. CASE macro.begin = "at"
      <3>1. b = a
        <4>1. d = 0
          BY <1>13, <2>1
        <4> QED BY <1>14, <4>1
      <3> QED BY <1>12, <1>17, <2>1, <3>1
    <2>2. CASE macro.begin # "at"
      <3>1. b = a + 1
        <4>1. d = 1
          BY <1>13, <2>2
        <4> QED BY <1>14, <4>1
      <3>2. Fwd(mem)[pos] = Met(h, q, a + 1)
        BY <1>9, <1>12 DEF RingOf
      <3> QED BY <1>17, <2>2, <3>1, <3>2
    <2> QED BY <2>1, <2>2
  <1>19. visited = <<>> /\ phase = "init" /\ Seen = 0
    BY DEF WalkInit, Seen
  <1>20. LoopInv
    <2>1. \A x \in Heads : Live(x)
      BY <1>6 DEF Live
    <2>2. pos \in Addr
      BY <1>9, <1>10, <1>12 DEF RingOf
    <2> QED BY <1>1, <1>4, <1>5, <1>6, <1>19, <2>1, <2>2 DEF LoopInv, Rings
  <1>21. DueInv
    <2>1. IsInjective(due)
      <3>1. DOMAIN due = 1 .. (L + 1) - b
        BY <1>15
      <3> SUFFICES ASSUME NEW j \in 1 .. (L + 1) - b, NEW k \in 1 .. (L + 1) - b, due[j] = due[k]
                   PROVE  j = k
        BY <3>1 DEF IsInjective
      <3>2. PICK c \in 1 .. L, e \in 1 .. L : c = (b + j) - 1 /\ e = (b + k) - 1
        BY <1>10
      <3>3. q[c] = q[e]
        BY <1>15, <3>2
      <3>4. c = e
        BY <1>7, <1>9, <3>3 DEF Ring
      <3> QED BY <3>2, <3>4
    <2>2. visited \in Seq(Nodes) /\ Seen <= Len(due) /\ \A k \in 1 .. Seen : visited[k] = due[k]
      BY <1>10, <1>15, <1>19
    <2> QED BY <1>15, <2>1, <2>2 DEF DueInv
  <1>22. CursorInv
    <2>1. Ahead(1)
      BY <1>5, <1>15, <1>16 DEF Ahead
    <2> QED BY <1>5, <1>18, <1>19, <2>1 DEF CursorInv
  <1> QED BY <1>20, <1>21, <1>22 DEF WalkInv

LEMMA WalkMeans == WalkInv => WalkVisits
  <1> SUFFICES ASSUME WalkInv PROVE WalkVisits
    OBVIOUS
  <1>1. LoopInv /\ DueInv
    BY DEF WalkInv
  <1>2. PICK L \in Nat, c \in Nat : c = Seen /\ L = Len(due) /\ c <= L
    BY <1>1, DueFacts
  <1>3. SubSeq(visited, 1, c) = SubSeq(due, 1, c)
    <2>1. \A k \in 1 .. c : visited[k] = due[k]
      BY <1>1, <1>2 DEF DueInv
    <2> QED BY <1>1, <1>2, <2>1 DEF DueInv, Seen
  <1>4. IsPrefix(visited, due)
    BY <1>2, <1>3 DEF IsPrefix, Seen
  <1>5. phase = "done" => visited = due
    <2> SUFFICES ASSUME phase = "done" PROVE visited = due
      OBVIOUS
    <2>1. c = L /\ Len(visited) = L
      BY <1>2 DEF WalkInv, CursorInv, Seen
    <2>2. \A k \in 1 .. L : visited[k] = due[k]
      BY <1>1, <1>2, <2>1 DEF DueInv
    <2> QED BY <1>1, <1>2, <2>1, <2>2, SeqEqual DEF DueInv
  <1>6. pos \in Addr
    BY <1>1 DEF LoopInv
  <1>7. phase = "test" /\ macro.safe => n \in Addr
    <2> SUFFICES ASSUME phase = "test", macro.safe PROVE n \in Addr
      OBVIOUS
    <2>1. pos = Met(head, due, c + 1) /\ Ahead(c + 1) /\ n = Fwd(mem)[pos]
      BY <1>2 DEF WalkInv, CursorInv
    <2>2. LiveIn(mem, pos)
      <3>1. CASE c + 1 \in 1 .. L
        BY <1>1, <1>2, <2>1, <3>1, DueFacts DEF Ahead
      <3>2. CASE c + 1 > L
        BY <1>1, <1>2, <2>1, <3>2, DueFacts
      <3> QED BY <1>2, <3>1, <3>2
    <2> QED BY <1>1, <1>6, <2>1, <2>2, FwdFacts DEF LoopInv, Rings
  <1>8. phase = "body" /\ macro.safe => n \in Addr
    BY <1>1, <1>2, DueFacts DEF WalkInv, CursorInv
  <1> QED BY <1>4, <1>5, <1>6, <1>7, <1>8 DEF WalkVisits

LEMMA WalkInvStep == WalkInv /\ WalkNext => WalkInv'
  BY InitExpression, TestExpression, StepExpression, AnyBody, BodyTakesNext DEF WalkNext

LEMMA WalkStutter == WalkInv /\ UNCHANGED walkVars => WalkInv'
  BY DEF WalkInv, LoopInv, Rings, WholeIn, Live, LiveIn, Memory, DueInv, CursorInv, Ahead, Met,
         Fwd, Seen, walkVars, loopVars

(* Every loop of list_head.h, forwards or backwards, from the head or from *)
(* an entry, visits each entry that is ahead once and in order, whatever   *)
(* of the permitted its body does to the list, however long it is; and the *)
(* cursor never leaves the list (list_head.h, list_for_each and variants). *)
THEOREM LoopsVisitAll == MCSpec => []LoopsVisit
  <1> DEFINE LInv == OfLoops => WalkInv
  <1>1. MCInit => LInv
    BY WalkInitInv DEF MCInit, OfStack, OfCalls, OfLoops, OfHList, OfScript
  <1>2. LInv /\ [MCNext]_<<subject, mem, hVars, loopVars, stackOnly, scriptOnly>> => LInv'
    BY WalkInvStep, WalkStutter
       DEF MCNext, OfStack, OfCalls, OfLoops, OfHList, OfScript, walkVars
  <1>3. LInv => LoopsVisit
    BY WalkMeans DEF LoopsVisit
  <1> QED BY <1>1, <1>2, <1>3, PTL DEF MCSpec

(***************************************************************************)
(* The script loader                                                       *)
(***************************************************************************)
Queue == Lists(mem)[forkqueue]
Loading == stage \in {"load", "simulate", "rejected", "crashed"}

(* What is read: the verdict on every line, and the open description.      *)
ReadInv ==
    /\ file \in Seq(FileLines) /\ opts \in Seq(Options)
    /\ stage = "options" => file = <<>>
    /\ chosen = LET named == {k \in DOMAIN opts : opts[k] \in DOMAIN Policy}
                IN  IF named = {} THEN "fifo" ELSE Policy[opts[LastOf(named)]]
    /\ StopsAtBadLine
    /\ stage = "load" => (p # NULL <=> Inside(Len(file) + 1))
    /\ Loading => \A e \in Marks("end") : Inside(e)

(* Who is where: what was not allocated is in no ring yet, and the process *)
(* that is being described is in the ring of its own list only.            *)
PlaceInv ==
    /\ Meant(mem, Lists(mem)) /\ forkqueue \in DOMAIN Lists(mem)
    /\ DOMAIN process \subseteq Nodes
    /\ \A x \in Nodes \ DOMAIN process : ~LiveIn(mem, x)
    /\ \A k \in 1 .. Len(Queue) : Queue[k] \in DOMAIN process
    /\ p # NULL => /\ p \in DOMAIN process /\ UnusedIn(mem, p)
                   /\ \A k \in 1 .. Len(Queue) : Queue[k] # p
    /\ stage = "options" => Queue = <<>> /\ p = NULL

(* What is built is what the lines say.                                    *)
BuiltInv ==
    /\ stage = "load" /\ p # NULL => process[p] = Described(Len(file) + 1)
    /\ Loading => LET ends == InOrder(Marks("end"))
                  IN  /\ Len(Queue) = Len(ends)
                      /\ \A k \in 1 .. Len(Queue) : process[Queue[k]] = Described(ends[k])

LoadInv == ReadInv /\ PlaceInv /\ BuiltInv

(***************************************************************************)
(* Sets of line numbers                                                    *)
(***************************************************************************)
(* S is a set of line numbers of a file of n0 lines.                       *)
UpTo(S, n0) == n0 \in Nat /\ S \subseteq 1 .. n0

LEMMA LastOfIs ==
    ASSUME NEW n0, NEW S, UpTo(S, n0), S # {}
    PROVE  LastOf(S) \in S /\ \A j \in S : j <= LastOf(S)
  <1> USE DEF UpTo
  <1> DEFINE T == {n0 - j : j \in S}
  <1>1. T \subseteq Nat /\ T # {}
    <2>1. \A j \in S : n0 - j \in Nat
      OBVIOUS
    <2> QED BY <2>1
  <1>2. PICK t \in T : \A u \in T : t <= u
    BY <1>1, LeastNumber
  <1>3. PICK k \in S : t = n0 - k
    BY <1>2
  <1>4. \A j \in S : n0 - j \in T /\ j \in 1 .. n0
    OBVIOUS
  <1>5. \A j \in S : j <= k
    <2> SUFFICES ASSUME NEW j \in S PROVE j <= k
      OBVIOUS
    <2>1. t <= n0 - j /\ j \in Int /\ k \in Int
      BY <1>2, <1>3, <1>4
    <2> QED BY <1>3, <2>1
  <1> QED BY <1>3, <1>5 DEF LastOf

LEMMA LastOfNext ==
    ASSUME NEW n0, NEW S, UpTo(S, n0)
    PROVE  LastOf(S \cup {n0 + 1}) = n0 + 1
  <1> USE DEF UpTo
  <1>1. \A j \in S : j < n0 + 1
    OBVIOUS
  <1>2. \A k \in S \cup {n0 + 1} :
          (\A j \in S \cup {n0 + 1} : j <= k) => k = n0 + 1
    BY <1>1
  <1>3. \A j \in S \cup {n0 + 1} : j <= n0 + 1
    BY <1>1
  <1> QED BY <1>2, <1>3 DEF LastOf

(* The rank of a number in a set stays when a greater one is added.        *)
LEMMA RankFacts ==
    ASSUME NEW n0, NEW S, UpTo(S, n0), NEW S2, S2 = S \cup {n0 + 1}
    PROVE  /\ Cardinality(S) \in Nat /\ Cardinality(S2) = Cardinality(S) + 1
           /\ \A k \in S : Rank(S, k) \in 1 .. Cardinality(S) /\ Rank(S2, k) = Rank(S, k)
           /\ Rank(S2, n0 + 1) = Cardinality(S) + 1
  <1> USE DEF UpTo
  <1>1. IsFiniteSet(S)
    BY FS_Interval, FS_Subset, 1 \in Int, n0 \in Int
  <1>2. Cardinality(S) \in Nat /\ Cardinality(S2) = Cardinality(S) + 1
    <2>1. n0 + 1 \notin S
      OBVIOUS
    <2> QED BY <1>1, <2>1, FS_AddElement, FS_CardinalityType
  <1>3. ASSUME NEW k \in S
        PROVE  Rank(S, k) \in 1 .. Cardinality(S) /\ Rank(S2, k) = Rank(S, k)
    <2> DEFINE R == {j \in S : j <= k}
    <2>1. {j \in S2 : j <= k} = R
      <3>1. \A j : j \in S2 /\ j <= k <=> j \in S /\ j <= k
        <4>1. k \in 1 .. n0 /\ ~(n0 + 1 <= k)
          OBVIOUS
        <4> QED BY <4>1
      <3> QED BY <3>1
    <2>2. R \subseteq S /\ k \in R
      OBVIOUS
    <2>3. IsFiniteSet(R) /\ Cardinality(R) \in Nat /\ Cardinality(R) <= Cardinality(S)
      BY <1>1, <2>2, FS_Subset, FS_CardinalityType
    <2>4. Cardinality(R) # 0
      BY <2>2, <2>3, FS_EmptySet
    <2>5. Rank(S, k) = Cardinality(R) /\ Rank(S2, k) = Cardinality(R)
      BY <2>1 DEF Rank
    <2> QED BY <1>2, <2>3, <2>4, <2>5
  <1>4. Rank(S2, n0 + 1) = Cardinality(S) + 1
    <2>1. \A j \in S2 : j <= n0 + 1
      OBVIOUS
    <2>2. {j \in S2 : j <= n0 + 1} = S2
      BY <2>1
    <2> QED BY <1>2, <2>2 DEF Rank
  <1> QED BY <1>2, <1>3, <1>4

(* Every rank is taken: a set of numbers up to n0, with the numbers of     *)
(* which this is wrong least, is one without n0, or with it and then wrong *)
(* before.                                                                 *)
LEMMA RanksTaken ==
    ASSUME NEW n0, NEW S, UpTo(S, n0), NEW r \in 1 .. Cardinality(S)
    PROVE  \E k \in S : Rank(S, k) = r
  <1> DEFINE Good(z) == \A U \in SUBSET (1 .. z) : \A q \in 1 .. Cardinality(U) :
                          \E k \in U : Rank(U, k) = q
             Bad == {z \in Nat : ~Good(z)}
  <1>1. SUFFICES Bad = {}
    <2>1. Good(n0)
      BY <1>1 DEF UpTo
    <2> QED BY <2>1 DEF UpTo
  <1>2. SUFFICES ASSUME Bad # {} PROVE FALSE
    OBVIOUS
  <1>3. PICK z \in Bad : \A m \in Bad : z <= m
    <2>1. Bad \subseteq Nat
      OBVIOUS
    <2> HIDE DEF Bad
    <2> QED BY <1>2, <2>1, LeastNumber
  <1>4a. PICK U \in SUBSET (1 .. z) :
            \E q \in 1 .. Cardinality(U) : \A k \in U : Rank(U, k) # q
    BY <1>3
  <1>4. PICK q \in 1 .. Cardinality(U) : \A k \in U : Rank(U, k) # q
    BY <1>4a
  <1>5. z \in Nat /\ z # 0
    <2>1. ASSUME z = 0 PROVE FALSE
      <3>1. U = {}
        BY <1>4a, <1>4, <2>1
      <3> QED BY <1>4a, <1>4, <3>1, FS_EmptySet
    <2> QED BY <1>3, <2>1
  <1>6. PICK c : c = z - 1
    OBVIOUS
  <1>7. c \in Nat /\ z = c + 1 /\ Good(c)
    <2>1. c \in Nat /\ z = c + 1 /\ ~(z <= c)
      BY <1>5, <1>6
    <2>2. c \notin Bad
      BY <1>3, <2>1
    <2> QED BY <2>1, <2>2
  <1>8. CASE z \in U
    <2>1. PICK V : V = U \ {z}
      OBVIOUS
    <2>2. V \in SUBSET (1 .. c) /\ U = V \cup {c + 1}
      BY <1>4a, <1>4, <1>7, <1>8, <2>1
    <2>3. /\ Cardinality(V) \in Nat /\ Cardinality(U) = Cardinality(V) + 1
          /\ \A k \in V : Rank(U, k) = Rank(V, k)
          /\ Rank(U, c + 1) = Cardinality(V) + 1
      <3>1. UpTo(V, c)
        BY <1>7, <2>2 DEF UpTo
      <3> QED BY <1>7, <2>2, <3>1, RankFacts
    <2>4. q \in 1 .. Cardinality(V)
      BY <1>4a, <1>4, <2>2, <2>3
    <2>5. PICK k \in V : Rank(V, k) = q
      BY <1>7, <2>2, <2>4
    <2> QED BY <1>4a, <1>4, <2>2, <2>3, <2>5
  <1>9. CASE z \notin U
    <2>1. U \in SUBSET (1 .. c)
      BY <1>4a, <1>4, <1>5, <1>7, <1>9
    <2> QED BY <1>4, <1>7, <2>1
  <1> QED BY <1>8, <1>9

LEMMA InOrderIs ==
    ASSUME NEW n0, NEW S, UpTo(S, n0)
    PROVE  InOrder(S) \in Seq(S) /\ Len(InOrder(S)) = Cardinality(S) /\ Cardinality(S) \in Nat
  <1>1. PICK N : N = Cardinality(S)
    OBVIOUS
  <1>2. N \in Nat
    BY <1>1, RankFacts
  <1>3. \A r \in 1 .. N : (CHOOSE k \in S : Rank(S, k) = r) \in S
    <2> SUFFICES ASSUME NEW r \in 1 .. N PROVE \E k \in S : Rank(S, k) = r
      OBVIOUS
    <2> QED BY <1>1, RanksTaken
  <1>4. InOrder(S) \in [1 .. N -> S]
    BY <1>1, <1>3 DEF InOrder
  <1> QED BY <1>1, <1>2, <1>4

LEMMA InOrderNext ==
    ASSUME NEW n0, NEW S, UpTo(S, n0)
    PROVE  InOrder(S \cup {n0 + 1}) = Append(InOrder(S), n0 + 1)
  <1>1. PICK S2 : S2 = S \cup {n0 + 1}
    OBVIOUS
  <1>2. PICK N : N = Cardinality(S)
    OBVIOUS
  <1>3. /\ N \in Nat /\ Cardinality(S2) = N + 1
        /\ \A k \in S : Rank(S, k) \in 1 .. N /\ Rank(S2, k) = Rank(S, k)
        /\ Rank(S2, n0 + 1) = N + 1
    <2>1. /\ Cardinality(S) \in Nat /\ Cardinality(S2) = Cardinality(S) + 1
          /\ \A k \in S : Rank(S, k) \in 1 .. Cardinality(S) /\ Rank(S2, k) = Rank(S, k)
          /\ Rank(S2, n0 + 1) = Cardinality(S) + 1
      BY <1>1, RankFacts
    <2> QED BY <1>2, <2>1
  <1>4. ASSUME NEW r \in 1 .. N
        PROVE  (CHOOSE k \in S2 : Rank(S2, k) = r) = (CHOOSE k \in S : Rank(S, k) = r)
    <2>1. ASSUME NEW k PROVE k \in S2 /\ Rank(S2, k) = r <=> k \in S /\ Rank(S, k) = r
      <3>1. r # N + 1
        BY <1>3
      <3> QED BY <1>1, <1>3, <3>1
    <2> QED BY <2>1
  <1>5. (CHOOSE k \in S2 : Rank(S2, k) = N + 1) = n0 + 1
    <2>1. \A k \in S2 : Rank(S2, k) = N + 1 <=> k = n0 + 1
      BY <1>1, <1>3
    <2> QED BY <1>1, <2>1
  <1>6. PICK s : s = InOrder(S)
    OBVIOUS
  <1>7. s \in Seq(S) /\ Len(s) = N /\ \A r \in 1 .. N : s[r] = CHOOSE k \in S : Rank(S, k) = r
    BY <1>2, <1>6, InOrderIs DEF InOrder
  <1>8. InOrder(S2) = [r \in 1 .. N + 1 |-> IF r <= N THEN s[r] ELSE n0 + 1]
    <2> DEFINE f == [r \in 1 .. N + 1 |-> CHOOSE k \in S2 : Rank(S2, k) = r]
               g == [r \in 1 .. N + 1 |-> IF r <= N THEN s[r] ELSE n0 + 1]
    <2>1. ASSUME NEW r \in 1 .. N + 1 PROVE f[r] = g[r]
      <3>1. CASE r <= N
        <4>1. r \in 1 .. N
          BY <1>3, <3>1
        <4>2. (CHOOSE k \in S2 : Rank(S2, k) = r) = s[r]
          BY <1>4, <1>7, <4>1
        <4> QED BY <3>1, <4>2
      <3>2. CASE ~(r <= N)
        <4>1. r = N + 1
          BY <1>3, <3>2
        <4> QED BY <1>5, <3>2, <4>1
      <3> QED BY <3>1, <3>2
    <2>2. f = g
      BY <2>1
    <2>3. InOrder(S2) = f
      BY <1>3 DEF InOrder
    <2> QED BY <2>2, <2>3
  <1>9. Append(s, n0 + 1) = [r \in 1 .. N + 1 |-> IF r <= N THEN s[r] ELSE n0 + 1]
    BY <1>3, <1>7
  <1> QED BY <1>1, <1>6, <1>8, <1>9

LEMMA InOrderNone == InOrder({}) = <<>>
  <1>1. Cardinality({}) = 0
    BY FS_EmptySet
  <1> QED BY <1>1 DEF InOrder

(***************************************************************************)
(* One more line                                                           *)
(***************************************************************************)
(* What the file says of its own lines is not changed by one more line.    *)
LEMMA FileGrows ==
    ASSUME file \in Seq(FileLines), NEW l \in FileLines, file' = Append(file, l), NEW L, L = Len(file)
    PROVE  /\ L \in Nat /\ file' \in Seq(FileLines) /\ Len(file') = L + 1 /\ file'[L + 1] = l
           /\ DOMAIN file = 1 .. L /\ DOMAIN file' = 1 .. L + 1
           /\ \A k \in 1 .. L : file'[k] = file[k]
  OBVIOUS

LEMMA MarksUpTo ==
    ASSUME file \in Seq(FileLines), NEW w
    PROVE  UpTo(Marks(w), Len(file))
  BY DEF Marks, UpTo

LEMMA MarksGrow ==
    ASSUME file \in Seq(FileLines), NEW l \in FileLines, file' = Append(file, l), NEW L, L = Len(file),
           NEW w
    PROVE  Marks(w)' = IF l.word = w THEN Marks(w) \cup {L + 1} ELSE Marks(w)
  <1>1. /\ L \in Nat /\ DOMAIN file = 1 .. L /\ DOMAIN file' = 1 .. L + 1
        /\ file'[L + 1] = l /\ \A k \in 1 .. L : file'[k] = file[k]
    BY FileGrows
  <1>2. ASSUME NEW k PROVE k \in Marks(w)' <=> k \in Marks(w) \/ (l.word = w /\ k = L + 1)
    <2>1. k \in Marks(w)' <=> k \in 1 .. L + 1 /\ file'[k].word = w
      BY <1>1 DEF Marks
    <2>2. k \in Marks(w) <=> k \in 1 .. L /\ file[k].word = w
      BY <1>1 DEF Marks
    <2>3. k \in 1 .. L + 1 <=> k \in 1 .. L \/ k = L + 1
      BY <1>1
    <2>4. L + 1 \notin 1 .. L
      BY <1>1
    <2> QED BY <1>1, <2>1, <2>2, <2>3, <2>4
  <1>3. CASE l.word = w
    BY <1>2, <1>3
  <1>4. CASE l.word # w
    BY <1>2, <1>4
  <1> QED BY <1>3, <1>4

(* Before a line that is no later than the new one, nothing changes.       *)
LEMMA BeforeGrows ==
    ASSUME file \in Seq(FileLines), NEW l \in FileLines, file' = Append(file, l), NEW L, L = Len(file),
           NEW w, NEW k \in 1 .. L + 1
    PROVE  {j \in Marks(w)' : j < k} = {j \in Marks(w) : j < k}
  <1>1. L \in Nat /\ Marks(w)' = IF l.word = w THEN Marks(w) \cup {L + 1} ELSE Marks(w)
    BY MarksGrow
  <1>2. ~(L + 1 < k)
    BY <1>1
  <1> QED BY <1>1, <1>2

LEMMA InsideGrows ==
    ASSUME file \in Seq(FileLines), NEW l \in FileLines, file' = Append(file, l), NEW L, L = Len(file),
           NEW k \in 1 .. L + 1
    PROVE  Inside(k)' <=> Inside(k)
  <1>1. /\ {j \in Marks("process")' : j < k} = {j \in Marks("process") : j < k}
        /\ {j \in Marks("end")' : j < k} = {j \in Marks("end") : j < k}
    BY BeforeGrows
  <1>2. \A j : j \in Marks("process")' /\ j < k <=> j \in Marks("process") /\ j < k
    BY <1>1
  <1>3. \A j : j \in Marks("end")' /\ j < k <=> j \in Marks("end") /\ j < k
    BY <1>1
  <1> QED BY <1>2, <1>3 DEF Inside

LEMMA InsideNext ==
    ASSUME file \in Seq(FileLines), NEW l \in FileLines, file' = Append(file, l), NEW L, L = Len(file)
    PROVE  Inside(L + 2)' <=> l.word = "process" \/ (l.word # "end" /\ Inside(L + 1))
  <1>1. L \in Nat
    OBVIOUS
  <1>2. /\ Marks("process")' = IF l.word = "process" THEN Marks("process") \cup {L + 1}
                               ELSE Marks("process")
        /\ Marks("end")' = IF l.word = "end" THEN Marks("end") \cup {L + 1} ELSE Marks("end")
    BY MarksGrow
  <1>3. Marks("process") \subseteq 1 .. L /\ Marks("end") \subseteq 1 .. L
    BY MarksUpTo DEF UpTo
  <1>4. CASE l.word = "process"
    <2>1. L + 1 \in Marks("process")' /\ \A e \in Marks("end")' : ~(L + 1 < e /\ e < L + 2)
      BY <1>1, <1>2, <1>3, <1>4
    <2> QED BY <1>1, <1>4, <2>1 DEF Inside
  <1>5. CASE l.word = "end"
    <2>1. \A b \in Marks("process")' : b < L + 1 /\ L + 1 < L + 2 /\ L + 1 \in Marks("end")'
      BY <1>1, <1>2, <1>3, <1>5
    <2> QED BY <1>5, <2>1 DEF Inside
  <1>6. CASE l.word \notin {"process", "end"}
    <2>1. Marks("process")' = Marks("process") /\ Marks("end")' = Marks("end")
      BY <1>2, <1>6
    <2>2. \A b \in Marks("process") : b < L + 1 /\ b < L + 2
      BY <1>1, <1>3
    <2>3. \A e \in Marks("end") : e < L + 1 /\ e < L + 2
      BY <1>1, <1>3
    <2> QED BY <1>6, <2>1, <2>2, <2>3 DEF Inside
  <1> QED BY <1>4, <1>5, <1>6

LEMMA OpenedIs ==
    ASSUME file \in Seq(FileLines), NEW L, L = Len(file), NEW k \in 1 .. L + 1, Inside(k)
    PROVE  Opened(k) \in 1 .. L /\ Opened(k) < k
  <1> DEFINE S == {j \in Marks("process") : j < k}
  <1>1. UpTo(S, L) /\ S # {}
    BY MarksUpTo DEF Inside, UpTo
  <1>2. LastOf(S) \in S
    <2> HIDE DEF S
    <2> QED BY <1>1, LastOfIs
  <1> QED BY <1>1, <1>2 DEF Opened, UpTo

(* A description that is complete stays what it is.                        *)
LEMMA DescribedGrows ==
    ASSUME file \in Seq(FileLines), NEW l \in FileLines, file' = Append(file, l), NEW L, L = Len(file),
           NEW k \in 1 .. L + 1, Inside(k)
    PROVE  Described(k)' = Described(k)
  <1>1. L \in Nat /\ \A j \in 1 .. L : file'[j] = file[j]
    BY FileGrows
  <1>2. PICK o \in 1 .. L : o = Opened(k)
    BY OpenedIs
  <1>3. Opened(k)' = o
    <2>1. {j \in Marks("process")' : j < k} = {j \in Marks("process") : j < k}
      BY BeforeGrows
    <2> QED BY <1>2, <2>1 DEF Opened
  <1>4. ASSUME NEW w PROVE Since(w, k)' = Since(w, k) /\ UpTo(Since(w, k), L)
    <2>1. {j \in Marks(w)' : j < k} = {j \in Marks(w) : j < k}
      BY BeforeGrows
    <2>2. \A j : j \in Marks(w)' /\ j < k <=> j \in Marks(w) /\ j < k
      BY <2>1
    <2>3. Since(w, k)' = Since(w, k)
      BY <1>2, <1>3, <2>2 DEF Since
    <2> QED BY <2>3, MarksUpTo DEF Since, UpTo
  <1>5. ASSUME NEW w PROVE LastValue(w, k)' = LastValue(w, k)
    <2>1. PICK S : S = Since(w, k) /\ S = Since(w, k)' /\ UpTo(S, L)
      BY <1>4
    <2>2. S # {} => LastOf(S) \in 1 .. L
      BY <2>1, LastOfIs DEF UpTo
    <2> QED BY <1>1, <2>1, <2>2 DEF LastValue
  <1>6. PICK A : A = Since("acquire", k) /\ A = Since("acquire", k)' /\ UpTo(A, L)
    BY <1>4
  <1>7. PICK s : s = InOrder(A) /\ s \in Seq(A)
    BY <1>6, InOrderIs
  <1>8. [c \in DOMAIN s |-> Request(file'[s[c]].args)] = [c \in DOMAIN s |-> Request(file[s[c]].args)]
    <2>1. \A c \in DOMAIN s : file'[s[c]] = file[s[c]]
      BY <1>1, <1>6, <1>7 DEF UpTo
    <2> QED BY <2>1
  <1> QED BY <1>1, <1>2, <1>3, <1>5, <1>6, <1>7, <1>8 DEF Described

(* A line in a description adds to what it describes.                      *)
LEMMA DescribedNext ==
    ASSUME file \in Seq(FileLines), NEW l \in FileLines, file' = Append(file, l), NEW L, L = Len(file),
           Inside(L + 1), l.word \notin {"process", "end"}
    PROVE  Described(L + 2)' =
             [pid |-> Described(L + 1).pid,
              lifespan |-> IF l.word = "lifespan" THEN l.args[1] ELSE Described(L + 1).lifespan,
              prio |-> IF l.word = "prio" THEN l.args[1] ELSE Described(L + 1).prio,
              starts_at |-> IF l.word = "start" THEN l.args[1] ELSE Described(L + 1).starts_at,
              requests |-> IF l.word = "acquire" THEN Append(Described(L + 1).requests, Request(l.args))
                           ELSE Described(L + 1).requests]
  <1>1. L \in Nat /\ file'[L + 1] = l /\ \A j \in 1 .. L : file'[j] = file[j]
    BY FileGrows
  <1>2. PICK o \in 1 .. L : o = Opened(L + 1)
    BY <1>1, OpenedIs
  <1>3. Opened(L + 2)' = o
    <2>1. Marks("process")' = Marks("process")
      BY MarksGrow
    <2>2. Marks("process") \subseteq 1 .. L
      BY MarksUpTo DEF UpTo
    <2>3. {j \in Marks("process") : j < L + 2} = {j \in Marks("process") : j < L + 1}
      BY <1>1, <2>2
    <2> QED BY <1>2, <2>1, <2>3 DEF Opened
  <1>4. ASSUME NEW w
        PROVE  /\ UpTo(Since(w, L + 1), L)
               /\ Since(w, L + 2)' = IF l.word = w THEN Since(w, L + 1) \cup {L + 1}
                                     ELSE Since(w, L + 1)
    <2>1. Marks(w)' = IF l.word = w THEN Marks(w) \cup {L + 1} ELSE Marks(w)
      BY MarksGrow
    <2>2. Marks(w) \subseteq 1 .. L
      BY MarksUpTo DEF UpTo
    <2>3. Since(w, L + 1) = {j \in Marks(w) : o < j}
      BY <1>1, <1>2, <2>2 DEF Since
    <2>4. Since(w, L + 2)' = {j \in Marks(w)' : o < j}
      BY <1>1, <1>3, <2>1, <2>2 DEF Since
    <2>5. o < L + 1
      BY <1>1, <1>2
    <2> QED BY <1>1, <2>1, <2>2, <2>3, <2>4, <2>5 DEF UpTo
  <1>5. ASSUME NEW w
        PROVE  LastValue(w, L + 2)' = IF l.word = w THEN l.args[1] ELSE LastValue(w, L + 1)
    <2>1. PICK S : S = Since(w, L + 1) /\ UpTo(S, L)
      BY <1>4
    <2>2. S # {} => LastOf(S) \in 1 .. L
      BY <2>1, LastOfIs DEF UpTo
    <2>3. CASE l.word = w
      <3>1. LastOf(S \cup {L + 1}) = L + 1
        BY <2>1, LastOfNext
      <3>2. Since(w, L + 2)' = S \cup {L + 1}
        BY <1>4, <2>1, <2>3
      <3> QED BY <1>1, <2>3, <3>1, <3>2 DEF LastValue
    <2>4. CASE l.word # w
      <3>1. Since(w, L + 2)' = S
        BY <1>4, <2>1, <2>4
      <3> QED BY <1>1, <2>1, <2>2, <2>4, <3>1 DEF LastValue
    <2> QED BY <2>3, <2>4
  <1>6. PICK A : A = Since("acquire", L + 1) /\ UpTo(A, L)
    BY <1>4
  <1>7. PICK s : s = InOrder(A) /\ s \in Seq(A) /\ DOMAIN s = 1 .. Len(s) /\ Len(s) \in Nat
    BY <1>6, InOrderIs
  <1>8. PICK q : q = [c \in DOMAIN s |-> Request(file[s[c]].args)]
    OBVIOUS
  <1>9. Described(L + 1).requests = q
    BY <1>6, <1>7, <1>8 DEF Described
  <1>10. \A c \in 1 .. Len(s) : file'[s[c]] = file[s[c]]
    BY <1>1, <1>6, <1>7 DEF UpTo
  <1>11. Described(L + 2)'.requests = IF l.word = "acquire" THEN Append(q, Request(l.args)) ELSE q
    <2>1. CASE l.word = "acquire"
      <3>1. PICK t : t = Append(s, L + 1)
        OBVIOUS
      <3>2. InOrder(Since("acquire", L + 2)') = t
        BY <1>4, <1>6, <1>7, <2>1, <3>1, InOrderNext
      <3>3. Described(L + 2)'.requests = [c \in DOMAIN t |-> Request(file'[t[c]].args)]
        BY <3>2 DEF Described
      <3>4. DOMAIN t = 1 .. Len(s) + 1 /\ t[Len(s) + 1] = L + 1 /\ \A c \in 1 .. Len(s) : t[c] = s[c]
        BY <1>7, <3>1
      <3>5. Append(q, Request(l.args)) =
              [c \in 1 .. Len(s) + 1 |-> IF c \in 1 .. Len(s) THEN q[c] ELSE Request(l.args)]
        BY <1>7, <1>8
      <3>6. ASSUME NEW c \in 1 .. Len(s) + 1
            PROVE  Request(file'[t[c]].args) = IF c \in 1 .. Len(s) THEN q[c] ELSE Request(l.args)
        <4>1. CASE c \in 1 .. Len(s)
          BY <1>7, <1>8, <1>10, <3>4, <4>1
        <4>2. CASE c \notin 1 .. Len(s)
          <5>1. c = Len(s) + 1
            BY <1>7, <4>2
          <5> QED BY <1>1, <3>4, <4>2, <5>1
        <4> QED BY <4>1, <4>2
      <3>7. [c \in 1 .. Len(s) + 1 |-> Request(file'[t[c]].args)] =
              [c \in 1 .. Len(s) + 1 |-> IF c \in 1 .. Len(s) THEN q[c] ELSE Request(l.args)]
        BY <3>6
      <3> QED BY <2>1, <3>3, <3>4, <3>5, <3>7
    <2>2. CASE l.word # "acquire"
      <3>1. InOrder(Since("acquire", L + 2)') = s
        BY <1>4, <1>6, <1>7, <2>2
      <3>2. Described(L + 2)'.requests = [c \in DOMAIN s |-> Request(file'[s[c]].args)]
        BY <3>1 DEF Described
      <3>3. [c \in DOMAIN s |-> Request(file'[s[c]].args)] = q
        BY <1>7, <1>8, <1>10
      <3> QED BY <2>2, <3>2, <3>3
    <2> QED BY <2>1, <2>2
  <1>12. file'[o] = file[o]
    BY <1>1
  <1>13. Described(L + 2)' =
           [pid |-> file'[o].args[1], lifespan |-> LastValue("lifespan", L + 2)',
            prio |-> LastValue("prio", L + 2)', starts_at |-> LastValue("start", L + 2)',
            requests |-> Described(L + 2)'.requests]
    BY <1>3 DEF Described
  <1>14. /\ Described(L + 1).pid = file[o].args[1]
         /\ Described(L + 1).lifespan = LastValue("lifespan", L + 1)
         /\ Described(L + 1).prio = LastValue("prio", L + 1)
         /\ Described(L + 1).starts_at = LastValue("start", L + 1)
    BY <1>2 DEF Described
  <1> QED BY <1>5, <1>9, <1>11, <1>12, <1>13, <1>14

(* A line "process" describes nothing yet.                                 *)
LEMMA DescribedFresh ==
    ASSUME file \in Seq(FileLines), NEW l \in FileLines, file' = Append(file, l), NEW L, L = Len(file),
           l.word = "process"
    PROVE  Described(L + 2)' = Blank(l.args[1])
  <1>1. L \in Nat /\ file'[L + 1] = l
    BY FileGrows
  <1>2. Opened(L + 2)' = L + 1
    <2>1. UpTo(Marks("process"), L) /\ Marks("process")' = Marks("process") \cup {L + 1}
      BY MarksUpTo, MarksGrow
    <2>2. {j \in Marks("process")' : j < L + 2} = Marks("process") \cup {L + 1}
      BY <1>1, <2>1 DEF UpTo
    <2>3. LastOf(Marks("process") \cup {L + 1}) = L + 1
      BY <2>1, LastOfNext
    <2> QED BY <2>2, <2>3 DEF Opened
  <1>3. ASSUME NEW w PROVE Since(w, L + 2)' = {}
    <2>1. \A j : ~(L + 1 < j /\ j < L + 2 /\ j \in Marks(w)')
      <3>1. Marks(w)' \subseteq 1 .. L + 1
        BY <1>1, FileGrows DEF Marks
      <3> QED BY <1>1, <3>1
    <2> QED BY <1>2, <2>1 DEF Since
  <1>4. \A w : LastValue(w, L + 2)' = 0
    BY <1>3 DEF LastValue
  <1>5. Described(L + 2)'.requests = <<>>
    <2>1. InOrder(Since("acquire", L + 2)') = <<>>
      BY <1>3, InOrderNone
    <2>2. PICK s : s = <<>>
      OBVIOUS
    <2>3. Described(L + 2)'.requests = [c \in DOMAIN s |-> Request(file'[s[c]].args)]
      BY <2>1, <2>2 DEF Described
    <2> QED BY <2>2, <2>3
  <1>6. Described(L + 2)' =
           [pid |-> file'[L + 1].args[1], lifespan |-> LastValue("lifespan", L + 2)',
            prio |-> LastValue("prio", L + 2)', starts_at |-> LastValue("start", L + 2)',
            requests |-> Described(L + 2)'.requests]
    BY <1>2 DEF Described
  <1> QED BY <1>1, <1>4, <1>5, <1>6 DEF Blank

(***************************************************************************)
(* The memory of the loader                                                *)
(***************************************************************************)
LEMMA QueueFacts ==
    ASSUME PlaceInv
    PROVE  /\ forkqueue \in Addr /\ forkqueue \notin Nodes /\ LiveIn(mem, forkqueue)
           /\ Queue \in Seq(Nodes) /\ Queue = Follow(mem.next, forkqueue)
           /\ WholeIn(mem) /\ Queue = Lists(mem)[forkqueue]
           /\ p # NULL => p \in Nodes
  <1>1. PICK S : S = Lists(mem) /\ Meant(mem, S) /\ forkqueue \in DOMAIN S
    BY DEF PlaceInv
  <1>2. forkqueue \in Heads /\ LiveIn(mem, forkqueue) /\ S[forkqueue] \in Seq(Nodes)
    BY <1>1 DEF Meant, Shows
  <1>3. S[forkqueue] = Follow(mem.next, forkqueue)
    BY <1>1, <1>2 DEF Lists
  <1> QED BY <1>1, <1>2, <1>3 DEF Queue, Addr, Meant, PlaceInv

LEMMA QueueTail ==
    ASSUME PlaceInv, p # NULL, NEW m, m = list_add_tail(mem, p, forkqueue)
    PROVE  /\ Meant(m, Lists(m)) /\ forkqueue \in DOMAIN Lists(m)
           /\ Lists(m)[forkqueue] = Append(Queue, p)
           /\ \A x \in Nodes \ {p} : ~LiveIn(mem, x) => ~LiveIn(m, x)
  <1>1. PICK S : S = Lists(mem) /\ Meant(mem, S) /\ forkqueue \in DOMAIN S
    BY DEF PlaceInv
  <1>2. /\ forkqueue \in Addr /\ forkqueue \notin Nodes /\ LiveIn(mem, forkqueue)
        /\ S[forkqueue] \in Seq(Nodes) /\ S[forkqueue] = Queue /\ WholeIn(mem)
        /\ p \in Nodes /\ p \in Addr /\ UnusedIn(mem, p)
    BY <1>1, QueueFacts DEF PlaceInv, Addr
  <1>3. PICK T : T = PutBefore(S, forkqueue, <<p>>)
    OBVIOUS
  <1>4. Meant(m, T)
    BY <1>1, <1>2, <1>3, AddMeant
  <1>5. Lists(m) = T
    BY <1>4, MeantLists
  <1>6. T[forkqueue] = Append(Queue, p) /\ forkqueue \in DOMAIN T
    <2>1. PICK q : q = Queue
      OBVIOUS
    <2>2. T[forkqueue] = q \o <<p>> /\ forkqueue \in DOMAIN T
      <3>1. forkqueue \notin ToSet(S[forkqueue])
        BY <1>2 DEF ToSet
      <3> QED BY <1>1, <1>2, <1>3, <2>1, <3>1 DEF PutBefore
    <2>3. q \o <<p>> = Append(q, p)
      BY <1>2, <2>1
    <2> QED BY <2>1, <2>2, <2>3
  <1>7. PICK pv \in Addr : pv = mem.prev[forkqueue] /\ LiveIn(mem, pv) /\ mem.next[pv] = forkqueue
    BY <1>2, Neighbours
  <1>8. p # pv
    BY <1>2, <1>7 DEF UnusedIn
  <1>9. NoneNew(mem, m, p)
    <2>1. m = AddBetween(mem, p, pv, forkqueue)
      BY <1>7 DEF list_add_tail
    <2> QED BY <1>2, <1>7, <1>8, <2>1, AddBetweenWhole
  <1>10. \A x \in Nodes \ {p} : ~LiveIn(mem, x) => ~LiveIn(m, x)
    BY <1>9 DEF NoneNew, Addr
  <1> QED BY <1>4, <1>5, <1>6, <1>10

LEMMA FreshHead ==
    ASSUME PlaceInv, NEW new \in Nodes \ DOMAIN process, NEW m, m = INIT_LIST_HEAD(mem, new)
    PROVE  /\ Meant(m, Lists(m)) /\ Lists(m) = Lists(mem) /\ UnusedIn(m, new)
           /\ \A x \in Nodes \ {new} : ~LiveIn(mem, x) => ~LiveIn(m, x)
  <1>1. PICK S : S = Lists(mem) /\ Meant(mem, S)
    BY DEF PlaceInv
  <1>2. WholeIn(mem) /\ mem \in Memory /\ new \in Addr /\ UnusedIn(mem, new)
    BY <1>1 DEF Meant, WholeIn, PlaceInv, Addr, UnusedIn
  <1>3. WholeIn(m) /\ UnusedIn(m, new) /\ Kept(mem, m, new) /\ NoneNew(mem, m, new)
    BY <1>2, InitWhole
  <1>4. \A y \in Addr \ {new} : m.next[y] = mem.next[y]
    BY <1>2 DEF INIT_LIST_HEAD, Memory
  <1>5. Meant(m, S)
    BY <1>1, <1>2, <1>3, <1>4, IsolateMeant
  <1>6. Lists(m) = S
    BY <1>5, MeantLists
  <1>7. \A x \in Nodes \ {new} : ~LiveIn(mem, x) => ~LiveIn(m, x)
    BY <1>3 DEF NoneNew, Addr
  <1> QED BY <1>1, <1>3, <1>5, <1>6, <1>7

LEMMA EmptyQueue ==
    ASSUME PlaceInv, Queue = <<>>, NEW m, m = INIT_LIST_HEAD(mem, forkqueue)
    PROVE  /\ Meant(m, Lists(m)) /\ forkqueue \in DOMAIN Lists(m) /\ Lists(m)[forkqueue] = <<>>
           /\ \A x \in Nodes : ~LiveIn(mem, x) => ~LiveIn(m, x)
  <1>1. PICK S : S = Lists(mem) /\ Meant(mem, S) /\ forkqueue \in DOMAIN S
    BY DEF PlaceInv
  <1>2. /\ forkqueue \in Addr /\ forkqueue \notin Nodes /\ WholeIn(mem) /\ S[forkqueue] = <<>>
        /\ forkqueue \in Heads
    BY <1>1, QueueFacts DEF Addr
  <1>3. UnusedIn(mem, forkqueue)
    <2>1. list_empty(mem, forkqueue)
      <3>1. AskIs(mem, S, forkqueue)
        BY <1>1, AskMeant
      <3> QED BY <1>2, <3>1 DEF AskIs
    <2> QED BY <2>1 DEF list_empty, UnusedIn
  <1>4. PICK T : T = WithHead(S, forkqueue, <<>>)
    OBVIOUS
  <1>5. Meant(m, T)
    BY <1>1, <1>2, <1>3, <1>4, InitHeadMeant
  <1>6. Lists(m) = T
    BY <1>5, MeantLists
  <1>7. forkqueue \in DOMAIN T /\ T[forkqueue] = <<>>
    BY <1>4 DEF WithHead
  <1>8. NoneNew(mem, m, forkqueue)
    BY <1>2, <1>3, InitWhole
  <1>9. \A x \in Nodes : ~LiveIn(mem, x) => ~LiveIn(m, x)
    BY <1>2, <1>8 DEF NoneNew, Addr
  <1> QED BY <1>5, <1>6, <1>7, <1>9

LEMMA LoadInitInv == LoadInit => LoadInv
  <1> SUFFICES ASSUME LoadInit PROVE LoadInv
    OBVIOUS
  <1>1. Init
    BY DEF Init, LoadInit
  <1>2. PICK S : Meant(mem, S)
    BY <1>1, InitListsMeant
  <1>3. Lists(mem) = S /\ forkqueue \in Heads
    BY <1>2, MeantLists, LoadAssumption
  <1>4. /\ LiveIn(mem, forkqueue) /\ mem.next[forkqueue] = forkqueue
        /\ \A x \in Nodes : ~LiveIn(mem, x)
    BY <1>1, <1>3 DEF Init, LiveIn, Addr
  <1>5. forkqueue \in DOMAIN S
    BY <1>2, <1>3, <1>4 DEF Meant
  <1>6. S[forkqueue] = <<>>
    BY <1>2, <1>4, <1>5, AskMeant DEF AskIs, list_empty
  <1>7. file = <<>> /\ opts = <<>> /\ stage = "options" /\ p = NULL /\ process = << >> /\ chosen = "fifo"
    BY DEF LoadInit
  <1>8. ReadInv
    <2>1. {k \in DOMAIN opts : opts[k] \in DOMAIN Policy} = {}
      BY <1>7
    <2> QED BY <1>7, <2>1 DEF ReadInv, StopsAtBadLine, Loading
  <1>9. PlaceInv
    BY <1>2, <1>3, <1>4, <1>5, <1>6, <1>7 DEF PlaceInv, Queue
  <1>10. BuiltInv
    BY <1>7 DEF BuiltInv, Loading
  <1> QED BY <1>8, <1>9, <1>10 DEF LoadInv

(***************************************************************************)
(* What a line does                                                        *)
(***************************************************************************)
(* What a line that is taken does to the open description.                 *)
PropertySet(l) ==
    /\ p # NULL /\ UNCHANGED <<mem, p>>
    /\ \/ l.word = "lifespan" /\ process' = [process EXCEPT ![p] = [@ EXCEPT !.lifespan = l.args[1]]]
       \/ l.word = "prio" /\ process' = [process EXCEPT ![p] = [@ EXCEPT !.prio = l.args[1]]]
       \/ l.word = "start" /\ process' = [process EXCEPT ![p] = [@ EXCEPT !.starts_at = l.args[1]]]
       \/ /\ l.word = "acquire"
          /\ process' = [process EXCEPT ![p] =
               [@ EXCEPT !.requests = Append(process[p].requests, Request(l.args))]]

Opens(l) == \E new \in Nodes \ DOMAIN process :
    /\ p' = new /\ mem' = INIT_LIST_HEAD(mem, new)
    /\ process' = [x \in DOMAIN process \cup {new} |-> IF x = new THEN Blank(l.args[1]) ELSE process[x]]

LineTaken(l) ==
    \/ l.word = "" /\ UNCHANGED <<mem, p, process>>
    \/ l.word = "process" /\ Opens(l)
    \/ /\ l.word = "end" /\ p # NULL /\ mem' = list_add_tail(mem, p, forkqueue)
       /\ p' = NULL /\ UNCHANGED process
    \/ PropertySet(l)

(* The verdict on the line that is read.                                   *)
LEMMA VerdictNext ==
    ASSUME file \in Seq(FileLines), NEW l \in FileLines, file' = Append(file, l), NEW L, L = Len(file)
    PROVE  Verdict(L + 1)' =
             IF (l.word \in DOMAIN Arity /\ Len(l.args) # Arity[l.word])
                \/ (l.word = "end" /\ ~Inside(L + 1)) THEN "aborted"
             ELSE IF l.word \in DOMAIN Arity \ {"process"} /\ ~Inside(L + 1) THEN "crashed"
             ELSE IF l.word = "unknown" THEN "rejected" ELSE "load"
  <1>1. L \in Nat /\ file'[L + 1] = l
    BY FileGrows
  <1>2. Inside(L + 1)' <=> Inside(L + 1)
    BY <1>1, InsideGrows
  <1> QED BY <1>1, <1>2 DEF Verdict

LEMMA LineRead ==
    ASSUME ReadInv, ReadLine, NEW L, L = Len(file)
    PROVE  \E l \in FileLines :
             /\ stage = "load" /\ file' = Append(file, l) /\ UNCHANGED <<chosen, opts>>
             /\ \/ Verdict(L + 1)' = "load" /\ stage' = "load" /\ LineTaken(l)
                \/ \E how \in {"aborted", "crashed", "rejected"} :
                     /\ Verdict(L + 1)' = how /\ stage' = how /\ UNCHANGED <<mem, p, process>>
                     /\ how # "aborted" => l.word # "end"
  <1>1. PICK l \in FileLines :
          /\ stage = "load" /\ file' = Append(file, l) /\ UNCHANGED <<chosen, opts>>
          /\ \/ l.word = "" /\ UNCHANGED <<mem, p, process, stage>>
             \/ l.word = "process" /\ ProcessLine(l.args)
             \/ l.word = "end" /\ EndLine
             \/ l.word = "lifespan" /\ PropertyLine(1, LAMBDA d : [d EXCEPT !.lifespan = l.args[1]])
             \/ l.word = "prio" /\ PropertyLine(1, LAMBDA d : [d EXCEPT !.prio = l.args[1]])
             \/ l.word = "start" /\ PropertyLine(1, LAMBDA d : [d EXCEPT !.starts_at = l.args[1]])
             \/ l.word = "acquire" /\ PropertyLine(3, LAMBDA d :
                  [d EXCEPT !.requests = Append(@, Request(l.args))])
             \/ l.word = "unknown" /\ Fails("rejected")
    BY DEF ReadLine
  <1>1a. stage = "load" /\ file' = Append(file, l) /\ UNCHANGED <<chosen, opts>>
    BY <1>1
  <1>2. file \in Seq(FileLines) /\ L \in Nat /\ (p # NULL <=> Inside(L + 1))
    BY <1>1a DEF ReadInv
  <1>3. PICK v : v = Verdict(L + 1)'
    OBVIOUS
  <1>4. v = IF (l.word \in DOMAIN Arity /\ Len(l.args) # Arity[l.word])
               \/ (l.word = "end" /\ p = NULL) THEN "aborted"
            ELSE IF l.word \in DOMAIN Arity \ {"process"} /\ p = NULL THEN "crashed"
            ELSE IF l.word = "unknown" THEN "rejected" ELSE "load"
    BY <1>1a, <1>2, <1>3, VerdictNext
  <1>5. /\ DOMAIN Arity = {"process", "lifespan", "prio", "start", "acquire"}
        /\ Arity["process"] = 1 /\ Arity["lifespan"] = 1 /\ Arity["prio"] = 1
        /\ Arity["start"] = 1 /\ Arity["acquire"] = 3
    BY DEF Arity
  <1>6. file'[Len(file')] = l
    BY <1>1a, <1>2
  <1>7. SUFFICES \/ v = "load" /\ stage' = "load" /\ LineTaken(l)
                 \/ \E how \in {"aborted", "crashed", "rejected"} :
                      /\ v = how /\ stage' = how /\ UNCHANGED <<mem, p, process>>
                      /\ how # "aborted" => l.word # "end"
    BY <1>1a, <1>3
  <1>8. CASE l.word = "" /\ UNCHANGED <<mem, p, process, stage>>
    BY <1>1a, <1>4, <1>5, <1>8 DEF LineTaken
  <1>9. CASE l.word = "process" /\ ProcessLine(l.args)
    <2>1. CASE Len(l.args) # 1
      BY <1>4, <1>5, <1>9, <2>1 DEF ProcessLine, Fails
    <2>2. CASE Len(l.args) = 1
      BY <1>1a, <1>4, <1>5, <1>9, <2>2 DEF ProcessLine, LineTaken, Opens
    <2> QED BY <2>1, <2>2
  <1>10. CASE l.word = "end" /\ EndLine
    <2>1. CASE p = NULL
      BY <1>4, <1>5, <1>10, <2>1 DEF EndLine, Fails
    <2>2. CASE p # NULL
      BY <1>1a, <1>4, <1>5, <1>10, <2>2 DEF EndLine, LineTaken
    <2> QED BY <2>1, <2>2
  <1>11. CASE l.word = "lifespan" /\ PropertyLine(1, LAMBDA d : [d EXCEPT !.lifespan = l.args[1]])
    <2>1. CASE Len(l.args) # 1 \/ p = NULL
      BY <1>4, <1>5, <1>6, <1>11, <2>1 DEF PropertyLine, Fails
    <2>2. CASE Len(l.args) = 1 /\ p # NULL
      BY <1>1a, <1>4, <1>5, <1>6, <1>11, <2>2 DEF PropertyLine, LineTaken, PropertySet
    <2> QED BY <2>1, <2>2
  <1>12. CASE l.word = "prio" /\ PropertyLine(1, LAMBDA d : [d EXCEPT !.prio = l.args[1]])
    <2>1. CASE Len(l.args) # 1 \/ p = NULL
      BY <1>4, <1>5, <1>6, <1>12, <2>1 DEF PropertyLine, Fails
    <2>2. CASE Len(l.args) = 1 /\ p # NULL
      BY <1>1a, <1>4, <1>5, <1>6, <1>12, <2>2 DEF PropertyLine, LineTaken, PropertySet
    <2> QED BY <2>1, <2>2
  <1>13. CASE l.word = "start" /\ PropertyLine(1, LAMBDA d : [d EXCEPT !.starts_at = l.args[1]])
    <2>1. CASE Len(l.args) # 1 \/ p = NULL
      BY <1>4, <1>5, <1>6, <1>13, <2>1 DEF PropertyLine, Fails
    <2>2. CASE Len(l.args) = 1 /\ p # NULL
      BY <1>1a, <1>4, <1>5, <1>6, <1>13, <2>2 DEF PropertyLine, LineTaken, PropertySet
    <2> QED BY <2>1, <2>2
  <1>14. CASE l.word = "acquire" /\ PropertyLine(3, LAMBDA d :
                [d EXCEPT !.requests = Append(@, Request(l.args))])
    <2>1. CASE Len(l.args) # 3 \/ p = NULL
      BY <1>4, <1>5, <1>6, <1>14, <2>1 DEF PropertyLine, Fails
    <2>2. CASE Len(l.args) = 3 /\ p # NULL
      <3>1. /\ UNCHANGED <<mem, p, stage>>
            /\ process' = [process EXCEPT ![p] =
               [@ EXCEPT !.requests = Append(process[p].requests, Request(l.args))]]
        BY <1>6, <1>14, <2>2 DEF PropertyLine
      <3>2. PropertySet(l)
        BY <1>14, <2>2, <3>1 DEF PropertySet
      <3> QED BY <1>1a, <1>4, <1>5, <1>14, <2>2, <3>1, <3>2 DEF LineTaken
    <2> QED BY <2>1, <2>2
  <1>15. CASE l.word = "unknown" /\ Fails("rejected")
    BY <1>4, <1>5, <1>15 DEF Fails
  <1> QED BY <1>1, <1>8, <1>9, <1>10, <1>11, <1>12, <1>13, <1>14, <1>15

(* The verdicts on the lines before stand.                                 *)
LEMMA StopsStep ==
    ASSUME ReadInv, stage = "load", NEW l \in FileLines, file' = Append(file, l), NEW L, L = Len(file),
           stage' = Verdict(L + 1)'
    PROVE  StopsAtBadLine'
  <1>1. /\ L \in Nat /\ file \in Seq(FileLines) /\ DOMAIN file = 1 .. L /\ DOMAIN file' = 1 .. L + 1
        /\ Len(file') = L + 1 /\ \A k \in 1 .. L : file'[k] = file[k]
    BY FileGrows DEF ReadInv
  <1>2. ASSUME NEW k \in 1 .. L PROVE Verdict(k) = "load"
    <2>1. {j \in DOMAIN file : Verdict(j) # "load"} = {}
      <3>1. StopsAtBadLine
        BY DEF ReadInv
      <3> DEFINE bad == {j \in DOMAIN file : Verdict(j) # "load"}
      <3>2. bad # {} => bad = {L} /\ Verdict(L) = "load"
        BY <3>1 DEF StopsAtBadLine
      <3> QED BY <3>2
    <2> QED BY <1>1, <2>1
  <1>3. ASSUME NEW k \in 1 .. L PROVE Verdict(k)' = "load"
    <2>1. Inside(k)' <=> Inside(k)
      <3>1. k \in 1 .. L + 1
        BY <1>1
      <3> QED BY <1>1, <3>1, InsideGrows
    <2>2. Verdict(k)' = Verdict(k)
      BY <1>1, <2>1 DEF Verdict
    <2> QED BY <1>2, <2>2
  <1>4. PICK v : v = Verdict(L + 1)' /\ v = stage'
    OBVIOUS
  <1> DEFINE bad2 == {k \in DOMAIN file' : Verdict(k)' # "load"}
  <1>5. v = "load" => bad2 = {}
    BY <1>1, <1>3, <1>4
  <1>6. v # "load" => bad2 = {L + 1}
    <2>1. \A k \in 1 .. L + 1 : k = L + 1 \/ k \in 1 .. L
      BY <1>1
    <2>2. L + 1 \in 1 .. L + 1
      BY <1>1
    <2> QED BY <1>1, <1>3, <1>4, <2>1, <2>2
  <1> QED BY <1>1, <1>4, <1>5, <1>6 DEF StopsAtBadLine

(* The ends of a script stand inside of descriptions, which stay as they   *)
(* are.                                                                    *)
LEMMA EndsStay ==
    ASSUME ReadInv, Loading, NEW l \in FileLines, file' = Append(file, l), NEW L, L = Len(file),
           NEW s, s = InOrder(Marks("end"))
    PROVE  /\ s \in Seq(Nat)
           /\ \A k \in 1 .. Len(s) : Described(s[k])' = Described(s[k])
           /\ l.word # "end" => InOrder(Marks("end"))' = s
           /\ l.word = "end" => InOrder(Marks("end"))' = Append(s, L + 1)
           /\ l.word # "end" \/ Inside(L + 1) => (\A e \in Marks("end") : Inside(e))'
  <1>1. L \in Nat /\ file \in Seq(FileLines)
    BY DEF ReadInv
  <1>2. PICK E : E = Marks("end") /\ UpTo(E, L)
    BY <1>1, MarksUpTo
  <1>3. s = InOrder(E) /\ s \in Seq(E)
    BY <1>2, InOrderIs
  <1>4. Marks("end")' = IF l.word = "end" THEN E \cup {L + 1} ELSE E
    BY <1>1, <1>2, MarksGrow
  <1>5. s \in Seq(Nat)
    BY <1>2, <1>3 DEF UpTo
  <1>6. ASSUME NEW k \in 1 .. Len(s) PROVE Described(s[k])' = Described(s[k])
    <2>1. s[k] \in E /\ s[k] \in 1 .. L + 1
      BY <1>1, <1>2, <1>3 DEF UpTo
    <2>2. Inside(s[k])
      BY <1>2, <2>1 DEF ReadInv
    <2> QED BY <1>1, <2>1, <2>2, DescribedGrows
  <1>7. /\ l.word # "end" => InOrder(Marks("end"))' = s
        /\ l.word = "end" => InOrder(Marks("end"))' = Append(s, L + 1)
    BY <1>2, <1>3, <1>4, InOrderNext
  <1>8. ASSUME l.word # "end" \/ Inside(L + 1), NEW e \in Marks("end")' PROVE Inside(e)'
    <2>1. e \in 1 .. L + 1 /\ Inside(e)
      <3>1. CASE e \in E
        BY <1>1, <1>2, <3>1 DEF ReadInv, UpTo
      <3>2. CASE e \notin E
        BY <1>1, <1>4, <1>8, <3>2
      <3> QED BY <3>1, <3>2
    <2> QED BY <1>1, <2>1, InsideGrows
  <1>9. l.word # "end" \/ Inside(L + 1) => (\A e \in Marks("end") : Inside(e))'
    BY <1>8
  <1> QED BY <1>2, <1>3, <1>5, <1>6, <1>7, <1>9

LEMMA ReadStep ==
    ASSUME ReadInv, ReadLine
    PROVE  ReadInv'
  <1>1. PICK L : L = Len(file)
    OBVIOUS
  <1>2. PICK l \in FileLines :
             /\ stage = "load" /\ file' = Append(file, l) /\ UNCHANGED <<chosen, opts>>
             /\ \/ Verdict(L + 1)' = "load" /\ stage' = "load" /\ LineTaken(l)
                \/ \E how \in {"aborted", "crashed", "rejected"} :
                     /\ Verdict(L + 1)' = how /\ stage' = how /\ UNCHANGED <<mem, p, process>>
                     /\ how # "aborted" => l.word # "end"
    BY <1>1, LineRead
  <1>3. /\ file \in Seq(FileLines) /\ L \in Nat /\ file' \in Seq(FileLines) /\ Len(file') = L + 1
        /\ (p # NULL <=> Inside(L + 1)) /\ stage' # "options" /\ stage' = Verdict(L + 1)'
    BY <1>1, <1>2 DEF ReadInv
  <1>4. StopsAtBadLine'
    BY <1>1, <1>2, <1>3, StopsStep
  <1>5. stage' = "load" => (p' # NULL <=> Inside(L + 2)')
    <2> SUFFICES ASSUME stage' = "load" PROVE p' # NULL <=> Inside(L + 2)'
      OBVIOUS
    <2>1. LineTaken(l)
      BY <1>2
    <2>2. Inside(L + 2)' <=> l.word = "process" \/ (l.word # "end" /\ p # NULL)
      BY <1>1, <1>2, <1>3, InsideNext
    <2>3. l.word = "process" => p' # NULL
      <3>1. NULL \notin Nodes
        BY DEF Addr
      <3> QED BY <2>1, <3>1 DEF LineTaken, Opens, PropertySet
    <2>4. l.word = "end" => p' = NULL
      BY <2>1 DEF LineTaken, PropertySet
    <2>5. l.word \notin {"process", "end"} => p' = p
      BY <2>1 DEF LineTaken, PropertySet
    <2> QED BY <2>2, <2>3, <2>4, <2>5
  <1>6. Loading' => (\A e \in Marks("end") : Inside(e))'
    <2> SUFFICES ASSUME Loading' PROVE (\A e \in Marks("end") : Inside(e))'
      OBVIOUS
    <2>1. l.word # "end" \/ Inside(L + 1)
      BY <1>2, <1>3 DEF Loading, LineTaken, PropertySet
    <2>2. Loading
      BY <1>2 DEF Loading
    <2>3. PICK s : s = InOrder(Marks("end"))
      OBVIOUS
    <2> QED BY <1>1, <1>2, <2>1, <2>2, <2>3, EndsStay
  <1>7. L + 2 = Len(file') + 1
    BY <1>3
  <1> QED BY <1>2, <1>3, <1>4, <1>5, <1>6, <1>7 DEF ReadInv

LEMMA PlaceStep ==
    ASSUME ReadInv, PlaceInv, ReadLine
    PROVE  PlaceInv'
  <1>1. PICK L : L = Len(file)
    OBVIOUS
  <1>2. PICK l \in FileLines :
             /\ stage = "load" /\ stage' # "options"
             /\ LineTaken(l) \/ UNCHANGED <<mem, p, process>>
    BY <1>1, LineRead
  <1>3. Queue \in Seq(Nodes) /\ (p # NULL => p \in Nodes) /\ NULL \notin Nodes
    BY QueueFacts DEF Addr
  <1>4. CASE UNCHANGED <<mem, p, process>>
    <2>1. Lists(mem)' = Lists(mem) /\ Queue' = Queue
      BY <1>4 DEF Queue
    <2> QED BY <1>2, <1>4, <2>1 DEF PlaceInv
  <1>5. CASE Opens(l)
    <2>1. PICK new \in Nodes \ DOMAIN process :
            /\ p' = new /\ mem' = INIT_LIST_HEAD(mem, new)
            /\ process' = [x \in DOMAIN process \cup {new} |->
                             IF x = new THEN Blank(l.args[1]) ELSE process[x]]
      BY <1>5 DEF Opens
    <2>2. /\ Meant(mem', Lists(mem')) /\ Lists(mem') = Lists(mem) /\ UnusedIn(mem', new)
          /\ \A x \in Nodes \ {new} : ~LiveIn(mem, x) => ~LiveIn(mem', x)
      BY <2>1, FreshHead
    <2>3. DOMAIN process' = DOMAIN process \cup {new}
      BY <2>1
    <2>4. Queue' = Queue
      BY <2>2 DEF Queue
    <2> QED BY <1>2, <2>1, <2>2, <2>3, <2>4 DEF PlaceInv
  <1>6. CASE p # NULL /\ mem' = list_add_tail(mem, p, forkqueue) /\ p' = NULL /\ UNCHANGED process
    <2>1. /\ Meant(mem', Lists(mem')) /\ forkqueue \in DOMAIN Lists(mem')
          /\ Lists(mem')[forkqueue] = Append(Queue, p)
          /\ \A x \in Nodes \ {p} : ~LiveIn(mem, x) => ~LiveIn(mem', x)
      BY <1>6, QueueTail
    <2>2. Queue' = Append(Queue, p)
      BY <2>1 DEF Queue
    <2>3. p \in DOMAIN process
      BY <1>6 DEF PlaceInv
    <2>4. \A k \in 1 .. Len(Queue') : Queue'[k] \in DOMAIN process
      <3>1. PICK q : q = Queue
        OBVIOUS
      <3>2. q \in Seq(Nodes) /\ \A k \in 1 .. Len(q) : q[k] \in DOMAIN process
        BY <1>3, <3>1 DEF PlaceInv
      <3>3. \A k \in 1 .. Len(Append(q, p)) : Append(q, p)[k] \in DOMAIN process
        BY <2>3, <3>2
      <3> QED BY <2>2, <3>1, <3>3
    <2> QED BY <1>2, <1>6, <2>1, <2>3, <2>4 DEF PlaceInv
  <1>7. CASE PropertySet(l)
    <2>1. DOMAIN process' = DOMAIN process /\ UNCHANGED <<mem, p>>
      BY <1>7 DEF PropertySet
    <2>2. Lists(mem)' = Lists(mem) /\ Queue' = Queue
      BY <2>1 DEF Queue
    <2> QED BY <1>2, <2>1, <2>2 DEF PlaceInv
  <1> QED BY <1>2, <1>4, <1>5, <1>6, <1>7 DEF LineTaken

LEMMA BuiltStep ==
    ASSUME LoadInv, ReadLine
    PROVE  BuiltInv'
  <1> USE DEF LoadInv
  <1>1. PICK L : L = Len(file)
    OBVIOUS
  <1>2. PICK l \in FileLines :
             /\ stage = "load" /\ file' = Append(file, l)
             /\ \/ stage' = "load" /\ LineTaken(l)
                \/ /\ stage' \in {"aborted", "crashed", "rejected"} /\ UNCHANGED <<mem, p, process>>
                   /\ stage' # "aborted" => l.word # "end"
    BY <1>1, LineRead
  <1>3. PICK q : q = Queue /\ q \in Seq(Nodes) /\ Len(q) \in Nat
    BY QueueFacts
  <1>4. PICK s : s = InOrder(Marks("end"))
    OBVIOUS
  <1>5. /\ s \in Seq(Nat) /\ Len(q) = Len(s)
        /\ \A k \in 1 .. Len(q) : process[q[k]] = Described(s[k]) /\ Described(s[k])' = process[q[k]]
        /\ l.word # "end" => InOrder(Marks("end"))' = s
        /\ l.word = "end" => InOrder(Marks("end"))' = Append(s, L + 1)
    <2>1. Loading
      BY <1>2 DEF Loading
    <2> QED BY <1>1, <1>2, <1>3, <1>4, <2>1, EndsStay DEF BuiltInv
  <1>6. /\ file \in Seq(FileLines) /\ L \in Nat /\ Len(file') = L + 1
        /\ (p # NULL <=> Inside(L + 1)) /\ (p # NULL => process[p] = Described(L + 1))
    BY <1>1, <1>2 DEF ReadInv, BuiltInv
  <1>7. /\ Len(file') + 1 = L + 2
        /\ \A k \in 1 .. Len(q) : q[k] \in DOMAIN process
        /\ p # NULL => p \in DOMAIN process /\ \A k \in 1 .. Len(q) : q[k] # p
    BY <1>3, <1>6 DEF PlaceInv
  (* The queue and the ends stay what they are, and so do the processes.   *)
  <1>8. ASSUME Queue' = q, l.word # "end", \A k \in 1 .. Len(q) : process'[q[k]] = process[q[k]]
        PROVE  (LET ends == InOrder(Marks("end"))
                IN  /\ Len(Queue) = Len(ends)
                    /\ \A k \in 1 .. Len(Queue) : process[Queue[k]] = Described(ends[k]))'
    <2>1. InOrder(Marks("end"))' = s
      BY <1>5, <1>8
    <2>2. \A k \in 1 .. Len(q) : process'[q[k]] = Described(s[k])'
      BY <1>5, <1>8
    <2> QED BY <1>5, <1>8, <2>1, <2>2
  <1>9. CASE UNCHANGED <<mem, p, process>> /\ stage' # "load" /\ (Loading' => l.word # "end")
    <2>1. Queue' = q
      BY <1>3, <1>9 DEF Queue
    <2> QED BY <1>8, <1>9, <2>1 DEF BuiltInv
  <1>10. CASE stage' = "load" /\ l.word = "" /\ UNCHANGED <<mem, p, process>>
    <2>1. Queue' = q
      BY <1>3, <1>10 DEF Queue
    <2>2. p # NULL => Described(L + 2)' = process[p]
      <3> SUFFICES ASSUME p # NULL PROVE Described(L + 2)' = process[p]
        OBVIOUS
      <3>1. Described(L + 2)' =
              [pid |-> Described(L + 1).pid, lifespan |-> Described(L + 1).lifespan,
               prio |-> Described(L + 1).prio, starts_at |-> Described(L + 1).starts_at,
               requests |-> Described(L + 1).requests]
        BY <1>1, <1>2, <1>6, <1>10, DescribedNext
      <3> QED BY <1>6, <3>1 DEF Described
    <2> QED BY <1>7, <1>8, <1>10, <2>1, <2>2 DEF BuiltInv
  <1>11. CASE stage' = "load" /\ l.word = "process" /\ Opens(l)
    <2>1. PICK new \in Nodes \ DOMAIN process :
            /\ p' = new /\ mem' = INIT_LIST_HEAD(mem, new)
            /\ process' = [x \in DOMAIN process \cup {new} |->
                             IF x = new THEN Blank(l.args[1]) ELSE process[x]]
      BY <1>11 DEF Opens
    <2>2. Queue' = q
      <3>1. Lists(mem') = Lists(mem)
        BY <2>1, FreshHead
      <3> QED BY <1>3, <3>1 DEF Queue
    <2>3. Described(L + 2)' = process'[new]
      BY <1>1, <1>2, <1>6, <1>11, <2>1, DescribedFresh
    <2>4. \A k \in 1 .. Len(q) : process'[q[k]] = process[q[k]]
      BY <1>7, <2>1
    <2> QED BY <1>7, <1>8, <1>11, <2>1, <2>2, <2>3, <2>4 DEF BuiltInv
  <1>12. CASE /\ stage' = "load" /\ l.word = "end" /\ p # NULL
              /\ mem' = list_add_tail(mem, p, forkqueue) /\ p' = NULL /\ UNCHANGED process
    <2>1. Queue' = Append(q, p)
      <3>1. Lists(mem')[forkqueue] = Append(Queue, p)
        BY <1>12, QueueTail
      <3> QED BY <1>3, <3>1 DEF Queue
    <2>2. Described(L + 1)' = process[p]
      BY <1>1, <1>2, <1>6, <1>12, DescribedGrows
    <2>3. PICK r, t : r = Append(q, p) /\ t = Append(s, L + 1)
      OBVIOUS
    <2>4. /\ Len(r) = Len(q) + 1 /\ Len(t) = Len(r)
          /\ \A k \in 1 .. Len(q) : r[k] = q[k] /\ t[k] = s[k]
          /\ r[Len(q) + 1] = p /\ t[Len(q) + 1] = L + 1
      BY <1>3, <1>5, <2>3
    <2>5. ASSUME NEW k \in 1 .. Len(r) PROVE process'[r[k]] = Described(t[k])'
      <3>1. CASE k \in 1 .. Len(q)
        BY <1>5, <1>12, <2>4, <3>1
      <3>2. CASE k \notin 1 .. Len(q)
        <4>1. k = Len(q) + 1
          BY <1>3, <2>4, <3>2
        <4> QED BY <1>12, <2>2, <2>4, <4>1
      <3> QED BY <3>1, <3>2
    <2>6. InOrder(Marks("end"))' = t /\ Queue' = r
      BY <1>5, <1>12, <2>1, <2>3
    <2> QED BY <1>12, <2>4, <2>5, <2>6 DEF BuiltInv
  <1>13. CASE stage' = "load" /\ PropertySet(l)
    <2>1. Queue' = q
      BY <1>3, <1>13 DEF Queue, PropertySet
    <2>2. PICK d : d = Described(L + 1)
      OBVIOUS
    <2>3. /\ d = [pid |-> d.pid, lifespan |-> d.lifespan, prio |-> d.prio,
                  starts_at |-> d.starts_at, requests |-> d.requests]
      BY <2>2 DEF Described
    <2>4. Described(L + 2)' =
             [pid |-> d.pid,
              lifespan |-> IF l.word = "lifespan" THEN l.args[1] ELSE d.lifespan,
              prio |-> IF l.word = "prio" THEN l.args[1] ELSE d.prio,
              starts_at |-> IF l.word = "start" THEN l.args[1] ELSE d.starts_at,
              requests |-> IF l.word = "acquire" THEN Append(d.requests, Request(l.args))
                           ELSE d.requests]
      <3>1. l.word \notin {"process", "end"}
        BY <1>13 DEF PropertySet
      <3> QED BY <1>1, <1>2, <1>6, <1>13, <2>2, <3>1, DescribedNext DEF PropertySet
    <2>5. p \in DOMAIN process /\ process[p] = d /\ p' = p /\ l.word # "end"
      BY <1>6, <1>7, <1>13, <2>2 DEF PropertySet
    <2>6. process'[p] = Described(L + 2)' /\ \A x \in DOMAIN process : x # p => process'[x] = process[x]
      <3>1. CASE l.word = "lifespan"
        <4>1. process' = [process EXCEPT ![p] = [@ EXCEPT !.lifespan = l.args[1]]]
          BY <1>13, <3>1 DEF PropertySet
        <4> QED BY <2>3, <2>4, <2>5, <3>1, <4>1
      <3>2. CASE l.word = "prio"
        <4>1. process' = [process EXCEPT ![p] = [@ EXCEPT !.prio = l.args[1]]]
          BY <1>13, <3>2 DEF PropertySet
        <4> QED BY <2>3, <2>4, <2>5, <3>2, <4>1
      <3>3. CASE l.word = "start"
        <4>1. process' = [process EXCEPT ![p] = [@ EXCEPT !.starts_at = l.args[1]]]
          BY <1>13, <3>3 DEF PropertySet
        <4> QED BY <2>3, <2>4, <2>5, <3>3, <4>1
      <3>4. CASE l.word = "acquire"
        <4>1. process' = [process EXCEPT ![p] =
                            [@ EXCEPT !.requests = Append(process[p].requests, Request(l.args))]]
          BY <1>13, <3>4 DEF PropertySet
        <4> QED BY <2>3, <2>4, <2>5, <3>4, <4>1
      <3> QED BY <1>13, <3>1, <3>2, <3>3, <3>4 DEF PropertySet
    <2>7. \A k \in 1 .. Len(q) : process'[q[k]] = process[q[k]]
      BY <1>7, <1>13, <2>6 DEF PropertySet
    <2> QED BY <1>7, <1>8, <1>13, <2>1, <2>5, <2>6, <2>7 DEF BuiltInv
  <1> QED BY <1>2, <1>9, <1>10, <1>11, <1>12, <1>13 DEF LineTaken, Loading

LEMMA OptionStep ==
    ASSUME LoadInv, Option
    PROVE  LoadInv'
  <1> USE DEF LoadInv
  <1>1. PICK o \in Options :
          /\ stage = "options" /\ opts' = Append(opts, o)
          /\ IF o \in DOMAIN Policy THEN chosen' = Policy[o] /\ UNCHANGED stage
             ELSE UNCHANGED chosen /\ stage' = IF o = "q" THEN stage ELSE "usage"
          /\ UNCHANGED <<mem, p, process, file>>
    BY DEF Option
  <1>2. opts \in Seq(Options) /\ file = <<>>
    BY <1>1 DEF ReadInv
  <1>3. PICK L : L = Len(opts) /\ L \in Nat
    BY <1>2
  <1>4. PICK N : N = {k \in DOMAIN opts : opts[k] \in DOMAIN Policy}
    OBVIOUS
  <1>5. /\ opts' \in Seq(Options) /\ DOMAIN opts' = 1 .. L + 1 /\ DOMAIN opts = 1 .. L
        /\ opts'[L + 1] = o /\ \A k \in 1 .. L : opts'[k] = opts[k]
    BY <1>1, <1>2, <1>3
  <1>6. UpTo(N, L)
    BY <1>3, <1>4, <1>5 DEF UpTo
  <1>7. PICK N2 : N2 = {k \in DOMAIN opts' : opts'[k] \in DOMAIN Policy}
    OBVIOUS
  <1>8. N2 = IF o \in DOMAIN Policy THEN N \cup {L + 1} ELSE N
    <2>1. ASSUME NEW k PROVE k \in N2 <=> k \in N \/ (k = L + 1 /\ o \in DOMAIN Policy)
      <3>1. k \in 1 .. L + 1 <=> k \in 1 .. L \/ k = L + 1
        BY <1>3
      <3>2. L + 1 \notin 1 .. L
        BY <1>3
      <3> QED BY <1>4, <1>5, <1>7, <3>1, <3>2
    <2>2. CASE o \in DOMAIN Policy
      BY <2>1, <2>2
    <2>3. CASE o \notin DOMAIN Policy
      BY <2>1, <2>3
    <2> QED BY <2>2, <2>3
  <1>9. chosen' = IF N2 = {} THEN "fifo" ELSE Policy[opts'[LastOf(N2)]]
    <2>1. CASE o \in DOMAIN Policy
      <3>1. LastOf(N2) = L + 1 /\ N2 # {}
        BY <1>6, <1>8, <2>1, LastOfNext
      <3> QED BY <1>1, <1>5, <2>1, <3>1
    <2>2. CASE o \notin DOMAIN Policy
      <3>1. chosen = IF N = {} THEN "fifo" ELSE Policy[opts[LastOf(N)]]
        BY <1>4 DEF ReadInv
      <3>2. N # {} => LastOf(N) \in 1 .. L
        BY <1>6, LastOfIs DEF UpTo
      <3> QED BY <1>1, <1>5, <1>8, <2>2, <3>1, <3>2
    <2> QED BY <2>1, <2>2
  <1>10. stage' \in {"options", "usage"}
    BY <1>1
  <1>11. ReadInv'
    BY <1>1, <1>2, <1>5, <1>7, <1>9, <1>10 DEF ReadInv, StopsAtBadLine, Loading
  <1>12. PlaceInv'
    <2>1. Lists(mem)' = Lists(mem) /\ Queue' = Queue
      BY <1>1 DEF Queue
    <2> QED BY <1>1, <2>1 DEF PlaceInv
  <1>13. BuiltInv'
    BY <1>10 DEF BuiltInv, Loading
  <1> QED BY <1>11, <1>12, <1>13

LEMMA ArgumentsStep ==
    ASSUME LoadInv, Arguments
    PROVE  LoadInv'
  <1> USE DEF LoadInv
  <1>1. /\ stage = "options" /\ stage' \in {"usage", "load"}
        /\ mem' = INIT_LIST_HEAD(mem, forkqueue)
        /\ UNCHANGED <<chosen, p, process, opts, file>>
    BY DEF Arguments
  <1>2. file = <<>> /\ Queue = <<>> /\ p = NULL
    BY <1>1 DEF ReadInv, PlaceInv
  <1>3. /\ Meant(mem', Lists(mem')) /\ forkqueue \in DOMAIN Lists(mem')
        /\ Lists(mem')[forkqueue] = <<>>
        /\ \A x \in Nodes : ~LiveIn(mem, x) => ~LiveIn(mem', x)
    BY <1>1, <1>2, EmptyQueue
  <1>4. Queue' = <<>>
    BY <1>3 DEF Queue
  <1>5. \A w : Marks(w)' = {}
    BY <1>1, <1>2 DEF Marks
  <1>6. ReadInv'
    <2>1. StopsAtBadLine'
      BY <1>1, <1>2 DEF StopsAtBadLine
    <2>2. (p' # NULL <=> Inside(Len(file) + 1)')
      BY <1>1, <1>2, <1>5 DEF Inside
    <2>3. (\A e \in Marks("end") : Inside(e))'
      BY <1>5
    <2> QED BY <1>1, <1>2, <2>1, <2>2, <2>3 DEF ReadInv
  <1>7. PlaceInv'
    BY <1>1, <1>2, <1>3, <1>4 DEF PlaceInv
  <1>8. BuiltInv'
    <2>1. InOrder(Marks("end"))' = <<>>
      BY <1>5, InOrderNone
    <2> QED BY <1>1, <1>2, <1>4, <2>1 DEF BuiltInv
  <1> QED BY <1>6, <1>7, <1>8

(* Only the stage is another, or nothing. *)
LEMMA RestStep ==
    ASSUME LoadInv, EndOfFile \/ UNCHANGED loadVars
    PROVE  LoadInv'
  <1> USE DEF LoadInv
  <1>1. /\ UNCHANGED <<mem, chosen, p, process, opts, file>>
        /\ stage' = stage \/ (stage = "load" /\ stage' = "simulate")
    BY DEF EndOfFile, loadVars
  <1>2. /\ Lists(mem)' = Lists(mem) /\ Queue' = Queue /\ \A w : Marks(w)' = Marks(w)
    BY <1>1 DEF Queue, Marks
  <1>3. \A k : Inside(k)' <=> Inside(k)
    BY <1>2 DEF Inside
  <1>4. \A k : Verdict(k)' = Verdict(k)
    BY <1>1, <1>3 DEF Verdict
  <1>5. \A k : Described(k)' = Described(k)
    <2>1. \A k : Opened(k)' = Opened(k)
      BY <1>2 DEF Opened
    <2>2. \A w, k : Since(w, k)' = Since(w, k)
      BY <1>2, <2>1 DEF Since
    <2>3. \A w, k : LastValue(w, k)' = LastValue(w, k)
      BY <1>1, <2>2 DEF LastValue
    <2> QED BY <1>1, <2>1, <2>2, <2>3 DEF Described
  <1>6. StopsAtBadLine'
    <2>1. StopsAtBadLine
      BY DEF ReadInv
    <2> QED BY <1>1, <1>4, <2>1 DEF StopsAtBadLine
  <1>7. ReadInv'
    BY <1>1, <1>2, <1>3, <1>6 DEF ReadInv, Loading
  <1>8. PlaceInv'
    BY <1>1, <1>2 DEF PlaceInv
  <1>9. BuiltInv'
    BY <1>1, <1>2, <1>5 DEF BuiltInv, Loading
  <1> QED BY <1>7, <1>8, <1>9

ScriptInv == OfScript => LoadInv

(* The fork queue is what the lines of the script say, whatever lines they *)
(* are and in whatever order, the policy is that of the last option that   *)
(* names one, and the loader stops in the line it cannot take.             *)
THEOREM ScriptIsLoaded == MCSpec => []LoaderLoads
  <1>1. MCInit => ScriptInv
    BY LoadInitInv DEF MCInit, ScriptInv, OfCalls, OfLoops, OfHList, OfStack, OfScript
  <1>2. ScriptInv /\ [MCNext]_<<subject, mem, hVars, loopVars, stackOnly, scriptOnly>> => ScriptInv'
    <2> SUFFICES ASSUME ScriptInv, OfScript',
                        [MCNext]_<<subject, mem, hVars, loopVars, stackOnly, scriptOnly>>
                 PROVE  LoadInv'
      BY DEF ScriptInv
    <2>1. OfScript /\ LoadInv
      BY DEF ScriptInv, MCNext, OfScript
    <2>2. LoadNext \/ UNCHANGED loadVars
      BY <2>1 DEF MCNext, OfCalls, OfLoops, OfHList, OfStack, OfScript, loadVars, scriptOnly
    <2>3. CASE ReadLine
      BY <2>1, <2>3, ReadStep, PlaceStep, BuiltStep DEF LoadInv
    <2> QED BY <2>1, <2>2, <2>3, OptionStep, ArgumentsStep, RestStep DEF LoadNext
  <1>3. ScriptInv => LoaderLoads
    <2> SUFFICES ASSUME LoadInv PROVE QueueIsScript /\ StopsAtBadLine
      BY DEF ScriptInv, LoaderLoads
    <2>1. StopsAtBadLine
      BY DEF LoadInv, ReadInv
    <2>2. QueueIsScript
      <3> SUFFICES ASSUME Loading PROVE QueueIsScript
        BY DEF QueueIsScript, Loading
      <3>1. PICK q : q = Queue /\ q \in Seq(Nodes) /\ q = Follow(mem.next, forkqueue)
        BY QueueFacts DEF LoadInv
      <3>2. PICK s : s = InOrder(Marks("end"))
        OBVIOUS
      <3>3. /\ Len(q) = Len(s) /\ s \in Seq(Marks("end"))
            /\ \A k \in 1 .. Len(q) : process[q[k]] = Described(s[k])
        <4>1. file \in Seq(FileLines)
          BY DEF LoadInv, ReadInv
        <4>2. UpTo(Marks("end"), Len(file))
          BY <4>1, MarksUpTo
        <4>3. s \in Seq(Marks("end"))
          BY <3>2, <4>2, InOrderIs
        <4> QED BY <3>1, <3>2, <4>3 DEF LoadInv, BuiltInv
      <3>4. [k \in DOMAIN q |-> process[q[k]]] = [k \in DOMAIN s |-> Described(s[k])]
        BY <3>1, <3>3
      <3> QED BY <3>1, <3>2, <3>4 DEF QueueIsScript, LoadInv, ReadInv
    <2> QED BY <2>1, <2>2
  <1> QED BY <1>1, <1>2, <1>3, PTL DEF MCSpec

(***************************************************************************)
(* The hash lists: what is met from the field first of a head              *)
(***************************************************************************)
USE HAssumption

HPlaces == Firsts \cup Nexts

(* The place that leads to entry k + 1 of the list s of the head h.        *)
HPlace(h, s, k) == IF k = 0 THEN <<"first", h>> ELSE <<"next", s[k]>>

(* s is what is met from h, and the entries point back.                    *)
Chain(m, h, s) ==
    /\ s \in Seq(HNodes)
    /\ \A k \in 1 .. Len(s) : /\ m.at[HPlace(h, s, k - 1)] = s[k]
                              /\ m.pprev[s[k]] = HPlace(h, s, k - 1)
    /\ m.at[HPlace(h, s, Len(s))] = NULL

(* S is what the lists of m are.                                           *)
HShows(m, S) == /\ m \in HMemory /\ S = [h \in HHeads |-> S[h]]
                /\ \A h \in HHeads : Chain(m, h, S[h])

On(S, z) == \E h \in HHeads : \E k \in 1 .. Len(S[h]) : S[h][k] = z

(* An entry that is on no list, and is initialised or a fake, has no next. *)
Loose(m, S) == \A z \in HNodes :
    ~On(S, z) /\ m.pprev[z] \in {NULL, <<"next", z>>} => m.at[<<"next", z>>] = NULL

HMeant(m, S) == HShows(m, S) /\ Loose(m, S)

LEMMA PlaceFacts ==
    /\ \A h \in HHeads : <<"first", h>> \in Firsts /\ <<"first", h>> \in HPlaces
    /\ \A z \in HNodes : <<"next", z>> \in Nexts /\ <<"next", z>> \in HPlaces
    /\ \A g, h \in HHeads : <<"first", g>> = <<"first", h>> => g = h
    /\ \A k, z \in HNodes : <<"next", k>> = <<"next", z>> => k = z
    /\ \A h \in HHeads, z \in HNodes : <<"first", h>> # <<"next", z>>
    /\ NULL \notin HPlaces /\ POISON2 \notin HPlaces
    /\ NULL \notin HNodes /\ POISON1 \notin HNodes /\ NULL # POISON2
  BY DEF HPlaces, Firsts, Nexts

LEMMA HPlaceIs ==
    ASSUME NEW h \in HHeads, NEW s \in Seq(HNodes), NEW k \in 0 .. Len(s)
    PROVE  /\ HPlace(h, s, k) \in HPlaces
           /\ k = 0 => HPlace(h, s, k) = <<"first", h>>
           /\ k > 0 => s[k] \in HNodes /\ HPlace(h, s, k) = <<"next", s[k]>>
  BY PlaceFacts DEF HPlace

(* No entry is met twice, so no place either.                              *)
LEMMA HOneSpot ==
    ASSUME NEW m, NEW S, HShows(m, S), NEW g \in HHeads, NEW h \in HHeads,
           NEW j \in 1 .. Len(S[g]), NEW k \in 1 .. Len(S[h]), S[g][j] = S[h][k]
    PROVE  g = h /\ j = k
  <1> DEFINE Twice(a, b, c, d) == /\ a \in HHeads /\ b \in HHeads
                                  /\ c \in 1 .. Len(S[a]) /\ d \in 1 .. Len(S[b])
                                  /\ S[a][c] = S[b][d] /\ ~(a = b /\ c = d)
             T == {c \in Nat : \E a, b, d : Twice(a, b, c, d)}
  <1>0. \A a \in HHeads : S[a] \in Seq(HNodes) /\ Len(S[a]) \in Nat
    BY DEF HShows, Chain
  <1>1. SUFFICES ASSUME ~(g = h /\ j = k) PROVE FALSE
    OBVIOUS
  <1>2. j \in T
    <2>1. j \in Nat
      BY <1>0
    <2>2. Twice(g, h, j, k)
      BY <1>1
    <2> QED BY <2>1, <2>2
  <1>3. PICK c \in T : \A o \in T : c <= o
    <2>1. T \subseteq Nat
      OBVIOUS
    <2> HIDE DEF T
    <2> QED BY <1>2, <2>1, LeastNumber
  <1>4. PICK a, b, d : Twice(a, b, c, d)
    OBVIOUS
  <1>5. PICK La, Lb \in Nat : La = Len(S[a]) /\ Lb = Len(S[b])
    BY <1>0, <1>4
  <1>6. c - 1 \in 0 .. La /\ d - 1 \in 0 .. Lb /\ c - 1 \in Nat
    BY <1>4, <1>5
  <1>7. HPlace(a, S[a], c - 1) = HPlace(b, S[b], d - 1)
    <2>1. Chain(m, a, S[a]) /\ Chain(m, b, S[b])
      BY <1>4 DEF HShows
    <2>2. m.pprev[S[a][c]] = HPlace(a, S[a], c - 1) /\ m.pprev[S[b][d]] = HPlace(b, S[b], d - 1)
      BY <1>4, <2>1 DEF Chain
    <2> QED BY <1>4, <2>2
  <1>8. CASE c = 1 /\ d = 1
    BY <1>4, <1>7, <1>8, PlaceFacts DEF HPlace
  <1>9. CASE c = 1 /\ d > 1
    <2>1. HPlace(a, S[a], 0) = <<"first", a>>
      BY DEF HPlace
    <2>2. HPlace(b, S[b], d - 1) = <<"next", S[b][d - 1]>> /\ S[b][d - 1] \in HNodes
      BY <1>0, <1>4, <1>5, <1>6, <1>9, HPlaceIs
    <2> QED BY <1>4, <1>7, <1>9, <2>1, <2>2, PlaceFacts
  <1>10. CASE c > 1 /\ d = 1
    <2>1. HPlace(b, S[b], 0) = <<"first", b>>
      BY DEF HPlace
    <2>2. HPlace(a, S[a], c - 1) = <<"next", S[a][c - 1]>> /\ S[a][c - 1] \in HNodes
      BY <1>0, <1>4, <1>5, <1>6, <1>10, HPlaceIs
    <2> QED BY <1>4, <1>7, <1>10, <2>1, <2>2, PlaceFacts
  <1>11. CASE c > 1 /\ d > 1
    <2>1. /\ HPlace(a, S[a], c - 1) = <<"next", S[a][c - 1]>> /\ S[a][c - 1] \in HNodes
          /\ HPlace(b, S[b], d - 1) = <<"next", S[b][d - 1]>> /\ S[b][d - 1] \in HNodes
      <3>1. c - 1 > 0 /\ d - 1 > 0
        BY <1>4, <1>5, <1>11
      <3>2. c - 1 \in 0 .. Len(S[a]) /\ d - 1 \in 0 .. Len(S[b])
        BY <1>5, <1>6
      <3>3. a \in HHeads /\ b \in HHeads /\ S[a] \in Seq(HNodes) /\ S[b] \in Seq(HNodes)
        BY <1>0, <1>4
      <3> HIDE DEF T, Twice
      <3>4. HPlace(a, S[a], c - 1) = <<"next", S[a][c - 1]>> /\ S[a][c - 1] \in HNodes
        BY <3>1, <3>2, <3>3, HPlaceIs
      <3>5. HPlace(b, S[b], d - 1) = <<"next", S[b][d - 1]>> /\ S[b][d - 1] \in HNodes
        BY <3>1, <3>2, <3>3, HPlaceIs
      <3> QED BY <3>4, <3>5
    <2>2. S[a][c - 1] = S[b][d - 1]
      BY <1>7, <2>1, PlaceFacts
    <2>3. Twice(a, b, c - 1, d - 1)
      BY <1>4, <1>5, <1>6, <1>11, <2>2
    <2>4. c - 1 \in T
      BY <1>6, <2>3
    <2>5. c \in Nat /\ c <= c - 1
      BY <1>3, <2>4
    <2> QED BY <2>5
  <1> QED BY <1>4, <1>5, <1>8, <1>9, <1>10, <1>11

(* What an operation on a list needs to know of it.                        *)
HListOf(m, S, h, L) ==
    /\ L \in Nat /\ S[h] \in Seq(HNodes) /\ Len(S[h]) = L
    /\ \A k \in 1 .. L : /\ S[h][k] \in HNodes
                        /\ m.at[HPlace(h, S[h], k - 1)] = S[h][k]
                        /\ m.pprev[S[h][k]] = HPlace(h, S[h], k - 1)
                        /\ HPlace(h, S[h], k) = <<"next", S[h][k]>>
    /\ \A k \in 0 .. L : HPlace(h, S[h], k) \in HPlaces
    /\ m.at[HPlace(h, S[h], L)] = NULL /\ HPlace(h, S[h], 0) = <<"first", h>>
    /\ \A j, k \in 0 .. L : HPlace(h, S[h], j) = HPlace(h, S[h], k) => j = k
    /\ \A j, k \in 1 .. L : S[h][j] = S[h][k] => j = k

LEMMA HOnePlace ==
    ASSUME NEW m, NEW S, HShows(m, S), NEW g \in HHeads, NEW h \in HHeads,
           NEW j \in 0 .. Len(S[g]), NEW k \in 0 .. Len(S[h]),
           HPlace(g, S[g], j) = HPlace(h, S[h], k)
    PROVE  g = h /\ j = k
  <1>0. /\ S[g] \in Seq(HNodes) /\ Len(S[g]) \in Nat
        /\ S[h] \in Seq(HNodes) /\ Len(S[h]) \in Nat
    BY DEF HShows, Chain
  <1>1. /\ j = 0 => HPlace(g, S[g], j) = <<"first", g>>
        /\ j > 0 => S[g][j] \in HNodes /\ HPlace(g, S[g], j) = <<"next", S[g][j]>>
        /\ k = 0 => HPlace(h, S[h], k) = <<"first", h>>
        /\ k > 0 => S[h][k] \in HNodes /\ HPlace(h, S[h], k) = <<"next", S[h][k]>>
    BY <1>0, HPlaceIs
  <1>2. CASE j > 0 /\ k > 0
    <2>1. S[g][j] = S[h][k]
      BY <1>1, <1>2, PlaceFacts
    <2> QED BY <1>0, <1>2, <2>1, HOneSpot
  <1>3. CASE j = 0 /\ k = 0
    BY <1>1, <1>3, PlaceFacts
  <1>4. CASE (j = 0 /\ k > 0) \/ (j > 0 /\ k = 0)
    BY <1>1, <1>4, PlaceFacts
  <1> QED BY <1>0, <1>2, <1>3, <1>4

LEMMA HListIs ==
    ASSUME NEW m, NEW S, HShows(m, S), NEW h \in HHeads, NEW L, L = Len(S[h])
    PROVE  HListOf(m, S, h, L)
  <1>1. S[h] \in Seq(HNodes) /\ L \in Nat /\ Chain(m, h, S[h])
    BY DEF HShows, Chain
  <1>2. ASSUME NEW k \in 1 .. L
        PROVE  /\ S[h][k] \in HNodes /\ m.at[HPlace(h, S[h], k - 1)] = S[h][k]
               /\ m.pprev[S[h][k]] = HPlace(h, S[h], k - 1)
               /\ HPlace(h, S[h], k) = <<"next", S[h][k]>>
    <2>1. k \in 1 .. Len(S[h]) /\ k # 0
      BY <1>1
    <2>2. HPlace(h, S[h], k) = <<"next", S[h][k]>>
      BY <2>1 DEF HPlace
    <2>3. S[h][k] \in HNodes
      BY <1>1, <2>1
    <2> QED BY <1>1, <2>1, <2>2, <2>3 DEF Chain
  <1>3. \A k \in 0 .. L : HPlace(h, S[h], k) \in HPlaces
    BY <1>1, HPlaceIs
  <1>4. \A j, k \in 0 .. L : HPlace(h, S[h], j) = HPlace(h, S[h], k) => j = k
    BY HOnePlace
  <1>5. \A j, k \in 1 .. L : S[h][j] = S[h][k] => j = k
    BY HOneSpot
  <1>6. m.at[HPlace(h, S[h], L)] = NULL /\ HPlace(h, S[h], 0) = <<"first", h>>
    BY <1>1 DEF Chain, HPlace
  <1> QED BY <1>1, <1>2, <1>3, <1>4, <1>5, <1>6 DEF HListOf

(* hlist_for_each meets the list.                                          *)
HFollowStep(m, o, t) ==
    LET q == IF t = <<>> THEN o ELSE <<"next", Last(t)>>
    IN  IF m.at[q] \in HNodes THEN Append(t, m.at[q]) ELSE t
IsHTrail(m, o, N, t) == t = [k \in 0 .. N |-> IF k = 0 THEN <<>> ELSE HFollowStep(m, o, t[k - 1])]
HBegin(s, c) == [j \in 1 .. c |-> s[j]]

LEMMA HBeginStep ==
    ASSUME NEW m, NEW S, NEW h, NEW L, HListOf(m, S, h, L), NEW c \in 0 .. L
    PROVE  HFollowStep(m, <<"first", h>>, HBegin(S[h], c)) =
             IF c < L THEN HBegin(S[h], c + 1) ELSE HBegin(S[h], c)
  <1>1. L \in Nat /\ S[h] \in Seq(HNodes) /\ Len(S[h]) = L
    BY DEF HListOf
  <1> DEFINE t == HBegin(S[h], c)
  <1>2. t \in Seq(HNodes) /\ Len(t) = c /\ (c > 0 => Last(t) = S[h][c] /\ t # <<>>)
        /\ (c = 0 => t = <<>>)
    <2>1. t \in Seq(HNodes) /\ Len(t) = c
      BY <1>1 DEF HBegin, HListOf
    <2>2. c > 0 => t[c] = S[h][c]
      BY DEF HBegin
    <2> QED BY <2>1, <2>2 DEF Last
  <1>3. PICK q : q = HPlace(h, S[h], c) /\ q = IF t = <<>> THEN <<"first", h>> ELSE <<"next", Last(t)>>
    <2>1. c = 0 => HPlace(h, S[h], c) = <<"first", h>>
      BY DEF HPlace
    <2>2. c # 0 => HPlace(h, S[h], c) = <<"next", S[h][c]>>
      BY DEF HPlace
    <2> QED BY <1>2, <2>1, <2>2
  <1>4. HFollowStep(m, <<"first", h>>, t) = IF m.at[q] \in HNodes THEN Append(t, m.at[q]) ELSE t
    BY <1>3 DEF HFollowStep
  <1>5. CASE c < L
    <2>1. c + 1 \in 1 .. L /\ (c + 1) - 1 = c
      BY <1>1, <1>5
    <2>2. m.at[q] = S[h][c + 1] /\ S[h][c + 1] \in HNodes
      <3>1. PICK d \in 1 .. L : d = c + 1 /\ d - 1 = c
        BY <2>1
      <3>2. m.at[HPlace(h, S[h], d - 1)] = S[h][d] /\ S[h][d] \in HNodes
        BY DEF HListOf
      <3> QED BY <1>3, <3>1, <3>2
    <2>3. Append(t, S[h][c + 1]) = HBegin(S[h], c + 1)
      BY <1>1, <1>2, <2>1 DEF HBegin
    <2> QED BY <1>4, <1>5, <2>2, <2>3
  <1>6. CASE c = L
    <2>1. m.at[q] = NULL /\ NULL \notin HNodes
      BY <1>3, <1>6, PlaceFacts DEF HListOf
    <2> QED BY <1>1, <1>4, <1>6, <2>1
  <1> QED BY <1>1, <1>5, <1>6

LEMMA HLength ==
    ASSUME NEW m, NEW S, NEW h, NEW L, HListOf(m, S, h, L)
    PROVE  Cardinality(HNodes) \in Nat /\ L <= Cardinality(HNodes)
  <1>1. L \in Nat /\ S[h] \in [1 .. L -> HNodes] /\ \A j, k \in 1 .. L : S[h][j] = S[h][k] => j = k
    BY DEF HListOf
  <1>2. IsFiniteSet(1 .. L) /\ Cardinality(1 .. L) = L
    <2>1. IsFiniteSet(1 .. L) /\ Cardinality(1 .. L) = IF 1 > L THEN 0 ELSE L - 1 + 1
      BY <1>1, FS_Interval
    <2> QED BY <1>1, <2>1
  <1>3. S[h] \in Injection(1 .. L, HNodes)
    BY <1>1 DEF Injection, IsInjective
  <1>4. Cardinality(1 .. L) <= Cardinality(HNodes)
    BY <1>3, HFiniteAssumption, FS_Injection
  <1>5. Cardinality(HNodes) \in Nat
    BY HFiniteAssumption, FS_CardinalityType
  <1> QED BY <1>2, <1>4, <1>5

LEMMA HFollowChain ==
    ASSUME NEW m, NEW S, HShows(m, S), NEW h \in HHeads
    PROVE  HFollow(m, <<"first", h>>) = S[h]
  <1>1. PICK L : L = Len(S[h]) /\ HListOf(m, S, h, L)
    BY HListIs
  <1>2. PICK N \in Nat : N = Cardinality(HNodes) /\ L <= N
    BY <1>1, HLength
  <1>0. L \in Nat
    BY <1>1 DEF HListOf
  <1>3. PICK o : o = <<"first", h>>
    OBVIOUS
  <1> DEFINE R == [k \in 0 .. N |-> HBegin(S[h], IF k < L THEN k ELSE L)]
             tr == CHOOSE t : t = [k \in 0 .. Cardinality(HNodes) |->
                     IF k = 0 THEN <<>>
                     ELSE LET u == t[k - 1]
                              q == IF u = <<>> THEN o ELSE <<"next", Last(u)>>
                          IN  IF m.at[q] \in HNodes THEN Append(u, m.at[q]) ELSE u]
  <1>4. R[0] = <<>>
    BY <1>0, <1>2 DEF HBegin
  <1>5. \A k \in 1 .. N : R[k] = HFollowStep(m, o, R[k - 1])
    <2> SUFFICES ASSUME NEW k \in 1 .. N PROVE R[k] = HFollowStep(m, o, R[k - 1])
      OBVIOUS
    <2>1. PICK c \in 0 .. L : c = IF k - 1 < L THEN k - 1 ELSE L
      BY <1>0, <1>2
    <2>2. R[k - 1] = HBegin(S[h], c)
      BY <1>2, <2>1
    <2>3. R[k] = IF c < L THEN HBegin(S[h], c + 1) ELSE HBegin(S[h], c)
      BY <1>0, <1>2, <2>1
    <2>4. HFollowStep(m, o, HBegin(S[h], c)) = IF c < L THEN HBegin(S[h], c + 1) ELSE HBegin(S[h], c)
      BY <1>1, <1>3, HBeginStep
    <2> QED BY <2>2, <2>3, <2>4
  <1>6. IsHTrail(m, o, N, R)
    <2> HIDE DEF R
    <2>1. R = [k \in 0 .. N |-> R[k]]
      BY DEF R
    <2>2. \A k \in 0 .. N : R[k] = IF k = 0 THEN <<>> ELSE HFollowStep(m, o, R[k - 1])
      BY <1>4, <1>5
    <2> QED BY <2>1, <2>2 DEF IsHTrail
  <1>7. IsHTrail(m, o, N, tr)
    BY <1>2, <1>6 DEF IsHTrail, HFollowStep
  <1>8. HFollow(m, o) = tr[N]
    BY <1>2 DEF HFollow
  <1>9. tr[N] = R[N]
    <2> HIDE DEF tr, R
    <2> DEFINE T == {k \in 0 .. N : tr[k] # R[k]}
    <2> SUFFICES ASSUME T # {} PROVE FALSE
      OBVIOUS
    <2>1. PICK k \in T : \A x \in T : k <= x
      <3>1. T \subseteq Nat
        OBVIOUS
      <3> HIDE DEF T
      <3> QED BY <3>1, LeastNumber
    <2>2. /\ tr[k] = IF k = 0 THEN <<>> ELSE HFollowStep(m, o, tr[k - 1])
          /\ R[k] = IF k = 0 THEN <<>> ELSE HFollowStep(m, o, R[k - 1])
      BY <1>6, <1>7 DEF IsHTrail
    <2>3. k # 0 /\ tr[k - 1] # R[k - 1]
      BY <2>1, <2>2
    <2>4. k - 1 \in T
      BY <2>1, <2>3
    <2> QED BY <2>1, <2>4
  <1>10. R[N] = S[h]
    <2>1. R[N] = HBegin(S[h], L)
      BY <1>0, <1>2
    <2>2. S[h] = [j \in 1 .. L |-> S[h][j]]
      BY <1>1 DEF HListOf
    <2> QED BY <2>1, <2>2 DEF HBegin
  <1> QED BY <1>3, <1>8, <1>9, <1>10

LEMMA HListsAre ==
    ASSUME NEW m, NEW S, HShows(m, S)
    PROVE  HLists(m) = S
  <1>1. \A h \in HHeads : HFollow(m, <<"first", h>>) = S[h]
    BY HFollowChain
  <1> QED BY <1>1 DEF HLists, HShows

(* The list s with z behind entry k, and without entry c, place by place.  *)
BehindPlaces(s, k, z, h, r, L) ==
    /\ r \in Seq(HNodes) /\ Len(r) = L + 1
    /\ \A j \in 1 .. k : r[j] = s[j]
    /\ r[k + 1] = z
    /\ \A j \in k + 1 .. L : r[j + 1] = s[j]
    /\ \A j \in 0 .. k : HPlace(h, r, j) = HPlace(h, s, j)
    /\ HPlace(h, r, k + 1) = <<"next", z>>
    /\ \A j \in k + 1 .. L : HPlace(h, r, j + 1) = HPlace(h, s, j)

LEMMA HBehindPlaces ==
    ASSUME NEW s \in Seq(HNodes), NEW L, L = Len(s), NEW k \in 0 .. L, NEW z \in HNodes,
           NEW h, NEW r, r = Behind(s, k, <<z>>)
    PROVE  BehindPlaces(s, k, z, h, r, L)
  <1>1. L \in Nat /\ k \in Nat /\ k <= L
    OBVIOUS
  <1>2. <<z>> \in Seq(HNodes) /\ Len(<<z>>) = 1 /\ <<z>>[1] = z
    OBVIOUS
  <1>3. BehindEntries(HNodes, s, k, <<z>>, r, L, 1)
    BY <1>2, PutAtEntries
  <1>4. /\ r \in Seq(HNodes) /\ Len(r) = L + 1
        /\ \A j \in 1 .. k : r[j] = s[j]
        /\ \A j \in k + 1 .. L : r[j + 1] = s[j]
    BY <1>3 DEF BehindEntries
  <1>5. r[k + 1] = z
    <2>1. 1 \in 1 .. 1
      OBVIOUS
    <2> QED BY <1>2, <1>3, <2>1 DEF BehindEntries
  <1>6. ASSUME NEW j \in 0 .. k PROVE HPlace(h, r, j) = HPlace(h, s, j)
    <2>1. CASE j = 0
      BY <2>1 DEF HPlace
    <2>2. CASE j # 0
      <3>1. r[j] = s[j]
        BY <1>1, <1>4, <2>2
      <3> QED BY <2>2, <3>1 DEF HPlace
    <2> QED BY <2>1, <2>2
  <1>7. HPlace(h, r, k + 1) = <<"next", z>>
    <2>1. k + 1 # 0
      BY <1>1
    <2> QED BY <1>5, <2>1 DEF HPlace
  <1>8. ASSUME NEW j \in k + 1 .. L PROVE HPlace(h, r, j + 1) = HPlace(h, s, j)
    <2>1. j # 0 /\ j + 1 # 0 /\ r[j + 1] = s[j]
      BY <1>1, <1>4
    <2> QED BY <2>1 DEF HPlace
  <1> QED BY <1>4, <1>5, <1>6, <1>7, <1>8 DEF BehindPlaces

RemovedPlaces(s, c, h, r, L) ==
    /\ r \in Seq(HNodes) /\ Len(r) = L - 1
    /\ \A j \in 1 .. c - 1 : r[j] = s[j]
    /\ \A j \in c .. L - 1 : r[j] = s[j + 1]
    /\ \A j \in 0 .. c - 1 : HPlace(h, r, j) = HPlace(h, s, j)
    /\ \A j \in c .. L - 1 : HPlace(h, r, j) = HPlace(h, s, j + 1)

LEMMA HRemovedPlaces ==
    ASSUME NEW s \in Seq(HNodes), NEW L, L = Len(s), NEW c \in 1 .. L,
           NEW h, NEW r, r = RemoveAt(s, c)
    PROVE  RemovedPlaces(s, c, h, r, L)
  <1>1. L \in Nat /\ c \in Nat /\ 1 <= c /\ c <= L
    OBVIOUS
  <1>2. /\ r \in Seq(HNodes) /\ Len(r) = L - 1
        /\ \A j \in 1 .. L - 1 : r[j] = IF j < c THEN s[j] ELSE s[j + 1]
    BY RemoveAtEntries
  <1>3. \A j \in 1 .. c - 1 : r[j] = s[j]
    BY <1>1, <1>2
  <1>4. \A j \in c .. L - 1 : r[j] = s[j + 1]
    BY <1>1, <1>2
  <1>5. ASSUME NEW j \in 0 .. c - 1 PROVE HPlace(h, r, j) = HPlace(h, s, j)
    <2>1. CASE j = 0
      BY <2>1 DEF HPlace
    <2>2. CASE j # 0
      <3>1. r[j] = s[j]
        BY <1>1, <1>3, <2>2
      <3> QED BY <2>2, <3>1 DEF HPlace
    <2> QED BY <2>1, <2>2
  <1>6. ASSUME NEW j \in c .. L - 1 PROVE HPlace(h, r, j) = HPlace(h, s, j + 1)
    <2>1. j # 0 /\ j + 1 # 0 /\ r[j] = s[j + 1]
      BY <1>1, <1>4
    <2> QED BY <2>1 DEF HPlace
  <1> QED BY <1>2, <1>3, <1>4, <1>5, <1>6 DEF RemovedPlaces

(* A list of whose places and entries nothing is written stays.            *)
LEMMA ChainStays ==
    ASSUME NEW m, NEW S, HShows(m, S), NEW g \in HHeads, NEW m2,
           \A k \in 0 .. Len(S[g]) : m2.at[HPlace(g, S[g], k)] = m.at[HPlace(g, S[g], k)],
           \A k \in 1 .. Len(S[g]) : m2.pprev[S[g][k]] = m.pprev[S[g][k]]
    PROVE  Chain(m2, g, S[g])
  <1>1. PICK L : L = Len(S[g]) /\ HListOf(m, S, g, L)
    BY HListIs
  <1>2. L \in Nat /\ \A k \in 1 .. L : k - 1 \in 0 .. L
    BY <1>1 DEF HListOf
  <1> QED BY <1>1, <1>2 DEF HListOf, Chain

(* z linked in at the place pl.                                            *)
HInserted(m, m2, pl, z) ==
    /\ \A x \in HPlaces : m2.at[x] = IF x = pl THEN z
                                     ELSE IF x = <<"next", z>> THEN m.at[pl] ELSE m.at[x]
    /\ \A x \in HNodes : m2.pprev[x] = IF x = z THEN pl
                                       ELSE IF x = m.at[pl] THEN <<"next", z>> ELSE m.pprev[x]

LEMMA HInsertChain ==
    ASSUME NEW m, NEW S, HShows(m, S), NEW z \in HNodes, ~On(S, z), NEW h \in HHeads,
           NEW k \in 0 .. Len(S[h]), NEW pl, pl = HPlace(h, S[h], k),
           NEW m2, HInserted(m, m2, pl, z)
    PROVE  Chain(m2, h, Behind(S[h], k, <<z>>))
  <1>1. PICK L : L = Len(S[h]) /\ HListOf(m, S, h, L)
    BY HListIs
  <1>2. PICK s \in Seq(HNodes) : s = S[h]
    BY <1>1 DEF HListOf
  <1>3. PICK r : r = Behind(s, k, <<z>>)
    OBVIOUS
  <1>4. BehindPlaces(s, k, z, h, r, L)
    BY <1>1, <1>2, <1>3, HBehindPlaces
  <1>5. L \in Nat /\ k \in Nat /\ k <= L
    BY <1>1 DEF HListOf
  <1>6. /\ \A j \in 1 .. L : s[j] \in HNodes /\ s[j] # z /\ HPlace(h, s, j) # <<"next", z>>
        /\ HPlace(h, s, 0) # <<"next", z>>
    <2>1. \A j \in 1 .. L : s[j] \in HNodes /\ HPlace(h, s, j) = <<"next", s[j]>>
      BY <1>1, <1>2 DEF HListOf
    <2>2. \A j \in 1 .. L : s[j] # z
      BY <1>1, <1>2 DEF On
    <2>3. HPlace(h, s, 0) = <<"first", h>>
      BY DEF HPlace
    <2> QED BY <2>1, <2>2, <2>3, PlaceFacts
  <1>7. \A j \in 0 .. L : HPlace(h, s, j) \in HPlaces /\ HPlace(h, s, j) # <<"next", z>>
    BY <1>1, <1>2, <1>5, <1>6 DEF HListOf
  <1>8. \A j \in 0 .. L : j # k => m2.at[HPlace(h, s, j)] = m.at[HPlace(h, s, j)]
    <2>1. \A j \in 0 .. L : j # k => HPlace(h, s, j) # pl
      BY <1>1, <1>2 DEF HListOf
    <2> QED BY <1>7, <2>1 DEF HInserted
  <1>9. m2.at[HPlace(h, s, k)] = z /\ m2.at[<<"next", z>>] = m.at[HPlace(h, s, k)]
    <2>1. k \in 0 .. L
      BY <1>5
    <2> QED BY <1>2, <1>7, <2>1, PlaceFacts DEF HInserted
  <1>10. \A j \in 1 .. L : m.at[HPlace(h, s, j - 1)] = s[j] /\ m.pprev[s[j]] = HPlace(h, s, j - 1)
    BY <1>1, <1>2 DEF HListOf
  <1>11. m.at[HPlace(h, s, L)] = NULL
    BY <1>1, <1>2 DEF HListOf
  <1>12. \A j \in 1 .. L : j # k + 1 => m2.pprev[s[j]] = HPlace(h, s, j - 1)
    <2> SUFFICES ASSUME NEW j \in 1 .. L, j # k + 1 PROVE m2.pprev[s[j]] = HPlace(h, s, j - 1)
      OBVIOUS
    <2>1. s[j] # m.at[pl]
      <3>1. CASE k = L
        BY <1>2, <1>6, <1>11, <3>1, PlaceFacts
      <3>2. CASE k < L
        <4>1. PICK d \in 1 .. L : d = k + 1 /\ d - 1 = k
          BY <1>5, <3>2
        <4>2. m.at[pl] = s[d]
          BY <1>2, <1>10, <4>1
        <4> QED BY <1>1, <1>2, <4>1, <4>2 DEF HListOf
      <3> QED BY <1>5, <3>1, <3>2
    <2> QED BY <1>6, <1>10, <2>1 DEF HInserted
  <1>13. k < L => m2.pprev[s[k + 1]] = <<"next", z>>
    <2> SUFFICES ASSUME k < L PROVE m2.pprev[s[k + 1]] = <<"next", z>>
      OBVIOUS
    <2>1. PICK d \in 1 .. L : d = k + 1 /\ d - 1 = k
      BY <1>5
    <2>2. m.at[pl] = s[d]
      BY <1>2, <1>10, <2>1
    <2> QED BY <1>6, <2>1, <2>2 DEF HInserted
  <1>14. m2.pprev[z] = HPlace(h, s, k)
    BY <1>2 DEF HInserted
  <1>15. ASSUME NEW v \in 1 .. L + 1
         PROVE  m2.at[HPlace(h, r, v - 1)] = r[v] /\ m2.pprev[r[v]] = HPlace(h, r, v - 1)
    <2>1. CASE v <= k
      <3>1. v \in 1 .. k /\ v \in 1 .. L /\ v - 1 \in 0 .. k /\ v - 1 \in 0 .. L /\ v - 1 # k /\ v # k + 1
        BY <1>5, <2>1
      <3>2. r[v] = s[v] /\ HPlace(h, r, v - 1) = HPlace(h, s, v - 1)
        BY <1>4, <3>1 DEF BehindPlaces
      <3> QED BY <1>8, <1>10, <1>12, <3>1, <3>2
    <2>2. CASE v = k + 1
      <3>1. v - 1 = k /\ k \in 0 .. k
        BY <1>5, <2>2
      <3>2. r[v] = z /\ HPlace(h, r, v - 1) = HPlace(h, s, k)
        BY <1>4, <2>2, <3>1 DEF BehindPlaces
      <3> QED BY <1>9, <1>14, <3>2
    <2>3. CASE v = k + 2
      <3>1. PICK j \in k + 1 .. L : v = j + 1 /\ j = k + 1 /\ j \in 1 .. L /\ j - 1 = k /\ v - 1 = k + 1
        BY <1>5, <2>3
      <3>2. r[v] = s[j] /\ HPlace(h, r, v - 1) = <<"next", z>>
        BY <1>4, <3>1 DEF BehindPlaces
      <3>3. m2.at[<<"next", z>>] = s[j]
        BY <1>9, <1>10, <3>1
      <3>4. k < L /\ s[j] = s[k + 1]
        BY <1>5, <3>1
      <3> QED BY <1>13, <3>2, <3>3, <3>4
    <2>4. CASE v > k + 2
      <3>1. PICK j \in k + 1 .. L : v = j + 1 /\ j \in 1 .. L /\ j - 1 \in k + 1 .. L
                                    /\ j - 1 \in 0 .. L /\ j - 1 # k /\ j # k + 1 /\ v - 1 = (j - 1) + 1
        BY <1>5, <2>4
      <3>2. r[v] = s[j]
        BY <1>4, <3>1 DEF BehindPlaces
      <3>3. HPlace(h, r, v - 1) = HPlace(h, s, j - 1)
        BY <1>4, <3>1 DEF BehindPlaces
      <3> QED BY <1>8, <1>10, <1>12, <3>1, <3>2, <3>3
    <2> QED BY <1>5, <2>1, <2>2, <2>3, <2>4
  <1>16. m2.at[HPlace(h, r, L + 1)] = NULL
    <2>1. CASE k = L
      BY <1>4, <1>9, <1>11, <2>1 DEF BehindPlaces
    <2>2. CASE k < L
      <3>1. L \in k + 1 .. L /\ L \in 0 .. L /\ L # k
        BY <1>5, <2>2
      <3>2. HPlace(h, r, L + 1) = HPlace(h, s, L)
        BY <1>4, <3>1 DEF BehindPlaces
      <3> QED BY <1>8, <1>11, <3>1, <3>2
    <2> QED BY <1>5, <2>1, <2>2
  <1>17. r \in Seq(HNodes) /\ Len(r) = L + 1
    BY <1>4 DEF BehindPlaces
  <1>18. Chain(m2, h, r)
    BY <1>15, <1>16, <1>17 DEF Chain
  <1> QED BY <1>2, <1>3, <1>18

LEMMA HInsertMeant ==
    ASSUME NEW m, NEW S, HMeant(m, S), NEW z \in HNodes, ~On(S, z), NEW h \in HHeads,
           NEW k \in 0 .. Len(S[h]), NEW pl, pl = HPlace(h, S[h], k),
           NEW m2 \in HMemory, HInserted(m, m2, pl, z)
    PROVE  HMeant(m2, [S EXCEPT ![h] = Behind(@, k, <<z>>)])
  <1>0. HShows(m, S) /\ Loose(m, S) /\ S = [g \in HHeads |-> S[g]]
    BY DEF HMeant, HShows
  <1>1. PICK T : T = [S EXCEPT ![h] = Behind(@, k, <<z>>)]
    OBVIOUS
  <1>2. /\ T = [g \in HHeads |-> T[g]] /\ T[h] = Behind(S[h], k, <<z>>)
        /\ \A g \in HHeads \ {h} : T[g] = S[g]
    BY <1>0, <1>1
  <1>3. PICK L : L = Len(S[h]) /\ HListOf(m, S, h, L)
    BY <1>0, HListIs
  <1>4. L \in Nat /\ k \in 0 .. L /\ S[h] \in Seq(HNodes) /\ pl \in HPlaces
    BY <1>3 DEF HListOf
  <1>5. \A g \in HHeads \ {h} : \A j \in 0 .. Len(S[g]) : HPlace(g, S[g], j) # pl
    BY <1>0, HOnePlace
  <1>6. m.at[pl] = NULL \/ (k < L /\ m.at[pl] = S[h][k + 1])
    <2>1. CASE k = L
      <3>1. m.at[HPlace(h, S[h], L)] = NULL
        BY <1>3 DEF HListOf
      <3> QED BY <2>1, <3>1
    <2>2. CASE k < L
      <3>1. PICK d \in 1 .. L : d = k + 1 /\ d - 1 = k
        BY <1>4, <2>2
      <3> QED BY <1>3, <2>2, <3>1 DEF HListOf
    <2> QED BY <1>4, <2>1, <2>2
  <1>7. ASSUME NEW g \in HHeads \ {h} PROVE Chain(m2, g, T[g])
    <2>1. PICK M : M = Len(S[g]) /\ HListOf(m, S, g, M)
      BY <1>0, HListIs
    <2>2. ASSUME NEW j \in 0 .. M PROVE m2.at[HPlace(g, S[g], j)] = m.at[HPlace(g, S[g], j)]
      <3>1. HPlace(g, S[g], j) # pl /\ HPlace(g, S[g], j) \in HPlaces
        BY <1>5, <2>1 DEF HListOf
      <3>2. HPlace(g, S[g], j) # <<"next", z>>
        <4>1. CASE j = 0
          BY <2>1, <4>1, PlaceFacts DEF HListOf
        <4>2. CASE j # 0
          <5>1. j \in 1 .. M
            BY <2>1, <4>2 DEF HListOf
          <5>2. HPlace(g, S[g], j) = <<"next", S[g][j]>> /\ S[g][j] \in HNodes /\ S[g][j] # z
            BY <2>1, <5>1 DEF HListOf, On
          <5> QED BY <5>2, PlaceFacts
        <4> QED BY <4>1, <4>2
      <3> QED BY <3>1, <3>2 DEF HInserted
    <2>3. ASSUME NEW j \in 1 .. M PROVE m2.pprev[S[g][j]] = m.pprev[S[g][j]]
      <3>1. S[g][j] \in HNodes /\ S[g][j] # z
        BY <2>1 DEF HListOf, On
      <3>2. S[g][j] # m.at[pl]
        <4>1. CASE m.at[pl] = NULL
          BY <3>1, <4>1, PlaceFacts
        <4>2. CASE k < L /\ m.at[pl] = S[h][k + 1]
          <5>1. k + 1 \in 1 .. Len(S[h]) /\ j \in 1 .. Len(S[g])
            BY <1>3, <1>4, <2>1, <4>2
          <5> QED BY <1>0, <4>2, <5>1, HOneSpot
        <4> QED BY <1>6, <4>1, <4>2
      <3> QED BY <3>1, <3>2 DEF HInserted
    <2> QED BY <1>0, <1>2, <2>1, <2>2, <2>3, ChainStays
  <1>8. Chain(m2, h, T[h])
    BY <1>0, <1>2, HInsertChain
  <1>9. HShows(m2, T)
    BY <1>2, <1>7, <1>8 DEF HShows
  <1>10. \A x \in HNodes : On(S, x) => On(T, x)
    <2> SUFFICES ASSUME NEW x \in HNodes, On(S, x) PROVE On(T, x)
      OBVIOUS
    <2>1. PICK g \in HHeads : \E j \in 1 .. Len(S[g]) : S[g][j] = x
      BY DEF On
    <2>2. PICK j \in 1 .. Len(S[g]) : S[g][j] = x
      BY <2>1
    <2>3. CASE g # h
      BY <1>2, <2>2, <2>3 DEF On
    <2>4. CASE g = h
      <3>1. BehindPlaces(S[h], k, z, h, T[h], L)
        BY <1>2, <1>3, <1>4, HBehindPlaces
      <3>2. CASE j <= k
        <4>1. j \in 1 .. k /\ j \in 1 .. L + 1
          BY <1>3, <1>4, <2>2, <2>4, <3>2
        <4> QED BY <2>2, <2>4, <3>1, <4>1 DEF On, BehindPlaces
      <3>3. CASE j > k
        <4>1. j \in k + 1 .. L /\ j + 1 \in 1 .. L + 1
          BY <1>3, <1>4, <2>2, <2>4, <3>3
        <4>2. T[h][j + 1] = x /\ Len(T[h]) = L + 1
          BY <2>2, <2>4, <3>1, <4>1 DEF BehindPlaces
        <4> QED BY <4>1, <4>2 DEF On
      <3> QED BY <1>3, <1>4, <2>4, <3>2, <3>3
    <2> QED BY <2>3, <2>4
  <1>11. On(T, z)
    <2>1. BehindPlaces(S[h], k, z, h, T[h], L)
      BY <1>2, <1>3, <1>4, HBehindPlaces
    <2>2. T[h][k + 1] = z /\ k + 1 \in 1 .. Len(T[h])
      BY <1>4, <2>1 DEF BehindPlaces
    <2> QED BY <2>2 DEF On
  <1>12. Loose(m2, T)
    <2> SUFFICES ASSUME NEW x \in HNodes, ~On(T, x), m2.pprev[x] \in {NULL, <<"next", x>>}
                 PROVE  m2.at[<<"next", x>>] = NULL
      BY DEF Loose
    <2>1. x # z /\ ~On(S, x)
      BY <1>10, <1>11
    <2>2. x # m.at[pl]
      <3>1. k < L /\ m.at[pl] = S[h][k + 1] => On(S, m.at[pl])
        <4> SUFFICES ASSUME k < L, m.at[pl] = S[h][k + 1] PROVE On(S, m.at[pl])
          OBVIOUS
        <4>1. k + 1 \in 1 .. Len(S[h])
          BY <1>3, <1>4
        <4> QED BY <4>1 DEF On
      <3> QED BY <1>6, <2>1, <3>1, PlaceFacts
    <2>3. m2.pprev[x] = m.pprev[x]
      BY <2>1, <2>2 DEF HInserted
    <2>4. <<"next", x>> # pl
      <3>1. CASE k = 0
        BY <1>3, <3>1, PlaceFacts DEF HListOf
      <3>2. CASE k # 0
        <4>1. k \in 1 .. L
          BY <1>4, <3>2
        <4>2. pl = <<"next", S[h][k]>> /\ S[h][k] \in HNodes
          BY <1>3, <4>1 DEF HListOf
        <4>3. S[h][k] # x
          BY <1>3, <2>1, <4>1 DEF On
        <4> QED BY <4>2, <4>3, PlaceFacts
      <3> QED BY <3>1, <3>2
    <2>5. m2.at[<<"next", x>>] = m.at[<<"next", x>>]
      BY <2>1, <2>4, PlaceFacts DEF HInserted
    <2> QED BY <1>0, <2>1, <2>3, <2>5 DEF Loose
  <1> QED BY <1>1, <1>9, <1>12 DEF HMeant

(* z, which the place pl led to, taken out.                                *)
HRemoved(m, m2, pl, z) ==
    /\ \A x \in HPlaces \ {<<"next", z>>} :
         m2.at[x] = IF x = pl THEN m.at[<<"next", z>>] ELSE m.at[x]
    /\ \A x \in HNodes \ {z} :
         m2.pprev[x] = IF x = m.at[<<"next", z>>] THEN pl ELSE m.pprev[x]
    /\ m2.pprev[z] \in {NULL, <<"next", z>>} => m2.at[<<"next", z>>] = NULL

LEMMA HRemoveChain ==
    ASSUME NEW m, NEW S, HShows(m, S), NEW h \in HHeads,
           NEW c \in 1 .. Len(S[h]), NEW m2, HRemoved(m, m2, HPlace(h, S[h], c - 1), S[h][c])
    PROVE  Chain(m2, h, RemoveAt(S[h], c))
  <1>1. PICK L : L = Len(S[h]) /\ HListOf(m, S, h, L)
    BY HListIs
  <1>2. PICK s \in Seq(HNodes) : s = S[h]
    BY <1>1 DEF HListOf
  <1>3. PICK r : r = RemoveAt(s, c)
    OBVIOUS
  <1>4. RemovedPlaces(s, c, h, r, L)
    BY <1>1, <1>2, <1>3, HRemovedPlaces
  <1>5. L \in Nat /\ c \in Nat /\ 1 <= c /\ c <= L /\ c \in 1 .. L /\ c - 1 \in 0 .. L
    BY <1>1 DEF HListOf
  <1>6. PICK z \in HNodes : z = s[c] /\ HPlace(h, s, c) = <<"next", z>>
    BY <1>1, <1>2, <1>5 DEF HListOf
  <1>7. PICK pl : pl = HPlace(h, s, c - 1) /\ HRemoved(m, m2, pl, z)
    BY <1>2, <1>6
  <1>8. /\ \A j \in 0 .. L : HPlace(h, s, j) \in HPlaces
        /\ \A j \in 0 .. L : j # c => HPlace(h, s, j) # <<"next", z>>
        /\ \A j \in 0 .. L : j # c - 1 => HPlace(h, s, j) # pl
    BY <1>1, <1>2, <1>5, <1>6, <1>7 DEF HListOf
  <1>9. \A j \in 0 .. L : j # c /\ j # c - 1 => m2.at[HPlace(h, s, j)] = m.at[HPlace(h, s, j)]
    BY <1>7, <1>8 DEF HRemoved
  <1>10. m2.at[pl] = m.at[HPlace(h, s, c)]
    <2>1. c - 1 # c
      BY <1>5
    <2>2. pl \in HPlaces /\ pl # <<"next", z>>
      BY <1>5, <1>7, <1>8, <2>1
    <2>3. pl \in HPlaces \ {<<"next", z>>}
      BY <2>2
    <2>4. m2.at[pl] = IF pl = pl THEN m.at[<<"next", z>>] ELSE m.at[pl]
      BY <1>7, <2>3, Zenon DEF HRemoved
    <2> QED BY <1>6, <2>4
  <1>11. /\ \A j \in 1 .. L : s[j] \in HNodes /\ m.at[HPlace(h, s, j - 1)] = s[j]
                              /\ m.pprev[s[j]] = HPlace(h, s, j - 1)
         /\ m.at[HPlace(h, s, L)] = NULL
         /\ \A j \in 1 .. L : j # c => s[j] # z
    BY <1>1, <1>2, <1>5, <1>6 DEF HListOf
  <1>12. m.at[<<"next", z>>] = IF c < L THEN s[c + 1] ELSE NULL
    <2>1. CASE c = L
      <3>1. ~(c < L) /\ m.at[HPlace(h, s, c)] = NULL
        BY <1>5, <1>11, <2>1
      <3> QED BY <1>6, <3>1
    <2>2. CASE c < L
      <3>1. PICK d \in 1 .. L : d = c + 1 /\ d - 1 = c
        BY <1>5, <2>2
      <3> QED BY <1>6, <1>11, <2>2, <3>1
    <2> QED BY <1>5, <2>1, <2>2
  <1>13. \A j \in 1 .. L : j # c /\ j # c + 1 => m2.pprev[s[j]] = HPlace(h, s, j - 1)
    <2> SUFFICES ASSUME NEW j \in 1 .. L, j # c, j # c + 1 PROVE m2.pprev[s[j]] = HPlace(h, s, j - 1)
      OBVIOUS
    <2>1. s[j] # m.at[<<"next", z>>]
      <3>1. CASE c < L
        <4>1. c + 1 \in 1 .. L
          BY <1>5, <3>1
        <4> QED BY <1>1, <1>2, <1>12, <3>1, <4>1 DEF HListOf
      <3>2. CASE ~(c < L)
        BY <1>11, <1>12, <3>2, PlaceFacts
      <3> QED BY <3>1, <3>2
    <2> QED BY <1>7, <1>11, <2>1 DEF HRemoved
  <1>14. c < L => m2.pprev[s[c + 1]] = pl
    <2> SUFFICES ASSUME c < L PROVE m2.pprev[s[c + 1]] = pl
      OBVIOUS
    <2>1. c + 1 \in 1 .. L /\ c + 1 # c
      BY <1>5
    <2>2. s[c + 1] \in HNodes \ {z}
      BY <1>11, <2>1
    <2> QED BY <1>7, <1>12, <2>2 DEF HRemoved
  <1>15. ASSUME NEW v \in 1 .. L - 1
         PROVE  m2.at[HPlace(h, r, v - 1)] = r[v] /\ m2.pprev[r[v]] = HPlace(h, r, v - 1)
    <2>1. CASE v < c
      <3>1. /\ v \in 1 .. c - 1 /\ v \in 1 .. L /\ v - 1 \in 0 .. c - 1 /\ v - 1 \in 0 .. L
            /\ v - 1 # c - 1 /\ v - 1 # c /\ v # c /\ v # c + 1
        BY <1>5, <2>1
      <3>2. r[v] = s[v] /\ HPlace(h, r, v - 1) = HPlace(h, s, v - 1)
        BY <1>4, <3>1 DEF RemovedPlaces
      <3> QED BY <1>9, <1>11, <1>13, <3>1, <3>2
    <2>2. CASE v = c
      <3>1. c \in c .. L - 1 /\ c - 1 \in 0 .. c - 1 /\ c < L
        BY <1>5, <2>2
      <3>2. r[c] = s[c + 1] /\ HPlace(h, r, c - 1) = pl
        BY <1>4, <1>7, <3>1 DEF RemovedPlaces
      <3>3. m2.at[pl] = s[c + 1]
        BY <1>6, <1>10, <1>12, <3>1
      <3> QED BY <1>14, <2>2, <3>1, <3>2, <3>3
    <2>3. CASE v > c
      <3>1. PICK j \in c .. L - 1 : j = v - 1
        BY <1>5, <2>3
      <3>2. PICK d \in 1 .. L : d = v + 1 /\ d = j + 2 /\ d # c /\ d # c + 1 /\ d - 1 = j + 1
        BY <1>5, <2>3, <3>1
      <3>3. v \in c .. L - 1 /\ j + 1 \in 0 .. L /\ j + 1 # c /\ j + 1 # c - 1
        BY <1>5, <2>3, <3>1
      <3>4. r[v] = s[d]
        BY <1>4, <3>2, <3>3 DEF RemovedPlaces
      <3>5. HPlace(h, r, v - 1) = HPlace(h, s, d - 1)
        BY <1>4, <3>1, <3>2 DEF RemovedPlaces
      <3>6. m2.at[HPlace(h, s, d - 1)] = m.at[HPlace(h, s, d - 1)]
        BY <1>9, <3>2, <3>3
      <3> QED BY <1>11, <1>13, <3>2, <3>4, <3>5, <3>6
    <2> QED BY <1>5, <2>1, <2>2, <2>3
  <1>16. m2.at[HPlace(h, r, L - 1)] = NULL
    <2>1. CASE c = L
      <3>1. L - 1 \in 0 .. c - 1 /\ L - 1 = c - 1
        BY <1>5, <2>1
      <3>2. HPlace(h, r, L - 1) = pl
        BY <1>4, <1>7, <3>1 DEF RemovedPlaces
      <3> QED BY <1>10, <1>11, <2>1, <3>2
    <2>2. CASE c < L
      <3>1. PICK j \in c .. L - 1 : j = L - 1 /\ j + 1 = L /\ L \in 0 .. L /\ L # c /\ L # c - 1
        BY <1>5, <2>2
      <3>2. HPlace(h, r, L - 1) = HPlace(h, s, L)
        BY <1>4, <3>1 DEF RemovedPlaces
      <3> QED BY <1>9, <1>11, <3>1, <3>2
    <2> QED BY <1>5, <2>1, <2>2
  <1>17. r \in Seq(HNodes) /\ Len(r) = L - 1
    BY <1>4 DEF RemovedPlaces
  <1>18. Chain(m2, h, r)
    BY <1>15, <1>16, <1>17 DEF Chain
  <1> QED BY <1>2, <1>3, <1>18

LEMMA HRemoveMeant ==
    ASSUME NEW m, NEW S, HMeant(m, S), NEW h \in HHeads,
           NEW c \in 1 .. Len(S[h]), NEW z, z = S[h][c], NEW m2 \in HMemory,
           HRemoved(m, m2, HPlace(h, S[h], c - 1), z)
    PROVE  HMeant(m2, [S EXCEPT ![h] = RemoveAt(@, c)])
  <1>0. HShows(m, S) /\ Loose(m, S) /\ S = [g \in HHeads |-> S[g]]
    BY DEF HMeant, HShows
  <1>1. PICK T : T = [S EXCEPT ![h] = RemoveAt(@, c)]
    OBVIOUS
  <1>2. /\ T = [g \in HHeads |-> T[g]] /\ T[h] = RemoveAt(S[h], c)
        /\ \A g \in HHeads \ {h} : T[g] = S[g]
    BY <1>0, <1>1
  <1>3. PICK L : L = Len(S[h]) /\ HListOf(m, S, h, L)
    BY <1>0, HListIs
  <1>4. L \in Nat /\ c \in 1 .. L /\ c - 1 \in 0 .. L /\ S[h] \in Seq(HNodes) /\ z \in HNodes
        /\ HPlace(h, S[h], c) = <<"next", z>>
    BY <1>3 DEF HListOf
  <1>5. PICK pl \in HPlaces : pl = HPlace(h, S[h], c - 1)
    BY <1>3, <1>4 DEF HListOf
  <1>6. m.at[<<"next", z>>] = NULL \/ (c < L /\ m.at[<<"next", z>>] = S[h][c + 1])
    <2>1. CASE c = L
      <3>1. m.at[HPlace(h, S[h], L)] = NULL
        BY <1>3 DEF HListOf
      <3> QED BY <1>4, <2>1, <3>1
    <2>2. CASE c < L
      <3>1. PICK d \in 1 .. L : d = c + 1 /\ d - 1 = c
        BY <1>4, <2>2
      <3> QED BY <1>3, <1>4, <2>2, <3>1 DEF HListOf
    <2> QED BY <1>4, <2>1, <2>2
  <1>7. ASSUME NEW g \in HHeads \ {h} PROVE Chain(m2, g, T[g])
    <2>1. PICK M : M = Len(S[g]) /\ HListOf(m, S, g, M)
      BY <1>0, HListIs
    <2>2. ASSUME NEW j \in 0 .. M PROVE m2.at[HPlace(g, S[g], j)] = m.at[HPlace(g, S[g], j)]
      <3>1. /\ HPlace(g, S[g], j) # HPlace(h, S[h], c) /\ HPlace(g, S[g], j) # pl
            /\ HPlace(g, S[g], j) \in HPlaces
        <4>1. c \in 0 .. Len(S[h]) /\ c - 1 \in 0 .. Len(S[h])
          BY <1>3, <1>4
        <4> QED BY <1>0, <1>5, <2>1, <4>1, HOnePlace DEF HListOf
      <3> QED BY <1>4, <1>5, <3>1 DEF HRemoved
    <2>3. ASSUME NEW j \in 1 .. M PROVE m2.pprev[S[g][j]] = m.pprev[S[g][j]]
      <3>1. S[g][j] \in HNodes /\ S[g][j] # z
        <4>1. S[g][j] # S[h][c]
          BY <1>0, <2>1, HOneSpot
        <4> QED BY <2>1, <4>1 DEF HListOf
      <3>2. S[g][j] # m.at[<<"next", z>>]
        <4>1. CASE m.at[<<"next", z>>] = NULL
          BY <3>1, <4>1, PlaceFacts
        <4>2. CASE c < L /\ m.at[<<"next", z>>] = S[h][c + 1]
          <5>1. c + 1 \in 1 .. Len(S[h]) /\ j \in 1 .. Len(S[g])
            BY <1>3, <1>4, <2>1, <4>2
          <5> QED BY <1>0, <4>2, <5>1, HOneSpot
        <4> QED BY <1>6, <4>1, <4>2
      <3> QED BY <3>1, <3>2 DEF HRemoved
    <2>4. Chain(m2, g, S[g])
      BY <1>0, <2>1, <2>2, <2>3, ChainStays
    <2> QED BY <1>2, <2>4
  <1>8. Chain(m2, h, T[h])
    BY <1>0, <1>2, HRemoveChain
  <1>9. HShows(m2, T)
    BY <1>2, <1>7, <1>8 DEF HShows
  <1>10. \A x \in HNodes : On(S, x) => x = z \/ On(T, x)
    <2> SUFFICES ASSUME NEW x \in HNodes, On(S, x), x # z PROVE On(T, x)
      OBVIOUS
    <2>1. PICK g \in HHeads : \E j \in 1 .. Len(S[g]) : S[g][j] = x
      BY DEF On
    <2>2. PICK j \in 1 .. Len(S[g]) : S[g][j] = x
      BY <2>1
    <2>3. CASE g # h
      BY <1>2, <2>2, <2>3 DEF On
    <2>4. CASE g = h
      <3>1. RemovedPlaces(S[h], c, h, T[h], L)
        BY <1>2, <1>3, <1>4, HRemovedPlaces
      <3>0. j # c
        BY <2>2, <2>4
      <3>2. CASE j < c
        <4>1. j \in 1 .. c - 1 /\ j \in 1 .. L - 1
          BY <1>3, <1>4, <2>2, <2>4, <3>2
        <4> QED BY <2>2, <2>4, <3>1, <4>1 DEF On, RemovedPlaces
      <3>3. CASE j > c
        <4>0. j \in 1 .. L /\ c \in Nat /\ 1 <= c
          BY <1>3, <1>4, <2>2, <2>4
        <4>1. PICK d \in c .. L - 1 : d + 1 = j /\ d \in 1 .. L - 1
          <5>1. j - 1 \in c .. L - 1 /\ (j - 1) + 1 = j /\ j - 1 \in 1 .. L - 1
            BY <1>4, <3>3, <4>0
          <5> QED BY <5>1
        <4>2. T[h][d] = x /\ Len(T[h]) = L - 1
          BY <2>2, <2>4, <3>1, <4>1 DEF RemovedPlaces
        <4> QED BY <4>1, <4>2 DEF On
      <3> QED BY <1>3, <1>4, <2>4, <3>0, <3>2, <3>3
    <2> QED BY <2>3, <2>4
  <1>11. Loose(m2, T)
    <2> SUFFICES ASSUME NEW x \in HNodes, ~On(T, x), m2.pprev[x] \in {NULL, <<"next", x>>}
                 PROVE  m2.at[<<"next", x>>] = NULL
      BY DEF Loose
    <2>1. CASE x = z
      BY <2>1 DEF HRemoved
    <2>2. CASE x # z
      <3>1. ~On(S, x)
        BY <1>10, <2>2
      <3>2. x # m.at[<<"next", z>>]
        <4>1. c < L /\ m.at[<<"next", z>>] = S[h][c + 1] => On(S, m.at[<<"next", z>>])
          <5> SUFFICES ASSUME c < L, m.at[<<"next", z>>] = S[h][c + 1] PROVE On(S, m.at[<<"next", z>>])
            OBVIOUS
          <5>1. c + 1 \in 1 .. Len(S[h])
            BY <1>3, <1>4
          <5> QED BY <5>1 DEF On
        <4> QED BY <1>6, <3>1, <4>1, PlaceFacts
      <3>3. m2.pprev[x] = m.pprev[x]
        BY <2>2, <3>2 DEF HRemoved
      <3>4. <<"next", x>> # pl
        <4>1. CASE c = 1
          <5>1. pl = HPlace(h, S[h], 0)
            BY <1>5, <4>1
          <5> QED BY <1>3, <5>1, PlaceFacts DEF HListOf
        <4>2. CASE c # 1
          <5>1. PICK d \in 1 .. L : d = c - 1
            BY <1>4, <4>2
          <5>2. pl = <<"next", S[h][d]>> /\ S[h][d] \in HNodes
            BY <1>3, <1>5, <5>1 DEF HListOf
          <5>3. S[h][d] # x
            BY <1>3, <3>1, <5>1 DEF On
          <5> QED BY <5>2, <5>3, PlaceFacts
        <4> QED BY <4>1, <4>2
      <3>5. m2.at[<<"next", x>>] = m.at[<<"next", x>>]
        <4>1. <<"next", x>> # <<"next", z>> /\ <<"next", x>> \in HPlaces
          BY <1>4, <2>2, PlaceFacts
        <4> QED BY <1>5, <3>4, <4>1 DEF HRemoved
      <3> QED BY <1>0, <3>1, <3>3, <3>5 DEF Loose
    <2> QED BY <2>1, <2>2
  <1> QED BY <1>1, <1>9, <1>11 DEF HMeant

(* Nothing but an entry that is on no list is written.                     *)
HIdle(m, m2, z) ==
    /\ \A x \in HPlaces \ {<<"next", z>>} : m2.at[x] = m.at[x]
    /\ \A x \in HNodes \ {z} : m2.pprev[x] = m.pprev[x]
    /\ m2.pprev[z] \in {NULL, <<"next", z>>} => m2.at[<<"next", z>>] = NULL

LEMMA HIdleMeant ==
    ASSUME NEW m, NEW S, HMeant(m, S), NEW z \in HNodes, ~On(S, z), NEW m2 \in HMemory,
           HIdle(m, m2, z)
    PROVE  HMeant(m2, S)
  <1>0. HShows(m, S) /\ Loose(m, S) /\ S = [g \in HHeads |-> S[g]]
    BY DEF HMeant, HShows
  <1>1. ASSUME NEW g \in HHeads PROVE Chain(m2, g, S[g])
    <2>1. PICK M : M = Len(S[g]) /\ HListOf(m, S, g, M)
      BY <1>0, HListIs
    <2>2. ASSUME NEW j \in 0 .. M PROVE m2.at[HPlace(g, S[g], j)] = m.at[HPlace(g, S[g], j)]
      <3>1. HPlace(g, S[g], j) \in HPlaces
        BY <2>1 DEF HListOf
      <3>2. HPlace(g, S[g], j) # <<"next", z>>
        <4>1. CASE j = 0
          BY <2>1, <4>1, PlaceFacts DEF HListOf
        <4>2. CASE j # 0
          <5>1. j \in 1 .. M
            BY <2>1, <4>2 DEF HListOf
          <5>2. HPlace(g, S[g], j) = <<"next", S[g][j]>> /\ S[g][j] \in HNodes /\ S[g][j] # z
            BY <2>1, <5>1 DEF HListOf, On
          <5> QED BY <5>2, PlaceFacts
        <4> QED BY <4>1, <4>2
      <3> QED BY <3>1, <3>2 DEF HIdle
    <2>3. ASSUME NEW j \in 1 .. M PROVE m2.pprev[S[g][j]] = m.pprev[S[g][j]]
      BY <2>1 DEF HListOf, On, HIdle
    <2> QED BY <1>0, <2>1, <2>2, <2>3, ChainStays
  <1>2. Loose(m2, S)
    <2> SUFFICES ASSUME NEW x \in HNodes, ~On(S, x), m2.pprev[x] \in {NULL, <<"next", x>>}
                 PROVE  m2.at[<<"next", x>>] = NULL
      BY DEF Loose
    <2>1. CASE x = z
      BY <2>1 DEF HIdle
    <2>2. CASE x # z
      <3>1. <<"next", x>> # <<"next", z>> /\ <<"next", x>> \in HPlaces
        BY <2>2, PlaceFacts
      <3> QED BY <1>0, <2>2, <3>1 DEF Loose, HIdle
    <2> QED BY <2>1, <2>2
  <1> QED BY <1>0, <1>1, <1>2 DEF HMeant, HShows

(***************************************************************************)
(* The functions                                                           *)
(***************************************************************************)
LEMMA HEntryIs ==
    ASSUME NEW m, NEW S, NEW h, NEW L, HListOf(m, S, h, L), NEW k \in 0 .. L
    PROVE  /\ k = L => m.at[HPlace(h, S[h], k)] = NULL
           /\ k < L => m.at[HPlace(h, S[h], k)] = S[h][k + 1] /\ S[h][k + 1] \in HNodes
           /\ m.at[HPlace(h, S[h], k)] \in HNodes \cup {NULL}
  <1>1. L \in Nat
    BY DEF HListOf
  <1>2. CASE k = L
    BY <1>1, <1>2 DEF HListOf
  <1>3. CASE k < L
    <2>1. PICK d \in 1 .. L : d = k + 1 /\ d - 1 = k
      BY <1>1, <1>3
    <2>2. m.at[HPlace(h, S[h], d - 1)] = S[h][d] /\ S[h][d] \in HNodes
      BY DEF HListOf
    <2> QED BY <1>1, <1>3, <2>1, <2>2
  <1> QED BY <1>1, <1>2, <1>3

LEMMA HMemoryIs ==
    ASSUME NEW at, NEW pprev
    PROVE  [at |-> at, pprev |-> pprev] \in HMemory <=>
             /\ at \in [HPlaces -> HNodes \cup {NULL, POISON1}]
             /\ pprev \in [HNodes -> HPlaces \cup {NULL, POISON2}]
  BY DEF HMemory, HPlaces

LEMMA HMemoryParts ==
    ASSUME NEW m \in HMemory
    PROVE  /\ m.at \in [HPlaces -> HNodes \cup {NULL, POISON1}]
           /\ m.pprev \in [HNodes -> HPlaces \cup {NULL, POISON2}]
  BY DEF HMemory, HPlaces

(* An entry that is on no list, and a place.                               *)
LEMMA Elsewhere ==
    ASSUME NEW m, NEW S, HShows(m, S), NEW z \in HNodes, ~On(S, z), NEW h \in HHeads,
           NEW k \in 0 .. Len(S[h])
    PROVE  /\ HPlace(h, S[h], k) # <<"next", z>> /\ HPlace(h, S[h], k) \in HPlaces
           /\ m.at[HPlace(h, S[h], k)] # z
           /\ m.at[HPlace(h, S[h], k)] \in HNodes \cup {NULL}
  <1>1. PICK L : L = Len(S[h]) /\ HListOf(m, S, h, L)
    BY HListIs
  <1>2. k \in 0 .. L /\ L \in Nat
    BY <1>1 DEF HListOf
  <1>3. HPlace(h, S[h], k) # <<"next", z>> /\ HPlace(h, S[h], k) \in HPlaces
    <2>1. CASE k = 0
      BY <1>1, <1>2, <2>1, PlaceFacts DEF HListOf
    <2>2. CASE k # 0
      <3>1. k \in 1 .. L
        BY <1>2, <2>2
      <3>2. HPlace(h, S[h], k) = <<"next", S[h][k]>> /\ S[h][k] \in HNodes /\ S[h][k] # z
        BY <1>1, <3>1 DEF HListOf, On
      <3> QED BY <3>2, PlaceFacts
    <2> QED BY <2>1, <2>2
  <1>4. m.at[HPlace(h, S[h], k)] # z
    <2>1. CASE k = L
      BY <1>1, <1>2, <2>1, HEntryIs, PlaceFacts
    <2>2. CASE k < L
      <3>1. m.at[HPlace(h, S[h], k)] = S[h][k + 1] /\ k + 1 \in 1 .. Len(S[h])
        BY <1>1, <1>2, <2>2, HEntryIs
      <3> QED BY <3>1 DEF On
    <2> QED BY <1>2, <2>1, <2>2
  <1> QED BY <1>1, <1>2, <1>3, <1>4, HEntryIs

LEMMA AddHeadWrites ==
    ASSUME NEW m \in HMemory, NEW z \in HNodes, NEW h \in HHeads,
           NEW e, e = m.at[<<"first", h>>], e # z, e \in HNodes \cup {NULL}
    PROVE  /\ hlist_add_head(m, z, h) \in HMemory
           /\ HInserted(m, hlist_add_head(m, z, h), <<"first", h>>, z)
  <1>0. <<"first", h>> \in HPlaces /\ <<"next", z>> \in HPlaces /\ <<"first", h>> # <<"next", z>>
    BY PlaceFacts
  <1>1. PICK pl \in HPlaces, nx \in HPlaces : pl = <<"first", h>> /\ nx = <<"next", z>> /\ pl # nx
    BY <1>0
  <1>2. PICK at : at = [m.at EXCEPT ![nx] = e, ![pl] = z]
    OBVIOUS
  <1>3. PICK pprev : pprev = [PointBack(m, e, nx) EXCEPT ![z] = pl]
    OBVIOUS
  <1>4. hlist_add_head(m, z, h) = [at |-> at, pprev |-> pprev]
    BY <1>1, <1>2, <1>3 DEF hlist_add_head, First
  <1>5. /\ at \in [HPlaces -> HNodes \cup {NULL, POISON1}]
        /\ \A x \in HPlaces : at[x] = IF x = pl THEN z ELSE IF x = nx THEN e ELSE m.at[x]
    BY <1>1, <1>2, HMemoryParts
  <1>6. /\ pprev \in [HNodes -> HPlaces \cup {NULL, POISON2}]
        /\ \A x \in HNodes : pprev[x] = IF x = z THEN pl ELSE IF x = e THEN nx ELSE m.pprev[x]
    BY <1>1, <1>3, HMemoryParts, PlaceFacts DEF PointBack
  <1>7. [at |-> at, pprev |-> pprev] \in HMemory
    BY <1>5, <1>6, HMemoryIs
  <1>8. HInserted(m, [at |-> at, pprev |-> pprev], pl, z)
    BY <1>1, <1>5, <1>6 DEF HInserted
  <1> QED BY <1>1, <1>4, <1>7, <1>8

LEMMA AddBeforeWrites ==
    ASSUME NEW m \in HMemory, NEW z \in HNodes, NEW e \in HNodes, e # z,
           NEW pl \in HPlaces, pl = m.pprev[e], m.at[pl] = e, pl # <<"next", z>>
    PROVE  /\ hlist_add_before(m, z, e) \in HMemory
           /\ HInserted(m, hlist_add_before(m, z, e), pl, z)
  <1>1. PICK nx \in HPlaces : nx = <<"next", z>> /\ pl # nx
    BY PlaceFacts
  <1>2. PICK at : at = [m.at EXCEPT ![nx] = e, ![pl] = z]
    OBVIOUS
  <1>3. PICK pprev : pprev = [m.pprev EXCEPT ![z] = pl, ![e] = nx]
    OBVIOUS
  <1>4. hlist_add_before(m, z, e) = [at |-> at, pprev |-> pprev]
    BY <1>1, <1>2, <1>3 DEF hlist_add_before
  <1>5. /\ at \in [HPlaces -> HNodes \cup {NULL, POISON1}]
        /\ \A x \in HPlaces : at[x] = IF x = pl THEN z ELSE IF x = nx THEN e ELSE m.at[x]
    BY <1>1, <1>2, HMemoryParts
  <1>6. /\ pprev \in [HNodes -> HPlaces \cup {NULL, POISON2}]
        /\ \A x \in HNodes : pprev[x] = IF x = z THEN pl ELSE IF x = e THEN nx ELSE m.pprev[x]
    BY <1>1, <1>3, HMemoryParts
  <1>7. [at |-> at, pprev |-> pprev] \in HMemory
    BY <1>5, <1>6, HMemoryIs
  <1>8. HInserted(m, [at |-> at, pprev |-> pprev], pl, z)
    BY <1>1, <1>5, <1>6 DEF HInserted
  <1> QED BY <1>4, <1>7, <1>8

LEMMA AddBehindWrites ==
    ASSUME NEW m \in HMemory, NEW z \in HNodes, NEW k \in HNodes, k # z,
           NEW e, e = m.at[<<"next", k>>], e # z, e \in HNodes \cup {NULL}
    PROVE  /\ hlist_add_behind(m, z, k) \in HMemory
           /\ HInserted(m, hlist_add_behind(m, z, k), <<"next", k>>, z)
  <1>0. <<"next", k>> \in HPlaces /\ <<"next", z>> \in HPlaces /\ <<"next", k>> # <<"next", z>>
    BY PlaceFacts
  <1>1. PICK pl \in HPlaces, nx \in HPlaces : pl = <<"next", k>> /\ nx = <<"next", z>> /\ pl # nx
    BY <1>0
  <1>2. PICK at : at = [m.at EXCEPT ![nx] = e, ![pl] = z]
    OBVIOUS
  <1>3. PICK back : back = [m EXCEPT !.pprev[z] = pl]
    OBVIOUS
  <1>4. back.pprev = [m.pprev EXCEPT ![z] = pl]
    BY <1>3 DEF HMemory
  <1>5. /\ at \in [HPlaces -> HNodes \cup {NULL, POISON1}]
        /\ \A x \in HPlaces : at[x] = IF x = pl THEN z ELSE IF x = nx THEN e ELSE m.at[x]
    BY <1>1, <1>2, HMemoryParts
  <1>6. PICK pprev : pprev = PointBack(back, e, nx)
    OBVIOUS
  <1>7. hlist_add_behind(m, z, k) = [at |-> at, pprev |-> pprev]
    <2>1. at[nx] = e
      BY <1>1, <1>5
    <2> QED BY <1>1, <1>2, <1>3, <1>6, <2>1 DEF hlist_add_behind, After
  <1>8. /\ pprev \in [HNodes -> HPlaces \cup {NULL, POISON2}]
        /\ \A x \in HNodes : pprev[x] = IF x = z THEN pl ELSE IF x = e THEN nx ELSE m.pprev[x]
    BY <1>1, <1>4, <1>6, HMemoryParts, PlaceFacts DEF PointBack
  <1>9. [at |-> at, pprev |-> pprev] \in HMemory
    BY <1>5, <1>8, HMemoryIs
  <1>10. HInserted(m, [at |-> at, pprev |-> pprev], pl, z)
    BY <1>1, <1>5, <1>8 DEF HInserted
  <1> QED BY <1>1, <1>7, <1>9, <1>10

LEMMA DeleteWrites ==
    ASSUME NEW m \in HMemory, NEW z \in HNodes, NEW pl \in HPlaces, pl = m.pprev[z],
           m.at[pl] = z, pl # <<"next", z>>,
           NEW e, e = m.at[<<"next", z>>], e # z, e \in HNodes \cup {NULL}
    PROVE  /\ hlist_del(m, z) \in HMemory /\ hlist_del_init(m, z) \in HMemory
           /\ HRemoved(m, hlist_del(m, z), pl, z) /\ HRemoved(m, hlist_del_init(m, z), pl, z)
           /\ hlist_unhashed(hlist_del_init(m, z), z) /\ ~hlist_unhashed(m, z)
  <1>1. PICK nx \in HPlaces : nx = <<"next", z>> /\ pl # nx
    BY PlaceFacts
  <1>2. PICK at : at = [m.at EXCEPT ![pl] = e]
    OBVIOUS
  <1>3. PICK pprev : pprev = PointBack(m, e, pl)
    OBVIOUS
  <1>4. HUnlink(m, z) = [at |-> at, pprev |-> pprev]
    BY <1>1, <1>2, <1>3 DEF HUnlink, After
  <1>5. ~hlist_unhashed(m, z)
    BY PlaceFacts DEF hlist_unhashed
  <1>6. /\ at \in [HPlaces -> HNodes \cup {NULL, POISON1}]
        /\ \A x \in HPlaces : at[x] = IF x = pl THEN e ELSE m.at[x]
    BY <1>2, HMemoryParts
  <1>7. /\ pprev \in [HNodes -> HPlaces \cup {NULL, POISON2}]
        /\ \A x \in HNodes : pprev[x] = IF x = e THEN pl ELSE m.pprev[x]
    BY <1>3, HMemoryParts, PlaceFacts DEF PointBack
  <1>8. ASSUME NEW a \in {NULL, POISON1}, NEW b \in {NULL, POISON2}, b = NULL => a = NULL,
               NEW m2, m2 = [at |-> [at EXCEPT ![nx] = a], pprev |-> [pprev EXCEPT ![z] = b]]
        PROVE  m2 \in HMemory /\ HRemoved(m, m2, pl, z) /\ m2.pprev[z] = b
    <2>1. PICK at2 : at2 = [at EXCEPT ![nx] = a]
      OBVIOUS
    <2>2. PICK pprev2 : pprev2 = [pprev EXCEPT ![z] = b]
      OBVIOUS
    <2>3. /\ at2 \in [HPlaces -> HNodes \cup {NULL, POISON1}]
          /\ \A x \in HPlaces \ {nx} : at2[x] = IF x = pl THEN e ELSE m.at[x]
          /\ at2[nx] = a
      BY <1>6, <2>1
    <2>4. /\ pprev2 \in [HNodes -> HPlaces \cup {NULL, POISON2}]
          /\ \A x \in HNodes \ {z} : pprev2[x] = IF x = e THEN pl ELSE m.pprev[x]
          /\ pprev2[z] = b
      BY <1>7, <2>2
    <2>5. m2 = [at |-> at2, pprev |-> pprev2] /\ m2.at = at2 /\ m2.pprev = pprev2
      BY <1>8, <2>1, <2>2
    <2>6. m2 \in HMemory
      BY <2>3, <2>4, <2>5, HMemoryIs
    <2>7. b \notin HPlaces
      BY PlaceFacts
    <2>8. HRemoved(m, m2, pl, z)
      BY <1>1, <1>8, <2>3, <2>4, <2>5, <2>7 DEF HRemoved
    <2> QED BY <2>4, <2>5, <2>6, <2>8
  <1>9. PICK m2 : m2 = [at |-> [at EXCEPT ![nx] = POISON1], pprev |-> [pprev EXCEPT ![z] = POISON2]]
    OBVIOUS
  <1>10. hlist_del(m, z) = m2
    BY <1>1, <1>4, <1>9 DEF hlist_del
  <1>11. m2 \in HMemory /\ HRemoved(m, m2, pl, z)
    BY <1>8, <1>9, PlaceFacts
  <1>12. PICK m3 : m3 = [at |-> [at EXCEPT ![nx] = NULL], pprev |-> [pprev EXCEPT ![z] = NULL]]
    OBVIOUS
  <1>13. hlist_del_init(m, z) = m3
    BY <1>1, <1>4, <1>5, <1>12 DEF hlist_del_init, INIT_HLIST_NODE
  <1>14. m3 \in HMemory /\ HRemoved(m, m3, pl, z) /\ m3.pprev[z] = NULL
    BY <1>8, <1>12
  <1> QED BY <1>5, <1>10, <1>11, <1>13, <1>14 DEF hlist_unhashed

(* On an entry that is on no list.                                         *)
LEMMA IdleWrites ==
    ASSUME NEW m \in HMemory, NEW z \in HNodes
    PROVE  /\ INIT_HLIST_NODE(m, z) \in HMemory /\ HIdle(m, INIT_HLIST_NODE(m, z), z)
           /\ hlist_add_fake(m, z) \in HMemory
           /\ m.at[<<"next", z>>] = NULL => HIdle(m, hlist_add_fake(m, z), z)
           /\ m.at[<<"next", z>>] = NULL /\ hlist_fake(m, z) =>
                /\ hlist_del(m, z) \in HMemory /\ HIdle(m, hlist_del(m, z), z)
           /\ m.at[<<"next", z>>] = NULL /\ (hlist_fake(m, z) \/ hlist_unhashed(m, z)) =>
                /\ hlist_del_init(m, z) \in HMemory /\ HIdle(m, hlist_del_init(m, z), z)
  <1>1. PICK nx \in HPlaces : nx = <<"next", z>>
    BY PlaceFacts
  <1>2. /\ m = [at |-> m.at, pprev |-> m.pprev]
        /\ m.at \in [HPlaces -> HNodes \cup {NULL, POISON1}]
        /\ m.pprev \in [HNodes -> HPlaces \cup {NULL, POISON2}]
    BY HMemoryParts DEF HMemory
  <1>3. ASSUME NEW a \in {NULL, POISON1}, NEW b \in {NULL, POISON2, nx},
               b \in {NULL, nx} => a = NULL,
               NEW m2, m2 = [at |-> [m.at EXCEPT ![nx] = a], pprev |-> [m.pprev EXCEPT ![z] = b]]
        PROVE  m2 \in HMemory /\ HIdle(m, m2, z)
    <2>1. PICK at2 : at2 = [m.at EXCEPT ![nx] = a]
      OBVIOUS
    <2>2. PICK pprev2 : pprev2 = [m.pprev EXCEPT ![z] = b]
      OBVIOUS
    <2>3. /\ at2 \in [HPlaces -> HNodes \cup {NULL, POISON1}]
          /\ \A x \in HPlaces \ {nx} : at2[x] = m.at[x]
          /\ at2[nx] = a
      BY <1>2, <2>1
    <2>4. /\ pprev2 \in [HNodes -> HPlaces \cup {NULL, POISON2}]
          /\ \A x \in HNodes \ {z} : pprev2[x] = m.pprev[x]
          /\ pprev2[z] = b
      BY <1>2, <2>2
    <2>5. m2 = [at |-> at2, pprev |-> pprev2] /\ m2.at = at2 /\ m2.pprev = pprev2
      BY <1>3, <2>1, <2>2
    <2>6. m2 \in HMemory
      BY <2>3, <2>4, <2>5, HMemoryIs
    <2> QED BY <1>1, <1>3, <2>3, <2>4, <2>5, <2>6 DEF HIdle
  <1>4. INIT_HLIST_NODE(m, z) \in HMemory /\ HIdle(m, INIT_HLIST_NODE(m, z), z)
    BY <1>1, <1>3 DEF INIT_HLIST_NODE
  <1>5. hlist_add_fake(m, z) = [at |-> m.at, pprev |-> [m.pprev EXCEPT ![z] = nx]]
    BY <1>1, <1>2 DEF hlist_add_fake
  <1>6. hlist_add_fake(m, z) \in HMemory
    <2>1. [m.pprev EXCEPT ![z] = nx] \in [HNodes -> HPlaces \cup {NULL, POISON2}]
      BY <1>2
    <2> QED BY <1>2, <1>5, <2>1, HMemoryIs
  <1>7. m.at[nx] = NULL => m.at = [m.at EXCEPT ![nx] = NULL]
    BY <1>2
  <1>8. m.at[nx] = NULL => HIdle(m, hlist_add_fake(m, z), z)
    BY <1>3, <1>5, <1>7
  <1>9. m.at[nx] = NULL /\ hlist_fake(m, z) => HUnlink(m, z) = m
    BY <1>1, <1>2, <1>7 DEF hlist_fake, HUnlink, After, PointBack
  <1>10. m.at[nx] = NULL /\ hlist_fake(m, z) =>
           hlist_del(m, z) \in HMemory /\ HIdle(m, hlist_del(m, z), z)
    <2> SUFFICES ASSUME m.at[nx] = NULL, hlist_fake(m, z)
                 PROVE  hlist_del(m, z) \in HMemory /\ HIdle(m, hlist_del(m, z), z)
      OBVIOUS
    <2>1. hlist_del(m, z) = [at |-> [m.at EXCEPT ![nx] = POISON1],
                             pprev |-> [m.pprev EXCEPT ![z] = POISON2]]
      BY <1>1, <1>9 DEF hlist_del
    <2>2. POISON2 \notin {NULL, nx}
      BY PlaceFacts
    <2> QED BY <1>3, <2>1, <2>2
  <1>11. m.at[nx] = NULL /\ hlist_unhashed(m, z) =>
           hlist_del_init(m, z) \in HMemory /\ HIdle(m, hlist_del_init(m, z), z)
    BY <1>1 DEF hlist_del_init, HIdle
  <1>12. m.at[nx] = NULL /\ hlist_fake(m, z) =>
           hlist_del_init(m, z) \in HMemory /\ HIdle(m, hlist_del_init(m, z), z)
    <2> SUFFICES ASSUME m.at[nx] = NULL, hlist_fake(m, z)
                 PROVE  hlist_del_init(m, z) \in HMemory /\ HIdle(m, hlist_del_init(m, z), z)
      OBVIOUS
    <2>1. ~hlist_unhashed(m, z)
      BY <1>1, PlaceFacts DEF hlist_fake, hlist_unhashed
    <2> QED BY <1>4, <1>9, <2>1 DEF hlist_del_init
  <1> QED BY <1>1, <1>4, <1>6, <1>8, <1>10, <1>11, <1>12

(***************************************************************************)
(* What the calls mean                                                     *)
(***************************************************************************)
LEMMA OnIs ==
    ASSUME NEW m, NEW S, HShows(m, S), NEW z \in HNodes
    PROVE  /\ On(S, z) <=> \E h \in HHeads : z \in ToSet(HLists(m)[h])
           /\ \A h \in HHeads : z \in ToSet(S[h]) <=> \E k \in 1 .. Len(S[h]) : S[h][k] = z
  <1>1. HLists(m) = S
    BY HListsAre
  <1>2. \A h \in HHeads : DOMAIN S[h] = 1 .. Len(S[h])
    BY DEF HShows, Chain
  <1> QED BY <1>1, <1>2 DEF On, ToSet

LEMMA HIndexIs ==
    ASSUME NEW m, NEW S, HShows(m, S), NEW h \in HHeads, NEW c \in 1 .. Len(S[h])
    PROVE  /\ HIndex(S[h], S[h][c]) = c
           /\ \A g \in HHeads : S[h][c] \in ToSet(S[g]) <=> g = h
  <1>1. \A g \in HHeads : DOMAIN S[g] = 1 .. Len(S[g])
    BY DEF HShows, Chain
  <1>2. \A v \in DOMAIN S[h] : S[h][v] = S[h][c] => v = c
    BY <1>1, HOneSpot
  <1>3. \A g \in HHeads : S[h][c] \in ToSet(S[g]) => g = h
    BY <1>1, HOneSpot DEF ToSet
  <1>4. S[h][c] \in ToSet(S[h])
    BY <1>1 DEF ToSet
  <1> QED BY <1>1, <1>2, <1>3, <1>4 DEF HIndex

LEMMA HPutIs ==
    ASSUME NEW m, NEW S, HShows(m, S), NEW h \in HHeads, NEW c \in 1 .. Len(S[h]),
           NEW z \in HNodes, NEW d \in {0, 1}, NEW j, j = c + d - 1
    PROVE  HPut(S, S[h][c], z, d) = [S EXCEPT ![h] = Behind(@, j, <<z>>)]
  <1>1. PICK k : k = S[h][c] /\ HIndex(S[h], k) = c /\ \A g \in HHeads : k \in ToSet(S[g]) <=> g = h
    BY HIndexIs
  <1>2. HPut(S, k, z, d) = [g \in HHeads |-> IF g = h THEN InsertAt(S[h], c + d, z) ELSE S[g]]
    BY <1>1 DEF HPut
  <1>3. InsertAt(S[h], c + d, z) = Behind(S[h], j, <<z>>)
    <2>1. PICK v \in Int : v = c + d /\ j + 1 = v
      <3>1. c \in Int
        BY DEF HShows, Chain
      <3> QED BY <3>1
    <2>2. Behind(S[h], j, <<z>>) = PutAt(S[h], v, <<z>>)
      BY <2>1 DEF Behind
    <2> QED BY <2>1, <2>2 DEF InsertAt, PutAt
  <1>4. S = [g \in HHeads |-> S[g]]
    BY DEF HShows
  <1>5. [S EXCEPT ![h] = Behind(@, j, <<z>>)]
          = [g \in HHeads |-> IF g = h THEN Behind(S[h], j, <<z>>) ELSE S[g]]
    <2> HIDE DEF Behind
    <2> QED BY <1>4
  <1> QED BY <1>1, <1>2, <1>3, <1>5

LEMMA HWithoutIs ==
    ASSUME NEW m, NEW S, HShows(m, S), NEW h \in HHeads, NEW c \in 1 .. Len(S[h])
    PROVE  HWithout(S, S[h][c]) = [S EXCEPT ![h] = RemoveAt(@, c)]
  <1>1. PICK k : k = S[h][c] /\ HIndex(S[h], k) = c /\ \A g \in HHeads : k \in ToSet(S[g]) <=> g = h
    BY HIndexIs
  <1>2. HWithout(S, k) = [g \in HHeads |-> IF g = h THEN RemoveAt(S[h], c) ELSE S[g]]
    BY <1>1 DEF HWithout
  <1>3. S = [g \in HHeads |-> S[g]]
    BY DEF HShows
  <1> QED BY <1>1, <1>2, <1>3

LEMMA HAddHeadMeant ==
    ASSUME NEW m, NEW S, HMeant(m, S), NEW z \in HNodes, ~On(S, z), NEW h \in HHeads
    PROVE  HMeant(hlist_add_head(m, z, h), [S EXCEPT ![h] = <<z>> \o @])
  <1>1. HShows(m, S) /\ m \in HMemory /\ S[h] \in Seq(HNodes) /\ S = [g \in HHeads |-> S[g]]
    BY DEF HMeant, HShows, Chain
  <1>2. PICK pl : pl = HPlace(h, S[h], 0) /\ pl = <<"first", h>>
    BY DEF HPlace
  <1>3. 0 \in 0 .. Len(S[h])
    BY <1>1
  <1>4. m.at[pl] # z /\ m.at[pl] \in HNodes \cup {NULL}
    BY <1>1, <1>2, <1>3, Elsewhere
  <1>5. PICK m2 \in HMemory : m2 = hlist_add_head(m, z, h) /\ HInserted(m, m2, pl, z)
    BY <1>1, <1>2, <1>4, AddHeadWrites
  <1>6. HMeant(m2, [S EXCEPT ![h] = Behind(@, 0, <<z>>)])
    BY <1>2, <1>3, <1>5, HInsertMeant
  <1>7. Behind(S[h], 0, <<z>>) = <<z>> \o S[h]
    <2>1. Len(S[h]) \in Nat /\ SubSeq(S[h], 1, 0) = <<>> /\ SubSeq(S[h], 1, Len(S[h])) = S[h]
      BY <1>1
    <2>2. (0 + 1) - 1 = 0 /\ 0 + 1 = 1 /\ <<>> \o <<z>> = <<z>>
      OBVIOUS
    <2> QED BY <2>1, <2>2 DEF Behind, PutAt
  <1>8. [S EXCEPT ![h] = Behind(@, 0, <<z>>)] = [S EXCEPT ![h] = <<z>> \o @]
    BY <1>7
  <1> QED BY <1>5, <1>6, <1>8

LEMMA HAddByMeant ==
    ASSUME NEW m, NEW S, HMeant(m, S), NEW z \in HNodes, ~On(S, z), NEW k \in HNodes, On(S, k)
    PROVE  /\ HMeant(hlist_add_before(m, z, k), HPut(S, k, z, 0))
           /\ HMeant(hlist_add_behind(m, z, k), HPut(S, k, z, 1))
  <1>1. HShows(m, S) /\ m \in HMemory
    BY DEF HMeant, HShows
  <1>2. PICK h \in HHeads : \E j \in 1 .. Len(S[h]) : S[h][j] = k
    BY DEF On
  <1>3. PICK c \in 1 .. Len(S[h]) : S[h][c] = k
    BY <1>2
  <1>4. PICK L : L = Len(S[h]) /\ HListOf(m, S, h, L)
    BY <1>1, HListIs
  <1>5. L \in Nat /\ c - 1 \in 0 .. Len(S[h]) /\ c \in 0 .. Len(S[h]) /\ c \in 1 .. L
    BY <1>3, <1>4 DEF HListOf
  <1>6. k # z
    BY DEF On
  <1>7. HMeant(hlist_add_before(m, z, k), HPut(S, k, z, 0))
    <2>1. PICK pl : pl = HPlace(h, S[h], c - 1)
      OBVIOUS
    <2>2. pl \in HPlaces /\ pl # <<"next", z>>
      BY <1>1, <1>5, <2>1, Elsewhere
    <2>3. pl = m.pprev[k] /\ m.at[pl] = k
      BY <1>3, <1>4, <1>5, <2>1 DEF HListOf
    <2>4. PICK m2 \in HMemory : m2 = hlist_add_before(m, z, k) /\ HInserted(m, m2, pl, z)
      BY <1>1, <1>6, <2>2, <2>3, AddBeforeWrites
    <2>5. HMeant(m2, [S EXCEPT ![h] = Behind(@, c - 1, <<z>>)])
      BY <1>5, <2>1, <2>4, HInsertMeant
    <2>6. HPut(S, k, z, 0) = [S EXCEPT ![h] = Behind(@, c - 1, <<z>>)]
      <3>1. PICK d \in {0, 1} : d = 0
        OBVIOUS
      <3>2. PICK j : j = c - 1 /\ j = c + d - 1
        BY <1>5, <3>1
      <3>3. HPut(S, S[h][c], z, d) = [S EXCEPT ![h] = Behind(@, j, <<z>>)]
        BY <1>1, <3>2, HPutIs
      <3> QED BY <1>3, <3>1, <3>2, <3>3
    <2> QED BY <2>4, <2>5, <2>6
  <1>8. HMeant(hlist_add_behind(m, z, k), HPut(S, k, z, 1))
    <2>1. PICK pl : pl = HPlace(h, S[h], c) /\ pl = <<"next", k>>
      BY <1>3, <1>4, <1>5 DEF HListOf
    <2>2. m.at[pl] # z /\ m.at[pl] \in HNodes \cup {NULL}
      <3>1. m.at[HPlace(h, S[h], c)] # z /\ m.at[HPlace(h, S[h], c)] \in HNodes \cup {NULL}
        BY <1>1, <1>5, Elsewhere
      <3> QED BY <2>1, <3>1
    <2>3. PICK m2 \in HMemory : m2 = hlist_add_behind(m, z, k) /\ HInserted(m, m2, pl, z)
      BY <1>1, <1>6, <2>1, <2>2, AddBehindWrites
    <2>4. HMeant(m2, [S EXCEPT ![h] = Behind(@, c, <<z>>)])
      BY <1>5, <2>1, <2>3, HInsertMeant
    <2>5. HPut(S, k, z, 1) = [S EXCEPT ![h] = Behind(@, c, <<z>>)]
      <3>1. PICK d \in {0, 1} : d = 1
        OBVIOUS
      <3>2. PICK j : j = c /\ j = c + d - 1
        BY <1>5, <3>1
      <3>3. HPut(S, S[h][c], z, d) = [S EXCEPT ![h] = Behind(@, j, <<z>>)]
        BY <1>1, <3>2, HPutIs
      <3> QED BY <1>3, <3>1, <3>2, <3>3
    <2> QED BY <2>3, <2>4, <2>5
  <1> QED BY <1>7, <1>8

LEMMA HDeleteMeant ==
    ASSUME NEW m, NEW S, HMeant(m, S), NEW z \in HNodes, On(S, z)
    PROVE  /\ HMeant(hlist_del(m, z), HWithout(S, z))
           /\ HMeant(hlist_del_init(m, z), HWithout(S, z))
           /\ hlist_unhashed(hlist_del_init(m, z), z) /\ ~hlist_unhashed(m, z)
  <1>1. HShows(m, S) /\ m \in HMemory
    BY DEF HMeant, HShows
  <1>2. PICK h \in HHeads : \E j \in 1 .. Len(S[h]) : S[h][j] = z
    BY DEF On
  <1>3. PICK c \in 1 .. Len(S[h]) : S[h][c] = z
    BY <1>2
  <1>4. PICK L : L = Len(S[h]) /\ HListOf(m, S, h, L)
    BY <1>1, HListIs
  <1>5. L \in Nat /\ c \in 0 .. L /\ c - 1 \in 0 .. L /\ c \in 1 .. L /\ c - 1 # c
    BY <1>3, <1>4 DEF HListOf
  <1>6. PICK pl \in HPlaces : pl = HPlace(h, S[h], c - 1)
    BY <1>4, <1>5 DEF HListOf
  <1>7. pl = m.pprev[z] /\ m.at[pl] = z
    BY <1>3, <1>4, <1>5, <1>6 DEF HListOf
  <1>8. HPlace(h, S[h], c) = <<"next", z>> /\ pl # <<"next", z>>
    BY <1>3, <1>4, <1>5, <1>6 DEF HListOf
  <1>9. PICK e : e = m.at[<<"next", z>>] /\ e \in HNodes \cup {NULL} /\ e # z
    <2>1. m.at[<<"next", z>>] \in HNodes \cup {NULL}
      BY <1>4, <1>5, <1>8, HEntryIs
    <2>2. m.at[<<"next", z>>] # z
      <3>1. CASE c = L
        BY <1>4, <1>5, <1>8, <3>1, HEntryIs, PlaceFacts
      <3>2. CASE c < L
        <4>1. m.at[<<"next", z>>] = S[h][c + 1]
          BY <1>4, <1>5, <1>8, <3>2, HEntryIs
        <4>2. c + 1 \in 1 .. L /\ c + 1 # c
          BY <1>5, <3>2
        <4> QED BY <1>3, <1>4, <1>5, <4>1, <4>2 DEF HListOf
      <3> QED BY <1>5, <3>1, <3>2
    <2> QED BY <2>1, <2>2
  <1>10. /\ hlist_del(m, z) \in HMemory /\ hlist_del_init(m, z) \in HMemory
         /\ HRemoved(m, hlist_del(m, z), pl, z) /\ HRemoved(m, hlist_del_init(m, z), pl, z)
         /\ hlist_unhashed(hlist_del_init(m, z), z) /\ ~hlist_unhashed(m, z)
    BY <1>1, <1>7, <1>8, <1>9, DeleteWrites
  <1>11. HWithout(S, z) = [S EXCEPT ![h] = RemoveAt(@, c)]
    BY <1>1, <1>3, HWithoutIs
  <1>12. ASSUME NEW m2 \in HMemory, HRemoved(m, m2, pl, z)
         PROVE  HMeant(m2, [S EXCEPT ![h] = RemoveAt(@, c)])
    BY <1>3, <1>6, <1>12, HRemoveMeant
  <1> QED BY <1>10, <1>11, <1>12

LEMMA HIdleCalls ==
    ASSUME NEW m, NEW S, HMeant(m, S), NEW z \in HNodes, ~On(S, z)
    PROVE  /\ HMeant(INIT_HLIST_NODE(m, z), S)
           /\ hlist_unhashed(m, z) \/ hlist_fake(m, z) =>
                HMeant(hlist_add_fake(m, z), S) /\ HMeant(hlist_del_init(m, z), S)
           /\ hlist_fake(m, z) => HMeant(hlist_del(m, z), S)
  <1>1. m \in HMemory /\ Loose(m, S)
    BY DEF HMeant, HShows
  <1>2. hlist_unhashed(m, z) \/ hlist_fake(m, z) => m.at[<<"next", z>>] = NULL
    BY <1>1 DEF Loose, hlist_unhashed, hlist_fake
  <1>3. \A m2 \in HMemory : HIdle(m, m2, z) => HMeant(m2, S)
    BY HIdleMeant
  <1> QED BY <1>1, <1>2, <1>3, IdleWrites

LEMMA HMoveMeant ==
    ASSUME NEW m, NEW S, HMeant(m, S), NEW old \in HHeads, NEW new \in HHeads, old # new,
           S[new] = <<>>
    PROVE  HMeant(hlist_move_list(m, old, new), [S EXCEPT ![old] = <<>>, ![new] = S[old]])
  <1>0. HShows(m, S) /\ Loose(m, S) /\ S = [g \in HHeads |-> S[g]] /\ m \in HMemory
    BY DEF HMeant, HShows
  <1>1. PICK T : T = [S EXCEPT ![old] = <<>>, ![new] = S[old]]
    OBVIOUS
  <1>2. /\ T = [g \in HHeads |-> T[g]] /\ T[old] = <<>> /\ T[new] = S[old]
        /\ \A g \in HHeads \ {old, new} : T[g] = S[g]
    BY <1>0, <1>1
  <1>3. PICK s, L : s = S[old] /\ L = Len(s) /\ HListOf(m, S, old, L)
    BY <1>0, HListIs
  <1>4. PICK po \in HPlaces, pn \in HPlaces : po = <<"first", old>> /\ pn = <<"first", new>> /\ po # pn
    <2>1. <<"first", old>> \in HPlaces /\ <<"first", new>> \in HPlaces
          /\ <<"first", old>> # <<"first", new>>
      BY PlaceFacts
    <2> QED BY <2>1
  <1>5. L \in Nat /\ s \in Seq(HNodes) /\ Len(s) = L /\ HPlace(old, s, 0) = po
    BY <1>3, <1>4 DEF HListOf
  <1>6. PICK e : e = m.at[po]
    OBVIOUS
  <1>7. (L = 0 => e = NULL) /\ (L > 0 => e = s[1] /\ e \in HNodes)
    BY <1>3, <1>5, <1>6, HEntryIs
  <1>8. PICK at : at = [m.at EXCEPT ![pn] = e, ![po] = NULL]
    OBVIOUS
  <1>9. PICK pprev : pprev = PointBack(m, e, pn)
    OBVIOUS
  <1>10. PICK m2 : m2 = hlist_move_list(m, old, new) /\ m2 = [at |-> at, pprev |-> pprev]
    BY <1>4, <1>6, <1>8, <1>9 DEF hlist_move_list, First
  <1>11. /\ at \in [HPlaces -> HNodes \cup {NULL, POISON1}]
         /\ \A x \in HPlaces : at[x] = IF x = po THEN NULL ELSE IF x = pn THEN e ELSE m.at[x]
    <2>1. e \in HNodes \cup {NULL, POISON1}
      BY <1>0, <1>6, HMemoryParts
    <2> QED BY <1>0, <1>4, <1>8, <2>1, HMemoryParts
  <1>12. /\ pprev \in [HNodes -> HPlaces \cup {NULL, POISON2}]
         /\ \A x \in HNodes : pprev[x] = IF x = e THEN pn ELSE m.pprev[x]
    BY <1>0, <1>9, HMemoryParts, PlaceFacts DEF PointBack
  <1>13. m2 \in HMemory /\ m2.at = at /\ m2.pprev = pprev
    BY <1>10, <1>11, <1>12, HMemoryIs
  <1>14. Chain(m2, old, T[old])
    <2>1. HPlace(old, <<>>, 0) = po /\ at[po] = NULL
      BY <1>4, <1>11 DEF HPlace
    <2> QED BY <1>2, <1>13, <2>1 DEF Chain
  <1>15. Chain(m2, new, s)
    <2>1. HPlace(new, s, 0) = pn
      BY <1>4 DEF HPlace
    <2>2. ASSUME NEW k \in 1 .. L
          PROVE  /\ HPlace(new, s, k) = HPlace(old, s, k) /\ HPlace(new, s, k) \in HPlaces
                 /\ HPlace(new, s, k) # po /\ HPlace(new, s, k) # pn
      <3>1. HPlace(new, s, k) = <<"next", s[k]>>
        BY DEF HPlace
      <3>2. HPlace(old, s, k) = <<"next", s[k]>> /\ s[k] \in HNodes
        BY <1>3 DEF HListOf
      <3> QED BY <1>4, <3>1, <3>2, PlaceFacts
    <2>3. ASSUME NEW k \in 1 .. L
          PROVE  m2.at[HPlace(new, s, k - 1)] = s[k] /\ m2.pprev[s[k]] = HPlace(new, s, k - 1)
      <3>1. s[k] \in HNodes /\ m.at[HPlace(old, s, k - 1)] = s[k] /\ m.pprev[s[k]] = HPlace(old, s, k - 1)
        BY <1>3 DEF HListOf
      <3>2. CASE k = 1
        <4>1. e = s[1] /\ k - 1 = 0
          BY <1>5, <1>7, <3>2
        <4> QED BY <1>4, <1>11, <1>12, <1>13, <2>1, <3>1, <3>2, <4>1
      <3>3. CASE k > 1
        <4>1. PICK d \in 1 .. L : d = k - 1
          BY <1>5, <3>3
        <4>2. s[k] # e
          <5>1. 1 \in 1 .. L /\ k # 1 /\ e = s[1]
            BY <1>5, <1>7, <3>3
          <5> QED BY <1>3, <5>1 DEF HListOf
        <4>3. m2.at[HPlace(new, s, d)] = m.at[HPlace(old, s, d)]
          BY <1>11, <1>13, <2>2
        <4> QED BY <1>12, <1>13, <2>2, <3>1, <4>1, <4>2, <4>3
      <3> QED BY <1>5, <3>2, <3>3
    <2>4. m2.at[HPlace(new, s, L)] = NULL
      <3>1. CASE L = 0
        BY <1>4, <1>7, <1>11, <1>13, <2>1, <3>1
      <3>2. CASE L > 0
        <4>1. L \in 1 .. L
          BY <1>5, <3>2
        <4>2. m.at[HPlace(old, s, L)] = NULL
          BY <1>3 DEF HListOf
        <4> QED BY <1>11, <1>13, <2>2, <4>1, <4>2
      <3> QED BY <1>5, <3>1, <3>2
    <2> QED BY <1>5, <2>3, <2>4 DEF Chain
  <1>16. ASSUME NEW g \in HHeads \ {old, new} PROVE Chain(m2, g, S[g])
    <2>1. PICK M : M = Len(S[g]) /\ HListOf(m, S, g, M)
      BY <1>0, HListIs
    <2>2. ASSUME NEW j \in 0 .. M PROVE m2.at[HPlace(g, S[g], j)] = m.at[HPlace(g, S[g], j)]
      <3>1. HPlace(g, S[g], j) \in HPlaces
        BY <2>1 DEF HListOf
      <3>2. HPlace(g, S[g], j) # po /\ HPlace(g, S[g], j) # pn
        <4>1. CASE j = 0
          BY <1>4, <2>1, <4>1, PlaceFacts DEF HListOf
        <4>2. CASE j # 0
          <5>1. j \in 1 .. M
            BY <2>1, <4>2 DEF HListOf
          <5>2. HPlace(g, S[g], j) = <<"next", S[g][j]>> /\ S[g][j] \in HNodes
            BY <2>1, <5>1 DEF HListOf
          <5> QED BY <1>4, <5>2, PlaceFacts
        <4> QED BY <4>1, <4>2
      <3> QED BY <1>11, <1>13, <3>1, <3>2
    <2>3. ASSUME NEW j \in 1 .. M PROVE m2.pprev[S[g][j]] = m.pprev[S[g][j]]
      <3>1. S[g][j] \in HNodes
        BY <2>1 DEF HListOf
      <3>2. S[g][j] # e
        <4>1. CASE L = 0
          BY <1>7, <3>1, <4>1, PlaceFacts
        <4>2. CASE L > 0
          <5>1. 1 \in 1 .. Len(S[old]) /\ e = S[old][1] /\ j \in 1 .. Len(S[g])
            BY <1>3, <1>5, <1>7, <2>1, <4>2
          <5> QED BY <1>0, <5>1, HOneSpot
        <4> QED BY <1>5, <4>1, <4>2
      <3> QED BY <1>12, <1>13, <3>1, <3>2
    <2> QED BY <1>0, <2>1, <2>2, <2>3, ChainStays
  <1>17. HShows(m2, T)
    BY <1>2, <1>3, <1>13, <1>14, <1>15, <1>16 DEF HShows
  <1>18. \A x \in HNodes : On(S, x) => On(T, x)
    <2> SUFFICES ASSUME NEW x \in HNodes, On(S, x) PROVE On(T, x)
      OBVIOUS
    <2>1. PICK g \in HHeads : \E j \in 1 .. Len(S[g]) : S[g][j] = x
      BY DEF On
    <2>2. g # new
      BY <2>1
    <2>3. CASE g = old
      BY <1>2, <2>1, <2>3 DEF On
    <2>4. CASE g # old
      BY <1>2, <2>1, <2>2, <2>4 DEF On
    <2> QED BY <2>3, <2>4
  <1>19. Loose(m2, T)
    <2> SUFFICES ASSUME NEW x \in HNodes, ~On(T, x), m2.pprev[x] \in {NULL, <<"next", x>>}
                 PROVE  m2.at[<<"next", x>>] = NULL
      BY DEF Loose
    <2>1. ~On(S, x)
      BY <1>18
    <2>2. x # e
      <3>1. L > 0 => On(S, e)
        <4> SUFFICES ASSUME L > 0 PROVE On(S, e)
          OBVIOUS
        <4>1. 1 \in 1 .. Len(S[old]) /\ S[old][1] = e
          BY <1>3, <1>5, <1>7
        <4> QED BY <4>1 DEF On
      <3> QED BY <1>5, <1>7, <2>1, <3>1, PlaceFacts
    <2>3. m2.pprev[x] = m.pprev[x]
      BY <1>12, <1>13, <2>2
    <2>4. m2.at[<<"next", x>>] = m.at[<<"next", x>>]
      <3>1. <<"next", x>> \in HPlaces /\ <<"next", x>> # po /\ <<"next", x>> # pn
        BY <1>4, PlaceFacts
      <3> QED BY <1>11, <1>13, <3>1
    <2> QED BY <1>0, <2>1, <2>3, <2>4 DEF Loose
  <1> QED BY <1>1, <1>10, <1>17, <1>19 DEF HMeant

LEMMA HMeantCalls ==
    ASSUME NEW S, HMeant(hmem, S)
    PROVE  HCallsMean
  <1>1. HShows(hmem, S) /\ hmem \in HMemory /\ S = [h \in HHeads |-> S[h]] /\ HNow = S
    BY HListsAre DEF HMeant, HShows, HNow
  <1>2. \A m2, T : HMeant(m2, T) => HLists(m2) = T
    BY HListsAre DEF HMeant
  <1>3. \A z \in HNodes : HLinked(z) <=> On(S, z)
    BY <1>1, OnIs DEF HLinked
  <1>4. ASSUME NEW h \in HHeads
        PROVE  /\ \A v \in DOMAIN S[h] : hmem.pprev[S[h][v]] =
                     IF v = 1 THEN <<"first", h>> ELSE <<"next", S[h][v - 1]>>
               /\ S[h] # <<>> => After(hmem, Last(S[h])) = NULL
               /\ hlist_empty(hmem, h) = (S[h] = <<>>)
               /\ \A z \in HNodes : On(S, z) =>
                    hlist_is_singular_node(hmem, z, h) = (S[h] = <<z>>)
    <2>1. PICK s, L : s = S[h] /\ L = Len(s) /\ HListOf(hmem, S, h, L)
      BY <1>1, HListIs
    <2>2. L \in Nat /\ s \in Seq(HNodes) /\ DOMAIN s = 1 .. L /\ (s = <<>> <=> L = 0)
      BY <2>1 DEF HListOf
    <2>3. ASSUME NEW v \in DOMAIN s
          PROVE  hmem.pprev[s[v]] = IF v = 1 THEN <<"first", h>> ELSE <<"next", s[v - 1]>>
      <3>1. hmem.pprev[s[v]] = HPlace(h, s, v - 1)
        BY <2>1, <2>2 DEF HListOf
      <3>2. CASE v = 1
        <4>1. v - 1 = 0
          BY <3>2
        <4> QED BY <3>1, <3>2, <4>1 DEF HPlace
      <3>3. CASE v # 1
        <4>1. v - 1 # 0
          BY <2>2, <3>3
        <4> QED BY <3>1, <3>3, <4>1 DEF HPlace
      <3> QED BY <3>2, <3>3
    <2>4. s # <<>> => After(hmem, Last(s)) = NULL
      <3> SUFFICES ASSUME s # <<>> PROVE After(hmem, Last(s)) = NULL
        OBVIOUS
      <3>1. L \in 1 .. L /\ Last(s) = s[L]
        BY <2>1, <2>2 DEF Last
      <3>2. HPlace(h, s, L) = <<"next", s[L]>> /\ hmem.at[HPlace(h, s, L)] = NULL
        BY <2>1, <3>1 DEF HListOf
      <3> QED BY <3>1, <3>2 DEF After
    <2>5. HPlace(h, s, 0) = <<"first", h>> /\ 0 \in 0 .. L
      BY <2>2 DEF HPlace
    <2>6. hlist_empty(hmem, h) <=> s = <<>>
      <3>1. CASE L = 0
        <4>1. hmem.at[HPlace(h, s, 0)] = NULL
          BY <2>1, <2>5, <3>1, HEntryIs
        <4> QED BY <2>2, <2>5, <3>1, <4>1 DEF hlist_empty, First
      <3>2. CASE L > 0
        <4>1. hmem.at[HPlace(h, s, 0)] \in HNodes
          BY <2>1, <2>5, <3>2, HEntryIs
        <4> QED BY <2>2, <2>5, <3>2, <4>1, PlaceFacts DEF hlist_empty, First
      <3> QED BY <2>2, <3>1, <3>2
    <2>7. ASSUME NEW z \in HNodes, On(S, z) PROVE hlist_is_singular_node(hmem, z, h) <=> s = <<z>>
      <3>1. ASSUME s = <<z>> PROVE hlist_is_singular_node(hmem, z, h)
        <4>1. L = 1 /\ s[1] = z /\ 1 \in 1 .. L /\ 1 - 1 = 0
          BY <2>1, <3>1
        <4>2. hmem.pprev[z] = HPlace(h, s, 0)
          BY <2>1, <4>1 DEF HListOf
        <4>3. HPlace(h, s, 1) = <<"next", z>> /\ hmem.at[HPlace(h, s, 1)] = NULL
          BY <2>1, <4>1 DEF HListOf
        <4> QED BY <2>5, <4>2, <4>3 DEF hlist_is_singular_node, After
      <3>2. ASSUME hlist_is_singular_node(hmem, z, h) PROVE s = <<z>>
        <4>1. PICK g \in HHeads : \E j \in 1 .. Len(S[g]) : S[g][j] = z
          BY <2>7 DEF On
        <4>1a. PICK c \in 1 .. Len(S[g]) : S[g][c] = z
          BY <4>1
        <4>2. PICK M : M = Len(S[g]) /\ HListOf(hmem, S, g, M)
          BY <1>1, HListIs
        <4>3. M \in Nat /\ c \in 1 .. M /\ c - 1 \in 0 .. M /\ hmem.pprev[z] = HPlace(g, S[g], c - 1)
          BY <4>1a, <4>2 DEF HListOf
        <4>4. HPlace(g, S[g], c - 1) = HPlace(h, S[h], 0)
          BY <2>1, <2>5, <3>2, <4>3 DEF hlist_is_singular_node
        <4>5. g = h /\ c - 1 = 0
          <5>1. 0 \in 0 .. Len(S[h]) /\ c - 1 \in 0 .. Len(S[g])
            BY <2>1, <2>5, <4>2, <4>3
          <5> QED BY <1>1, <4>4, <5>1, HOnePlace
        <4>6. c = 1 /\ M = L /\ s[1] = z
          BY <2>1, <4>1a, <4>2, <4>3, <4>5
        <4>7. L = 1
          <5> SUFFICES ASSUME L # 1 PROVE FALSE
            OBVIOUS
          <5>1. 1 \in 0 .. L /\ 1 < L /\ 1 \in 1 .. L
            BY <2>2, <4>3, <4>6
          <5>2. hmem.at[HPlace(h, s, 1)] \in HNodes
            BY <2>1, <5>1, HEntryIs
          <5>3. HPlace(h, s, 1) = <<"next", z>>
            BY <4>6 DEF HPlace
          <5> QED BY <3>2, <5>2, <5>3, PlaceFacts DEF hlist_is_singular_node, After
        <4> QED BY <2>1, <2>2, <4>6, <4>7
      <3> QED BY <3>1, <3>2
    <2> QED BY <2>1, <2>3, <2>4, <2>6, <2>7 DEF hlist_empty, hlist_is_singular_node
  <1>5. ASSUME NEW z \in HNodes, ~On(S, z)
        PROVE  /\ \A h \in HHeads : HLists(hlist_add_head(hmem, z, h)) = [S EXCEPT ![h] = <<z>> \o @]
               /\ \A k \in HNodes : On(S, k) =>
                    /\ HLists(hlist_add_before(hmem, z, k)) = HPut(S, k, z, 0)
                    /\ HLists(hlist_add_behind(hmem, z, k)) = HPut(S, k, z, 1)
               /\ hlist_unhashed(hmem, z) \/ Fake(z) =>
                    /\ HLists(hlist_add_fake(hmem, z)) = S
                    /\ HLists(hlist_del_init(hmem, z)) = S
    <2>1. ASSUME NEW h \in HHeads
          PROVE  HLists(hlist_add_head(hmem, z, h)) = [S EXCEPT ![h] = <<z>> \o @]
      <3>1. HMeant(hlist_add_head(hmem, z, h), [S EXCEPT ![h] = <<z>> \o @])
        BY <1>5, HAddHeadMeant
      <3> QED BY <1>2, <3>1
    <2>2. ASSUME NEW k \in HNodes, On(S, k)
          PROVE  /\ HLists(hlist_add_before(hmem, z, k)) = HPut(S, k, z, 0)
                 /\ HLists(hlist_add_behind(hmem, z, k)) = HPut(S, k, z, 1)
      BY <1>2, <1>5, <2>2, HAddByMeant
    <2>3. hlist_unhashed(hmem, z) \/ Fake(z) =>
             /\ HLists(hlist_add_fake(hmem, z)) = S
             /\ HLists(hlist_del_init(hmem, z)) = S
      BY <1>2, <1>5, HIdleCalls DEF Fake
    <2> QED BY <2>1, <2>2, <2>3
  <1>6. ASSUME NEW z \in HNodes, On(S, z)
        PROVE  /\ HLists(hlist_del(hmem, z)) = HWithout(S, z)
               /\ HLists(hlist_del_init(hmem, z)) = HWithout(S, z)
               /\ hlist_unhashed(hlist_del_init(hmem, z), z) /\ ~hlist_unhashed(hmem, z)
    BY <1>2, <1>6, HDeleteMeant
  <1>7. ASSUME NEW g \in HHeads, NEW h \in HHeads, g # h, S[h] = <<>>
        PROVE  HLists(hlist_move_list(hmem, g, h)) = [S EXCEPT ![g] = <<>>, ![h] = S[g]]
    <2>1. HMeant(hlist_move_list(hmem, g, h), [S EXCEPT ![g] = <<>>, ![h] = S[g]])
      BY <1>7, HMoveMeant
    <2> QED BY <1>2, <2>1
  <1> QED BY <1>1, <1>3, <1>4, <1>5, <1>6, <1>7 DEF HCallsMean, HUnused

LEMMA HInitMeant == HInit => \E S : HMeant(hmem, S)
  <1> SUFFICES ASSUME HInit PROVE \E S : HMeant(hmem, S)
    OBVIOUS
  <1> DEFINE at == [x \in Firsts \cup Nexts |-> IF x \in Firsts THEN NULL ELSE POISON1]
             pprev == [z \in HNodes |-> POISON2]
             S == [h \in HHeads |-> <<>>]
  <1>1. hmem = [at |-> at, pprev |-> pprev] /\ hmem.at = at /\ hmem.pprev = pprev
    BY DEF HInit
  <1>2. /\ at \in [HPlaces -> HNodes \cup {NULL, POISON1}]
        /\ pprev \in [HNodes -> HPlaces \cup {NULL, POISON2}]
    BY DEF HPlaces
  <1>3. hmem \in HMemory
    <2> HIDE DEF at, pprev
    <2> QED BY <1>1, <1>2, HMemoryIs
  <1>4. ASSUME NEW h \in HHeads PROVE Chain(hmem, h, S[h])
    <2>1. S[h] = <<>> /\ HPlace(h, <<>>, 0) = <<"first", h>>
      BY DEF HPlace
    <2>2. hmem.at[<<"first", h>>] = NULL
      BY <1>1, PlaceFacts DEF HPlaces
    <2> QED BY <2>1, <2>2 DEF Chain
  <1>5. HShows(hmem, S)
    BY <1>3, <1>4 DEF HShows
  <1>6. Loose(hmem, S)
    BY <1>1, PlaceFacts DEF Loose
  <1> QED BY <1>5, <1>6 DEF HMeant

LEMMA HCallMeant ==
    ASSUME NEW S, HMeant(hmem, S), HNext
    PROVE  \E T : HMeant(hmem', T)
  <1>1. HShows(hmem, S) /\ hmem \in HMemory /\ HNow = S
    BY HListsAre DEF HMeant, HShows, HNow
  <1>2. \A z \in HNodes : HLinked(z) <=> On(S, z)
    BY <1>1, OnIs DEF HLinked
  <1>3. CASE HAdd
    <2>1. PICK z \in HNodes :
            /\ HUnused(z)
            /\ \/ hmem' = INIT_HLIST_NODE(hmem, z)
               \/ \E h \in HHeads : hmem' = hlist_add_head(hmem, z, h)
               \/ \E k \in HNodes :
                    /\ HLinked(k)
                    /\ hmem' \in {hlist_add_before(hmem, z, k), hlist_add_behind(hmem, z, k)}
      BY <1>3 DEF HAdd
    <2>2. ~On(S, z)
      BY <1>2, <2>1 DEF HUnused
    <2>3. CASE hmem' = INIT_HLIST_NODE(hmem, z)
      BY <2>2, <2>3, HIdleCalls
    <2>4. CASE \E h \in HHeads : hmem' = hlist_add_head(hmem, z, h)
      <3>1. PICK h \in HHeads : hmem' = hlist_add_head(hmem, z, h)
        BY <2>4
      <3>2. HMeant(hlist_add_head(hmem, z, h), [S EXCEPT ![h] = <<z>> \o @])
        BY <2>1, <2>2, <3>1, HAddHeadMeant
      <3> QED BY <3>1, <3>2
    <2>5. CASE \E k \in HNodes :
                 /\ HLinked(k)
                 /\ hmem' \in {hlist_add_before(hmem, z, k), hlist_add_behind(hmem, z, k)}
      BY <1>2, <2>2, <2>5, HAddByMeant
    <2> QED BY <2>1, <2>3, <2>4, <2>5
  <1>4. CASE HFake
    <2>1. PICK z \in HNodes :
            HUnused(z) /\ hlist_unhashed(hmem, z) /\ hmem' = hlist_add_fake(hmem, z)
      BY <1>4 DEF HFake
    <2>2. ~On(S, z)
      BY <1>2, <2>1 DEF HUnused
    <2> QED BY <2>1, <2>2, HIdleCalls
  <1>5. CASE HDelete
    <2>1. PICK z \in HNodes :
            \/ (HLinked(z) \/ Fake(z)) /\ hmem' = hlist_del(hmem, z)
            \/ /\ HLinked(z) \/ Fake(z) \/ hlist_unhashed(hmem, z)
               /\ hmem' = hlist_del_init(hmem, z)
      BY <1>5 DEF HDelete
    <2>2. CASE On(S, z)
      BY <2>1, <2>2, HDeleteMeant
    <2>3. CASE ~On(S, z)
      BY <1>2, <2>1, <2>3, HIdleCalls DEF Fake
    <2> QED BY <2>2, <2>3
  <1>6. CASE HMoveList
    <2>1. PICK old, new \in HHeads :
            old # new /\ hlist_empty(hmem, new) /\ hmem' = hlist_move_list(hmem, old, new)
      BY <1>6 DEF HMoveList
    <2>2. HCallsMean
      BY HMeantCalls
    <2>3. S[new] = <<>>
      BY <1>1, <2>1, <2>2 DEF HCallsMean
    <2> QED BY <2>1, <2>3, HMoveMeant
  <1> QED BY <1>3, <1>4, <1>5, <1>6 DEF HNext

HMeaningInv == HMeant(hmem, HLists(hmem))

(* Whatever calls of the hlist functions are made, an entry can be deleted *)
(* without knowing its list, because it points back to the place that      *)
(* leads to it, and every call does to the lists what its name says.       *)
THEOREM EveryHCallMeans == MCSpec => []HListCallsMean
  <1>0. (\E S : HMeant(hmem, S)) <=> HMeaningInv
    BY HListsAre DEF HMeaningInv, HMeant
  <1>1. MCInit => HMeaningInv
    BY <1>0, HInitMeant DEF MCInit
  <1>2. HMeaningInv /\ [MCNext]_<<subject, mem, hVars, loopVars, stackOnly, scriptOnly>> => HMeaningInv'
    <2> SUFFICES ASSUME HMeaningInv,
                        [MCNext]_<<subject, mem, hVars, loopVars, stackOnly, scriptOnly>>
                 PROVE  HMeaningInv'
      OBVIOUS
    <2>1. HNext \/ UNCHANGED hmem
      BY DEF MCNext, hVars
    <2>2. CASE UNCHANGED hmem
      <3>1. HLists(hmem)' = HLists(hmem)
        BY <2>2 DEF HLists
      <3> QED BY <2>2, <3>1 DEF HMeaningInv
    <2>3. CASE HNext
      <3>1. PICK T : HMeant(hmem', T)
        BY <2>3, HCallMeant DEF HMeaningInv
      <3>2. HLists(hmem') = T
        BY <3>1, HListsAre DEF HMeant
      <3> QED BY <3>1, <3>2 DEF HMeaningInv
    <2> QED BY <2>1, <2>2, <2>3
  <1>3. HMeaningInv => HListCallsMean
    BY HMeantCalls DEF HMeaningInv, HListCallsMean
  <1> QED BY <1>1, <1>2, <1>3, PTL DEF MCSpec
================================================================================

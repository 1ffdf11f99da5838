------------------------------ MODULE ListProofs ------------------------------
(***************************************************************************)
(* TLAPS proofs about ListHead, for any number of lists and entries: every *)
(* call that respects the comments of list_head.h leaves the rings whole,  *)
(* and does to the lists what its comment says.                            *)
(* The functions are compositions of a few surgeries; each surgery has a   *)
(* lemma of what it needs and keeps.                                       *)
(***************************************************************************)
EXTENDS MCLists, SeqLemmas, FiniteSetTheorems, TLAPS

USE AddrAssumption

UnusedIn(m, x) == ~(LiveIn(m, x) /\ m.next[x] # x)

(* All but x that are in use in m are so in m2. *)
Kept(m, m2, x) == \A y \in Addr \ {x} : LiveIn(m, y) => LiveIn(m2, y)

(* None but x has come into use.                                           *)
NoneNew(m, m2, x) == \A y \in Addr \ {x} : LiveIn(m2, y) => LiveIn(m, y)

(* The links of an object that is in use, and of its neighbours. *)
LEMMA Neighbours ==
    ASSUME NEW m, WholeIn(m), NEW x \in Addr, LiveIn(m, x)
    PROVE  /\ m.next[x] \in Addr /\ LiveIn(m, m.next[x]) /\ m.prev[m.next[x]] = x
           /\ m.prev[x] \in Addr /\ LiveIn(m, m.prev[x]) /\ m.next[m.prev[x]] = x
  BY DEF WholeIn, LiveIn

(* __list_add between two neighbours. *)
LEMMA AddBetweenWhole ==
    ASSUME NEW m, WholeIn(m), NEW new \in Addr, NEW pv \in Addr, NEW nx \in Addr,
           UnusedIn(m, new), new # pv, LiveIn(m, pv), nx = m.next[pv]
    PROVE  /\ WholeIn(AddBetween(m, new, pv, nx))
           /\ \A y \in Addr : LiveIn(m, y) => LiveIn(AddBetween(m, new, pv, nx), y)
           /\ NoneNew(m, AddBetween(m, new, pv, nx), new) /\ LiveIn(AddBetween(m, new, pv, nx), new)
  <1> DEFINE m2 == AddBetween(m, new, pv, nx)
  <1>1. m \in Memory /\ nx \in Addr /\ LiveIn(m, nx) /\ m.prev[nx] = pv /\ nx # new
    BY Neighbours DEF WholeIn, LiveIn, UnusedIn
  <1>2. m2 \in Memory
    BY <1>1 DEF AddBetween, Memory
  <1>3. \A y \in Addr : /\ m2.next[y] = IF y = pv THEN new ELSE IF y = new THEN nx ELSE m.next[y]
                        /\ m2.prev[y] = IF y = new THEN pv ELSE IF y = nx THEN new ELSE m.prev[y]
    BY <1>1 DEF AddBetween, Memory
  <1>4. \A y \in Addr : LiveIn(m, y) => LiveIn(m2, y)
    <2> SUFFICES ASSUME NEW y \in Addr, LiveIn(m, y) PROVE LiveIn(m2, y)
      OBVIOUS
    <2>1. /\ m.next[y] \in Addr /\ LiveIn(m, m.next[y]) /\ m.prev[m.next[y]] = y
          /\ m.prev[y] \in Addr /\ LiveIn(m, m.prev[y]) /\ m.next[m.prev[y]] = y
      BY Neighbours
    <2>6. y # new => m.next[y] # new /\ m.prev[y] # new
      BY <2>1 DEF UnusedIn, LiveIn
    <2>2. CASE y = new
      BY <1>1, <1>3, <2>2 DEF LiveIn
    <2>3. CASE y # new /\ y = pv
      BY <1>1, <1>3, <2>1, <2>6, <2>3 DEF LiveIn
    <2>4. CASE y # new /\ y # pv /\ y = nx
      BY <1>1, <1>3, <2>1, <2>6, <2>4 DEF LiveIn
    <2>5. CASE y \notin {new, pv, nx}
      BY <1>1, <1>3, <2>1, <2>6, <2>5 DEF LiveIn
    <2> QED BY <2>2, <2>3, <2>4, <2>5
  <1>5. \A y \in Addr : LiveIn(m2, y) => y = new \/ LiveIn(m, y)
    <2> SUFFICES ASSUME NEW y \in Addr, LiveIn(m2, y), y \notin {new, pv, nx} PROVE LiveIn(m, y)
      BY <1>1
    <2>1. m.next[y] = m2.next[y] /\ m.prev[y] = m2.prev[y]
      BY <1>3
    <2>2. m2.next[y] \in Addr \ {new, nx} /\ m2.prev[y] \in Addr \ {new, pv}
      BY <1>3, <1>1 DEF LiveIn
    <2> QED BY <1>3, <2>1, <2>2 DEF LiveIn
  <1>7. LiveIn(m2, new)
    BY <1>1, <1>3 DEF LiveIn
  <1>6. ASSUME NEW y \in Addr, LiveIn(m2, y)
        PROVE  LiveIn(m2, m2.next[y]) /\ LiveIn(m2, m2.prev[y])
    <2>1. CASE y = new
      BY <1>1, <1>3, <1>4, <2>1
    <2>2. CASE y # new
      <3>1. LiveIn(m, y)
        BY <1>5, <1>6, <2>2
      <3>2. /\ m.next[y] \in Addr /\ LiveIn(m, m.next[y])
            /\ m.prev[y] \in Addr /\ LiveIn(m, m.prev[y])
        BY <3>1, Neighbours
      <3> QED BY <1>3, <1>4, <1>7, <2>2, <3>2
    <2> QED BY <2>1, <2>2
  <1> QED BY <1>2, <1>4, <1>5, <1>6, <1>7 DEF WholeIn, NoneNew

(* __list_del_entry: the neighbours are joined, and the entry is not part  *)
(* of a list any more.                                                     *)
LEMMA UnlinkWhole ==
    ASSUME NEW m, WholeIn(m), NEW e \in Addr, LiveIn(m, e)
    PROVE  /\ WholeIn(Unlink(m, e)) /\ UnusedIn(Unlink(m, e), e)
           /\ Kept(m, Unlink(m, e), e) /\ NoneNew(m, Unlink(m, e), e)
  <1> DEFINE m2 == Unlink(m, e)
             pv == m.prev[e]
             nx == m.next[e]
  <1>1. /\ m \in Memory /\ pv \in Addr /\ nx \in Addr
        /\ LiveIn(m, pv) /\ LiveIn(m, nx) /\ m.next[pv] = e /\ m.prev[nx] = e
    BY Neighbours DEF WholeIn
  <1>2. m2 \in Memory
    BY <1>1 DEF Unlink, JoinOver, Memory
  <1>3. \A y \in Addr : /\ m2.next[y] = IF y = pv THEN nx ELSE m.next[y]
                        /\ m2.prev[y] = IF y = nx THEN pv ELSE m.prev[y]
    BY <1>1 DEF Unlink, JoinOver, Memory
  <1> HIDE DEF m2
  <1>4. UnusedIn(m2, e)
    BY <1>1, <1>3 DEF UnusedIn, LiveIn
  <1>5. Kept(m, m2, e)
    <2> SUFFICES ASSUME NEW y \in Addr \ {e}, LiveIn(m, y) PROVE LiveIn(m2, y)
      BY DEF Kept
    <2>1. /\ m.next[y] \in Addr /\ m.prev[m.next[y]] = y
          /\ m.prev[y] \in Addr /\ m.next[m.prev[y]] = y
      BY Neighbours
    <2>2. CASE y = pv
      BY <1>1, <1>3, <2>1, <2>2 DEF LiveIn
    <2>3. CASE y # pv /\ y = nx
      BY <1>1, <1>3, <2>1, <2>3 DEF LiveIn
    <2>4. CASE y \notin {pv, nx}
      BY <1>1, <1>3, <2>1, <2>4 DEF LiveIn
    <2> QED BY <2>2, <2>3, <2>4
  <1>6. \A y \in Addr : LiveIn(m2, y) => LiveIn(m, y)
    <2> SUFFICES ASSUME NEW y \in Addr, LiveIn(m2, y), y \notin {pv, nx} PROVE LiveIn(m, y)
      BY <1>1
    <2> QED BY <1>1, <1>3 DEF LiveIn
  <1>7. ASSUME NEW y \in Addr, LiveIn(m2, y)
        PROVE  LiveIn(m2, m2.next[y]) /\ LiveIn(m2, m2.prev[y])
    <2>1. /\ m.next[y] \in Addr /\ LiveIn(m, m.next[y]) /\ m.prev[m.next[y]] = y
          /\ m.prev[y] \in Addr /\ LiveIn(m, m.prev[y]) /\ m.next[m.prev[y]] = y
      BY <1>6, <1>7, Neighbours
    <2>2. CASE y = e
      BY <1>3, <1>4, <1>7, <2>2 DEF UnusedIn, LiveIn
    <2>3. CASE y # e
      <3>1. m2.next[y] = e => FALSE
        BY <1>1, <1>3, <2>1, <2>3
      <3>2. m2.prev[y] = e => FALSE
        BY <1>1, <1>3, <2>1, <2>3
      <3> QED BY <1>1, <1>3, <1>5, <2>1, <3>1, <3>2 DEF Kept
    <2> QED BY <2>2, <2>3
  <1> QED BY <1>2, <1>4, <1>5, <1>6, <1>7 DEF WholeIn, NoneNew, m2

(* The links of an object that is part of no list are set: it is made an   *)
(* empty list, poisoned, or left over with a link that leads nowhere.      *)
LEMMA IsolateWhole ==
    ASSUME NEW m, WholeIn(m), NEW x \in Addr, UnusedIn(m, x),
           NEW a \in {x, POISON1}, NEW b \in Addr \cup {POISON2},
           b \in Addr \ {x} => m.next[b] # x,
           NEW m2, m2 = [next |-> [m.next EXCEPT ![x] = a], prev |-> [m.prev EXCEPT ![x] = b]]
    PROVE  /\ WholeIn(m2) /\ UnusedIn(m2, x) /\ Kept(m, m2, x) /\ NoneNew(m, m2, x)
           /\ a = x /\ b = x => LiveIn(m2, x)
  <1>1. m \in Memory
    BY DEF WholeIn
  <1>2. m2 \in Memory
    BY <1>1 DEF Memory
  <1>3. \A y \in Addr : /\ m2.next[y] = IF y = x THEN a ELSE m.next[y]
                        /\ m2.prev[y] = IF y = x THEN b ELSE m.prev[y]
    BY <1>1 DEF Memory
  <1>4. UnusedIn(m2, x)
    BY <1>3 DEF UnusedIn, LiveIn
  <1>5. a = x /\ b = x => LiveIn(m2, x)
    BY <1>3 DEF LiveIn
  <1>6. \A y \in Addr \ {x} : LiveIn(m, y) => m.next[y] # x /\ m.prev[y] # x
    BY Neighbours DEF UnusedIn
  <1>7. Kept(m, m2, x)
    BY <1>3, <1>6, Neighbours DEF Kept, LiveIn
  <1>8. \A y \in Addr \ {x} : LiveIn(m2, y) =>
          LiveIn(m, y) /\ m2.next[y] = m.next[y] /\ m2.prev[y] = m.prev[y]
    <2> SUFFICES ASSUME NEW y \in Addr \ {x}, LiveIn(m2, y) PROVE LiveIn(m, y)
      BY <1>3
    <2>1. m.next[y] # x
      BY <1>3 DEF LiveIn
    <2>2. m.prev[y] # x
      BY <1>3 DEF LiveIn
    <2> QED BY <1>3, <2>1, <2>2 DEF LiveIn
  <1>9. ASSUME NEW y \in Addr, LiveIn(m2, y)
        PROVE  LiveIn(m2, m2.next[y]) /\ LiveIn(m2, m2.prev[y])
    <2>1. CASE y = x
      <3>1. m2.next[x] = x
        BY <1>3, <1>9, <2>1 DEF LiveIn
      <3>2. m2.prev[x] = x
        BY <1>3, <1>9, <2>1, <3>1 DEF LiveIn
      <3> QED BY <1>9, <2>1, <3>1, <3>2
    <2>2. CASE y # x
      <3>1. LiveIn(m, m.next[y]) /\ LiveIn(m, m.prev[y]) /\ m.next[y] \in Addr /\ m.prev[y] \in Addr
        BY <1>8, <1>9, <2>2, Neighbours
      <3> QED BY <1>6, <1>7, <1>8, <1>9, <2>2, <3>1 DEF Kept
    <2> QED BY <2>1, <2>2
  <1> QED BY <1>2, <1>4, <1>5, <1>7, <1>8, <1>9 DEF WholeIn, NoneNew

(* INIT_LIST_HEAD of an object that is part of no list. *)
LEMMA InitWhole ==
    ASSUME NEW m, WholeIn(m), NEW x \in Addr, UnusedIn(m, x)
    PROVE  /\ WholeIn(INIT_LIST_HEAD(m, x)) /\ LiveIn(INIT_LIST_HEAD(m, x), x)
           /\ UnusedIn(INIT_LIST_HEAD(m, x), x) /\ Kept(m, INIT_LIST_HEAD(m, x), x)
           /\ NoneNew(m, INIT_LIST_HEAD(m, x), x)
  BY IsolateWhole DEF INIT_LIST_HEAD

(* __list_splice of a list that is not empty, between two neighbours that  *)
(* are not its head.                                                       *)
LEMMA SpliceBetweenWhole ==
    ASSUME NEW m, WholeIn(m), NEW list \in Addr, LiveIn(m, list), m.next[list] # list,
           NEW pv \in Addr, NEW nx \in Addr, LiveIn(m, pv), nx = m.next[pv], list \notin {pv, nx}
    PROVE  /\ WholeIn(SpliceBetween(m, list, pv, nx))
           /\ ~LiveIn(SpliceBetween(m, list, pv, nx), list)
           /\ UnusedIn(SpliceBetween(m, list, pv, nx), list)
           /\ Kept(m, SpliceBetween(m, list, pv, nx), list)
           /\ NoneNew(m, SpliceBetween(m, list, pv, nx), list)
  <1> DEFINE m2 == SpliceBetween(m, list, pv, nx)
             f == m.next[list]
             l == m.prev[list]
  <1>1. /\ m \in Memory /\ f \in Addr /\ l \in Addr /\ LiveIn(m, f) /\ LiveIn(m, l)
        /\ LiveIn(m, nx) /\ m.prev[nx] = pv /\ m.prev[f] = list /\ m.next[l] = list
        /\ pv # l /\ nx # f /\ f # list /\ l # list
    BY Neighbours DEF WholeIn
  <1>2. m2 \in Memory
    BY <1>1 DEF SpliceBetween, Memory
  <1>3. \A y \in Addr :
          /\ m2.next[y] = IF y = l THEN nx ELSE IF y = pv THEN f ELSE m.next[y]
          /\ m2.prev[y] = IF y = nx THEN l ELSE IF y = f THEN pv ELSE m.prev[y]
    BY <1>1 DEF SpliceBetween, Memory
  <1> HIDE DEF m2
  <1>4. ~LiveIn(m2, list)
    BY <1>1, <1>3 DEF LiveIn
  <1>5. Kept(m, m2, list)
    <2> SUFFICES ASSUME NEW y \in Addr \ {list}, LiveIn(m, y) PROVE LiveIn(m2, y)
      BY DEF Kept
    <2>1. /\ m.next[y] \in Addr /\ m.prev[m.next[y]] = y
          /\ m.prev[y] \in Addr /\ m.next[m.prev[y]] = y
      BY Neighbours
    <2>2. m2.next[y] \in Addr /\ m2.prev[m2.next[y]] = y
      <3>1. CASE y = l
        BY <1>1, <1>3, <3>1
      <3>2. CASE y = pv
        BY <1>1, <1>3, <3>2
      <3>3. CASE y \notin {l, pv}
        BY <1>1, <1>3, <2>1, <3>3
      <3> QED BY <3>1, <3>2, <3>3
    <2>3. m2.prev[y] \in Addr /\ m2.next[m2.prev[y]] = y
      <3>1. CASE y = nx
        BY <1>1, <1>3, <3>1
      <3>2. CASE y = f
        BY <1>1, <1>3, <3>2
      <3>3. CASE y \notin {nx, f}
        BY <1>1, <1>3, <2>1, <3>3
      <3> QED BY <3>1, <3>2, <3>3
    <2> QED BY <2>2, <2>3 DEF LiveIn
  <1>6. \A y \in Addr : LiveIn(m2, y) => LiveIn(m, y) /\ y # list
    <2> SUFFICES ASSUME NEW y \in Addr, LiveIn(m2, y), y \notin {pv, nx, f, l} PROVE LiveIn(m, y)
      BY <1>1, <1>4
    <2> QED BY <1>1, <1>3 DEF LiveIn
  <1>7. ASSUME NEW y \in Addr, LiveIn(m2, y)
        PROVE  LiveIn(m2, m2.next[y]) /\ LiveIn(m2, m2.prev[y])
    <2>1. /\ m.next[y] \in Addr /\ LiveIn(m, m.next[y]) /\ m.prev[m.next[y]] = y
          /\ m.prev[y] \in Addr /\ LiveIn(m, m.prev[y]) /\ m.next[m.prev[y]] = y
      BY <1>6, <1>7, Neighbours
    <2>2. LiveIn(m2, pv) /\ LiveIn(m2, nx) /\ LiveIn(m2, f) /\ LiveIn(m2, l)
      BY <1>1, <1>5 DEF Kept
    <2>3. m2.next[y] # list
      BY <1>1, <1>3, <2>1
    <2>4. m2.prev[y] # list
      BY <1>1, <1>3, <2>1
    <2> QED BY <1>3, <1>5, <2>1, <2>2, <2>3, <2>4 DEF Kept
  <1> QED BY <1>2, <1>4, <1>5, <1>6, <1>7 DEF WholeIn, UnusedIn, NoneNew, m2

(* __list_cut_position: what is between head and entry goes to list. *)
LEMMA CutAfterWhole ==
    ASSUME NEW m, WholeIn(m), NEW list \in Addr, UnusedIn(m, list),
           NEW hd \in Addr, LiveIn(m, hd), list # hd,
           NEW entry \in Addr, LiveIn(m, entry), m.next[entry] # entry, entry # hd
    PROVE  /\ WholeIn(CutAfter(m, list, hd, entry))
           /\ Kept(m, CutAfter(m, list, hd, entry), list)
           /\ NoneNew(m, CutAfter(m, list, hd, entry), list)
           /\ LiveIn(CutAfter(m, list, hd, entry), list)
  <1> DEFINE m2 == CutAfter(m, list, hd, entry)
             f == m.next[hd]
             g == m.next[entry]
  <1>1. /\ m \in Memory /\ f \in Addr /\ g \in Addr /\ LiveIn(m, f) /\ LiveIn(m, g)
        /\ m.prev[f] = hd /\ m.prev[g] = entry /\ f # g
    BY Neighbours DEF WholeIn
  <1>2. entry # list /\ f # list /\ g # list
    BY <1>1, Neighbours DEF UnusedIn
  <1>3. m2 \in Memory
    BY <1>1 DEF CutAfter, Memory
  <1>4. \A y \in Addr :
          /\ m2.next[y] = IF y = hd THEN g ELSE IF y = entry THEN list
                          ELSE IF y = list THEN f ELSE m.next[y]
          /\ m2.prev[y] = IF y = g THEN hd ELSE IF y = list THEN entry
                          ELSE IF y = f THEN list ELSE m.prev[y]
    BY <1>1 DEF CutAfter, Memory
  <1> HIDE DEF m2
  <1>5. LiveIn(m2, list)
    BY <1>1, <1>2, <1>4 DEF LiveIn
  <1>6. Kept(m, m2, list)
    <2> SUFFICES ASSUME NEW y \in Addr \ {list}, LiveIn(m, y) PROVE LiveIn(m2, y)
      BY DEF Kept
    <2>1. /\ m.next[y] \in Addr /\ m.prev[m.next[y]] = y /\ LiveIn(m, m.next[y])
          /\ m.prev[y] \in Addr /\ m.next[m.prev[y]] = y /\ LiveIn(m, m.prev[y])
      BY Neighbours
    <2>2. m.next[y] # list /\ m.prev[y] # list
      BY <2>1, Neighbours DEF UnusedIn
    <2>3. m2.next[y] \in Addr /\ m2.prev[m2.next[y]] = y
      BY <1>1, <1>2, <1>4, <2>1, <2>2
    <2>4. m2.prev[y] \in Addr /\ m2.next[m2.prev[y]] = y
      BY <1>1, <1>2, <1>4, <2>1, <2>2
    <2> QED BY <2>3, <2>4 DEF LiveIn
  <1>7. \A y \in Addr \ {list} : LiveIn(m2, y) => LiveIn(m, y)
    <2> SUFFICES ASSUME NEW y \in Addr, LiveIn(m2, y), y \notin {hd, entry, f, g, list}
                 PROVE  LiveIn(m, y)
      BY <1>1
    <2> QED BY <1>1, <1>2, <1>4 DEF LiveIn
  <1>8. LiveIn(m2, hd) /\ LiveIn(m2, entry) /\ LiveIn(m2, f) /\ LiveIn(m2, g)
    BY <1>1, <1>2, <1>6 DEF Kept
  <1>9. ASSUME NEW y \in Addr, LiveIn(m2, y)
        PROVE  LiveIn(m2, m2.next[y]) /\ LiveIn(m2, m2.prev[y])
    <2>1. CASE y = list
      BY <1>1, <1>2, <1>4, <1>8, <2>1
    <2>2. CASE y # list
      <3>1. /\ m.next[y] \in Addr /\ LiveIn(m, m.next[y])
            /\ m.prev[y] \in Addr /\ LiveIn(m, m.prev[y])
        BY <1>7, <1>9, <2>2, Neighbours
      <3>2. LiveIn(m2, m.next[y]) /\ LiveIn(m2, m.prev[y])
        BY <1>5, <1>6, <3>1 DEF Kept
      <3> QED BY <1>4, <1>5, <1>8, <2>2, <3>2
    <2> QED BY <2>1, <2>2
  <1> QED BY <1>3, <1>5, <1>6, <1>7, <1>9 DEF WholeIn, NoneNew, m2

(* list_replace: new takes the place of old; if old is alone, new is alone *)
(* and old is left with a link that leads nowhere.                         *)
LEMMA ReplaceWhole ==
    ASSUME NEW m, WholeIn(m), NEW old \in Addr, LiveIn(m, old),
           NEW new \in Addr, UnusedIn(m, new), new # old
    PROVE  /\ WholeIn(list_replace(m, old, new)) /\ UnusedIn(list_replace(m, old, new), old)
           /\ Kept(m, list_replace(m, old, new), old)
           /\ NoneNew(m, list_replace(m, old, new), new)
           /\ ~LiveIn(list_replace(m, old, new), old) /\ LiveIn(list_replace(m, old, new), new)
  <1> DEFINE m2 == list_replace(m, old, new)
             q == m.prev[old]
             nx == m.next[old]
  <1>1. /\ m \in Memory /\ q \in Addr /\ nx \in Addr /\ LiveIn(m, q) /\ LiveIn(m, nx)
        /\ m.next[q] = old /\ m.prev[nx] = old
    BY Neighbours DEF WholeIn
  <1>2. CASE nx = old
    <2> DEFINE m1 == INIT_LIST_HEAD(m, new)
    <2>1. WholeIn(m1) /\ Kept(m, m1, new) /\ NoneNew(m, m1, new)
      BY InitWhole
    <2>2. UnusedIn(m1, old) /\ m1.next[new] # old /\ m1.next[old] = old
      BY <1>1, <1>2 DEF INIT_LIST_HEAD, UnusedIn, Memory
    <2>3. m2.next = [m1.next EXCEPT ![old] = old]
      BY <1>1, <1>2 DEF list_replace, INIT_LIST_HEAD, Memory
    <2>4. m2.prev = [m1.prev EXCEPT ![old] = new]
      BY <1>1, <1>2 DEF list_replace, INIT_LIST_HEAD, Memory
    <2>5. m2 = [next |-> [m1.next EXCEPT ![old] = old], prev |-> [m1.prev EXCEPT ![old] = new]]
      BY <2>3, <2>4 DEF list_replace
    <2> HIDE DEF m1, m2
    <2>6. WholeIn(m2) /\ UnusedIn(m2, old) /\ Kept(m1, m2, old) /\ NoneNew(m1, m2, old)
      BY <2>1, <2>2, <2>5, IsolateWhole
    <2>7. LiveIn(m1, new)
      BY InitWhole DEF m1
    <2>8. Kept(m, m2, old)
      BY <2>1, <2>6, <2>7 DEF Kept
    <2>9. ~LiveIn(m2, old)
      <3>1. m2.next[old] = old /\ m2.prev[old] = new
        BY <2>1, <2>5 DEF WholeIn, Memory
      <3> QED BY <3>1 DEF LiveIn
    <2>10. LiveIn(m2, new) /\ NoneNew(m, m2, new)
      BY <2>1, <2>6, <2>7, <2>9 DEF Kept, NoneNew
    <2> QED BY <2>6, <2>8, <2>9, <2>10 DEF m2
  <1>3. CASE nx # old
    <2> DEFINE m1 == Unlink(m, old)
    <2>0. q # old /\ q # new
      BY <1>1, <1>3 DEF UnusedIn
    <2>1. WholeIn(m1) /\ Kept(m, m1, old) /\ UnusedIn(m1, old) /\ NoneNew(m, m1, old)
      BY UnlinkWhole
    <2>2. LiveIn(m1, q) /\ m1.next[q] = nx
      BY <1>1, <2>0, <2>1 DEF Kept, Unlink, JoinOver, Memory
    <2>3. UnusedIn(m1, new)
      <3>1. m.next[new] = m1.next[new] /\ (new # nx => m.prev[new] = m1.prev[new])
        BY <1>1, <2>0 DEF Unlink, JoinOver, Memory
      <3>2. new # nx
        BY <1>1, <1>3, Neighbours DEF UnusedIn
      <3>3. CASE LiveIn(m, new)
        BY <3>1, <3>3 DEF UnusedIn
      <3>4. CASE ~LiveIn(m, new) /\ LiveIn(m1, new)
        <4>1. m1.next[new] \in Addr /\ m1.prev[new] \in Addr
              /\ m1.prev[m1.next[new]] = new /\ m1.next[m1.prev[new]] = new
          BY <3>4 DEF LiveIn
        <4>2. \A y \in Addr : /\ m1.next[y] = IF y = q THEN nx ELSE m.next[y]
                              /\ m1.prev[y] = IF y = nx THEN q ELSE m.prev[y]
          BY <1>1 DEF Unlink, JoinOver, Memory
        <4> HIDE DEF m1
        <4>3. m.prev[m.next[new]] = new /\ m.next[m.prev[new]] = new
          BY <2>0, <3>2, <4>1, <4>2
        <4> QED BY <3>1, <3>2, <3>4, <4>1, <4>3 DEF LiveIn
      <3> QED BY <3>3, <3>4 DEF UnusedIn
    <2>4. m2.next = AddBetween(m1, new, q, nx).next
      BY <1>1, <1>3, <2>0 DEF list_replace, AddBetween, Unlink, JoinOver, Memory
    <2>5. m2.prev = AddBetween(m1, new, q, nx).prev
      BY <1>1, <1>3, <2>0 DEF list_replace, AddBetween, Unlink, JoinOver, Memory
    <2>6. m2 = AddBetween(m1, new, q, nx)
      BY <2>4, <2>5 DEF list_replace, AddBetween
    <2>7. /\ WholeIn(m2) /\ \A y \in Addr : LiveIn(m1, y) => LiveIn(m2, y)
          /\ NoneNew(m1, m2, new) /\ LiveIn(m2, new)
      BY <1>1, <2>0, <2>1, <2>2, <2>3, <2>6, AddBetweenWhole
    <2>8. Kept(m, m2, old)
      BY <2>1, <2>7 DEF Kept
    <2>9. ~LiveIn(m2, old) /\ UnusedIn(m2, old)
      BY <1>1, <1>3, <2>0 DEF list_replace, UnusedIn, LiveIn, Memory
    <2>10. NoneNew(m, m2, new)
      BY <2>1, <2>7, <2>9 DEF NoneNew
    <2> QED BY <2>7, <2>8, <2>9, <2>10
  <1> QED BY <1>2, <1>3

(***************************************************************************)
(* The functions, composed of the surgeries                                *)
(***************************************************************************)
(* What a call that begins with m and ends with m2 has to keep. *)
SoundBut(m, m2, x) == WholeIn(m2) /\ Kept(m, m2, x)
Sound(m, m2) == WholeIn(m2) /\ \E x \in Addr : Kept(m, m2, x)
KeepsAll(m, m2) == WholeIn(m2) /\ \A y \in Addr : LiveIn(m, y) => LiveIn(m2, y)

LEMMA AddSound ==
    ASSUME NEW m, WholeIn(m), NEW new \in Addr, UnusedIn(m, new),
           NEW hd \in Addr, LiveIn(m, hd), new # hd
    PROVE  /\ WholeIn(list_add(m, new, hd)) /\ WholeIn(list_add_tail(m, new, hd))
           /\ \A y \in Addr : LiveIn(m, y) => /\ LiveIn(list_add(m, new, hd), y)
                                            /\ LiveIn(list_add_tail(m, new, hd), y)
  <1>1. /\ m.next[hd] \in Addr
        /\ m.prev[hd] \in Addr /\ LiveIn(m, m.prev[hd]) /\ m.next[m.prev[hd]] = hd
    BY Neighbours
  <1>2. m.prev[hd] # new
    BY <1>1 DEF UnusedIn
  <1>3. /\ WholeIn(list_add(m, new, hd))
        /\ \A y \in Addr : LiveIn(m, y) => LiveIn(list_add(m, new, hd), y)
    BY <1>1, AddBetweenWhole DEF list_add
  <1>4. /\ WholeIn(list_add_tail(m, new, hd))
        /\ \A y \in Addr : LiveIn(m, y) => LiveIn(list_add_tail(m, new, hd), y)
    BY <1>1, <1>2, AddBetweenWhole DEF list_add_tail
  <1> QED BY <1>3, <1>4

LEMMA DeleteSound ==
    ASSUME NEW m, WholeIn(m), NEW e \in Addr, LiveIn(m, e)
    PROVE  SoundBut(m, list_del(m, e), e) /\ SoundBut(m, list_del_init(m, e), e)
  <1> DEFINE u == Unlink(m, e)
  <1>1. WholeIn(u) /\ UnusedIn(u, e) /\ Kept(m, u, e)
    BY UnlinkWhole
  <1>2. WholeIn(list_del(m, e)) /\ Kept(u, list_del(m, e), e)
    <2>1. list_del(m, e) = [next |-> [u.next EXCEPT ![e] = POISON1],
                            prev |-> [u.prev EXCEPT ![e] = POISON2]]
      BY DEF list_del
    <2>2. POISON2 \notin Addr
      OBVIOUS
    <2> HIDE DEF u
    <2> QED BY <1>1, <2>1, <2>2, IsolateWhole
  <1>3. WholeIn(list_del_init(m, e)) /\ Kept(u, list_del_init(m, e), e)
    BY <1>1, InitWhole DEF list_del_init
  <1> QED BY <1>1, <1>2, <1>3 DEF SoundBut, Kept

LEMMA MoveSound ==
    ASSUME NEW m, WholeIn(m), NEW e \in Addr, LiveIn(m, e),
           NEW hd \in Addr, LiveIn(m, hd), e # hd
    PROVE  SoundBut(m, list_move(m, e, hd), e) /\ SoundBut(m, list_move_tail(m, e, hd), e)
  <1>1. WholeIn(Unlink(m, e)) /\ UnusedIn(Unlink(m, e), e) /\ Kept(m, Unlink(m, e), e)
    BY UnlinkWhole
  <1>2. LiveIn(Unlink(m, e), hd)
    BY <1>1 DEF Kept
  <1> QED BY <1>1, <1>2, AddSound DEF SoundBut, Kept, list_move, list_move_tail

LEMMA SpliceSound ==
    ASSUME NEW m, WholeIn(m), NEW list \in Addr, LiveIn(m, list),
           NEW hd \in Addr, LiveIn(m, hd),
           list \notin {hd, m.next[hd], m.prev[hd]}
    PROVE  /\ Sound(m, list_splice(m, list, hd)) /\ Sound(m, list_splice_tail(m, list, hd))
           /\ Sound(m, list_splice_init(m, list, hd))
           /\ Sound(m, list_splice_tail_init(m, list, hd))
  <1>1. CASE list_empty(m, list)
    BY <1>1 DEF Sound, Kept, list_splice, list_splice_tail, list_splice_init,
                list_splice_tail_init
  <1>2. CASE ~list_empty(m, list)
    <2>1. m.next[list] # list /\ m.next[hd] \in Addr /\ m.prev[hd] \in Addr
          /\ LiveIn(m, m.prev[hd]) /\ m.next[m.prev[hd]] = hd
      BY <1>2, Neighbours DEF list_empty
    <2> DEFINE s == SpliceBetween(m, list, hd, m.next[hd])
               t == SpliceBetween(m, list, m.prev[hd], hd)
    <2>2. WholeIn(s) /\ UnusedIn(s, list) /\ Kept(m, s, list)
      BY <2>1, SpliceBetweenWhole
    <2>3. WholeIn(t) /\ UnusedIn(t, list) /\ Kept(m, t, list)
      BY <2>1, SpliceBetweenWhole
    <2>4. Sound(m, s) /\ Sound(m, t)
      BY <2>2, <2>3 DEF Sound
    <2>5. Sound(m, INIT_LIST_HEAD(s, list))
      <3> HIDE DEF s
      <3> QED BY <2>2, InitWhole DEF Sound, Kept
    <2>6. Sound(m, INIT_LIST_HEAD(t, list))
      <3> HIDE DEF t
      <3> QED BY <2>3, InitWhole DEF Sound, Kept
    <2> QED BY <1>2, <2>4, <2>5, <2>6 DEF list_splice, list_splice_tail, list_splice_init,
                                         list_splice_tail_init
  <1> QED BY <1>1, <1>2

(* entry is the head itself or an entry; list is unused. *)
LEMMA CutSound ==
    ASSUME NEW m, WholeIn(m), NEW list \in Addr, UnusedIn(m, list),
           NEW hd \in Addr, LiveIn(m, hd), list # hd, NEW entry \in Addr,
           LiveIn(m, entry), m.next[entry] # entry \/ entry = hd
    PROVE  /\ KeepsAll(m, list_cut_position(m, list, hd, entry))
           /\ KeepsAll(m, list_cut_before(m, list, hd, entry))
  <1>1. KeepsAll(m, m)
    BY DEF KeepsAll
  <1>2. KeepsAll(m, INIT_LIST_HEAD(m, list))
    BY InitWhole DEF KeepsAll, Kept
  <1>3. KeepsAll(m, list_cut_position(m, list, hd, entry))
    <2>1. CASE \/ list_empty(m, hd)
               \/ list_is_singular(m, hd) /\ m.next[hd] # entry /\ hd # entry
      BY <1>1, <2>1 DEF list_cut_position
    <2>2. CASE ~list_empty(m, hd) /\ entry = hd
      BY <1>2, <2>2 DEF list_cut_position
    <2>3. CASE /\ ~list_empty(m, hd) /\ entry # hd
               /\ ~(list_is_singular(m, hd) /\ m.next[hd] # entry)
      <3>1. KeepsAll(m, CutAfter(m, list, hd, entry))
        BY <2>3, CutAfterWhole DEF KeepsAll, Kept, list_empty
      <3> QED BY <2>3, <3>1 DEF list_cut_position
    <2> QED BY <2>1, <2>2, <2>3
  <1>4. KeepsAll(m, list_cut_before(m, list, hd, entry))
    <2>1. CASE m.next[hd] = entry
      BY <1>2, <2>1 DEF list_cut_before
    <2>2. CASE m.next[hd] # entry
      <3> DEFINE e == m.prev[entry]
      <3>1. /\ e \in Addr /\ LiveIn(m, e) /\ m.next[e] = entry /\ e # hd
            /\ m.next[hd] \in Addr /\ m.prev[m.next[hd]] = hd
        BY <2>2, Neighbours
      <3>2. e # entry
        BY <2>2, <3>1
      <3>3. KeepsAll(m, CutAfter(m, list, hd, e))
        BY <3>1, <3>2, CutAfterWhole DEF KeepsAll, Kept
      <3>4. CutAfter(m, list, hd, e) = list_cut_before(m, list, hd, entry)
        <4>1. e # list
          BY <3>1, <3>2 DEF UnusedIn
        <4> QED BY <2>2, <3>1, <4>1 DEF CutAfter, list_cut_before, WholeIn, Memory
      <3> QED BY <3>3, <3>4
    <2> QED BY <2>1, <2>2
  <1> QED BY <1>3, <1>4

(***************************************************************************)
(* The calls                                                               *)
(***************************************************************************)
LEMMA InitRings == Init => Rings
  BY DEF Init, Rings, WholeIn, Memory, LiveIn, Addr

(* One case per action of Next; for a cut see CutStep. *)
LEMMA StepSound == ASSUME Rings, Next, ~Cut PROVE Sound(mem, mem')
  <1>1. WholeIn(mem) /\ Nodes \subseteq Addr /\ Heads \subseteq Addr
    BY DEF Rings, Addr
  <1>2. CASE Insert
    <2>1. PICK new \in Nodes, hd \in Addr :
            /\ Unused(new) /\ Place(hd)
            /\ mem' \in {list_add(mem, new, hd), list_add_tail(mem, new, hd)}
      BY <1>2 DEF Insert
    <2>2. UnusedIn(mem, new) /\ LiveIn(mem, hd) /\ new # hd
      BY <2>1 DEF Unused, Linked, Place, Live, UnusedIn
    <2> QED BY <1>1, <2>1, <2>2, AddSound DEF Sound, Kept
  <1>3. CASE Initialise
    <2>1. PICK x \in Addr : Unused(x) /\ mem' = INIT_LIST_HEAD(mem, x)
      BY <1>3 DEF Initialise
    <2> QED BY <1>1, <2>1, InitWhole DEF Sound, Unused, Linked, Live, UnusedIn
  <1>4. CASE Delete
    BY <1>1, <1>4, DeleteSound DEF Delete, Live, Sound, SoundBut
  <1>5. CASE Replace
    <2>1. PICK old \in Addr, new \in Addr :
            /\ Live(old) /\ Unused(new) /\ new # old
            /\ mem' \in {list_replace(mem, old, new), list_replace_init(mem, old, new)}
      BY <1>5 DEF Replace
    <2> DEFINE r == list_replace(mem, old, new)
    <2>2. WholeIn(r) /\ UnusedIn(r, old) /\ Kept(mem, r, old)
      BY <1>1, <2>1, ReplaceWhole DEF Unused, Linked, Live, UnusedIn
    <2>3. Sound(mem, r)
      BY <2>2 DEF Sound
    <2>4. Sound(mem, INIT_LIST_HEAD(r, old))
      <3> HIDE DEF r
      <3> QED BY <2>2, InitWhole DEF Sound, Kept
    <2> QED BY <2>1, <2>3, <2>4 DEF list_replace_init
  <1>6. CASE Move
    BY <1>1, <1>6, MoveSound DEF Move, Live, Place, Sound, SoundBut
  <1>7. CASE Rotate
    <2>1. PICK h \in Heads : Live(h) /\ mem' = list_rotate_left(mem, h)
      BY <1>7 DEF Rotate
    <2>2. CASE list_empty(mem, h)
      BY <1>1, <2>1, <2>2 DEF list_rotate_left, Sound, Kept
    <2>3. CASE ~list_empty(mem, h)
      <3>1. mem.next[h] \in Addr /\ LiveIn(mem, mem.next[h]) /\ mem.next[h] # h
        BY <1>1, <2>1, <2>3, Neighbours DEF Live, list_empty
      <3> QED BY <1>1, <2>1, <2>3, <3>1, MoveSound
           DEF list_rotate_left, Live, Sound, SoundBut
    <2> QED BY <2>2, <2>3
  <1>8. CASE Splice
    <2>1. PICK list \in Heads, hd \in Addr :
            /\ Live(list) /\ Place(hd) /\ Apart(list, hd)
            /\ mem' \in {list_splice(mem, list, hd), list_splice_tail(mem, list, hd),
                         list_splice_init(mem, list, hd),
                         list_splice_tail_init(mem, list, hd)}
      BY <1>8 DEF Splice
    <2>2. LiveIn(mem, list) /\ LiveIn(mem, hd)
          /\ list \notin {hd, mem.next[hd], mem.prev[hd]}
      BY <2>1 DEF Live, Place, Apart
    <2> QED BY <1>1, <2>1, <2>2, SpliceSound
  <1> QED BY <1>2, <1>3, <1>4, <1>5, <1>6, <1>7, <1>8 DEF Next

(***************************************************************************)
(* Rings as sequences: what a walk meets until it is back where it began   *)
(***************************************************************************)
Met(h, q, k) == IF k \in 1 .. Len(q) THEN q[k] ELSE h

(* q is what is met from h along f, and backwards along g.                 *)
Ring(f, g, h, q) ==
    /\ q \in Seq(Addr \ {h})
    /\ \A j, k \in 1 .. Len(q) : q[j] = q[k] => j = k
    /\ \A k \in 0 .. Len(q) : /\ f[Met(h, q, k)] = Met(h, q, k + 1)
                              /\ g[Met(h, q, k + 1)] = Met(h, q, k)

(* The recursion of Follow, and the first k + 1 objects of a ring.         *)
FollowStep(f, h, t) == IF f[Last(t)] \in Addr \ {h} THEN Append(t, f[Last(t)]) ELSE t
IsTrail(f, h, m, t) == t = [k \in 0 .. m |-> IF k = 0 THEN <<h>> ELSE FollowStep(f, h, t[k - 1])]
Start(h, q, k) == [j \in 1 .. k + 1 |-> Met(h, q, j - 1)]

LEMMA StartStep ==
    ASSUME NEW f, NEW g, NEW h \in Addr, NEW q, Ring(f, g, h, q), NEW k \in 0 .. Len(q)
    PROVE  FollowStep(f, h, Start(h, q, k)) = IF k < Len(q) THEN Start(h, q, k + 1)
                                              ELSE Start(h, q, k)
  <1>1. PICK L \in Nat : L = Len(q)
    BY DEF Ring
  <1>2. PICK c \in 0 .. L : c = k
    BY <1>1
  <1> DEFINE t == Start(h, q, c)
  <1>3. Len(t) = c + 1 /\ Last(t) = Met(h, q, c) /\ t \in Seq({Met(h, q, j) : j \in 0 .. c})
    BY <1>2 DEF Start, Last
  <1>4. f[Last(t)] = Met(h, q, c + 1)
    BY <1>1, <1>3 DEF Ring
  <1>5. CASE c < L
    <2>1. Met(h, q, c + 1) \in Addr \ {h}
      BY <1>1, <1>5 DEF Met, Ring
    <2>2. Append(t, Met(h, q, c + 1)) = Start(h, q, c + 1)
      BY <1>2, <1>3 DEF Start
    <2> QED BY <1>1, <1>2, <1>4, <1>5, <2>1, <2>2 DEF FollowStep
  <1>6. CASE c = L
    <2>1. Met(h, q, c + 1) = h
      BY <1>1, <1>6 DEF Met
    <2> QED BY <1>1, <1>2, <1>4, <1>6, <2>1 DEF FollowStep
  <1> QED BY <1>5, <1>6

LEMMA RingLength ==
    ASSUME NEW f, NEW g, NEW h \in Addr, NEW q, Ring(f, g, h, q)
    PROVE  Cardinality(Addr) \in Nat /\ Len(q) \in 0 .. Cardinality(Addr)
  <1>1. PICK L \in Nat : L = Len(q)
    BY DEF Ring
  <1>2. IsFiniteSet(1 .. L) /\ Cardinality(1 .. L) = L
    <2>1. IsFiniteSet(1 .. L) /\ Cardinality(1 .. L) = IF 1 > L THEN 0 ELSE L - 1 + 1
      BY FS_Interval
    <2> QED BY <2>1
  <1>3. q \in Injection(1 .. L, Addr)
    <2>1. q \in [1 .. L -> Addr]
      BY <1>1 DEF Ring
    <2>2. \A j, k \in 1 .. L : q[j] = q[k] => j = k
      BY <1>1 DEF Ring
    <2> QED BY <2>1, <2>2 DEF Injection, IsInjective
  <1>4. Cardinality(1 .. L) <= Cardinality(Addr)
    BY <1>3, FiniteAssumption, FS_Injection
  <1>5. Cardinality(Addr) \in Nat
    BY FiniteAssumption, FS_CardinalityType
  <1> QED BY <1>1, <1>2, <1>4, <1>5

(* Follow meets the ring.                                                  *)
LEMMA FollowRing ==
    ASSUME NEW f, NEW g, NEW h \in Addr, NEW q, Ring(f, g, h, q)
    PROVE  Follow(f, h) = q
  <1>1. PICK L \in Nat : L = Len(q)
    BY DEF Ring
  <1>2. PICK N \in Nat : N = Cardinality(Addr) /\ L <= N
    BY <1>1, RingLength
  <1> DEFINE R == [k \in 0 .. N |-> Start(h, q, IF k < L THEN k ELSE L)]
             tr == CHOOSE t : t = [k \in 0 .. Cardinality(Addr) |->
                     IF k = 0 THEN <<h>>
                     ELSE LET u == t[k - 1]
                          IN  IF f[Last(u)] \in Addr \ {h} THEN Append(u, f[Last(u)]) ELSE u]
  <1>3. R[0] = <<h>>
    BY <1>1, <1>2 DEF Start, Met
  <1>4. \A k \in 1 .. N : R[k] = FollowStep(f, h, R[k - 1])
    <2> SUFFICES ASSUME NEW k \in 1 .. N PROVE R[k] = FollowStep(f, h, R[k - 1])
      OBVIOUS
    <2>1. PICK c \in 0 .. L : c = IF k - 1 < L THEN k - 1 ELSE L
      BY <1>2
    <2>2. R[k - 1] = Start(h, q, c)
      BY <1>2, <2>1
    <2>3. R[k] = IF c < L THEN Start(h, q, c + 1) ELSE Start(h, q, c)
      BY <1>2, <2>1
    <2>4. FollowStep(f, h, Start(h, q, c)) = IF c < L THEN Start(h, q, c + 1)
                                             ELSE Start(h, q, c)
      BY <1>1, StartStep
    <2> QED BY <2>2, <2>3, <2>4
  <1>5. IsTrail(f, h, N, R)
    <2> HIDE DEF R
    <2>1. R = [k \in 0 .. N |-> R[k]]
      BY DEF R
    <2>2. \A k \in 0 .. N : R[k] = IF k = 0 THEN <<h>> ELSE FollowStep(f, h, R[k - 1])
      BY <1>3, <1>4
    <2> QED BY <2>1, <2>2 DEF IsTrail
  <1>6. IsTrail(f, h, N, tr)
    BY <1>2, <1>5 DEF IsTrail, FollowStep
  <1>7. Follow(f, h) = Tail(tr[N])
    BY <1>2 DEF Follow
  <1>8. tr[N] = R[N]
    <2> HIDE DEF tr, R
    <2> DEFINE T == {k \in 0 .. N : tr[k] # R[k]}
    <2> SUFFICES ASSUME T # {} PROVE FALSE
      OBVIOUS
    <2>1. PICK k \in T : \A o \in T : k <= o
      <3>1. T \subseteq Nat
        OBVIOUS
      <3> HIDE DEF T
      <3> QED BY <3>1, LeastNumber
    <2>2. /\ tr[k] = IF k = 0 THEN <<h>> ELSE FollowStep(f, h, tr[k - 1])
          /\ R[k] = IF k = 0 THEN <<h>> ELSE FollowStep(f, h, R[k - 1])
      BY <1>5, <1>6 DEF IsTrail
    <2>3. k # 0 /\ tr[k - 1] # R[k - 1]
      BY <2>1, <2>2
    <2>4. k - 1 \in T
      BY <2>1, <2>3
    <2> QED BY <2>1, <2>4
  <1>9. Tail(R[N]) = q
    <2>1. R[N] = Start(h, q, L)
      BY <1>2
    <2>2. q = [j \in 1 .. L |-> q[j]]
      BY <1>1 DEF Ring
    <2>3. Tail(Start(h, q, L)) = [j \in 1 .. L |-> Met(h, q, j)]
      BY <1>1 DEF Start
    <2>4. \A j \in 1 .. L : Met(h, q, j) = q[j]
      BY <1>1 DEF Met
    <2> QED BY <2>1, <2>2, <2>3, <2>4
  <1> QED BY <1>7, <1>8, <1>9

RingOf(f, g, h, q, L) ==
    /\ L \in Nat
    /\ \A k \in 1 .. L : Met(h, q, k) = q[k] /\ q[k] \in Addr \ {h}
    /\ Met(h, q, 0) = h /\ Met(h, q, L + 1) = h
    /\ \A k \in 0 .. L + 1 : Met(h, q, k) \in Addr
    /\ \A j, k \in 0 .. L : Met(h, q, j) = Met(h, q, k) => j = k
    /\ \A k \in 0 .. L : /\ f[Met(h, q, k)] = Met(h, q, k + 1)
                         /\ g[Met(h, q, k + 1)] = Met(h, q, k)

LEMMA MetFacts ==
    ASSUME NEW f, NEW g, NEW h \in Addr, NEW q, Ring(f, g, h, q)
    PROVE  RingOf(f, g, h, q, Len(q))
  <1>0. PICK L : L = Len(q)
    OBVIOUS
  <1>1. L \in Nat
    BY <1>0 DEF Ring
  <1>2. \A k \in 1 .. L : Met(h, q, k) = q[k] /\ q[k] \in Addr \ {h}
    BY <1>0 DEF Ring, Met
  <1>3. Met(h, q, 0) = h /\ Met(h, q, L + 1) = h
    BY <1>0, <1>1 DEF Met
  <1>4. ASSUME NEW j \in 0 .. L, NEW k \in 0 .. L, Met(h, q, j) = Met(h, q, k) PROVE j = k
    <2>1. CASE j = 0 \/ k = 0
      BY <1>2, <1>3, <1>4, <2>1
    <2>2. CASE j \in 1 .. L /\ k \in 1 .. L
      BY <1>0, <1>2, <1>4, <2>2 DEF Ring
    <2> QED BY <1>1, <2>1, <2>2
  <1>5. \A k \in 0 .. L + 1 : Met(h, q, k) \in Addr
    BY <1>0, <1>2 DEF Met
  <1>6. \A k \in 0 .. L : /\ f[Met(h, q, k)] = Met(h, q, k + 1)
                          /\ g[Met(h, q, k + 1)] = Met(h, q, k)
    BY <1>0 DEF Ring
  <1>7. RingOf(f, g, h, q, L)
    BY <1>1, <1>2, <1>3, <1>4, <1>5, <1>6 DEF RingOf
  <1> QED BY <1>0, <1>7

(* A ring read the other way round.                                        *)
LEMMA ReverseRing ==
    ASSUME NEW f, NEW g, NEW h \in Addr, NEW q, Ring(f, g, h, q)
    PROVE  Ring(g, f, h, Reverse(q))
  <1>1. PICK L : L = Len(q) /\ RingOf(f, g, h, q, L)
    BY MetFacts
  <1>2. L \in Nat
    BY <1>1 DEF RingOf
  <1>3. PICK r : r = Reverse(q)
    OBVIOUS
  <1>4. Len(r) = L /\ r \in Seq(Addr \ {h}) /\ \A k \in 1 .. L : r[k] = q[(L - k) + 1]
    <2>1. r = [k \in 1 .. L |-> q[(L - k) + 1]]
      BY <1>1, <1>3 DEF Reverse
    <2>2. \A k \in 1 .. L : q[(L - k) + 1] \in Addr \ {h}
      BY <1>1, <1>2 DEF RingOf
    <2> QED BY <1>2, <2>1, <2>2
  <1>5. \A j, k \in 1 .. L : r[j] = r[k] => j = k
    <2> SUFFICES ASSUME NEW j \in 1 .. L, NEW k \in 1 .. L, r[j] = r[k] PROVE j = k
      OBVIOUS
    <2>1. PICK a \in 1 .. L, b \in 1 .. L : a = (L - j) + 1 /\ b = (L - k) + 1
      BY <1>2
    <2>2. q[a] = q[b]
      BY <1>4, <2>1
    <2>3. a = b
      BY <1>1, <2>2 DEF Ring
    <2> QED BY <1>2, <2>1, <2>3
  <1>6. \A k \in 0 .. L + 1 : Met(h, r, k) = Met(h, q, (L - k) + 1)
    <2> SUFFICES ASSUME NEW k \in 0 .. L + 1 PROVE Met(h, r, k) = Met(h, q, (L - k) + 1)
      OBVIOUS
    <2>1. CASE k \in 1 .. L
      <3>1. (L - k) + 1 \in 1 .. L
        BY <1>2, <2>1
      <3> QED BY <1>1, <1>4, <2>1, <3>1 DEF Met
    <2>2. CASE k = 0 \/ k = L + 1
      <3>1. k \notin 1 .. L /\ (L - k) + 1 \notin 1 .. L
        BY <1>2, <2>2
      <3> QED BY <1>1, <1>4, <3>1 DEF Met
    <2> QED BY <1>2, <2>1, <2>2
  <1>7. ASSUME NEW k \in 0 .. L
        PROVE  g[Met(h, r, k)] = Met(h, r, k + 1) /\ f[Met(h, r, k + 1)] = Met(h, r, k)
    <2>1. PICK j \in 0 .. L : j = L - k
      BY <1>2
    <2>2. Met(h, r, k) = Met(h, q, j + 1) /\ Met(h, r, k + 1) = Met(h, q, j)
      <3>1. k \in 0 .. L + 1 /\ k + 1 \in 0 .. L + 1 /\ (L - k) + 1 = j + 1
            /\ (L - (k + 1)) + 1 = j
        BY <1>2, <2>1
      <3>2. /\ Met(h, r, k) = Met(h, q, (L - k) + 1)
            /\ Met(h, r, k + 1) = Met(h, q, (L - (k + 1)) + 1)
        BY <1>6, <3>1
      <3> QED BY <3>1, <3>2
    <2> QED BY <1>1, <2>2 DEF RingOf
  <1> QED BY <1>3, <1>4, <1>5, <1>7 DEF Ring

(***************************************************************************)
(* What the calls mean: all rings of a memory                              *)
(***************************************************************************)
(* Rings of two heads that are no entries of each other's have no entry in *)
(* common.                                                                 *)
LEMMA RingsApart ==
    ASSUME NEW f, NEW g, NEW h1 \in Addr, NEW h2 \in Addr, NEW q1, NEW q2,
           Ring(f, g, h1, q1), Ring(f, g, h2, q2), h1 # h2,
           \A k \in 1 .. Len(q1) : q1[k] # h2, \A k \in 1 .. Len(q2) : q2[k] # h1
    PROVE  \A j \in 1 .. Len(q1), k \in 1 .. Len(q2) : q1[j] # q2[k]
  <1>1. PICK L1, L2 : /\ L1 = Len(q1) /\ RingOf(f, g, h1, q1, L1)
                      /\ L2 = Len(q2) /\ RingOf(f, g, h2, q2, L2)
    BY MetFacts
  <1>2. L1 \in Nat /\ L2 \in Nat
    BY <1>1 DEF RingOf
  <1> DEFINE T == {j \in 1 .. L1 : \E k \in 1 .. L2 : q1[j] = q2[k]}
  <1> SUFFICES ASSUME T # {} PROVE FALSE
    BY <1>1
  <1>3. PICK j \in T : \A o \in T : j <= o
    <2> HIDE DEF T
    <2>1. T \subseteq Nat
      BY <1>2 DEF T
    <2> QED BY <2>1, LeastNumber
  <1>4. PICK k \in 1 .. L2 : q1[j] = q2[k]
    OBVIOUS
  <1>5. PICK a \in 0 .. L1, b \in 0 .. L2 : a = j - 1 /\ b = k - 1 /\ a + 1 = j /\ b + 1 = k
    BY <1>2
  <1>6. g[q1[j]] = Met(h1, q1, a) /\ g[q2[k]] = Met(h2, q2, b)
    BY <1>1, <1>5 DEF RingOf
  <1>7. Met(h1, q1, a) = Met(h2, q2, b)
    BY <1>4, <1>6
  <1>8. a # 0
    BY <1>1, <1>2, <1>7 DEF RingOf
  <1>9. b # 0
    BY <1>1, <1>2, <1>7 DEF RingOf
  <1>10. a \in 1 .. L1 /\ b \in 1 .. L2 /\ q1[a] = q2[b]
    BY <1>1, <1>2, <1>7, <1>8, <1>9 DEF RingOf
  <1>11. a \in T
    BY <1>10
  <1> QED BY <1>2, <1>3, <1>5, <1>11

(* Every object of a ring is in use.                                       *)
LEMMA RingLive ==
    ASSUME NEW m, m \in Memory, NEW h \in Addr, NEW q, Ring(m.next, m.prev, h, q)
    PROVE  \A k \in 0 .. Len(q) : LiveIn(m, Met(h, q, k))
  <1>1. PICK L : L = Len(q) /\ RingOf(m.next, m.prev, h, q, L)
    BY MetFacts
  <1>2. L \in Nat
    BY <1>1 DEF RingOf
  <1> SUFFICES ASSUME NEW k \in 0 .. L PROVE LiveIn(m, Met(h, q, k))
    BY <1>1
  <1>3. m.next[Met(h, q, k)] \in Addr /\ m.prev[m.next[Met(h, q, k)]] = Met(h, q, k)
    BY <1>1, <1>2 DEF RingOf
  <1>4. PICK j \in 0 .. L : Met(h, q, k) = Met(h, q, j + 1)
    <2>1. CASE k = 0
      BY <1>1, <1>2, <2>1 DEF RingOf
    <2>2. CASE k > 0
      <3>1. k - 1 \in 0 .. L /\ (k - 1) + 1 = k
        BY <1>2, <2>2
      <3> QED BY <3>1
    <2> QED BY <1>2, <2>1, <2>2
  <1>5. m.prev[Met(h, q, k)] = Met(h, q, j) /\ m.next[Met(h, q, j)] = Met(h, q, k)
    BY <1>1, <1>4 DEF RingOf
  <1>6. Met(h, q, j) \in Addr
    BY <1>1, <1>2 DEF RingOf
  <1> QED BY <1>3, <1>5, <1>6 DEF LiveIn

(* A chain from an object in use back to it is a ring: that the links lead *)
(* back, and that it meets nothing twice, is because the memory is whole.  *)
LEMMA ChainRing ==
    ASSUME NEW m, WholeIn(m), NEW h \in Addr, LiveIn(m, h), NEW q \in Seq(Addr \ {h}),
           \A k \in 0 .. Len(q) : m.next[Met(h, q, k)] = Met(h, q, k + 1)
    PROVE  Ring(m.next, m.prev, h, q)
  <1>1. PICK L \in Nat : L = Len(q)
    OBVIOUS
  <1>2. Met(h, q, 0) = h /\ \A k \in 1 .. L : Met(h, q, k) = q[k] /\ q[k] \in Addr \ {h}
    BY <1>1 DEF Met
  <1>3. \A k \in 0 .. L : LiveIn(m, Met(h, q, k)) /\ Met(h, q, k) \in Addr
    <2> DEFINE T == {k \in 0 .. L : ~LiveIn(m, Met(h, q, k))}
    <2>0. T = {}
      <3> SUFFICES ASSUME T # {} PROVE FALSE
        OBVIOUS
      <3>1. PICK k \in T : \A o \in T : k <= o
        <4>1. T \subseteq Nat
          OBVIOUS
        <4> HIDE DEF T
        <4> QED BY <4>1, LeastNumber
      <3>2. k # 0
        BY <1>2, <3>1
      <3>3. k - 1 \in 0 .. L /\ k - 1 \notin T /\ (k - 1) + 1 = k
        BY <1>1, <3>1, <3>2
      <3>4. LiveIn(m, Met(h, q, k - 1)) /\ Met(h, q, k - 1) \in Addr
        <4>1. k - 1 = 0 \/ k - 1 \in 1 .. L
          BY <3>3
        <4> QED BY <1>2, <3>3, <4>1
      <3>5. m.next[Met(h, q, k - 1)] = Met(h, q, k)
        BY <1>1, <3>3
      <3> QED BY <3>1, <3>4, <3>5, Neighbours
    <2> QED BY <1>1, <1>2, <2>0
  <1>4. \A k \in 0 .. L : m.prev[Met(h, q, k + 1)] = Met(h, q, k)
    BY <1>1, <1>3, Neighbours
  <1>5. \A j, k \in 1 .. L : q[j] = q[k] => j = k
    <2> DEFINE T == {j \in 1 .. L : \E k \in 1 .. L : j < k /\ q[j] = q[k]}
    <2>0. T = {}
      <3> SUFFICES ASSUME T # {} PROVE FALSE
        OBVIOUS
      <3>1. PICK j \in T : \A o \in T : j <= o
        <4>1. T \subseteq Nat
          OBVIOUS
        <4> HIDE DEF T
        <4> QED BY <4>1, LeastNumber
      <3>2. PICK k \in 1 .. L : j < k /\ q[j] = q[k]
        OBVIOUS
      <3>3. PICK a \in 0 .. L, b \in 1 .. L : a + 1 = j /\ b + 1 = k /\ a < b
        <4>1. j - 1 \in 0 .. L /\ k - 1 \in 1 .. L /\ (j - 1) + 1 = j /\ (k - 1) + 1 = k
          BY <1>1, <3>1, <3>2
        <4>2. j - 1 < k - 1
          BY <1>1, <3>1, <3>2
        <4> QED BY <4>1, <4>2
      <3>4. b \in 0 .. L
        BY <3>3
      <3>5. Met(h, q, a) = Met(h, q, b)
        <4>1. m.prev[Met(h, q, a + 1)] = Met(h, q, a) /\ m.prev[Met(h, q, b + 1)] = Met(h, q, b)
          BY <1>4, <3>3, <3>4
        <4>2. Met(h, q, a + 1) = Met(h, q, b + 1)
          BY <1>2, <3>1, <3>2, <3>3
        <4> QED BY <4>1, <4>2
      <3>6. a # 0
        BY <1>2, <3>3, <3>5
      <3>7. a \in 1 .. L /\ q[a] = q[b]
        BY <1>1, <1>2, <3>3, <3>5, <3>6
      <3>8. a \in T
        BY <3>3, <3>7
      <3> QED BY <1>1, <3>1, <3>3, <3>8
    <2> SUFFICES ASSUME NEW j \in 1 .. L, NEW k \in 1 .. L, q[j] = q[k], j # k PROVE FALSE
      OBVIOUS
    <2>1. j < k \/ k < j
      OBVIOUS
    <2> QED BY <2>0, <2>1
  <1> QED BY <1>1, <1>4, <1>5 DEF Ring

(* q put behind entry number k, and that entry by entry.                   *)
Behind(s, k, q) == PutAt(s, k + 1, q)

BehindEntries(S, s, k, q, r, L, M) ==
    /\ r \in Seq(S) /\ Len(r) = L + M
    /\ \A j \in 1 .. k : r[j] = s[j]
    /\ \A j \in 1 .. M : r[k + j] = q[j]
    /\ \A j \in k + 1 .. L : r[j + M] = s[j]

LEMMA PutAtEntries ==
    ASSUME NEW S, NEW s \in Seq(S), NEW q \in Seq(S), NEW k \in 0 .. Len(s),
           NEW r, r = Behind(s, k, q)
    PROVE  BehindEntries(S, s, k, q, r, Len(s), Len(q))
  <1>1. PICK L \in Nat : L = Len(s)
    OBVIOUS
  <1>2. PICK M \in Nat : M = Len(q)
    OBVIOUS
  <1>3. PICK a : a = SubSeq(s, 1, k)
    OBVIOUS
  <1>4. PICK b : b = SubSeq(s, k + 1, L)
    OBVIOUS
  <1>5. k \in Nat /\ k <= L /\ \A j \in 1 .. L : s[j] \in S
    BY <1>1
  <1>6. a \in Seq(S) /\ Len(a) = k /\ \A j \in 1 .. k : a[j] = s[j]
    <2>1. \A j \in 1 .. k : s[j] \in S
      BY <1>1, <1>5
    <2>2. /\ a \in Seq(S) /\ Len(a) = IF 1 <= k THEN k - 1 + 1 ELSE 0
          /\ \A j \in 1 .. k - 1 + 1 : a[j] = s[1 + j - 1]
      BY <1>3, <1>5, <2>1, SubSeqProperties
    <2> QED BY <1>5, <2>2
  <1>7. b \in Seq(S) /\ Len(b) = L - k /\ \A j \in 1 .. L - k : b[j] = s[k + j]
    <2>1. \A j \in k + 1 .. L : s[j] \in S
      BY <1>1, <1>5
    <2>2. /\ b \in Seq(S) /\ Len(b) = IF k + 1 <= L THEN L - (k + 1) + 1 ELSE 0
          /\ \A j \in 1 .. L - (k + 1) + 1 : b[j] = s[k + 1 + j - 1]
      BY <1>4, <1>5, <2>1, SubSeqProperties
    <2> QED BY <1>5, <2>2
  <1>8. PICK c : c = a \o q
    OBVIOUS
  <1>9. /\ c \in Seq(S) /\ Len(c) = k + M
        /\ \A j \in 1 .. k + M : c[j] = IF j <= k THEN a[j] ELSE q[j - k]
    BY <1>2, <1>6, <1>8, ConcatProperties
  <1>10. /\ r \in Seq(S) /\ Len(r) = (k + M) + (L - k)
         /\ \A j \in 1 .. (k + M) + (L - k) : r[j] = IF j <= k + M THEN c[j] ELSE b[j - (k + M)]
    <2>1. r = c \o b
      <3>1. (k + 1) - 1 = k
        BY <1>5
      <3> QED BY <1>1, <1>3, <1>4, <1>8, <3>1 DEF PutAt, Behind
    <2>2. /\ c \o b \in Seq(S) /\ Len(c \o b) = Len(c) + Len(b)
          /\ \A j \in 1 .. Len(c) + Len(b) : (c \o b)[j] =
               IF j <= Len(c) THEN c[j] ELSE b[j - Len(c)]
      BY <1>7, <1>9, ConcatProperties
    <2> QED BY <1>7, <1>9, <2>1, <2>2
  <1>11. ASSUME NEW j \in k + 1 .. L PROVE r[j + M] = s[j]
    <2>1. /\ j + M \in 1 .. (k + M) + (L - k) /\ ~(j + M <= k + M)
          /\ (j + M) - (k + M) = j - k /\ j - k \in 1 .. L - k /\ k + (j - k) = j
      BY <1>1, <1>2, <1>5
    <2> QED BY <1>7, <1>10, <2>1
  <1>12. ASSUME NEW j \in 1 .. M PROVE r[k + j] = q[j]
    <2>1. /\ k + j \in 1 .. (k + M) + (L - k) /\ k + j <= k + M /\ k + j \in 1 .. k + M
          /\ ~(k + j <= k) /\ (k + j) - k = j
      BY <1>1, <1>2, <1>5
    <2> QED BY <1>9, <1>10, <2>1
  <1>13. ASSUME NEW j \in 1 .. k PROVE r[j] = s[j]
    <2>1. j \in 1 .. (k + M) + (L - k) /\ j <= k + M /\ j \in 1 .. k + M /\ j <= k
      BY <1>1, <1>2, <1>5
    <2> QED BY <1>6, <1>9, <1>10, <2>1
  <1>14. Len(r) = L + M
    BY <1>1, <1>2, <1>5, <1>10
  <1>15. BehindEntries(S, s, k, q, r, L, M)
    BY <1>2, <1>10, <1>11, <1>12, <1>13, <1>14 DEF BehindEntries
  <1> QED BY <1>1, <1>2, <1>15
(* S is what lists of m are; Meant: S is what all of them are.             *)
Shows(m, S) ==
    /\ S = [h \in DOMAIN S |-> S[h]]
    /\ DOMAIN S \subseteq {h \in Heads : LiveIn(m, h)}
    /\ \A h \in DOMAIN S : S[h] \in Seq(Nodes) /\ Ring(m.next, m.prev, h, S[h])

Meant(m, S) == WholeIn(m) /\ Shows(m, S) /\ DOMAIN S = {h \in Heads : LiveIn(m, h)}

Spot(S, h, k) == Met(h, S[h], k)

LEMMA MeantLists ==
    ASSUME NEW m, NEW S, Meant(m, S)
    PROVE  Lists(m) = S
  <1>1. \A h \in DOMAIN S : Follow(m.next, h) = S[h]
    BY FollowRing DEF Meant, Shows, Addr
  <1> QED BY <1>1 DEF Meant, Shows, Lists

(* The objects of one list.                                                *)
ListOf(m, S, h, L) ==
    /\ L \in Nat /\ h \in Heads /\ h \in Addr /\ h \notin Nodes
    /\ \A k \in 1 .. L : Spot(S, h, k) = S[h][k] /\ S[h][k] \in Nodes
    /\ Spot(S, h, 0) = h /\ Spot(S, h, L + 1) = h
    /\ \A k \in 0 .. L + 1 : Spot(S, h, k) \in Addr
    /\ \A j, k \in 0 .. L : Spot(S, h, j) = Spot(S, h, k) => j = k
    /\ \A k \in 0 .. L : /\ m.next[Spot(S, h, k)] = Spot(S, h, k + 1)
                         /\ m.prev[Spot(S, h, k + 1)] = Spot(S, h, k)
                         /\ LiveIn(m, Spot(S, h, k))
                         /\ k > 0 => m.next[Spot(S, h, k)] # Spot(S, h, k)

LEMMA ListIs ==
    ASSUME NEW m, WholeIn(m), NEW S, Shows(m, S), NEW h \in DOMAIN S,
           NEW L, L = Len(S[h])
    PROVE  ListOf(m, S, h, L)
  <1>1. h \in Heads /\ h \in Addr /\ h \notin Nodes /\ Ring(m.next, m.prev, h, S[h])
        /\ S[h] \in Seq(Nodes) /\ m \in Memory
    BY DEF Shows, WholeIn, Addr
  <1>2. RingOf(m.next, m.prev, h, S[h], L)
    BY <1>1, MetFacts
  <1>3. \A k \in 0 .. L : LiveIn(m, Spot(S, h, k))
    BY <1>1, RingLive DEF Spot
  <1>4. L \in Nat /\ \A k \in 1 .. L : S[h][k] \in Nodes
    BY <1>1
  <1>5. ASSUME NEW k \in 0 .. L, k > 0 PROVE m.next[Spot(S, h, k)] # Spot(S, h, k)
    <2>1. m.next[Spot(S, h, k)] = Spot(S, h, k + 1)
      BY <1>2 DEF RingOf, Spot
    <2>2. CASE k = L
      BY <1>2, <1>4, <1>5, <2>1, <2>2 DEF RingOf, Spot
    <2>3. CASE k < L
      <3>1. k + 1 \in 0 .. L /\ k + 1 # k
        BY <1>4, <2>3
      <3> QED BY <1>2, <2>1, <3>1 DEF RingOf, Spot
    <2> QED BY <1>4, <2>2, <2>3
  <1> QED BY <1>1, <1>2, <1>3, <1>4, <1>5 DEF RingOf, Spot, ListOf

(* No object is in two lists, or twice in one.                             *)
LEMMA OneSpot ==
    ASSUME NEW m, WholeIn(m), NEW S, Shows(m, S), NEW h1 \in DOMAIN S, NEW h2 \in DOMAIN S,
           NEW j \in 0 .. Len(S[h1]), NEW k \in 0 .. Len(S[h2]), Spot(S, h1, j) = Spot(S, h2, k)
    PROVE  h1 = h2 /\ j = k
  <1>1. PICK L1, L2 : L1 = Len(S[h1]) /\ L2 = Len(S[h2])
    OBVIOUS
  <1>2. /\ L1 \in Nat /\ h1 \in Addr /\ h1 \in Heads /\ Spot(S, h1, 0) = h1
        /\ \A a \in 1 .. L1 : Spot(S, h1, a) = S[h1][a] /\ S[h1][a] \in Nodes
    BY <1>1, ListIs DEF ListOf
  <1>3. /\ L2 \in Nat /\ h2 \in Addr /\ h2 \in Heads /\ Spot(S, h2, 0) = h2
        /\ \A a \in 1 .. L2 : Spot(S, h2, a) = S[h2][a] /\ S[h2][a] \in Nodes
    BY <1>1, ListIs DEF ListOf
  <1>4. h1 = h2
    <2> SUFFICES ASSUME h1 # h2 PROVE FALSE
      OBVIOUS
    <2>1. CASE j = 0 \/ k = 0
      <3>1. Spot(S, h1, j) \in Heads \/ Spot(S, h2, k) \in Heads
        BY <1>2, <1>3, <2>1
      <3>2. j # 0 => Spot(S, h1, j) \in Nodes
        BY <1>1, <1>2
      <3>3. k # 0 => Spot(S, h2, k) \in Nodes
        BY <1>1, <1>3
      <3> QED BY <1>2, <1>3, <3>1, <3>2, <3>3
    <2>2. CASE j # 0 /\ k # 0
      <3>1. j \in 1 .. L1 /\ k \in 1 .. L2 /\ S[h1][j] = S[h2][k]
        BY <1>1, <1>2, <1>3, <2>2
      <3>2. /\ \A a \in 1 .. Len(S[h1]) : S[h1][a] # h2
            /\ \A a \in 1 .. Len(S[h2]) : S[h2][a] # h1
        BY <1>1, <1>2, <1>3
      <3>3. Ring(m.next, m.prev, h1, S[h1]) /\ Ring(m.next, m.prev, h2, S[h2])
        BY DEF Shows
      <3> QED BY <1>1, <1>2, <1>3, <3>1, <3>2, <3>3, RingsApart
    <2> QED BY <2>1, <2>2
  <1> QED BY <1>1, <1>4, ListIs DEF ListOf

(* To know what the lists of a memory are, follow the links forwards.      *)
LEMMA ChainsMeant ==
    ASSUME NEW m, WholeIn(m), NEW S, S = [h \in DOMAIN S |-> S[h]],
           DOMAIN S = {h \in Heads : LiveIn(m, h)},
           \A h \in DOMAIN S :
             /\ S[h] \in Seq(Nodes)
             /\ \A k \in 0 .. Len(S[h]) : m.next[Spot(S, h, k)] = Spot(S, h, k + 1)
    PROVE  Meant(m, S)
  <1>1. ASSUME NEW h \in DOMAIN S PROVE Ring(m.next, m.prev, h, S[h])
    <2>1. h \in Addr /\ LiveIn(m, h) /\ h \notin Nodes /\ Nodes \subseteq Addr
      BY DEF Addr
    <2>2. S[h] \in Seq(Addr \ {h})
      BY <2>1
    <2> QED BY <2>1, <2>2, ChainRing DEF Spot
  <1> QED BY <1>1 DEF Meant, Shows

BehindMet(s, k, q, h, r, L, M) ==
    /\ r \in Seq(Nodes) /\ Len(r) = L + M
    /\ \A j \in 0 .. k : Met(h, r, j) = Met(h, s, j)
    /\ \A j \in 1 .. M : Met(h, r, k + j) = q[j]
    /\ \A j \in k + 1 .. L + 1 : Met(h, r, j + M) = Met(h, s, j)

LEMMA PutAtMet ==
    ASSUME NEW s \in Seq(Nodes), NEW q \in Seq(Nodes), NEW L, L = Len(s), NEW M, M = Len(q),
           NEW k \in 0 .. L, NEW h, NEW r, r = Behind(s, k, q)
    PROVE  BehindMet(s, k, q, h, r, L, M)
  <1>1. L \in Nat /\ M \in Nat /\ k \in Nat /\ k <= L
    OBVIOUS
  <1>2. /\ r \in Seq(Nodes) /\ Len(r) = L + M
        /\ \A j \in 1 .. k : r[j] = s[j]
        /\ \A j \in 1 .. M : r[k + j] = q[j]
        /\ \A j \in k + 1 .. L : r[j + M] = s[j]
    <2>1. k \in 0 .. Len(s)
      OBVIOUS
    <2>2. BehindEntries(Nodes, s, k, q, r, Len(s), Len(q))
      BY <2>1, PutAtEntries
    <2> QED BY <2>2 DEF BehindEntries
  <1>3. ASSUME NEW j \in 0 .. k PROVE Met(h, r, j) = Met(h, s, j)
    <2>1. CASE j = 0
      BY <1>1, <2>1 DEF Met
    <2>2. CASE j > 0
      <3>1. j \in 1 .. k /\ j \in 1 .. L /\ j \in 1 .. L + M
        BY <1>1, <2>2
      <3> QED BY <1>2, <3>1 DEF Met
    <2> QED BY <1>1, <2>1, <2>2
  <1>4. ASSUME NEW j \in 1 .. M PROVE Met(h, r, k + j) = q[j]
    <2>1. k + j \in 1 .. L + M
      BY <1>1
    <2> QED BY <1>2, <2>1 DEF Met
  <1>5. ASSUME NEW j \in k + 1 .. L + 1 PROVE Met(h, r, j + M) = Met(h, s, j)
    <2>1. CASE j = L + 1
      <3>1. j \notin 1 .. L /\ j + M \notin 1 .. L + M
        BY <1>1, <2>1
      <3> QED BY <1>2, <3>1 DEF Met
    <2>2. CASE j <= L
      <3>1. j \in k + 1 .. L /\ j \in 1 .. L /\ j + M \in 1 .. L + M
        BY <1>1, <2>2
      <3> QED BY <1>2, <3>1 DEF Met
    <2> QED BY <1>1, <2>1, <2>2
  <1> QED BY <1>2, <1>3, <1>4, <1>5 DEF BehindMet

(* q linked in behind the object pv, and the lists with q put behind pv.   *)
LinkedBehind(m, m2, S, q, pv) ==
    /\ q \in Seq(Nodes) /\ q # <<>>
    /\ m2.next[pv] = q[1] /\ m2.next[q[Len(q)]] = m.next[pv]
    /\ \A j \in 1 .. Len(q) - 1 : m2.next[q[j]] = q[j + 1]
    /\ \A h \in DOMAIN S : \A k \in 0 .. Len(S[h]) :
         Spot(S, h, k) # pv => m2.next[Spot(S, h, k)] = m.next[Spot(S, h, k)]

PutBehind(S, S2, q, pv) ==
    /\ S2 = [h \in DOMAIN S |-> S2[h]]
    /\ \A h \in DOMAIN S :
         /\ \A k \in 0 .. Len(S[h]) : Spot(S, h, k) = pv => S2[h] = Behind(S[h], k, q)
         /\ (\A k \in 0 .. Len(S[h]) : Spot(S, h, k) # pv) => S2[h] = S[h]

LiveHeads(m) == {h \in Heads : LiveIn(m, h)}

LEMMA InsertMeant ==
    ASSUME NEW m, WholeIn(m), NEW S, Shows(m, S), NEW m2, WholeIn(m2), DOMAIN S = LiveHeads(m2),
           NEW q, NEW pv, LinkedBehind(m, m2, S, q, pv), NEW S2, PutBehind(S, S2, q, pv)
    PROVE  Meant(m2, S2)
  <1>0. PICK M \in Nat : M = Len(q) /\ M > 0
    BY DEF LinkedBehind
  <1>1. ASSUME NEW h \in DOMAIN S
        PROVE  /\ S2[h] \in Seq(Nodes)
               /\ \A k \in 0 .. Len(S2[h]) : m2.next[Spot(S2, h, k)] = Spot(S2, h, k + 1)
    <2>0. S[h] \in Seq(Nodes)
      BY DEF Shows
    <2>1. PICK L \in Nat : L = Len(S[h])
      BY <2>0
    <2>2. /\ \A j, k \in 0 .. L : Spot(S, h, j) = Spot(S, h, k) => j = k
          /\ \A k \in 0 .. L : m.next[Spot(S, h, k)] = Spot(S, h, k + 1)
      BY <2>1, ListIs DEF ListOf
    <2>3. CASE \A k \in 0 .. L : Spot(S, h, k) # pv
      <3>1. S2[h] = S[h]
        BY <2>1, <2>3 DEF PutBehind
      <3> QED BY <2>0, <2>1, <2>2, <2>3, <3>1 DEF Spot, LinkedBehind
    <2>4. CASE \E k \in 0 .. L : Spot(S, h, k) = pv
      <3>1. PICK k \in 0 .. L : Spot(S, h, k) = pv
        BY <2>4
      <3>2. PICK r : r = S2[h]
        OBVIOUS
      <3>3. /\ r \in Seq(Nodes) /\ Len(r) = L + M
            /\ \A j \in 0 .. k : Spot(S2, h, j) = Spot(S, h, j)
            /\ \A j \in 1 .. M : Spot(S2, h, k + j) = q[j]
            /\ \A j \in k + 1 .. L + 1 : Spot(S2, h, j + M) = Spot(S, h, j)
        <4>1. r = Behind(S[h], k, q) /\ q \in Seq(Nodes)
          BY <2>1, <3>1, <3>2 DEF PutBehind, LinkedBehind
        <4>2. BehindMet(S[h], k, q, h, r, L, M)
          BY <1>0, <2>0, <2>1, <4>1, PutAtMet
        <4> QED BY <3>2, <4>2 DEF Spot, BehindMet
      <3>4. M \in Nat /\ M > 0 /\ k \in Nat /\ k <= L /\ L \in Nat
        BY <1>0, <2>1
      <3>5. \A j \in 0 .. L : j # k => m2.next[Spot(S, h, j)] = Spot(S, h, j + 1)
        BY <2>1, <2>2, <3>1 DEF LinkedBehind
      <3>6. ASSUME NEW j \in 0 .. L + M PROVE m2.next[Spot(S2, h, j)] = Spot(S2, h, j + 1)
        <4>1. CASE j < k
          <5>1. j \in 0 .. k /\ j + 1 \in 0 .. k /\ j \in 0 .. L
            BY <3>4, <4>1
          <5> QED BY <3>3, <3>5, <4>1, <5>1
        <4>2. CASE j = k
          <5>1. k \in 0 .. k /\ 1 \in 1 .. M
            BY <3>4
          <5> QED BY <3>1, <3>3, <4>2, <5>1 DEF LinkedBehind
        <4>3. CASE k < j /\ j < k + M
          <5>1. PICK o \in 1 .. M - 1 : j = k + o
            <6>1. j - k \in 1 .. M - 1 /\ j = k + (j - k)
              BY <3>4, <4>3
            <6> QED BY <6>1
          <5>2. o \in 1 .. M /\ o + 1 \in 1 .. M /\ j + 1 = k + (o + 1)
            BY <3>4, <5>1
          <5>3. Spot(S2, h, j) = q[o] /\ Spot(S2, h, j + 1) = q[o + 1]
            BY <3>3, <5>1, <5>2
          <5> QED BY <1>0, <5>1, <5>3 DEF LinkedBehind
        <4>4. CASE j = k + M
          <5>1. k + 1 \in k + 1 .. L + 1 /\ j + 1 = (k + 1) + M /\ M \in 1 .. M
            BY <3>4, <4>4
          <5>2. Spot(S2, h, j) = q[M]
            BY <3>3, <4>4, <5>1
          <5>3. Spot(S2, h, j + 1) = Spot(S, h, k + 1)
            BY <3>3, <5>1
          <5> QED BY <1>0, <2>2, <3>1, <5>2, <5>3 DEF LinkedBehind
        <4>5. CASE j > k + M
          <5>1. PICK o \in k + 1 .. L : j = o + M
            <6>1. j - M \in k + 1 .. L /\ j = (j - M) + M
              BY <3>4, <4>5
            <6> QED BY <6>1
          <5>2. o \in k + 1 .. L + 1 /\ o + 1 \in k + 1 .. L + 1 /\ j + 1 = (o + 1) + M
                /\ o \in 0 .. L /\ o # k
            BY <3>4, <5>1
          <5>3. Spot(S2, h, j) = Spot(S, h, o) /\ Spot(S2, h, j + 1) = Spot(S, h, o + 1)
            BY <3>3, <5>1, <5>2
          <5> QED BY <3>5, <5>2, <5>3
        <4> QED BY <3>4, <4>1, <4>2, <4>3, <4>4, <4>5
      <3> QED BY <3>2, <3>3, <3>6
    <2> QED BY <2>3, <2>4
  <1>2. DOMAIN S2 = DOMAIN S /\ S2 = [h \in DOMAIN S2 |-> S2[h]]
    BY DEF PutBehind
  <1> QED BY <1>1, <1>2, ChainsMeant DEF LiveHeads

(* Where an entry is in a list.                                            *)
LEMMA InList ==
    ASSUME NEW m, WholeIn(m), NEW S, Shows(m, S), NEW h \in DOMAIN S, NEW e \in Nodes,
           NEW L, L = Len(S[h])
    PROVE  /\ e \in ToSet(S[h]) <=> \E k \in 0 .. L : Spot(S, h, k) = e
           /\ \A k \in 0 .. L : Spot(S, h, k) = e => k \in 1 .. L /\ Index(S[h], e) = k
  <1>1. /\ L \in Nat /\ Spot(S, h, 0) = h /\ h \notin Nodes
        /\ \A k \in 1 .. L : Spot(S, h, k) = S[h][k]
        /\ \A j, k \in 0 .. L : Spot(S, h, j) = Spot(S, h, k) => j = k
    BY ListIs DEF ListOf
  <1>2. DOMAIN S[h] = 1 .. L
    BY DEF Shows
  <1>3. \A k \in 0 .. L : Spot(S, h, k) = e => k \in 1 .. L
    BY <1>1
  <1>4. ASSUME NEW k \in 0 .. L, Spot(S, h, k) = e PROVE Index(S[h], e) = k
    <2>1. k \in 1 .. L /\ S[h][k] = e
      BY <1>1, <1>3, <1>4
    <2>2. \A j \in 1 .. L : S[h][j] = e => j = k
      BY <1>1, <1>4
    <2> QED BY <1>2, <2>1, <2>2 DEF Index
  <1>5. e \in ToSet(S[h]) <=> \E k \in 0 .. L : Spot(S, h, k) = e
    BY <1>1, <1>2, <1>3 DEF ToSet
  <1> QED BY <1>3, <1>4, <1>5

RemovedMet(s, c, h, r, L) ==
    /\ r \in Seq(Nodes) /\ Len(r) = L - 1
    /\ \A j \in 0 .. c - 1 : Met(h, r, j) = Met(h, s, j)
    /\ \A j \in c .. L : Met(h, r, j) = Met(h, s, j + 1)

LEMMA RemoveAtMet ==
    ASSUME NEW s \in Seq(Nodes), NEW L, L = Len(s), NEW c \in 1 .. L, NEW h,
           NEW r, r = RemoveAt(s, c)
    PROVE  RemovedMet(s, c, h, r, L)
  <1>1. L \in Nat /\ c \in Nat /\ 1 <= c /\ c <= L
    OBVIOUS
  <1>2. /\ r \in Seq(Nodes) /\ Len(r) = L - 1
        /\ \A j \in 1 .. L - 1 : r[j] = IF j < c THEN s[j] ELSE s[j + 1]
    BY RemoveAtEntries
  <1>3. ASSUME NEW j \in 0 .. c - 1 PROVE Met(h, r, j) = Met(h, s, j)
    <2>1. CASE j = 0
      BY <1>1, <2>1 DEF Met
    <2>2. CASE j > 0
      <3>1. j \in 1 .. L - 1 /\ j \in 1 .. L /\ j < c
        BY <1>1, <2>2
      <3> QED BY <1>2, <3>1 DEF Met
    <2> QED BY <1>1, <2>1, <2>2
  <1>4. ASSUME NEW j \in c .. L PROVE Met(h, r, j) = Met(h, s, j + 1)
    <2>1. CASE j = L
      <3>1. j \notin 1 .. L - 1 /\ j + 1 \notin 1 .. L
        BY <1>1, <2>1
      <3> QED BY <1>2, <3>1 DEF Met
    <2>2. CASE j < L
      <3>1. j \in 1 .. L - 1 /\ j + 1 \in 1 .. L /\ ~(j < c)
        BY <1>1, <2>2
      <3> QED BY <1>2, <3>1 DEF Met
    <2> QED BY <1>1, <2>1, <2>2
  <1> QED BY <1>2, <1>3, <1>4 DEF RemovedMet

(* e taken out, whatever its own links are afterwards.                     *)
TakenOut(m, m2, e) == \A y \in Addr \ {e} :
    m2.next[y] = IF y = m.prev[e] THEN m.next[e] ELSE m.next[y]

LEMMA RemoveMeant ==
    ASSUME NEW m, WholeIn(m), NEW S, Shows(m, S), NEW m2, WholeIn(m2), DOMAIN S = LiveHeads(m2),
           NEW e \in Nodes, LiveIn(m, e), TakenOut(m, m2, e)
    PROVE  Meant(m2, Without(S, e))
  <1>1. PICK S2 : S2 = Without(S, e)
    OBVIOUS
  <1>2. DOMAIN S2 = DOMAIN S /\ S2 = [h \in DOMAIN S2 |-> S2[h]]
        /\ \A h \in DOMAIN S : S2[h] = IF e \in ToSet(S[h]) THEN RemoveAt(S[h], Index(S[h], e))
                                       ELSE S[h]
    BY <1>1 DEF Without
  <1>3. PICK pv : pv = m.prev[e] /\ pv \in Addr /\ m.next[pv] = e /\ e \in Addr
    BY Neighbours DEF Addr
  <1>4. ASSUME NEW h \in DOMAIN S
        PROVE  /\ S2[h] \in Seq(Nodes)
               /\ \A k \in 0 .. Len(S2[h]) : m2.next[Spot(S2, h, k)] = Spot(S2, h, k + 1)
    <2>0. S[h] \in Seq(Nodes)
      BY DEF Shows
    <2>1. PICK L \in Nat : L = Len(S[h])
      BY <2>0
    <2>2. /\ \A j, k \in 0 .. L : Spot(S, h, j) = Spot(S, h, k) => j = k
          /\ \A k \in 0 .. L : m.next[Spot(S, h, k)] = Spot(S, h, k + 1)
          /\ \A k \in 0 .. L + 1 : Spot(S, h, k) \in Addr
          /\ h \notin Nodes /\ Spot(S, h, L + 1) = h
      BY <2>1, ListIs DEF ListOf
    <2>3. /\ e \in ToSet(S[h]) <=> \E k \in 0 .. L : Spot(S, h, k) = e
          /\ \A k \in 0 .. L : Spot(S, h, k) = e => k \in 1 .. L /\ Index(S[h], e) = k
      BY <2>1, InList
    <2>4. CASE e \notin ToSet(S[h])
      <3>1. S2[h] = S[h] /\ \A k \in 0 .. L : Spot(S, h, k) # e
        BY <1>2, <2>3, <2>4
      <3>2. ASSUME NEW k \in 0 .. L PROVE Spot(S, h, k) # pv
        <4>1. Spot(S, h, k + 1) # e
          <5>1. CASE k = L
            BY <2>2, <5>1
          <5>2. CASE k < L
            <6>1. k + 1 \in 0 .. L
              BY <2>1, <5>2
            <6> QED BY <3>1, <6>1
          <5> QED BY <2>1, <5>1, <5>2
        <4> QED BY <1>3, <2>2, <4>1
      <3>3. ASSUME NEW k \in 0 .. L PROVE m2.next[Spot(S, h, k)] = Spot(S, h, k + 1)
        <4>1. k \in 0 .. L + 1
          BY <2>1
        <4>2. Spot(S, h, k) \in Addr \ {e} /\ Spot(S, h, k) # m.prev[e]
          BY <1>3, <2>2, <3>1, <3>2, <4>1
        <4> QED BY <2>2, <4>2 DEF TakenOut
      <3> QED BY <2>0, <2>1, <3>1, <3>3 DEF Spot
    <2>5. CASE e \in ToSet(S[h])
      <3>1. PICK c \in 1 .. L : Spot(S, h, c) = e /\ Index(S[h], e) = c
        BY <2>3, <2>5
      <3>2. PICK r : r = S2[h]
        OBVIOUS
      <3>3. RemovedMet(S[h], c, h, r, L)
        BY <1>2, <2>0, <2>1, <2>5, <3>1, <3>2, RemoveAtMet
      <3>4. /\ r \in Seq(Nodes) /\ Len(r) = L - 1
            /\ \A j \in 0 .. c - 1 : Spot(S2, h, j) = Spot(S, h, j)
            /\ \A j \in c .. L : Spot(S2, h, j) = Spot(S, h, j + 1)
        BY <3>2, <3>3 DEF RemovedMet, Spot
      <3>5. c \in Nat /\ 1 <= c /\ c <= L
        BY <2>1
      <3>6. c - 1 \in 0 .. L /\ (c - 1) + 1 = c /\ c \in 0 .. L
        BY <2>1, <3>5
      <3>7. Spot(S, h, c - 1) = pv /\ m.next[e] = Spot(S, h, c + 1)
        <4>1. m.prev[Spot(S, h, (c - 1) + 1)] = Spot(S, h, c - 1)
          BY <2>1, <3>6, ListIs DEF ListOf
        <4> QED BY <1>3, <2>2, <3>1, <3>6, <4>1
      <3>8. ASSUME NEW j \in 0 .. L, j # c, j # c - 1
            PROVE  m2.next[Spot(S, h, j)] = Spot(S, h, j + 1)
        <4>1. j \in 0 .. L + 1
          BY <2>1
        <4>2. Spot(S, h, j) \in Addr \ {e} /\ Spot(S, h, j) # m.prev[e]
          BY <1>3, <2>2, <3>1, <3>6, <3>7, <3>8, <4>1
        <4> QED BY <2>2, <4>2 DEF TakenOut
      <3>9. pv # e
        BY <2>2, <3>1, <3>5, <3>6, <3>7
      <3>10. m2.next[pv] = Spot(S, h, c + 1)
        BY <1>3, <3>7, <3>9 DEF TakenOut
      <3>11. ASSUME NEW j \in 0 .. L - 1 PROVE m2.next[Spot(S2, h, j)] = Spot(S2, h, j + 1)
        <4>1. CASE j < c - 1
          <5>1. j \in 0 .. c - 1 /\ j + 1 \in 0 .. c - 1 /\ j \in 0 .. L /\ j # c
            BY <2>1, <3>5, <4>1
          <5> QED BY <3>4, <3>8, <4>1, <5>1
        <4>2. CASE j = c - 1
          <5>1. j \in 0 .. c - 1 /\ j + 1 = c /\ c \in c .. L
            BY <2>1, <3>5, <4>2
          <5>2. Spot(S2, h, j) = pv /\ Spot(S2, h, j + 1) = Spot(S, h, c + 1)
            BY <3>4, <3>7, <4>2, <5>1
          <5> QED BY <3>10, <5>2
        <4>3. CASE j >= c
          <5>1. PICK o \in 0 .. L : o = j + 1 /\ o # c /\ o # c - 1 /\ j \in c .. L /\ o \in c .. L
            BY <2>1, <3>5, <4>3
          <5>2. Spot(S2, h, j) = Spot(S, h, o) /\ Spot(S2, h, o) = Spot(S, h, o + 1)
            BY <3>4, <5>1
          <5> QED BY <3>8, <5>1, <5>2
        <4> QED BY <2>1, <3>5, <4>1, <4>2, <4>3
      <3> QED BY <3>2, <3>4, <3>11
    <2> QED BY <2>4, <2>5
  <1> QED BY <1>1, <1>2, <1>4, ChainsMeant DEF LiveHeads

(* q before and behind all of s; nothing put anywhere.                     *)
LEMMA BehindEnds ==
    ASSUME NEW s \in Seq(Nodes), NEW q \in Seq(Nodes)
    PROVE  /\ Behind(s, 0, q) = q \o s /\ Behind(s, Len(s), q) = s \o q
           /\ \A k \in 0 .. Len(s) : Behind(s, k, <<>>) = s
  <1>1. PICK L \in Nat : L = Len(s)
    OBVIOUS
  <1>2. SubSeq(s, 1, 0) = <<>> /\ SubSeq(s, L + 1, L) = <<>> /\ SubSeq(s, 1, L) = s
    BY <1>1
  <1>3. <<>> \o q = q /\ (s \o q) \o <<>> = s \o q
    OBVIOUS
  <1>4. Behind(s, 0, q) = q \o s
    <2>1. (0 + 1) - 1 = 0 /\ 0 + 1 = 1
      OBVIOUS
    <2> QED BY <1>1, <1>2, <1>3, <2>1 DEF Behind, PutAt
  <1>5. Behind(s, L, q) = s \o q
    <2>1. (L + 1) - 1 = L
      BY <1>1
    <2> QED BY <1>1, <1>2, <1>3, <2>1 DEF Behind, PutAt
  <1>6. ASSUME NEW k \in 0 .. L PROVE Behind(s, k, <<>>) = s
    <2>0. PICK e \in Seq(Nodes) : e = <<>> /\ Len(e) = 0
      BY EmptySeq
    <2>1. PICK r : r = Behind(s, k, e)
      OBVIOUS
    <2>2. BehindEntries(Nodes, s, k, e, r, L, 0)
      BY <1>1, <2>0, <2>1, PutAtEntries
    <2>3. /\ r \in Seq(Nodes) /\ Len(r) = L /\ \A j \in 1 .. k : r[j] = s[j]
          /\ \A j \in k + 1 .. L : r[j + 0] = s[j]
      <3>1. L + 0 = L
        BY <1>1
      <3> QED BY <2>2, <3>1 DEF BehindEntries
    <2>4. ASSUME NEW j \in 1 .. L PROVE r[j] = s[j]
      <3>1. j \in 1 .. k \/ j \in k + 1 .. L
        BY <1>1
      <3>2. j + 0 = j
        OBVIOUS
      <3> QED BY <2>3, <3>1, <3>2
    <2> QED BY <1>1, <2>0, <2>1, <2>3, <2>4
  <1> QED BY <1>1, <1>4, <1>5, <1>6

(* list_add puts behind the place, list_add_tail behind the one before it. *)
LEMMA PutAfterIs ==
    ASSUME NEW m, WholeIn(m), NEW S, Shows(m, S), NEW at \in Addr, NEW q \in Seq(Nodes)
    PROVE  PutBehind(S, PutAfter(S, at, q), q, at)
  <1>1. PICK S2 : S2 = PutAfter(S, at, q)
    OBVIOUS
  <1>2. ASSUME NEW h \in DOMAIN S
        PROVE  /\ \A k \in 0 .. Len(S[h]) : Spot(S, h, k) = at => S2[h] = Behind(S[h], k, q)
               /\ (\A k \in 0 .. Len(S[h]) : Spot(S, h, k) # at) => S2[h] = S[h]
    <2>0. PICK L \in Nat : L = Len(S[h]) /\ S[h] \in Seq(Nodes)
      BY DEF Shows
    <2>1. /\ Spot(S, h, 0) = h /\ h \notin Nodes
          /\ \A j, k \in 0 .. L : Spot(S, h, j) = Spot(S, h, k) => j = k
          /\ \A k \in 1 .. L : Spot(S, h, k) \in Nodes
      <3>1. ListOf(m, S, h, L)
        BY <2>0, ListIs
      <3> QED BY <3>1 DEF ListOf
    <2>2. S2[h] = CASE at = h             -> q \o S[h]
                    [] at \in ToSet(S[h]) -> PutAt(S[h], Index(S[h], at) + 1, q)
                    [] OTHER              -> S[h]
      BY <1>1 DEF PutAfter
    <2>3. at \in Nodes => /\ at \in ToSet(S[h]) <=> \E k \in 0 .. L : Spot(S, h, k) = at
                          /\ \A k \in 0 .. L : Spot(S, h, k) = at => Index(S[h], at) = k
      BY <2>0, InList
    <2>4. ToSet(S[h]) \subseteq Nodes
      BY <2>0 DEF ToSet
    <2>5. CASE at = h
      <3>1. at \notin ToSet(S[h]) /\ S2[h] = q \o S[h]
        BY <2>1, <2>2, <2>4, <2>5
      <3>2. S2[h] = Behind(S[h], 0, q)
        BY <2>0, <3>1, BehindEnds
      <3> QED BY <2>0, <2>1, <2>5, <3>2
    <2>6. CASE at # h /\ at \in ToSet(S[h])
      <3>1. S2[h] = Behind(S[h], Index(S[h], at), q)
        BY <2>2, <2>6 DEF Behind
      <3> QED BY <2>0, <2>3, <2>4, <2>6, <3>1
    <2>7. CASE at # h /\ at \notin ToSet(S[h])
      <3>1. S2[h] = S[h]
        BY <2>2, <2>7
      <3>2. \A k \in 0 .. L : Spot(S, h, k) # at
        <4> SUFFICES ASSUME NEW k \in 0 .. L, Spot(S, h, k) = at PROVE FALSE
          OBVIOUS
        <4>1. k # 0
          BY <2>1, <2>7
        <4>2. at \in Nodes
          BY <2>0, <2>1, <4>1
        <4> QED BY <2>3, <2>7, <4>2
      <3> QED BY <2>0, <3>1, <3>2
    <2> QED BY <2>5, <2>6, <2>7
  <1>3. S2 = [h \in DOMAIN S |-> S2[h]]
    BY <1>1 DEF PutAfter
  <1> QED BY <1>1, <1>2, <1>3 DEF PutBehind

LEMMA PutBeforeIs ==
    ASSUME NEW m, WholeIn(m), NEW S, Shows(m, S), NEW at \in Addr, LiveIn(m, at),
           NEW q \in Seq(Nodes)
    PROVE  PutBehind(S, PutBefore(S, at, q), q, m.prev[at])
  <1>1. PICK S2 : S2 = PutBefore(S, at, q)
    OBVIOUS
  <1>0. PICK pv : pv = m.prev[at] /\ m.next[pv] = at
    BY Neighbours
  <1>2. ASSUME NEW h \in DOMAIN S
        PROVE  /\ \A k \in 0 .. Len(S[h]) : Spot(S, h, k) = pv => S2[h] = Behind(S[h], k, q)
               /\ (\A k \in 0 .. Len(S[h]) : Spot(S, h, k) # pv) => S2[h] = S[h]
    <2>0. PICK L \in Nat : L = Len(S[h]) /\ S[h] \in Seq(Nodes)
      BY DEF Shows
    <2>1. /\ Spot(S, h, 0) = h /\ Spot(S, h, L + 1) = h /\ h \notin Nodes
          /\ \A j, k \in 0 .. L : Spot(S, h, j) = Spot(S, h, k) => j = k
          /\ \A k \in 1 .. L : Spot(S, h, k) \in Nodes
          /\ \A k \in 0 .. L : /\ m.next[Spot(S, h, k)] = Spot(S, h, k + 1)
                               /\ m.prev[Spot(S, h, k + 1)] = Spot(S, h, k)
      BY <2>0, ListIs DEF ListOf
    <2>2. S2[h] = CASE at = h             -> S[h] \o q
                    [] at \in ToSet(S[h]) -> PutAt(S[h], Index(S[h], at), q)
                    [] OTHER              -> S[h]
      BY <1>1 DEF PutBefore
    <2>3. at \in Nodes => /\ at \in ToSet(S[h]) <=> \E k \in 0 .. L : Spot(S, h, k) = at
                          /\ \A k \in 0 .. L : Spot(S, h, k) = at => k \in 1 .. L /\ Index(S[h], at) = k
      BY <2>0, InList
    <2>4. ToSet(S[h]) \subseteq Nodes
      BY <2>0 DEF ToSet
    <2>5. CASE at = h
      <3>1. at \notin ToSet(S[h]) /\ S2[h] = S[h] \o q
        BY <2>1, <2>2, <2>4, <2>5
      <3>2. S2[h] = Behind(S[h], L, q)
        BY <2>0, <3>1, BehindEnds
      <3>3. L \in 0 .. L /\ pv = Spot(S, h, L)
        <4>1. L \in 0 .. L
          BY <2>0
        <4> QED BY <1>0, <2>1, <2>5, <4>1
      <3> QED BY <2>0, <2>1, <3>2, <3>3
    <2>6. CASE at # h /\ at \in ToSet(S[h])
      <3>1. PICK c \in 1 .. L : Spot(S, h, c) = at /\ Index(S[h], at) = c
        BY <2>3, <2>4, <2>6
      <3>2. PICK b \in 0 .. L : b + 1 = c
        <4>1. c - 1 \in 0 .. L /\ (c - 1) + 1 = c
          BY <2>0
        <4> QED BY <4>1
      <3>3. S2[h] = Behind(S[h], b, q)
        BY <2>2, <2>6, <3>1, <3>2 DEF Behind
      <3>4. pv = Spot(S, h, b)
        BY <1>0, <2>1, <3>1, <3>2
      <3> QED BY <2>0, <2>1, <3>3, <3>4
    <2>7. CASE at # h /\ at \notin ToSet(S[h])
      <3>1. S2[h] = S[h]
        BY <2>2, <2>7
      <3>2. \A k \in 0 .. L : Spot(S, h, k) # pv
        <4> SUFFICES ASSUME NEW k \in 0 .. L, Spot(S, h, k) = pv PROVE FALSE
          OBVIOUS
        <4>1. Spot(S, h, k + 1) = at
          BY <1>0, <2>1
        <4>2. k # L
          BY <2>1, <2>7, <4>1
        <4>3. k + 1 \in 1 .. L /\ k + 1 \in 0 .. L
          BY <2>0, <4>2
        <4>4. at \in Nodes
          BY <2>1, <4>1, <4>3
        <4> QED BY <2>3, <2>7, <4>1, <4>3, <4>4
      <3> QED BY <2>0, <3>1, <3>2
    <2> QED BY <2>5, <2>6, <2>7
  <1>3. S2 = [h \in DOMAIN S |-> S2[h]]
    BY <1>1 DEF PutBefore
  <1> QED BY <1>0, <1>1, <1>2, <1>3 DEF PutBehind

LEMMA PutNothing ==
    ASSUME NEW m, NEW S, Shows(m, S), NEW S2, NEW pv, PutBehind(S, S2, <<>>, pv)
    PROVE  S2 = S
  <1>1. ASSUME NEW h \in DOMAIN S PROVE S2[h] = S[h]
    <2>1. S[h] \in Seq(Nodes)
      BY DEF Shows
    <2>2. CASE \E k \in 0 .. Len(S[h]) : Spot(S, h, k) = pv
      <3>1. PICK k \in 0 .. Len(S[h]) : Spot(S, h, k) = pv
        BY <2>2
      <3>2. S2[h] = Behind(S[h], k, <<>>)
        BY <3>1 DEF PutBehind
      <3>3. PICK s : s = S[h] /\ s \in Seq(Nodes)
        BY <2>1
      <3>4. Behind(s, k, <<>>) = s
        <4>1. <<>> \in Seq(Nodes) /\ k \in 0 .. Len(s)
          BY <3>3, EmptySeq
        <4> QED BY <3>3, <4>1, BehindEnds
      <3> QED BY <3>2, <3>3, <3>4
    <2>3. CASE \A k \in 0 .. Len(S[h]) : Spot(S, h, k) # pv
      BY <2>3 DEF PutBehind
    <2> QED BY <2>2, <2>3
  <1>2. S2 = [h \in DOMAIN S |-> S2[h]] /\ S = [h \in DOMAIN S |-> S[h]]
    BY DEF PutBehind, Shows
  <1> QED BY <1>1, <1>2

(* An object that is part of no list is nowhere in the lists.              *)
LEMMA UnusedNowhere ==
    ASSUME NEW m, WholeIn(m), NEW S, Shows(m, S), NEW x, UnusedIn(m, x),
           NEW h \in DOMAIN S, NEW k \in 0 .. Len(S[h]), x # h
    PROVE  Spot(S, h, k) # x
  <1>1. PICK L \in Nat : L = Len(S[h])
    BY DEF Shows
  <1>2. /\ Spot(S, h, 0) = h
        /\ \A j \in 0 .. L : /\ LiveIn(m, Spot(S, h, j))
                             /\ j > 0 => m.next[Spot(S, h, j)] # Spot(S, h, j)
    BY <1>1, ListIs DEF ListOf
  <1>3. k = 0 \/ k > 0
    BY <1>1
  <1> QED BY <1>1, <1>2, <1>3 DEF UnusedIn

LEMMA SameHeads ==
    ASSUME NEW m, NEW m2, NEW e \in Nodes, Kept(m, m2, e), NoneNew(m, m2, e)
    PROVE  LiveHeads(m2) = LiveHeads(m)
  <1>1. \A h \in Heads : h \in Addr \ {e}
    BY DEF Addr
  <1> QED BY <1>1 DEF LiveHeads, Kept, NoneNew

LEMMA AddBetweenMeant ==
    ASSUME NEW m, NEW S, Meant(m, S), NEW new \in Nodes, UnusedIn(m, new),
           NEW pv \in Addr, LiveIn(m, pv), new # pv,
           NEW S2, PutBehind(S, S2, <<new>>, pv)
    PROVE  Meant(AddBetween(m, new, pv, m.next[pv]), S2)
  <1>1. PICK nx : nx = m.next[pv] /\ nx \in Addr
    BY Neighbours DEF Meant
  <1>2. PICK m2 : m2 = AddBetween(m, new, pv, nx)
    OBVIOUS
  <1>3. new \in Addr /\ new \notin Heads /\ m \in Memory /\ WholeIn(m) /\ Shows(m, S)
    BY DEF Addr, Meant, WholeIn
  <1>4. /\ WholeIn(m2) /\ NoneNew(m, m2, new)
        /\ \A y \in Addr : LiveIn(m, y) => LiveIn(m2, y)
    BY <1>1, <1>2, <1>3, AddBetweenWhole
  <1>5. DOMAIN S = LiveHeads(m2)
    BY <1>4, SameHeads DEF Kept, Meant, LiveHeads
  <1>6. \A y \in Addr : m2.next[y] = IF y = pv THEN new ELSE IF y = new THEN nx ELSE m.next[y]
    BY <1>1, <1>2, <1>3 DEF AddBetween, Memory
  <1>7. PICK q \in Seq(Nodes) : q = <<new>> /\ Len(q) = 1 /\ q[1] = new
    <2>1. <<new>> \in Seq(Nodes) /\ Len(<<new>>) = 1 /\ <<new>>[1] = new
      OBVIOUS
    <2> QED BY <2>1
  <1>8. ASSUME NEW h \in DOMAIN S, NEW k \in 0 .. Len(S[h]), Spot(S, h, k) # pv
        PROVE  m2.next[Spot(S, h, k)] = m.next[Spot(S, h, k)]
    <2>1. PICK L \in Nat : L = Len(S[h])
      BY <1>3 DEF Shows
    <2>2. h \in Heads /\ \A j \in 0 .. L + 1 : Spot(S, h, j) \in Addr
      BY <1>3, <2>1, ListIs DEF ListOf
    <2>3. k \in 0 .. L + 1
      BY <2>1
    <2>4. Spot(S, h, k) # new
      BY <1>3, <2>2, UnusedNowhere
    <2> QED BY <1>6, <1>8, <2>2, <2>3, <2>4
  <1>9. \A j \in 1 .. Len(q) - 1 : m2.next[q[j]] = q[j + 1]
    BY <1>7
  <1>10. LinkedBehind(m, m2, S, q, pv)
    <2>1. q # <<>>
      BY <1>7
    <2>2. m2.next[pv] = q[1] /\ m2.next[q[Len(q)]] = m.next[pv]
      BY <1>1, <1>3, <1>6, <1>7
    <2> QED BY <1>7, <1>8, <1>9, <2>1, <2>2 DEF LinkedBehind
  <1>11. Meant(m2, S2)
    BY <1>3, <1>4, <1>5, <1>7, <1>10, InsertMeant
  <1> QED BY <1>1, <1>2, <1>11

LEMMA AddMeant ==
    ASSUME NEW m, NEW S, Meant(m, S), NEW new \in Nodes, UnusedIn(m, new),
           NEW at \in Addr, LiveIn(m, at), new # at
    PROVE  /\ Meant(list_add(m, new, at), PutAfter(S, at, <<new>>))
           /\ Meant(list_add_tail(m, new, at), PutBefore(S, at, <<new>>))
  <1>1. WholeIn(m) /\ Shows(m, S) /\ <<new>> \in Seq(Nodes)
    BY DEF Meant
  <1>2. PutBehind(S, PutAfter(S, at, <<new>>), <<new>>, at)
    BY <1>1, PutAfterIs
  <1>3. PutBehind(S, PutBefore(S, at, <<new>>), <<new>>, m.prev[at])
    BY <1>1, PutBeforeIs
  <1>4. /\ m.prev[at] \in Addr /\ LiveIn(m, m.prev[at]) /\ m.next[m.prev[at]] = at
    BY <1>1, Neighbours
  <1>5. m.prev[at] # new
    BY <1>4 DEF UnusedIn
  <1>6. Meant(list_add(m, new, at), PutAfter(S, at, <<new>>))
    BY <1>2, AddBetweenMeant DEF list_add
  <1>7. Meant(list_add_tail(m, new, at), PutBefore(S, at, <<new>>))
    <2>1. PICK pv \in Addr : pv = m.prev[at]
      BY <1>4
    <2>2. Meant(AddBetween(m, new, pv, m.next[pv]), PutBefore(S, at, <<new>>))
      BY <1>3, <1>4, <1>5, <2>1, AddBetweenMeant
    <2> QED BY <1>4, <2>1, <2>2 DEF list_add_tail
  <1> QED BY <1>6, <1>7

LEMMA UnlinkMeant ==
    ASSUME NEW m, NEW S, Meant(m, S), NEW e \in Nodes, LiveIn(m, e)
    PROVE  Meant(Unlink(m, e), Without(S, e))
  <1>1. e \in Addr /\ m \in Memory /\ WholeIn(m) /\ Shows(m, S)
    BY DEF Addr, Meant, WholeIn
  <1>2. /\ WholeIn(Unlink(m, e)) /\ Kept(m, Unlink(m, e), e) /\ NoneNew(m, Unlink(m, e), e)
    BY <1>1, UnlinkWhole
  <1>3. DOMAIN S = LiveHeads(Unlink(m, e))
    BY <1>2, SameHeads DEF Meant, LiveHeads
  <1>4. TakenOut(m, Unlink(m, e), e)
    BY <1>1, Neighbours DEF TakenOut, Unlink, JoinOver, Memory
  <1> QED BY <1>1, <1>2, <1>3, <1>4, RemoveMeant

(* An entry that is part of no list can be written to.                     *)
LEMMA IsolateMeant ==
    ASSUME NEW m, NEW S, Meant(m, S), NEW e \in Nodes, UnusedIn(m, e),
           NEW m2, WholeIn(m2), Kept(m, m2, e), NoneNew(m, m2, e),
           \A y \in Addr \ {e} : m2.next[y] = m.next[y]
    PROVE  Meant(m2, S)
  <1>1. WholeIn(m) /\ Shows(m, S) /\ S = [h \in DOMAIN S |-> S[h]]
    BY DEF Meant, Shows
  <1>2. DOMAIN S = LiveHeads(m2)
    BY SameHeads DEF Meant, LiveHeads
  <1>3. ASSUME NEW h \in DOMAIN S
        PROVE  /\ S[h] \in Seq(Nodes)
               /\ \A k \in 0 .. Len(S[h]) : m2.next[Spot(S, h, k)] = Spot(S, h, k + 1)
    <2>1. PICK L \in Nat : L = Len(S[h]) /\ S[h] \in Seq(Nodes)
      BY <1>1 DEF Shows
    <2>2. /\ h \in Heads /\ \A k \in 0 .. L + 1 : Spot(S, h, k) \in Addr
          /\ \A k \in 0 .. L : m.next[Spot(S, h, k)] = Spot(S, h, k + 1)
      BY <1>1, <2>1, ListIs DEF ListOf
    <2>3. ASSUME NEW k \in 0 .. L PROVE m2.next[Spot(S, h, k)] = Spot(S, h, k + 1)
      <3>1. k \in 0 .. L + 1
        BY <2>1
      <3>2. Spot(S, h, k) # e
        BY <1>1, <2>1, <2>2, UnusedNowhere
      <3> QED BY <2>2, <3>1, <3>2
    <2> QED BY <2>1, <2>3
  <1> QED BY <1>1, <1>2, <1>3, ChainsMeant DEF LiveHeads

LEMMA DeleteMeant ==
    ASSUME NEW m, NEW S, Meant(m, S), NEW e \in Nodes, LiveIn(m, e)
    PROVE  /\ Meant(list_del(m, e), Without(S, e)) /\ Meant(list_del_init(m, e), Without(S, e))
           /\ ~LiveIn(list_del(m, e), e) /\ LiveIn(list_del_init(m, e), e)
  <1>1. PICK u : u = Unlink(m, e)
    OBVIOUS
  <1>2. e \in Addr /\ Meant(u, Without(S, e)) /\ WholeIn(u) /\ u \in Memory /\ UnusedIn(u, e)
    <2>1. e \in Addr /\ WholeIn(m)
      BY DEF Addr, Meant
    <2>2. Meant(u, Without(S, e))
      BY <1>1, UnlinkMeant
    <2>3. WholeIn(u) /\ UnusedIn(u, e)
      BY <1>1, <2>1, UnlinkWhole
    <2> QED BY <2>1, <2>2, <2>3 DEF WholeIn
  <1>3. PICK d : d = list_del(m, e)
    OBVIOUS
  <1>4. d = [next |-> [u.next EXCEPT ![e] = POISON1], prev |-> [u.prev EXCEPT ![e] = POISON2]]
    BY <1>1, <1>3 DEF list_del
  <1>5. WholeIn(d) /\ Kept(u, d, e) /\ NoneNew(u, d, e)
    <2>1. POISON2 \notin Addr
      OBVIOUS
    <2> QED BY <1>2, <1>4, <2>1, IsolateWhole
  <1>6. d.next[e] = POISON1 /\ \A y \in Addr \ {e} : d.next[y] = u.next[y]
    BY <1>2, <1>4 DEF Memory
  <1>7. Meant(d, Without(S, e))
    BY <1>2, <1>5, <1>6, IsolateMeant
  <1>8. ~LiveIn(d, e)
    BY <1>6 DEF LiveIn
  <1>9. PICK t : t = list_del_init(m, e)
    OBVIOUS
  <1>10. t = INIT_LIST_HEAD(u, e)
    BY <1>1, <1>9 DEF list_del_init
  <1>11. WholeIn(t) /\ Kept(u, t, e) /\ NoneNew(u, t, e) /\ LiveIn(t, e)
    BY <1>2, <1>10, InitWhole
  <1>12. \A y \in Addr \ {e} : t.next[y] = u.next[y]
    BY <1>2, <1>10 DEF INIT_LIST_HEAD, Memory
  <1>13. Meant(t, Without(S, e))
    BY <1>2, <1>11, <1>12, IsolateMeant
  <1> QED BY <1>3, <1>7, <1>8, <1>9, <1>11, <1>13

LEMMA MoveMeant ==
    ASSUME NEW m, NEW S, Meant(m, S), NEW e \in Nodes, LiveIn(m, e),
           NEW at \in Addr, LiveIn(m, at), e # at
    PROVE  /\ Meant(list_move(m, e, at), PutAfter(Without(S, e), at, <<e>>))
           /\ Meant(list_move_tail(m, e, at), PutBefore(Without(S, e), at, <<e>>))
  <1>1. PICK u : u = Unlink(m, e)
    OBVIOUS
  <1>2. WholeIn(m) /\ e \in Addr
    BY DEF Meant, Addr
  <1>3. Meant(u, Without(S, e)) /\ UnusedIn(u, e) /\ LiveIn(u, at)
    BY <1>1, <1>2, UnlinkMeant, UnlinkWhole DEF Kept
  <1> QED BY <1>1, <1>3, AddMeant DEF list_move, list_move_tail

(* A head that stands for no list, or for an empty one, is made to stand   *)
(* for an empty one.                                                       *)
LEMMA InitHeadMeant ==
    ASSUME NEW m, NEW S, Meant(m, S), NEW x \in Heads, UnusedIn(m, x)
    PROVE  Meant(INIT_LIST_HEAD(m, x), WithHead(S, x, <<>>))
  <1>1. PICK m2 : m2 = INIT_LIST_HEAD(m, x)
    OBVIOUS
  <1>2. x \in Addr /\ WholeIn(m) /\ m \in Memory /\ Shows(m, S)
    BY DEF Addr, Meant, WholeIn
  <1>3. /\ WholeIn(m2) /\ LiveIn(m2, x) /\ Kept(m, m2, x) /\ NoneNew(m, m2, x)
    BY <1>1, <1>2, InitWhole
  <1>4. m2.next[x] = x /\ \A y \in Addr \ {x} : m2.next[y] = m.next[y]
    BY <1>1, <1>2 DEF INIT_LIST_HEAD, Memory
  <1>5. PICK S2 : S2 = WithHead(S, x, <<>>)
    OBVIOUS
  <1>6. /\ DOMAIN S2 = DOMAIN S \cup {x} /\ S2 = [h \in DOMAIN S2 |-> S2[h]]
        /\ S2[x] = <<>> /\ \A h \in DOMAIN S \ {x} : S2[h] = S[h]
    BY <1>5 DEF WithHead
  <1>7. DOMAIN S2 = LiveHeads(m2)
    <2>1. \A h \in Heads : LiveIn(m2, h) <=> (h = x \/ LiveIn(m, h))
      BY <1>3 DEF Kept, NoneNew, Addr
    <2>2. DOMAIN S = {h \in Heads : LiveIn(m, h)}
      BY DEF Meant
    <2> QED BY <1>6, <2>1, <2>2 DEF LiveHeads
  <1>8. ASSUME NEW h \in DOMAIN S2
        PROVE  /\ S2[h] \in Seq(Nodes)
               /\ \A k \in 0 .. Len(S2[h]) : m2.next[Spot(S2, h, k)] = Spot(S2, h, k + 1)
    <2>1. CASE h = x
      <3>1. S2[h] \in Seq(Nodes) /\ Len(S2[h]) = 0
        BY <1>6, <2>1, EmptySeq
      <3>2. \A k : Spot(S2, h, k) = x
        BY <2>1, <3>1 DEF Spot, Met
      <3> QED BY <1>4, <3>1, <3>2
    <2>2. CASE h # x
      <3>1. h \in DOMAIN S /\ S2[h] = S[h]
        BY <1>6, <2>2
      <3>2. PICK L \in Nat : L = Len(S[h]) /\ S[h] \in Seq(Nodes)
        BY <1>2, <3>1 DEF Shows
      <3>3. /\ \A k \in 0 .. L + 1 : Spot(S, h, k) \in Addr
            /\ \A k \in 0 .. L : m.next[Spot(S, h, k)] = Spot(S, h, k + 1)
        BY <1>2, <3>1, <3>2, ListIs DEF ListOf
      <3>4. ASSUME NEW k \in 0 .. L PROVE m2.next[Spot(S, h, k)] = Spot(S, h, k + 1)
        <4>1. k \in 0 .. L + 1
          BY <3>2
        <4>2. Spot(S, h, k) # x
          BY <1>2, <2>2, <3>1, <3>2, UnusedNowhere
        <4> QED BY <1>4, <3>3, <4>1, <4>2
      <3> QED BY <3>1, <3>2, <3>4 DEF Spot
    <2> QED BY <2>1, <2>2
  <1>9. Meant(m2, S2)
    BY <1>3, <1>6, <1>7, <1>8, ChainsMeant DEF LiveHeads
  <1> QED BY <1>1, <1>5, <1>9

(* new in the place of old: whatever was linked stays linked.              *)
Swapped(old, new, y) == IF y = old THEN new ELSE y

LEMMA ReplaceNext ==
    ASSUME NEW m, WholeIn(m), NEW old \in Addr, LiveIn(m, old),
           NEW new \in Addr, UnusedIn(m, new), new # old,
           NEW y \in Addr \ {new}, LiveIn(m, y)
    PROVE  list_replace(m, old, new).next[Swapped(old, new, y)] = Swapped(old, new, m.next[y])
  <1>1. PICK m2 : m2 = list_replace(m, old, new)
    OBVIOUS
  <1>2. /\ m \in Memory /\ m.next[old] \in Addr /\ m.prev[old] \in Addr
        /\ LiveIn(m, m.prev[old]) /\ m.next[m.prev[old]] = old /\ m.prev[m.next[old]] = old
        /\ m.next[y] \in Addr /\ m.prev[m.next[y]] = y
    BY Neighbours DEF WholeIn
  <1>3. m.prev[old] # new
    BY <1>2 DEF UnusedIn
  <1>4. CASE m.next[old] = old
    <2>1. m.prev[old] = old
      BY <1>2, <1>4
    <2>2. \A z \in Addr : m2.next[z] = IF z = new THEN new ELSE m.next[z]
      BY <1>1, <1>2, <1>4 DEF list_replace, Memory
    <2> QED BY <1>1, <1>2, <1>4, <2>1, <2>2 DEF Swapped
  <1>5. CASE m.next[old] # old
    <2>1. m.prev[old] # old
      BY <1>2, <1>5
    <2>2. \A z \in Addr : m2.next[z] = IF z = m.prev[old] THEN new
                                       ELSE IF z = new THEN m.next[old] ELSE m.next[z]
      BY <1>1, <1>2, <1>5, <2>1 DEF list_replace, Memory
    <2> QED BY <1>1, <1>2, <1>3, <1>5, <2>1, <2>2 DEF Swapped
  <1> QED BY <1>4, <1>5

LEMMA ReplaceEntryMeant ==
    ASSUME NEW m, NEW S, Meant(m, S), NEW old \in Nodes, LiveIn(m, old),
           NEW new \in Nodes, UnusedIn(m, new), new # old
    PROVE  Meant(list_replace(m, old, new), Substituted(S, old, new))
  <1>1. PICK m2 : m2 = list_replace(m, old, new)
    OBVIOUS
  <1>2. old \in Addr /\ new \in Addr /\ WholeIn(m) /\ Shows(m, S)
    BY DEF Addr, Meant
  <1>3. /\ WholeIn(m2) /\ Kept(m, m2, old) /\ NoneNew(m, m2, new)
    BY <1>1, <1>2, ReplaceWhole
  <1>4. PICK S2 : S2 = Substituted(S, old, new)
    OBVIOUS
  <1>5. S2 = [h \in DOMAIN S |-> [j \in DOMAIN S[h] |->
               IF S[h][j] = old THEN new ELSE S[h][j]]]
    BY <1>4 DEF Substituted
  <1>6. S2 = [h \in DOMAIN S2 |-> S2[h]] /\ DOMAIN S2 = DOMAIN S
    BY <1>5
  <1>7. DOMAIN S2 = LiveHeads(m2)
    <2>1. \A h \in Heads : LiveIn(m2, h) <=> LiveIn(m, h)
      BY <1>3 DEF Kept, NoneNew, Addr
    <2> QED BY <1>6, <2>1 DEF LiveHeads, Meant
  <1>8. ASSUME NEW h \in DOMAIN S2
        PROVE  /\ S2[h] \in Seq(Nodes)
               /\ \A k \in 0 .. Len(S2[h]) : m2.next[Spot(S2, h, k)] = Spot(S2, h, k + 1)
    <2>1. PICK L \in Nat : L = Len(S[h]) /\ S[h] \in Seq(Nodes) /\ h \in DOMAIN S
      BY <1>2, <1>6 DEF Shows
    <2>2. DOMAIN S[h] = 1 .. L /\ \A k \in 1 .. L : S[h][k] \in Nodes
      BY <2>1
    <2>3. S2[h] = [k \in 1 .. L |-> Swapped(old, new, S[h][k])]
      BY <1>5, <2>1, <2>2 DEF Swapped
    <2>4. S2[h] \in Seq(Nodes) /\ Len(S2[h]) = L
      <3>1. \A k \in 1 .. L : Swapped(old, new, S[h][k]) \in Nodes
        BY <2>2 DEF Swapped
      <3> QED BY <2>1, <2>3, <3>1
    <2>5. /\ h \notin Nodes /\ h \in Heads
          /\ \A k \in 0 .. L + 1 : Spot(S, h, k) \in Addr
          /\ \A k \in 0 .. L : /\ LiveIn(m, Spot(S, h, k))
                               /\ m.next[Spot(S, h, k)] = Spot(S, h, k + 1)
      BY <1>2, <2>1, ListIs DEF ListOf
    <2>6. ASSUME NEW k \in 0 .. L + 1 PROVE Spot(S2, h, k) = Swapped(old, new, Spot(S, h, k))
      <3>1. CASE k \in 1 .. L
        BY <2>1, <2>3, <2>4, <3>1 DEF Spot, Met
      <3>2. CASE k \notin 1 .. L
        BY <2>1, <2>4, <2>5, <3>2 DEF Spot, Met, Swapped
      <3> QED BY <3>1, <3>2
    <2>7. ASSUME NEW k \in 0 .. L PROVE m2.next[Spot(S2, h, k)] = Spot(S2, h, k + 1)
      <3>1. k \in 0 .. L + 1 /\ k + 1 \in 0 .. L + 1
        BY <2>1
      <3>2. Spot(S, h, k) # new
        BY <1>2, <2>1, <2>5, UnusedNowhere
      <3>3. PICK y \in Addr \ {new} : y = Spot(S, h, k) /\ LiveIn(m, y)
                                      /\ m.next[y] = Spot(S, h, k + 1)
        BY <2>5, <3>1, <3>2
      <3>4. m2.next[Swapped(old, new, y)] = Swapped(old, new, m.next[y])
        BY <1>1, <1>2, <3>3, ReplaceNext
      <3> QED BY <2>6, <3>1, <3>3, <3>4
    <2> QED BY <2>4, <2>7
  <1>9. Meant(m2, S2)
    BY <1>3, <1>6, <1>7, <1>8, ChainsMeant DEF LiveHeads
  <1> QED BY <1>1, <1>4, <1>9

LEMMA ReplaceHeadMeant ==
    ASSUME NEW m, NEW S, Meant(m, S), NEW old \in Heads, LiveIn(m, old),
           NEW new \in Heads, UnusedIn(m, new), new # old
    PROVE  Meant(list_replace(m, old, new), Substituted(S, old, new))
  <1>1. PICK m2 : m2 = list_replace(m, old, new)
    OBVIOUS
  <1>2. old \in Addr /\ new \in Addr /\ WholeIn(m) /\ Shows(m, S)
    BY DEF Addr, Meant
  <1>3. /\ WholeIn(m2) /\ Kept(m, m2, old) /\ NoneNew(m, m2, new)
        /\ ~LiveIn(m2, old) /\ LiveIn(m2, new)
    BY <1>1, <1>2, ReplaceWhole
  <1>4. PICK S2 : S2 = Substituted(S, old, new)
    OBVIOUS
  <1>5. DOMAIN S = {h \in Heads : LiveIn(m, h)} /\ old \in DOMAIN S
    BY DEF Meant
  <1>6. /\ S2 = [h \in DOMAIN S2 |-> S2[h]] /\ DOMAIN S2 = (DOMAIN S \ {old}) \cup {new}
        /\ S2[new] = S[old] /\ \A h \in DOMAIN S \ {old, new} : S2[h] = S[h]
    BY <1>4 DEF Substituted, WithHead, DropHead
  <1>7. DOMAIN S2 = LiveHeads(m2)
    <2>1. \A h \in Heads \ {old, new} : LiveIn(m2, h) <=> LiveIn(m, h)
      BY <1>3 DEF Kept, NoneNew, Addr
    <2> QED BY <1>3, <1>5, <1>6, <2>1 DEF LiveHeads
  <1>8. ASSUME NEW h \in DOMAIN S2
        PROVE  /\ S2[h] \in Seq(Nodes)
               /\ \A k \in 0 .. Len(S2[h]) : m2.next[Spot(S2, h, k)] = Spot(S2, h, k + 1)
    <2>1. PICK g \in DOMAIN S : S2[h] = S[g] /\ h = Swapped(old, new, g) /\ g # new
      <3>1. CASE h = new
        BY <1>5, <1>6, <3>1 DEF Swapped
      <3>2. CASE h # new
        BY <1>6, <3>2 DEF Swapped
      <3> QED BY <3>1, <3>2
    <2>2. PICK L \in Nat : L = Len(S[g]) /\ S[g] \in Seq(Nodes)
      BY <1>2 DEF Shows
    <2>3. /\ \A k \in 0 .. L + 1 : Spot(S, g, k) \in Addr
          /\ \A k \in 1 .. L : Spot(S, g, k) \in Nodes
          /\ \A k \in 0 .. L : /\ LiveIn(m, Spot(S, g, k))
                               /\ m.next[Spot(S, g, k)] = Spot(S, g, k + 1)
      BY <1>2, <2>2, ListIs DEF ListOf
    <2>4. ASSUME NEW k \in 0 .. L + 1 PROVE Spot(S2, h, k) = Swapped(old, new, Spot(S, g, k))
      <3>1. CASE k \in 1 .. L
        <4>1. Spot(S, g, k) # old
          BY <2>3, <3>1
        <4> QED BY <2>1, <2>2, <3>1, <4>1 DEF Spot, Met, Swapped
      <3>2. CASE k \notin 1 .. L
        BY <2>1, <2>2, <3>2 DEF Spot, Met
      <3> QED BY <3>1, <3>2
    <2>5. ASSUME NEW k \in 0 .. L PROVE m2.next[Spot(S2, h, k)] = Spot(S2, h, k + 1)
      <3>1. k \in 0 .. L + 1 /\ k + 1 \in 0 .. L + 1
        BY <2>2
      <3>2. Spot(S, g, k) # new
        BY <1>2, <2>1, <2>2, UnusedNowhere
      <3>3. PICK y \in Addr \ {new} : y = Spot(S, g, k) /\ LiveIn(m, y)
                                      /\ m.next[y] = Spot(S, g, k + 1)
        BY <2>3, <3>1, <3>2
      <3>4. m2.next[Swapped(old, new, y)] = Swapped(old, new, m.next[y])
        BY <1>1, <1>2, <3>3, ReplaceNext
      <3> QED BY <2>4, <3>1, <3>3, <3>4
    <2> QED BY <2>1, <2>2, <2>5
  <1>9. Meant(m2, S2)
    BY <1>3, <1>6, <1>7, <1>8, ChainsMeant DEF LiveHeads
  <1> QED BY <1>1, <1>4, <1>9

(* A list that is not empty goes between pv and the object behind it.      *)
LEMMA SpliceBetweenMeant ==
    ASSUME NEW m, NEW S, Meant(m, S), NEW list \in DOMAIN S, S[list] # <<>>,
           NEW pv \in Addr, LiveIn(m, pv),
           \A k \in 0 .. Len(S[list]) : Spot(S, list, k) # pv,
           NEW S2, PutBehind(DropHead(S, list), S2, S[list], pv)
    PROVE  /\ Meant(SpliceBetween(m, list, pv, m.next[pv]), S2)
           /\ UnusedIn(SpliceBetween(m, list, pv, m.next[pv]), list)
  <1>1. WholeIn(m) /\ Shows(m, S) /\ m \in Memory
    BY DEF Meant, WholeIn
  <1>2. PICK q, M : q = S[list] /\ q \in Seq(Nodes) /\ M = Len(q) /\ M \in Nat /\ M > 0
    BY <1>1 DEF Shows
  <1>3. /\ list \in Heads /\ list \in Addr
        /\ \A k \in 1 .. M : Spot(S, list, k) = q[k] /\ q[k] \in Nodes
        /\ Spot(S, list, 0) = list /\ Spot(S, list, M + 1) = list
        /\ \A k \in 0 .. M + 1 : Spot(S, list, k) \in Addr
        /\ \A j, k \in 0 .. M : Spot(S, list, j) = Spot(S, list, k) => j = k
        /\ \A k \in 0 .. M : /\ m.next[Spot(S, list, k)] = Spot(S, list, k + 1)
                             /\ m.prev[Spot(S, list, k + 1)] = Spot(S, list, k)
                             /\ LiveIn(m, Spot(S, list, k))
    BY <1>1, <1>2, ListIs DEF ListOf
  <1>4. 0 \in 0 .. M /\ 1 \in 1 .. M /\ 0 + 1 = 1 /\ M \in 0 .. M /\ M \in 1 .. M /\ 1 \in 0 .. M
    BY <1>2
  <1>5. m.next[list] = q[1] /\ m.prev[list] = q[M] /\ LiveIn(m, list) /\ q[1] # list
    BY <1>3, <1>4
  <1>6. PICK nx \in Addr : nx = m.next[pv] /\ m.prev[nx] = pv
    BY <1>1, Neighbours
  <1>7. list # pv /\ list # nx /\ q[M] # pv
    <2>1. q[M] # pv /\ list # pv
      BY <1>2, <1>3, <1>4
    <2> QED BY <1>5, <1>6, <2>1
  <1>8. PICK m2 : m2 = SpliceBetween(m, list, pv, nx)
    OBVIOUS
  <1>9. /\ WholeIn(m2) /\ ~LiveIn(m2, list) /\ UnusedIn(m2, list)
        /\ Kept(m, m2, list) /\ NoneNew(m, m2, list)
    BY <1>1, <1>3, <1>5, <1>6, <1>7, <1>8, SpliceBetweenWhole
  <1>10. \A y \in Addr : m2.next[y] = IF y = q[M] THEN nx ELSE IF y = pv THEN q[1] ELSE m.next[y]
    BY <1>1, <1>3, <1>5, <1>8 DEF SpliceBetween, Memory
  <1>11. PICK R : R = DropHead(S, list)
    OBVIOUS
  <1>12. /\ R = [h \in DOMAIN R |-> R[h]] /\ DOMAIN R = DOMAIN S \ {list}
         /\ \A h \in DOMAIN R : R[h] = S[h]
    BY <1>11 DEF DropHead
  <1>13. Shows(m, R)
    BY <1>1, <1>12 DEF Shows
  <1>14. DOMAIN R = LiveHeads(m2)
    <2>1. \A h \in Heads \ {list} : LiveIn(m2, h) <=> LiveIn(m, h)
      BY <1>9 DEF Kept, NoneNew, Addr
    <2> QED BY <1>9, <1>12, <2>1 DEF LiveHeads, Meant
  <1>15. LinkedBehind(m, m2, R, q, pv)
    <2>1. q # <<>> /\ m2.next[pv] = q[1] /\ m2.next[q[M]] = m.next[pv]
      <3>1. q[M] \in Addr
        BY <1>3, <1>4
      <3> QED BY <1>2, <1>6, <1>7, <1>10, <3>1
    <2>2. ASSUME NEW j \in 1 .. M - 1 PROVE m2.next[q[j]] = q[j + 1]
      <3>1. j \in 0 .. M /\ j \in 1 .. M /\ j + 1 \in 1 .. M /\ j # M /\ j \in 0 .. M + 1
        BY <1>2
      <3>2. m.next[q[j]] = q[j + 1] /\ q[j] # q[M] /\ q[j] # pv /\ q[j] \in Addr
        BY <1>2, <1>3, <1>4, <3>1
      <3> QED BY <1>10, <3>2
    <2>3. ASSUME NEW h \in DOMAIN R, NEW k \in 0 .. Len(R[h]), Spot(R, h, k) # pv
          PROVE  m2.next[Spot(R, h, k)] = m.next[Spot(R, h, k)]
      <3>1. h \in DOMAIN S /\ h # list /\ R[h] = S[h] /\ Spot(R, h, k) = Spot(S, h, k)
        BY <1>12 DEF Spot
      <3>2. PICK L \in Nat : L = Len(S[h])
        BY <1>1, <3>1 DEF Shows
      <3>3. k \in 0 .. L + 1
        BY <3>1, <3>2
      <3>4. Spot(S, h, k) \in Addr
        BY <1>1, <3>1, <3>2, <3>3, ListIs DEF ListOf
      <3>5. Spot(S, h, k) # Spot(S, list, M)
        <4>1. k \in 0 .. Len(S[h]) /\ M \in 0 .. Len(S[list])
          BY <1>2, <1>4, <3>1
        <4> QED BY <1>1, <3>1, <4>1, OneSpot
      <3>6. Spot(S, list, M) = q[M]
        BY <1>3, <1>4
      <3> QED BY <1>10, <2>3, <3>1, <3>4, <3>5, <3>6
    <2> QED BY <1>2, <2>1, <2>2, <2>3 DEF LinkedBehind
  <1>16. PutBehind(R, S2, q, pv)
    BY <1>2, <1>11
  <1>17. Meant(m2, S2)
    BY <1>1, <1>9, <1>13, <1>14, <1>15, <1>16, InsertMeant
  <1> QED BY <1>6, <1>8, <1>9, <1>17

LEMMA SameWithHead ==
    ASSUME NEW S, S = [h \in DOMAIN S |-> S[h]], NEW x \in DOMAIN S
    PROVE  WithHead(S, x, S[x]) = S
  BY DEF WithHead

SpliceIs(m, S, list, at) ==
    LET q == S[list]
        rest == IF q = <<>> THEN S ELSE DropHead(S, list)
    IN  /\ Meant(list_splice(m, list, at), PutAfter(rest, at, q))
        /\ Meant(list_splice_tail(m, list, at), PutBefore(rest, at, q))
        /\ Meant(list_splice_init(m, list, at), WithHead(PutAfter(rest, at, q), list, <<>>))
        /\ Meant(list_splice_tail_init(m, list, at), WithHead(PutBefore(rest, at, q), list, <<>>))

LEMMA SpliceMeant ==
    ASSUME NEW m, NEW S, Meant(m, S), NEW list \in DOMAIN S,
           NEW at \in Addr, LiveIn(m, at), \A k \in 0 .. Len(S[list]) : Spot(S, list, k) # at
    PROVE  SpliceIs(m, S, list, at)
  <1>1. WholeIn(m) /\ Shows(m, S) /\ S = [h \in DOMAIN S |-> S[h]]
    BY DEF Meant, Shows
  <1>2. PICK q, M : q = S[list] /\ q \in Seq(Nodes) /\ M = Len(q) /\ M \in Nat
    BY <1>1 DEF Shows
  <1>3. /\ list \in Heads /\ Spot(S, list, 0) = list /\ Spot(S, list, M + 1) = list
        /\ \A k \in 1 .. M : Spot(S, list, k) = q[k] /\ q[k] \in Nodes
        /\ \A k \in 0 .. M : m.next[Spot(S, list, k)] = Spot(S, list, k + 1)
    BY <1>1, <1>2, ListIs DEF ListOf
  <1>4. PICK pv \in Addr : pv = m.prev[at] /\ LiveIn(m, pv) /\ m.next[pv] = at
    BY <1>1, Neighbours
  <1>5. CASE q = <<>>
    <2>1. list_empty(m, list)
      <3>1. M = 0 /\ 0 \in 0 .. M
        BY <1>2, <1>5
      <3> QED BY <1>3, <3>1 DEF list_empty
    <2>2. PutAfter(S, at, q) = S
      <3>1. PutBehind(S, PutAfter(S, at, q), q, at)
        BY <1>1, <1>2, PutAfterIs
      <3> QED BY <1>1, <1>5, <3>1, PutNothing
    <2>3. PutBefore(S, at, q) = S
      <3>1. PutBehind(S, PutBefore(S, at, q), q, m.prev[at])
        BY <1>1, <1>2, PutBeforeIs
      <3> QED BY <1>1, <1>5, <3>1, PutNothing
    <2>4. WithHead(S, list, <<>>) = S
      <3>1. WithHead(S, list, S[list]) = S
        BY <1>1, SameWithHead
      <3> QED BY <1>2, <1>5, <3>1
    <2> QED BY <1>2, <1>5, <2>1, <2>2, <2>3, <2>4
         DEF SpliceIs, list_splice, list_splice_tail, list_splice_init, list_splice_tail_init
  <1>6. CASE q # <<>>
    <2>1. PICK R : R = DropHead(S, list)
      OBVIOUS
    <2>2. Shows(m, R)
      BY <1>1, <2>1 DEF Shows, DropHead
    <2>3. M > 0
      BY <1>2, <1>6
    <2>4. ~list_empty(m, list)
      <3>1. 0 \in 0 .. M /\ 0 + 1 = 1 /\ 1 \in 1 .. M
        BY <1>2, <2>3
      <3>2. m.next[list] = q[1] /\ q[1] \in Nodes
        BY <1>3, <3>1
      <3> QED BY <1>3, <3>2 DEF list_empty
    <2>5. PICK a : a = SpliceBetween(m, list, at, m.next[at])
      OBVIOUS
    <2>6. Meant(a, PutAfter(R, at, q)) /\ UnusedIn(a, list)
      <3>1. PutBehind(R, PutAfter(R, at, q), q, at)
        BY <1>1, <1>2, <2>2, PutAfterIs
      <3> QED BY <1>2, <1>6, <2>1, <2>5, <3>1, SpliceBetweenMeant
    <2>7. PICK b : b = SpliceBetween(m, list, pv, m.next[pv])
      OBVIOUS
    <2>8. Meant(b, PutBefore(R, at, q)) /\ UnusedIn(b, list)
      <3>1. PutBehind(R, PutBefore(R, at, q), q, pv)
        BY <1>1, <1>2, <1>4, <2>2, PutBeforeIs
      <3>2. ASSUME NEW k \in 0 .. Len(S[list]), Spot(S, list, k) = pv PROVE FALSE
        <4>1. Spot(S, list, k + 1) = at
          BY <1>2, <1>3, <1>4, <3>2
        <4>2. k + 1 = M + 1 \/ k + 1 \in 0 .. M
          BY <1>2
        <4>3. 0 \in 0 .. M
          BY <1>2
        <4> QED BY <1>2, <1>3, <4>1, <4>2, <4>3
      <3> QED BY <1>2, <1>4, <1>6, <2>1, <2>7, <3>1, <3>2, SpliceBetweenMeant
    <2>9. Meant(INIT_LIST_HEAD(a, list), WithHead(PutAfter(R, at, q), list, <<>>))
      BY <1>3, <2>6, InitHeadMeant
    <2>10. Meant(INIT_LIST_HEAD(b, list), WithHead(PutBefore(R, at, q), list, <<>>))
      BY <1>3, <2>8, InitHeadMeant
    <2>11. /\ list_splice(m, list, at) = a /\ list_splice_tail(m, list, at) = b
           /\ list_splice_init(m, list, at) = INIT_LIST_HEAD(a, list)
           /\ list_splice_tail_init(m, list, at) = INIT_LIST_HEAD(b, list)
      BY <1>4, <2>4, <2>5, <2>7
         DEF list_splice, list_splice_tail, list_splice_init, list_splice_tail_init
    <2> QED BY <1>2, <1>6, <2>1, <2>6, <2>8, <2>9, <2>10, <2>11 DEF SpliceIs
  <1> QED BY <1>5, <1>6

(* The list hd cut behind its entry number k.                              *)
CutParts(S, list, hd, k) ==
    WithHead(WithHead(S, list, SubSeq(S[hd], 1, k)), hd, SubSeq(S[hd], k + 1, Len(S[hd])))

CutMet(s, c, L, list, hd, a, b) ==
    /\ a \in Seq(Nodes) /\ Len(a) = c /\ b \in Seq(Nodes) /\ Len(b) = L - c
    /\ \A k \in 1 .. c : Met(list, a, k) = Met(hd, s, k)
    /\ Met(list, a, 0) = list /\ Met(list, a, c + 1) = list /\ Met(hd, b, 0) = hd
    /\ \A k \in 1 .. (L - c) + 1 : Met(hd, b, k) = Met(hd, s, c + k)

LEMMA CutEntries ==
    ASSUME NEW s \in Seq(Nodes), NEW L \in Nat, L = Len(s), NEW c \in 0 .. L, NEW list, NEW hd,
           NEW a, a = SubSeq(s, 1, c), NEW b, b = SubSeq(s, c + 1, L)
    PROVE  CutMet(s, c, L, list, hd, a, b)
  <1>1. c \in Nat /\ c <= L /\ \A j \in 1 .. L : s[j] \in Nodes
    OBVIOUS
  <1>2. a \in Seq(Nodes) /\ Len(a) = c /\ \A j \in 1 .. c : a[j] = s[j]
    <2>1. \A j \in 1 .. c : s[j] \in Nodes
      BY <1>1
    <2>2. /\ a \in Seq(Nodes) /\ Len(a) = IF 1 <= c THEN c - 1 + 1 ELSE 0
          /\ \A j \in 1 .. c - 1 + 1 : a[j] = s[1 + j - 1]
      BY <1>1, <2>1, SubSeqProperties
    <2> QED BY <1>1, <2>2
  <1>3. b \in Seq(Nodes) /\ Len(b) = L - c /\ \A j \in 1 .. L - c : b[j] = s[c + j]
    <2>1. \A j \in c + 1 .. L : s[j] \in Nodes
      BY <1>1
    <2>2. /\ b \in Seq(Nodes) /\ Len(b) = IF c + 1 <= L THEN L - (c + 1) + 1 ELSE 0
          /\ \A j \in 1 .. L - (c + 1) + 1 : b[j] = s[c + 1 + j - 1]
      BY <1>1, <2>1, SubSeqProperties
    <2> QED BY <1>1, <2>2
  <1>4. \A k \in 1 .. c : Met(list, a, k) = Met(hd, s, k)
    BY <1>1, <1>2 DEF Met
  <1>5. Met(list, a, 0) = list /\ Met(list, a, c + 1) = list /\ Met(hd, b, 0) = hd
    BY <1>1, <1>2, <1>3 DEF Met
  <1>6. ASSUME NEW k \in 1 .. (L - c) + 1 PROVE Met(hd, b, k) = Met(hd, s, c + k)
    <2>1. CASE k = (L - c) + 1
      <3>1. k \notin 1 .. L - c /\ c + k \notin 1 .. L
        BY <1>1, <2>1
      <3> QED BY <1>3, <3>1 DEF Met
    <2>2. CASE k # (L - c) + 1
      <3>1. k \in 1 .. L - c /\ c + k \in 1 .. L
        BY <1>1, <2>2
      <3> QED BY <1>3, <3>1 DEF Met
    <2> QED BY <2>1, <2>2
  <1> QED BY <1>2, <1>3, <1>4, <1>5, <1>6 DEF CutMet

LEMMA CutAfterMeant ==
    ASSUME NEW m, NEW S, Meant(m, S), NEW list \in Heads, UnusedIn(m, list),
           NEW hd \in DOMAIN S, list # hd, NEW c \in 1 .. Len(S[hd])
    PROVE  Meant(CutAfter(m, list, hd, S[hd][c]), CutParts(S, list, hd, c))
  <1>1. WholeIn(m) /\ Shows(m, S) /\ m \in Memory /\ list \in Addr
        /\ DOMAIN S = {h \in Heads : LiveIn(m, h)}
    BY DEF Meant, WholeIn, Addr
  <1>2. PICK s, L : s = S[hd] /\ s \in Seq(Nodes) /\ L = Len(s) /\ L \in Nat
    BY <1>1 DEF Shows
  <1>3. c \in 1 .. L /\ c \in 0 .. L /\ c \in Nat /\ 1 <= c /\ c <= L
        /\ 0 \in 0 .. L /\ 0 + 1 = 1 /\ 1 \in 1 .. L
    BY <1>2
  <1>4. /\ hd \in Heads /\ hd \in Addr
        /\ \A k \in 1 .. L : Spot(S, hd, k) = s[k] /\ s[k] \in Nodes
        /\ Spot(S, hd, 0) = hd /\ Spot(S, hd, L + 1) = hd
        /\ \A k \in 0 .. L + 1 : Spot(S, hd, k) \in Addr
        /\ \A j, k \in 0 .. L : Spot(S, hd, j) = Spot(S, hd, k) => j = k
        /\ \A k \in 0 .. L : /\ m.next[Spot(S, hd, k)] = Spot(S, hd, k + 1)
                             /\ m.prev[Spot(S, hd, k + 1)] = Spot(S, hd, k)
                             /\ LiveIn(m, Spot(S, hd, k))
                             /\ k > 0 => m.next[Spot(S, hd, k)] # Spot(S, hd, k)
    <2>1. ListOf(m, S, hd, L)
      BY <1>1, <1>2, ListIs
    <2> QED BY <1>2, <2>1 DEF ListOf
  <1>5. PICK e \in Nodes : e = s[c] /\ e = Spot(S, hd, c) /\ m.next[e] = Spot(S, hd, c + 1)
                           /\ LiveIn(m, e) /\ m.next[e] # e /\ e \in Addr /\ e # hd /\ e # list
    <2>1. s[c] \in Nodes /\ s[c] = Spot(S, hd, c) /\ c > 0
      BY <1>3, <1>4
    <2>2. s[c] \in Addr /\ s[c] \notin Heads
      BY <2>1 DEF Addr
    <2> QED BY <1>3, <1>4, <2>1, <2>2
  <1>6. PICK m2 : m2 = CutAfter(m, list, hd, e)
    OBVIOUS
  <1>7. WholeIn(m2) /\ Kept(m, m2, list) /\ NoneNew(m, m2, list) /\ LiveIn(m2, list)
    BY <1>1, <1>4, <1>5, <1>6, CutAfterWhole
  <1>8. \A y \in Addr : m2.next[y] = IF y = hd THEN Spot(S, hd, c + 1) ELSE IF y = e THEN list
                                     ELSE IF y = list THEN Spot(S, hd, 1) ELSE m.next[y]
    <2>1. m.next[hd] = Spot(S, hd, 1)
      BY <1>3, <1>4
    <2> QED BY <1>1, <1>4, <1>5, <1>6, <2>1 DEF CutAfter, Memory
  <1>9. PICK S2, a, b : /\ S2 = CutParts(S, list, hd, c)
                        /\ a = SubSeq(s, 1, c) /\ b = SubSeq(s, c + 1, L)
    OBVIOUS
  <1>10. /\ S2 = [h \in DOMAIN S2 |-> S2[h]] /\ DOMAIN S2 = DOMAIN S \cup {list}
         /\ S2[list] = a /\ S2[hd] = b /\ \A h \in DOMAIN S \ {list, hd} : S2[h] = S[h]
    BY <1>2, <1>9 DEF CutParts, WithHead
  <1>11. DOMAIN S2 = LiveHeads(m2)
    <2>1. \A h \in Heads \ {list} : LiveIn(m2, h) <=> LiveIn(m, h)
      BY <1>7 DEF Kept, NoneNew, Addr
    <2> QED BY <1>1, <1>7, <1>10, <2>1 DEF LiveHeads
  <1>12. CutMet(s, c, L, list, hd, a, b)
    BY <1>2, <1>3, <1>9, CutEntries
  <1>13. \A k \in 0 .. L : Spot(S, hd, k) # list
    BY <1>1, <1>2, UnusedNowhere
  <1>14. ASSUME NEW h \in DOMAIN S2
         PROVE  /\ S2[h] \in Seq(Nodes)
                /\ \A k \in 0 .. Len(S2[h]) : m2.next[Spot(S2, h, k)] = Spot(S2, h, k + 1)
    <2>1. CASE h = list
      <3>1. /\ S2[h] \in Seq(Nodes) /\ Len(S2[h]) = c
            /\ Spot(S2, h, 0) = list /\ Spot(S2, h, c + 1) = list
            /\ \A k \in 1 .. c : Spot(S2, h, k) = Spot(S, hd, k)
        BY <1>2, <1>10, <1>12, <2>1 DEF CutMet, Spot
      <3>2. ASSUME NEW k \in 0 .. c PROVE m2.next[Spot(S2, h, k)] = Spot(S2, h, k + 1)
        <4>1. CASE k = 0
          <5>1. 0 + 1 = 1 /\ 1 \in 1 .. c
            BY <1>3
          <5>2. Spot(S2, h, 0 + 1) = Spot(S, hd, 1)
            BY <3>1, <5>1
          <5> QED BY <1>1, <1>4, <1>5, <1>8, <3>1, <4>1, <5>2
        <4>2. CASE k = c
          <5>1. c \in 1 .. c
            BY <1>3
          <5> QED BY <1>4, <1>5, <1>8, <3>1, <4>2, <5>1
        <4>3. CASE k # 0 /\ k # c
          <5>1. /\ k \in 1 .. c /\ k + 1 \in 1 .. c /\ k \in 0 .. L /\ k \in 0 .. L + 1
            BY <1>2, <1>3, <4>3
          <5>2. Spot(S, hd, k) \in Addr /\ Spot(S, hd, k) \notin {hd, e, list}
            BY <1>3, <1>4, <1>5, <1>13, <4>3, <5>1
          <5>3. m2.next[Spot(S, hd, k)] = Spot(S, hd, k + 1)
            BY <1>4, <1>8, <5>1, <5>2
          <5> QED BY <3>1, <5>1, <5>3
        <4> QED BY <4>1, <4>2, <4>3
      <3> QED BY <3>1, <3>2
    <2>2. CASE h = hd
      <3>1. /\ S2[h] \in Seq(Nodes) /\ Len(S2[h]) = L - c /\ Spot(S2, h, 0) = hd
            /\ \A k \in 1 .. (L - c) + 1 : Spot(S2, h, k) = Spot(S, hd, c + k)
        BY <1>2, <1>10, <1>12, <2>2 DEF CutMet, Spot
      <3>2. ASSUME NEW k \in 0 .. L - c PROVE m2.next[Spot(S2, h, k)] = Spot(S2, h, k + 1)
        <4>1. CASE k = 0
          <5>1. 0 + 1 = 1 /\ 1 \in 1 .. (L - c) + 1
            BY <1>2, <1>3
          <5>2. Spot(S2, h, 0 + 1) = Spot(S, hd, c + 1)
            BY <3>1, <5>1
          <5> QED BY <1>4, <1>8, <3>1, <4>1, <5>2
        <4>2. CASE k # 0
          <5>1. PICK j \in 0 .. L : j = c + k /\ j + 1 = c + (k + 1) /\ j # 0 /\ j # c
                                    /\ j \in 0 .. L + 1
            BY <1>2, <1>3, <4>2
          <5>2. k \in 1 .. (L - c) + 1 /\ k + 1 \in 1 .. (L - c) + 1
            BY <1>2, <1>3, <4>2
          <5>3. Spot(S2, h, k) = Spot(S, hd, j) /\ Spot(S2, h, k + 1) = Spot(S, hd, j + 1)
            BY <3>1, <5>1, <5>2
          <5>4. Spot(S, hd, j) \in Addr /\ Spot(S, hd, j) \notin {hd, e, list}
            BY <1>3, <1>4, <1>5, <1>13, <5>1
          <5> QED BY <1>4, <1>8, <5>1, <5>3, <5>4
        <4> QED BY <4>1, <4>2
      <3> QED BY <3>1, <3>2
    <2>3. CASE h # list /\ h # hd
      <3>1. h \in DOMAIN S /\ S2[h] = S[h]
        BY <1>10, <2>3
      <3>2. PICK K \in Nat : K = Len(S[h]) /\ S[h] \in Seq(Nodes)
        BY <1>1, <3>1 DEF Shows
      <3>3. /\ \A k \in 0 .. K + 1 : Spot(S, h, k) \in Addr
            /\ \A k \in 0 .. K : m.next[Spot(S, h, k)] = Spot(S, h, k + 1)
        BY <1>1, <3>1, <3>2, ListIs DEF ListOf
      <3>4. ASSUME NEW k \in 0 .. K PROVE m2.next[Spot(S, h, k)] = Spot(S, h, k + 1)
        <4>1. k \in 0 .. K + 1 /\ k \in 0 .. Len(S[h]) /\ 0 \in 0 .. Len(S[hd]) /\ c \in 0 .. Len(S[hd])
          BY <1>2, <1>3, <3>2
        <4>2. Spot(S, h, k) # Spot(S, hd, 0) /\ Spot(S, h, k) # Spot(S, hd, c)
          BY <1>1, <2>3, <3>1, <4>1, OneSpot
        <4>3. Spot(S, h, k) # list
          BY <1>1, <2>3, <3>1, <4>1, UnusedNowhere
        <4>4. Spot(S, h, k) \in Addr \ {hd, e, list}
          BY <1>4, <1>5, <3>3, <4>1, <4>2, <4>3
        <4> QED BY <1>8, <3>3, <4>4
      <3> QED BY <3>1, <3>2, <3>4 DEF Spot
    <2> QED BY <2>1, <2>2, <2>3
  <1>15. Meant(m2, S2)
    BY <1>7, <1>10, <1>11, <1>14, ChainsMeant DEF LiveHeads
  <1> QED BY <1>2, <1>5, <1>6, <1>9, <1>15

LEMMA CutNothing ==
    ASSUME NEW m, NEW S, Meant(m, S), NEW list \in Heads, NEW hd \in DOMAIN S, list # hd
    PROVE  CutParts(S, list, hd, 0) = WithHead(S, list, <<>>)
  <1>1. PICK s, L : s = S[hd] /\ s \in Seq(Nodes) /\ L = Len(s) /\ L \in Nat
    BY DEF Meant, Shows
  <1>2. SubSeq(s, 1, 0) = <<>> /\ SubSeq(s, 0 + 1, L) = s
    BY <1>1
  <1>3. PICK T : T = WithHead(S, list, <<>>)
    OBVIOUS
  <1>4. T = [h \in DOMAIN T |-> T[h]] /\ hd \in DOMAIN T /\ T[hd] = s
    BY <1>1, <1>3 DEF WithHead
  <1>5. WithHead(T, hd, T[hd]) = T
    BY <1>4, SameWithHead
  <1>6. CutParts(S, list, hd, 0) = WithHead(T, hd, s)
    BY <1>1, <1>2, <1>3 DEF CutParts
  <1> QED BY <1>3, <1>4, <1>5, <1>6

CutIs(m, S, list, hd, e) ==
    LET s == S[hd]
    IN  /\ Meant(list_cut_position(m, list, hd, e),
                 CASE s = <<>>             -> S
                   [] s # <<>> /\ e = hd   -> CutParts(S, list, hd, 0)
                   [] OTHER                -> CutParts(S, list, hd, Index(s, e)))
        /\ Meant(list_cut_before(m, list, hd, e),
                 CutParts(S, list, hd, IF e = hd THEN Len(s) ELSE Index(s, e) - 1))

LEMMA CutMeant ==
    ASSUME NEW m, NEW S, Meant(m, S), NEW list \in Heads, UnusedIn(m, list),
           NEW hd \in DOMAIN S, list # hd, NEW e \in Addr, e = hd \/ e \in ToSet(S[hd])
    PROVE  CutIs(m, S, list, hd, e)
  <1>1. WholeIn(m) /\ Shows(m, S) /\ m \in Memory
    BY DEF Meant, WholeIn
  <1>2. PICK s, L : s = S[hd] /\ s \in Seq(Nodes) /\ L = Len(s) /\ L \in Nat
    BY <1>1 DEF Shows
  <1>3. /\ hd \in Heads /\ hd \in Addr /\ hd \notin Nodes
        /\ \A k \in 1 .. L : Spot(S, hd, k) = s[k] /\ s[k] \in Nodes
        /\ Spot(S, hd, 0) = hd /\ Spot(S, hd, L + 1) = hd
        /\ \A j, k \in 0 .. L : Spot(S, hd, j) = Spot(S, hd, k) => j = k
        /\ \A k \in 0 .. L : /\ m.next[Spot(S, hd, k)] = Spot(S, hd, k + 1)
                             /\ m.prev[Spot(S, hd, k + 1)] = Spot(S, hd, k)
    BY <1>1, <1>2, ListIs DEF ListOf
  <1>4. ToSet(s) \subseteq Nodes
    BY <1>2 DEF ToSet
  <1>5. e # hd => \E c \in 1 .. L : e = s[c] /\ e = Spot(S, hd, c) /\ Index(s, e) = c
    <2> SUFFICES ASSUME e # hd PROVE \E c \in 1 .. L : e = s[c] /\ e = Spot(S, hd, c) /\ Index(s, e) = c
      OBVIOUS
    <2>1. e \in ToSet(S[hd]) /\ e \in Nodes
      BY <1>2, <1>4
    <2>2. PICK c \in 0 .. L : Spot(S, hd, c) = e
      BY <1>1, <1>2, <2>1, InList
    <2>3. c \in 1 .. L /\ Index(S[hd], e) = c
      BY <1>1, <1>2, <2>1, <2>2, InList
    <2> QED BY <1>2, <1>3, <2>2, <2>3
  <1>6. s = <<>> <=> L = 0
    BY <1>2
  <1>7. m.next[hd] = Spot(S, hd, 1) /\ m.prev[hd] = Spot(S, hd, L)
    <2>1. 0 \in 0 .. L /\ 0 + 1 = 1 /\ L \in 0 .. L
      BY <1>2
    <2> QED BY <1>3, <2>1
  <1>8. list_empty(m, hd) <=> L = 0
    <2>1. L # 0 => 1 \in 0 .. L /\ 0 \in 0 .. L /\ 1 # 0
      BY <1>2
    <2>2. L = 0 => L + 1 = 1
      OBVIOUS
    <2> QED BY <1>3, <1>7, <2>1, <2>2 DEF list_empty
  <1>9. Meant(INIT_LIST_HEAD(m, list), CutParts(S, list, hd, 0))
    BY CutNothing, InitHeadMeant
  <1>10. Meant(list_cut_position(m, list, hd, e),
               CASE s = <<>>             -> S
                 [] s # <<>> /\ e = hd   -> CutParts(S, list, hd, 0)
                 [] OTHER                -> CutParts(S, list, hd, Index(s, e)))
    <2>1. CASE s = <<>>
      BY <1>6, <1>8, <2>1 DEF list_cut_position
    <2>2. CASE s # <<>> /\ e = hd
      BY <1>6, <1>8, <1>9, <2>2 DEF list_cut_position
    <2>3. CASE s # <<>> /\ e # hd
      <3>1. PICK c \in 1 .. L : e = s[c] /\ e = Spot(S, hd, c) /\ Index(s, e) = c
        BY <1>5, <2>3
      <3>2. ASSUME list_is_singular(m, hd) PROVE m.next[hd] = e
        <4>1. Spot(S, hd, 1) = Spot(S, hd, L)
          BY <1>7, <3>2 DEF list_is_singular
        <4>2. 1 \in 0 .. L /\ L \in 0 .. L
          BY <1>2
        <4>3. L = 1
          BY <1>3, <4>1, <4>2
        <4>4. c = 1
          BY <4>3
        <4> QED BY <1>7, <3>1, <4>4
      <3>3. list_cut_position(m, list, hd, e) = CutAfter(m, list, hd, e)
        BY <1>6, <1>8, <2>3, <3>2 DEF list_cut_position
      <3>4. Meant(CutAfter(m, list, hd, s[c]), CutParts(S, list, hd, c))
        BY <1>2, CutAfterMeant
      <3> QED BY <2>3, <3>1, <3>3, <3>4
    <2> QED BY <2>1, <2>2, <2>3
  <1>11. Meant(list_cut_before(m, list, hd, e),
               CutParts(S, list, hd, IF e = hd THEN L ELSE Index(s, e) - 1))
    <2>1. PICK c \in 1 .. L + 1 : /\ e = Spot(S, hd, c)
                                  /\ (IF e = hd THEN L ELSE Index(s, e) - 1) = c - 1
      <3>1. CASE e = hd
        <4>1. L + 1 \in 1 .. L + 1 /\ (L + 1) - 1 = L
          BY <1>2
        <4> QED BY <1>3, <3>1, <4>1
      <3>2. CASE e # hd
        <4>1. PICK c \in 1 .. L : e = Spot(S, hd, c) /\ Index(s, e) = c
          BY <1>5, <3>2
        <4>2. c \in 1 .. L + 1
          BY <1>2
        <4> QED BY <3>2, <4>1, <4>2
      <3> QED BY <3>1, <3>2
    <2>2. CASE c = 1
      <3>1. m.next[hd] = e /\ c - 1 = 0
        BY <1>7, <2>1, <2>2
      <3> QED BY <1>9, <2>1, <3>1 DEF list_cut_before
    <2>3. CASE c # 1
      <3>1. PICK b \in 1 .. L : b + 1 = c /\ b = c - 1 /\ b \in 0 .. L
        <4>1. c - 1 \in 1 .. L /\ (c - 1) + 1 = c /\ c - 1 \in 0 .. L
          BY <1>2, <2>3
        <4> QED BY <4>1
      <3>2. PICK d : d = s[b] /\ d = Spot(S, hd, b) /\ d \in Nodes /\ m.next[d] = e /\ m.prev[e] = d
        BY <1>3, <2>1, <3>1
      <3>3. m.next[hd] # e
        <4>1. hd = Spot(S, hd, 0) /\ m.prev[m.next[hd]] = hd
          BY <1>2, <1>3
        <4> QED BY <1>3, <3>2, <4>1
      <3>4. d # list /\ d # hd /\ d \in Addr
        BY <1>3, <3>2 DEF Addr
      <3>5. m.next[hd] \in Addr /\ list \in Addr
        <4>1. LiveIn(m, hd)
          BY DEF Meant
        <4> QED BY <1>1, <1>3, <4>1, Neighbours DEF Addr
      <3>6. CutAfter(m, list, hd, d) = list_cut_before(m, list, hd, e)
        BY <1>1, <1>3, <3>2, <3>3, <3>4, <3>5 DEF CutAfter, list_cut_before, Memory
      <3>7. Meant(CutAfter(m, list, hd, d), CutParts(S, list, hd, b))
        BY <1>2, <3>2, CutAfterMeant
      <3> QED BY <2>1, <3>1, <3>6, <3>7
    <2> QED BY <2>2, <2>3
  <1> QED BY <1>2, <1>10, <1>11 DEF CutIs

(***************************************************************************)
(* A cut into a list that is not needed any more: its entries are lost     *)
(***************************************************************************)
Part(S, list, x) == x = list \/ x \in ToSet(S[list])

LEMMA PartSpot ==
    ASSUME NEW m, WholeIn(m), NEW S, Shows(m, S), NEW h \in DOMAIN S, NEW x, Part(S, h, x)
    PROVE  \E k \in 0 .. Len(S[h]) : Spot(S, h, k) = x
  <1>1. PICK L : L = Len(S[h]) /\ ListOf(m, S, h, L) /\ L \in Nat /\ DOMAIN S[h] = 1 .. L
    BY ListIs DEF Shows
  <1>2. CASE x = h
    BY <1>1, <1>2 DEF ListOf
  <1>3. CASE x \in ToSet(S[h])
    <2>1. PICK k \in 1 .. L : x = S[h][k]
      BY <1>1, <1>3 DEF ToSet
    <2>2. k \in 0 .. L /\ Spot(S, h, k) = x
      BY <1>1, <2>1 DEF ListOf
    <2> QED BY <1>1, <2>2
  <1> QED BY <1>2, <1>3 DEF Part

(* A head and its entries are in use.                                      *)
LEMMA OnList ==
    ASSUME NEW m, NEW S, Meant(m, S), NEW hd \in DOMAIN S, NEW e \in Addr,
           e = hd \/ e \in ToSet(S[hd])
    PROVE  hd \in Addr /\ LiveIn(m, hd) /\ LiveIn(m, e) /\ (e = hd \/ m.next[e] # e)
  <1>1. WholeIn(m) /\ Shows(m, S) /\ hd \in Addr /\ LiveIn(m, hd)
    BY DEF Meant, Addr
  <1>2. PICK L : L = Len(S[hd]) /\ ListOf(m, S, hd, L)
    BY <1>1, ListIs
  <1>3. PICK c \in 0 .. L : e = Spot(S, hd, c)
    <2>1. Part(S, hd, e)
      BY DEF Part
    <2> QED BY <1>1, <1>2, <2>1, PartSpot
  <1>4. c = 0 => e = hd
    BY <1>2, <1>3 DEF ListOf
  <1>5. LiveIn(m, e) /\ (c > 0 => m.next[e] # e)
    BY <1>2, <1>3 DEF ListOf
  <1> QED BY <1>1, <1>3, <1>4, <1>5

(* list_cut_position returns early from an empty list only.                *)
LEMMA CutWrites ==
    ASSUME NEW m, NEW S, Meant(m, S), NEW hd \in DOMAIN S, NEW e \in Addr,
           e = hd \/ e \in ToSet(S[hd])
    PROVE  /\ list_empty(m, hd) <=> S[hd] = <<>>
           /\ list_is_singular(m, hd) /\ hd # e => m.next[hd] = e
  <1>1. WholeIn(m) /\ Shows(m, S)
    BY DEF Meant
  <1>2. PICK L : L = Len(S[hd]) /\ ListOf(m, S, hd, L) /\ L \in Nat /\ (S[hd] = <<>> <=> L = 0)
    BY <1>1, ListIs DEF Shows
  <1>3. /\ Spot(S, hd, 0) = hd /\ Spot(S, hd, L + 1) = hd
        /\ \A j, k \in 0 .. L : Spot(S, hd, j) = Spot(S, hd, k) => j = k
        /\ \A k \in 0 .. L : /\ m.next[Spot(S, hd, k)] = Spot(S, hd, k + 1)
                             /\ m.prev[Spot(S, hd, k + 1)] = Spot(S, hd, k)
    BY <1>2 DEF ListOf
  <1>4. m.next[hd] = Spot(S, hd, 1) /\ m.prev[hd] = Spot(S, hd, L)
    <2>1. 0 \in 0 .. L /\ 0 + 1 = 1 /\ L \in 0 .. L
      BY <1>2
    <2> QED BY <1>3, <2>1
  <1>5. list_empty(m, hd) <=> L = 0
    <2>1. L # 0 => 1 \in 0 .. L /\ 0 \in 0 .. L /\ 1 # 0
      BY <1>2
    <2>2. L = 0 => L + 1 = 1
      OBVIOUS
    <2> QED BY <1>3, <1>4, <2>1, <2>2 DEF list_empty
  <1>6. ASSUME list_is_singular(m, hd), hd # e PROVE m.next[hd] = e
    <2>1. PICK c \in 0 .. L : e = Spot(S, hd, c)
      <3>1. Part(S, hd, e)
        BY DEF Part
      <3> QED BY <1>1, <1>2, <3>1, PartSpot
    <2>2. c \in 1 .. L /\ 1 \in 0 .. L /\ L \in 0 .. L
      BY <1>2, <1>3, <1>6, <2>1
    <2>3. L = 1
      BY <1>3, <1>4, <1>6, <2>2 DEF list_is_singular
    <2> QED BY <1>4, <2>1, <2>2, <2>3
  <1> QED BY <1>2, <1>5, <1>6

(* The links of a list do not leave it, and no others lead into it.        *)
LEMMA PartClosed ==
    ASSUME NEW m, NEW S, Meant(m, S), NEW list \in DOMAIN S
    PROVE  /\ list \in Heads /\ list \in Addr /\ ToSet(S[list]) \subseteq Nodes
           /\ list \notin ToSet(S[list])
           /\ \A x \in Addr : Part(S, list, x) =>
                Part(S, list, m.next[x]) /\ Part(S, list, m.prev[x]) /\ LiveIn(m, x)
           /\ \A x \in Addr : LiveIn(m, x) /\ ~Part(S, list, x) =>
                ~Part(S, list, m.next[x]) /\ ~Part(S, list, m.prev[x])
           /\ ToSet(S[list]) # {} => m.next[list] \in ToSet(S[list])
  <1>1. WholeIn(m) /\ Shows(m, S) /\ list \in Heads /\ list \in Addr
    BY DEF Meant, Addr
  <1>2. PICK L : L = Len(S[list])
    OBVIOUS
  <1>3. ListOf(m, S, list, L)
    BY <1>1, <1>2, ListIs
  <1>4. L \in Nat /\ Spot(S, list, 0) = list /\ Spot(S, list, L + 1) = list
        /\ \A k \in 1 .. L : Spot(S, list, k) = S[list][k] /\ S[list][k] \in Nodes
    BY <1>3 DEF ListOf
  <1>5. DOMAIN S[list] = 1 .. L
    BY <1>1, <1>2 DEF Shows
  <1>6. ToSet(S[list]) \subseteq Nodes /\ list \notin Nodes
    BY <1>4, <1>5, <1>3 DEF ToSet, ListOf
  <1>7. \A k \in 0 .. L + 1 : Part(S, list, Spot(S, list, k))
    <2>1. \A k \in 1 .. L : S[list][k] \in ToSet(S[list])
      BY <1>5 DEF ToSet
    <2>2. \A k \in 0 .. L + 1 : k = 0 \/ k = L + 1 \/ k \in 1 .. L
      BY <1>4
    <2> QED BY <1>4, <2>1, <2>2 DEF Part
  <1>8. ASSUME NEW x \in Addr, Part(S, list, x)
        PROVE  \E k \in 0 .. L : x = Spot(S, list, k)
    <2>1. CASE x = list
      BY <1>4, <2>1
    <2>2. CASE x \in ToSet(S[list])
      <3>1. PICK k \in 1 .. L : x = S[list][k]
        BY <1>5, <2>2 DEF ToSet
      <3> QED BY <1>4, <3>1
    <2> QED BY <1>8, <2>1, <2>2 DEF Part
  <1>9. ASSUME NEW x \in Addr, Part(S, list, x)
        PROVE  Part(S, list, m.next[x]) /\ Part(S, list, m.prev[x]) /\ LiveIn(m, x)
    <2>1. PICK k \in 0 .. L : x = Spot(S, list, k)
      BY <1>8, <1>9
    <2>2. m.next[x] = Spot(S, list, k + 1) /\ LiveIn(m, x) /\ k + 1 \in 0 .. L + 1
      BY <1>3, <1>4, <2>1 DEF ListOf
    <2>3. PICK j \in 0 .. L : x = Spot(S, list, j + 1)
      <3>1. CASE k = 0
        BY <1>4, <2>1, <3>1
      <3>2. CASE k # 0
        <4>1. k - 1 \in 0 .. L /\ (k - 1) + 1 = k
          BY <1>4, <3>2
        <4> QED BY <2>1, <4>1
      <3> QED BY <3>1, <3>2
    <2>4. m.prev[x] = Spot(S, list, j) /\ j \in 0 .. L + 1
      BY <1>3, <1>4, <2>3 DEF ListOf
    <2> QED BY <1>7, <2>2, <2>4
  <1>10. ASSUME NEW x \in Addr, LiveIn(m, x), ~Part(S, list, x)
         PROVE  ~Part(S, list, m.next[x]) /\ ~Part(S, list, m.prev[x])
    <2>1. /\ m.next[x] \in Addr /\ m.prev[m.next[x]] = x
          /\ m.prev[x] \in Addr /\ m.next[m.prev[x]] = x
      BY <1>10 DEF LiveIn
    <2> QED BY <1>9, <1>10, <2>1
  <1>11. ToSet(S[list]) # {} => m.next[list] \in ToSet(S[list])
    <2> SUFFICES ASSUME ToSet(S[list]) # {} PROVE m.next[list] \in ToSet(S[list])
      OBVIOUS
    <2>1. 1 \in 1 .. L
      <3>1. L # 0
        BY <1>4, <1>5 DEF ToSet
      <3> QED BY <1>4, <3>1
    <2>2. m.next[list] = Spot(S, list, 1) /\ Spot(S, list, 1) = S[list][1]
      <3>1. 0 \in 0 .. L /\ 0 + 1 = 1
        BY <1>4
      <3> QED BY <1>3, <1>4, <2>1, <3>1 DEF ListOf
    <2> QED BY <1>5, <2>1, <2>2 DEF ToSet
  <1> QED BY <1>1, <1>6, <1>9, <1>10, <1>11

(* The memory in which the entries of list are forgotten and list is empty.*)
Emptied(m, S, list) == Forget(INIT_LIST_HEAD(m, list), ToSet(S[list]))

LEMMA EmptiedIs ==
    ASSUME NEW m, NEW S, Meant(m, S), NEW list \in DOMAIN S
    PROVE  LET e == Emptied(m, S, list)
               lost == ToSet(S[list])
           IN  /\ e \in Memory
               /\ \A x \in lost : e.next[x] = POISON1 /\ e.prev[x] = POISON2
               /\ e.next[list] = list /\ e.prev[list] = list
               /\ \A x \in Addr : ~Part(S, list, x) =>
                    e.next[x] = m.next[x] /\ e.prev[x] = m.prev[x]
  <1>1. m \in Memory /\ list \in Addr /\ list \notin ToSet(S[list]) /\ ToSet(S[list]) \subseteq Addr
    BY PartClosed DEF Meant, WholeIn, Addr
  <1> QED BY <1>1 DEF Emptied, Forget, INIT_LIST_HEAD, Memory, Part

LEMMA EmptiedMeant ==
    ASSUME NEW m, NEW S, Meant(m, S), NEW list \in DOMAIN S
    PROVE  /\ Meant(Emptied(m, S, list), WithHead(S, list, <<>>))
           /\ UnusedIn(Emptied(m, S, list), list)
           /\ \A x \in Addr \ ToSet(S[list]) : LiveIn(m, x) => LiveIn(Emptied(m, S, list), x)
  <1>1. PICK e : e = Emptied(m, S, list)
    OBVIOUS
  <1>2. /\ e \in Memory
        /\ \A x \in ToSet(S[list]) : e.next[x] = POISON1 /\ e.prev[x] = POISON2
        /\ e.next[list] = list /\ e.prev[list] = list
        /\ \A x \in Addr : ~Part(S, list, x) => e.next[x] = m.next[x] /\ e.prev[x] = m.prev[x]
    BY <1>1, EmptiedIs
  <1>3. /\ list \in Heads /\ list \in Addr /\ ToSet(S[list]) \subseteq Nodes
        /\ \A x \in Addr : Part(S, list, x) =>
             Part(S, list, m.next[x]) /\ Part(S, list, m.prev[x]) /\ LiveIn(m, x)
        /\ \A x \in Addr : LiveIn(m, x) /\ ~Part(S, list, x) =>
             ~Part(S, list, m.next[x]) /\ ~Part(S, list, m.prev[x])
    BY PartClosed
  <1>4. WholeIn(m) /\ Shows(m, S) /\ DOMAIN S = {h \in Heads : LiveIn(m, h)}
    BY DEF Meant
  <1>5. LiveIn(e, list)
    BY <1>2, <1>3 DEF LiveIn
  <1>6. ASSUME NEW x \in Addr, ~Part(S, list, x), LiveIn(m, x) PROVE LiveIn(e, x)
    <2>1. /\ m.next[x] \in Addr /\ m.prev[m.next[x]] = x /\ ~Part(S, list, m.next[x])
          /\ m.prev[x] \in Addr /\ m.next[m.prev[x]] = x /\ ~Part(S, list, m.prev[x])
      BY <1>3, <1>6 DEF LiveIn
    <2> QED BY <1>2, <1>6, <2>1 DEF LiveIn
  <1>7. ASSUME NEW x \in Addr, LiveIn(e, x), x # list
        PROVE  ~Part(S, list, x) /\ LiveIn(m, x)
    <2>1. x \notin ToSet(S[list])
      BY <1>2, <1>7 DEF LiveIn
    <2>2. ~Part(S, list, x)
      BY <1>7, <2>1 DEF Part
    <2>3. /\ e.next[x] \in Addr /\ e.prev[e.next[x]] = x
          /\ e.prev[x] \in Addr /\ e.next[e.prev[x]] = x
      BY <1>7 DEF LiveIn
    <2>4. ~Part(S, list, e.next[x])
      <3>1. e.next[x] # list
        BY <1>2, <1>7, <2>3
      <3>2. e.next[x] \notin ToSet(S[list])
        BY <1>2, <2>3
      <3> QED BY <3>1, <3>2 DEF Part
    <2>5. ~Part(S, list, e.prev[x])
      <3>1. e.prev[x] # list
        BY <1>2, <1>7, <2>3
      <3>2. e.prev[x] \notin ToSet(S[list])
        BY <1>2, <2>3
      <3> QED BY <3>1, <3>2 DEF Part
    <2> QED BY <1>2, <2>2, <2>3, <2>4, <2>5 DEF LiveIn
  <1>8. WholeIn(e)
    <2>1. ASSUME NEW x \in Addr, LiveIn(e, x)
          PROVE  LiveIn(e, e.next[x]) /\ LiveIn(e, e.prev[x])
      <3>1. CASE x = list
        BY <1>2, <1>5, <3>1
      <3>2. CASE x # list
        <4>1. ~Part(S, list, x) /\ LiveIn(m, x) /\ e.next[x] = m.next[x] /\ e.prev[x] = m.prev[x]
          BY <1>2, <1>7, <2>1, <3>2
        <4>2. /\ m.next[x] \in Addr /\ LiveIn(m, m.next[x]) /\ ~Part(S, list, m.next[x])
              /\ m.prev[x] \in Addr /\ LiveIn(m, m.prev[x]) /\ ~Part(S, list, m.prev[x])
          BY <1>3, <1>4, <4>1, Neighbours
        <4> QED BY <1>6, <4>1, <4>2
      <3> QED BY <3>1, <3>2
    <2> QED BY <1>2, <2>1 DEF WholeIn
  <1>9. PICK S2 : S2 = WithHead(S, list, <<>>)
    OBVIOUS
  <1>10. /\ DOMAIN S2 = DOMAIN S /\ S2 = [h \in DOMAIN S2 |-> S2[h]]
         /\ S2[list] = <<>> /\ \A h \in DOMAIN S \ {list} : S2[h] = S[h]
    BY <1>9 DEF WithHead
  <1>11. DOMAIN S2 = {h \in Heads : LiveIn(e, h)}
    <2>1. ASSUME NEW h \in Heads, LiveIn(m, h) PROVE LiveIn(e, h)
      <3>1. CASE h = list
        BY <1>5, <3>1
      <3>2. CASE h # list
        BY <1>3, <1>6, <2>1, <3>2 DEF Part, Addr
      <3> QED BY <3>1, <3>2
    <2>2. ASSUME NEW h \in Heads, LiveIn(e, h) PROVE LiveIn(m, h)
      BY <1>4, <1>7, <2>2 DEF Addr
    <2> QED BY <1>4, <1>10, <2>1, <2>2
  <1>12. ASSUME NEW h \in DOMAIN S2
         PROVE  /\ S2[h] \in Seq(Nodes)
                /\ \A k \in 0 .. Len(S2[h]) : e.next[Spot(S2, h, k)] = Spot(S2, h, k + 1)
    <2>1. CASE h = list
      <3>1. S2[h] \in Seq(Nodes) /\ Len(S2[h]) = 0
        BY <1>10, <2>1, EmptySeq
      <3>2. \A k : Spot(S2, h, k) = list
        BY <2>1, <3>1 DEF Spot, Met
      <3> QED BY <1>2, <3>1, <3>2
    <2>2. CASE h # list
      <3>1. h \in DOMAIN S /\ S2[h] = S[h]
        BY <1>10, <2>2
      <3>2. PICK L : L = Len(S[h]) /\ ListOf(m, S, h, L) /\ S[h] \in Seq(Nodes)
        BY <1>4, <3>1, ListIs DEF Shows
      <3>3. ASSUME NEW k \in 0 .. L PROVE e.next[Spot(S, h, k)] = Spot(S, h, k + 1)
        <4>1. Spot(S, h, k) \in Addr /\ m.next[Spot(S, h, k)] = Spot(S, h, k + 1)
          <5>1. k \in 0 .. L + 1
            BY <3>2 DEF ListOf
          <5> QED BY <3>2, <5>1 DEF ListOf
        <4>2. ~Part(S, list, Spot(S, h, k))
          <5> SUFFICES ASSUME Part(S, list, Spot(S, h, k)) PROVE FALSE
            OBVIOUS
          <5>1. PICK j \in 0 .. Len(S[list]) : Spot(S, list, j) = Spot(S, h, k)
            BY <1>4, <4>1, PartSpot
          <5> QED BY <1>4, <2>2, <3>1, <3>2, <5>1, OneSpot
        <4> QED BY <1>2, <4>1, <4>2
      <3> QED BY <3>1, <3>2, <3>3 DEF Spot
    <2> QED BY <2>1, <2>2
  <1>13. Meant(e, S2)
    BY <1>8, <1>10, <1>11, <1>12, ChainsMeant
  <1>14. UnusedIn(e, list)
    BY <1>2 DEF UnusedIn
  <1>15. \A x \in Addr \ ToSet(S[list]) : LiveIn(m, x) => LiveIn(e, x)
    BY <1>5, <1>6 DEF Part
  <1> QED BY <1>1, <1>9, <1>13, <1>14, <1>15

(* Where a walk can tell no difference: what was forgotten is not met.     *)
LEMMA ForgottenLists ==
    ASSUME NEW u, u \in Memory, NEW lost \in SUBSET Nodes, NEW T, Meant(Forget(u, lost), T),
           NEW list \in DOMAIN T,
           \A x \in lost : u.next[x] \in lost \cup {list} /\ u.prev[x] \in lost \cup {list}
    PROVE  Lists(u) = T
  <1>1. PICK e : e = Forget(u, lost)
    OBVIOUS
  <1>2. /\ \A x \in lost : e.next[x] = POISON1 /\ e.prev[x] = POISON2
        /\ \A x \in Addr \ lost : e.next[x] = u.next[x] /\ e.prev[x] = u.prev[x]
    BY <1>1 DEF Forget, Addr
  <1>3. WholeIn(e) /\ Shows(e, T) /\ DOMAIN T = {h \in Heads : LiveIn(e, h)} /\ T = [h \in DOMAIN T |-> T[h]]
    BY <1>1 DEF Meant, Shows
  <1>4. \A h \in Heads : h \in Addr \ lost
    BY DEF Addr
  <1>5. ASSUME NEW h \in Heads, LiveIn(e, h) PROVE LiveIn(u, h)
    <2>1. /\ e.next[h] \in Addr \ lost /\ e.prev[e.next[h]] = h
          /\ e.prev[h] \in Addr \ lost /\ e.next[e.prev[h]] = h
      BY <1>2, <1>4, <1>5 DEF LiveIn
    <2> QED BY <1>2, <1>4, <2>1 DEF LiveIn
  <1>6. ASSUME NEW h \in Heads, LiveIn(u, h) PROVE LiveIn(e, h)
    <2>1. CASE h = list
      BY <1>3, <2>1
    <2>2. CASE h # list
      <3>1. /\ u.next[h] \in Addr /\ u.prev[u.next[h]] = h
            /\ u.prev[h] \in Addr /\ u.next[u.prev[h]] = h
        BY <1>6 DEF LiveIn
      <3>2. u.next[h] \notin lost /\ u.prev[h] \notin lost
        BY <1>4, <2>2, <3>1
      <3> QED BY <1>2, <1>4, <3>1, <3>2 DEF LiveIn
    <2> QED BY <2>1, <2>2
  <1>7. ASSUME NEW h \in DOMAIN T PROVE Follow(u.next, h) = T[h]
    <2>1. h \in Addr /\ Ring(e.next, e.prev, h, T[h])
      BY <1>3 DEF Shows, Addr
    <2>2. PICK L : L = Len(T[h]) /\ RingOf(e.next, e.prev, h, T[h], L)
      BY <2>1, MetFacts
    <2>3. L \in Nat /\ \A k \in 0 .. L + 1 : Met(h, T[h], k) \in Addr
      BY <2>2 DEF RingOf
    <2>4. ASSUME NEW k \in 0 .. L
          PROVE  /\ u.next[Met(h, T[h], k)] = Met(h, T[h], k + 1)
                 /\ u.prev[Met(h, T[h], k + 1)] = Met(h, T[h], k)
      <3>1. k \in 0 .. L + 1 /\ k + 1 \in 0 .. L + 1
        BY <2>3
      <3>2. /\ e.next[Met(h, T[h], k)] = Met(h, T[h], k + 1)
            /\ e.prev[Met(h, T[h], k + 1)] = Met(h, T[h], k)
        BY <2>2 DEF RingOf
      <3>3. Met(h, T[h], k) \notin lost /\ Met(h, T[h], k + 1) \notin lost
        BY <1>2, <2>3, <3>1, <3>2
      <3> QED BY <1>2, <2>3, <3>1, <3>2, <3>3
    <2>5. Ring(u.next, u.prev, h, T[h])
      BY <2>1, <2>2, <2>4 DEF Ring
    <2> QED BY <2>1, <2>5, FollowRing
  <1>8. {h \in Heads : LiveIn(u, h)} = DOMAIN T
    BY <1>3, <1>5, <1>6
  <1> QED BY <1>3, <1>7, <1>8 DEF Lists

(* The heads and entries that a cut touches lie outside of list.           *)
LEMMA CutOutside ==
    ASSUME NEW m, NEW S, Meant(m, S), NEW list \in DOMAIN S, NEW hd \in DOMAIN S, list # hd,
           NEW e \in Addr, e = hd \/ e \in ToSet(S[hd])
    PROVE  /\ hd \in Addr /\ LiveIn(m, hd) /\ LiveIn(m, e) /\ (e = hd \/ m.next[e] # e)
           /\ ~Part(S, list, hd) /\ ~Part(S, list, e)
           /\ m.next[hd] \in Addr /\ ~Part(S, list, m.next[hd])
           /\ m.next[e] \in Addr /\ ~Part(S, list, m.next[e])
           /\ m.prev[e] \in Addr /\ ~Part(S, list, m.prev[e])
  <1>1. WholeIn(m) /\ Shows(m, S) /\ hd \in Heads /\ hd \in Addr
    BY DEF Meant, Addr
  <1>2. PICK L : L = Len(S[hd]) /\ ListOf(m, S, hd, L)
    BY <1>1, ListIs
  <1>3. PICK c \in 0 .. L : e = Spot(S, hd, c) /\ (c = 0 => e = hd)
    <2>1. Part(S, hd, e)
      BY DEF Part
    <2>2. PICK c \in 0 .. L : e = Spot(S, hd, c)
      BY <1>1, <1>2, <2>1, PartSpot
    <2> QED BY <1>2, <2>2 DEF ListOf
  <1>4. hd = Spot(S, hd, 0) /\ 0 \in 0 .. L
    BY <1>2 DEF ListOf
  <1>5. LiveIn(m, hd) /\ LiveIn(m, e)
    BY <1>2, <1>3, <1>4 DEF ListOf
  <1>6. e = hd \/ m.next[e] # e
    BY <1>2, <1>3 DEF ListOf
  <1>7. ASSUME NEW x \in Addr, NEW k \in 0 .. L, x = Spot(S, hd, k) PROVE ~Part(S, list, x)
    <2> SUFFICES ASSUME Part(S, list, x) PROVE FALSE
      OBVIOUS
    <2>1. PICK j \in 0 .. Len(S[list]) : Spot(S, list, j) = x
      BY <1>1, PartSpot
    <2> QED BY <1>1, <1>2, <1>7, <2>1, OneSpot
  <1>8. ~Part(S, list, hd) /\ ~Part(S, list, e)
    BY <1>1, <1>3, <1>4, <1>7
  <1> QED BY <1>1, <1>5, <1>6, <1>8, PartClosed DEF LiveIn

(* A cut that writes list, here and where list was emptied before.         *)
LEMMA CutForgets ==
    ASSUME NEW m, NEW S, Meant(m, S), NEW list \in DOMAIN S, NEW hd \in DOMAIN S, list # hd,
           NEW e \in Addr, e = hd \/ e \in ToSet(S[hd]),
           NEW m0, m0 = Emptied(m, S, list),
           NEW u, NEW u0,
           \/ /\ S[hd] # <<>>
              /\ u = list_cut_position(m, list, hd, e) /\ u0 = list_cut_position(m0, list, hd, e)
           \/ u = list_cut_before(m, list, hd, e) /\ u0 = list_cut_before(m0, list, hd, e)
    PROVE  /\ u \in Memory /\ u0 = Forget(u, ToSet(S[list]))
           /\ \A x \in ToSet(S[list]) : u.next[x] = m.next[x] /\ u.prev[x] = m.prev[x]
           /\ u.next[list] \notin ToSet(S[list])
  <1> DEFINE lost == ToSet(S[list])
             f == m.next[hd]
             g == m.next[e]
             q == m.prev[e]
  <1>1. /\ hd \in Addr /\ ~Part(S, list, hd) /\ ~Part(S, list, e)
        /\ f \in Addr /\ ~Part(S, list, f) /\ g \in Addr /\ ~Part(S, list, g)
        /\ q \in Addr /\ ~Part(S, list, q)
    BY CutOutside
  <1>2. /\ m0 \in Memory
        /\ \A x \in lost : m0.next[x] = POISON1 /\ m0.prev[x] = POISON2
        /\ m0.next[list] = list /\ m0.prev[list] = list
        /\ \A x \in Addr : ~Part(S, list, x) => m0.next[x] = m.next[x] /\ m0.prev[x] = m.prev[x]
    BY EmptiedIs
  <1>3. m \in Memory /\ list \in Addr /\ list \notin lost /\ lost \subseteq Addr
    BY PartClosed DEF Meant, WholeIn, Addr
  <1>4. /\ m0.next[hd] = f /\ m0.next[e] = g /\ m0.prev[e] = q /\ m0.prev[hd] = m.prev[hd]
        /\ list \notin {hd, e, f, g, q} /\ lost \cap {hd, e, f, g, q} = {}
    BY <1>1, <1>2 DEF Part
  (* What the writes of u and u0 come to, if both make the same ones.      *)
  <1>5. ASSUME NEW W \in SUBSET Addr, NEW V \in SUBSET Addr, list \in W, list \in V,
               W \cap lost = {}, V \cap lost = {}, NEW a, NEW b,
               u = [next |-> [x \in Addr |-> IF x \in W THEN a[x] ELSE m.next[x]],
                    prev |-> [x \in Addr |-> IF x \in V THEN b[x] ELSE m.prev[x]]],
               u0 = [next |-> [x \in Addr |-> IF x \in W THEN a[x] ELSE m0.next[x]],
                     prev |-> [x \in Addr |-> IF x \in V THEN b[x] ELSE m0.prev[x]]],
               \A x \in W : a[x] \in Addr, \A x \in V : b[x] \in Addr, a[list] \notin lost
        PROVE  /\ u \in Memory /\ u0 = Forget(u, lost)
               /\ \A x \in lost : u.next[x] = m.next[x] /\ u.prev[x] = m.prev[x]
               /\ u.next[list] \notin lost
    <2>1. u \in Memory
      BY <1>3, <1>5 DEF Memory
    <2>2. \A x \in lost : u.next[x] = m.next[x] /\ u.prev[x] = m.prev[x]
      BY <1>3, <1>5
    <2>3. u.next[list] \notin lost
      BY <1>3, <1>5
    <2>4. ASSUME NEW x \in Addr
          PROVE  /\ u0.next[x] = IF x \in lost THEN POISON1 ELSE u.next[x]
                 /\ u0.prev[x] = IF x \in lost THEN POISON2 ELSE u.prev[x]
      <3>1. CASE x \in lost
        BY <1>2, <1>5, <3>1
      <3>2. CASE x \notin lost /\ x = list
        BY <1>5, <3>2
      <3>3. CASE x \notin lost /\ x # list
        BY <1>2, <1>5, <3>3 DEF Part
      <3> QED BY <3>1, <3>2, <3>3
    <2>5. u0 = Forget(u, lost)
      <3>1. u0.next = [x \in Addr |-> u0.next[x]] /\ u0.prev = [x \in Addr |-> u0.prev[x]]
            /\ u0 = [next |-> u0.next, prev |-> u0.prev]
        BY <1>5
      <3> QED BY <2>4, <3>1 DEF Forget
    <2> QED BY <2>1, <2>2, <2>3, <2>5
  <1> DEFINE Same == /\ u \in Memory /\ u0 = Forget(u, lost)
                     /\ \A x \in lost : u.next[x] = m.next[x] /\ u.prev[x] = m.prev[x]
                     /\ u.next[list] \notin lost
  <1>6. ASSUME u = INIT_LIST_HEAD(m, list), u0 = INIT_LIST_HEAD(m0, list) PROVE Same
    <2> DEFINE a == [x \in Addr |-> list]
    <2>1. u = [next |-> [x \in Addr |-> IF x \in {list} THEN a[x] ELSE m.next[x]],
               prev |-> [x \in Addr |-> IF x \in {list} THEN a[x] ELSE m.prev[x]]]
      BY <1>3, <1>6 DEF INIT_LIST_HEAD, Memory
    <2>2. u0 = [next |-> [x \in Addr |-> IF x \in {list} THEN a[x] ELSE m0.next[x]],
                prev |-> [x \in Addr |-> IF x \in {list} THEN a[x] ELSE m0.prev[x]]]
      BY <1>2, <1>3, <1>6 DEF INIT_LIST_HEAD, Memory
    <2>3. /\ {list} \in SUBSET Addr /\ list \in {list} /\ {list} \cap lost = {}
          /\ \A x \in {list} : a[x] \in Addr /\ a[list] \notin lost
      BY <1>3
    <2> HIDE DEF a
    <2> QED BY <1>5, <2>1, <2>2, <2>3
  <1>7. ASSUME u = CutAfter(m, list, hd, e), u0 = CutAfter(m0, list, hd, e) PROVE Same
    <2> DEFINE W == {list, e, hd}
               V == {f, list, g}
               a == [x \in Addr |-> IF x = hd THEN g ELSE IF x = e THEN list ELSE f]
               b == [x \in Addr |-> IF x = g THEN hd ELSE IF x = list THEN e ELSE list]
    <2>1. u = [next |-> [x \in Addr |-> IF x \in W THEN a[x] ELSE m.next[x]],
               prev |-> [x \in Addr |-> IF x \in V THEN b[x] ELSE m.prev[x]]]
      BY <1>1, <1>3, <1>4, <1>7 DEF CutAfter, Memory
    <2>2. u0 = [next |-> [x \in Addr |-> IF x \in W THEN a[x] ELSE m0.next[x]],
                prev |-> [x \in Addr |-> IF x \in V THEN b[x] ELSE m0.prev[x]]]
      BY <1>1, <1>2, <1>3, <1>4, <1>7 DEF CutAfter, Memory
    <2>3. /\ W \in SUBSET Addr /\ list \in W /\ W \cap lost = {}
          /\ V \in SUBSET Addr /\ list \in V /\ V \cap lost = {}
          /\ \A x \in W : a[x] \in Addr
          /\ \A x \in V : b[x] \in Addr
          /\ a[list] \notin lost
      BY <1>1, <1>3, <1>4
    <2> HIDE DEF W, V, a, b
    <2> QED BY <1>5, <2>1, <2>2, <2>3
  <1>8. CASE S[hd] # <<>> /\ u = list_cut_position(m, list, hd, e)
             /\ u0 = list_cut_position(m0, list, hd, e)
    <2>1. /\ list_empty(m0, hd) <=> list_empty(m, hd)
          /\ list_is_singular(m0, hd) <=> list_is_singular(m, hd)
      BY <1>4 DEF list_empty, list_is_singular
    <2>2. ~list_empty(m, hd) /\ (list_is_singular(m, hd) /\ hd # e => m.next[hd] = e)
      BY <1>8, CutWrites
    <2>3. CASE e = hd
      BY <1>6, <1>8, <2>1, <2>2, <2>3 DEF list_cut_position
    <2>4. CASE e # hd
      BY <1>4, <1>7, <1>8, <2>1, <2>2, <2>4 DEF list_cut_position
    <2> QED BY <2>3, <2>4
  <1>9. CASE u = list_cut_before(m, list, hd, e) /\ u0 = list_cut_before(m0, list, hd, e)
    <2>1. CASE f = e
      BY <1>4, <1>6, <1>9, <2>1 DEF list_cut_before
    <2>2. CASE f # e
      <3> DEFINE W == {list, q, hd}
                 V == {f, list, e}
                 a == [x \in Addr |-> IF x = hd THEN e ELSE IF x = q THEN list ELSE f]
                 b == [x \in Addr |-> IF x = e THEN hd ELSE IF x = list THEN q ELSE list]
      <3>1. u = [next |-> [x \in Addr |-> IF x \in W THEN a[x] ELSE m.next[x]],
                 prev |-> [x \in Addr |-> IF x \in V THEN b[x] ELSE m.prev[x]]]
        BY <1>1, <1>3, <1>4, <1>9, <2>2 DEF list_cut_before, Memory
      <3>2. u0 = [next |-> [x \in Addr |-> IF x \in W THEN a[x] ELSE m0.next[x]],
                  prev |-> [x \in Addr |-> IF x \in V THEN b[x] ELSE m0.prev[x]]]
        BY <1>1, <1>2, <1>3, <1>4, <1>9, <2>2 DEF list_cut_before, Memory
      <3>3. /\ W \in SUBSET Addr /\ list \in W /\ W \cap lost = {}
            /\ V \in SUBSET Addr /\ list \in V /\ V \cap lost = {}
            /\ \A x \in W : a[x] \in Addr
            /\ \A x \in V : b[x] \in Addr
            /\ a[list] \notin lost
        BY <1>1, <1>3, <1>4
      <3> HIDE DEF W, V, a, b
      <3> QED BY <1>5, <3>1, <3>2, <3>3
    <2> QED BY <2>1, <2>2
  <1> QED BY <1>8, <1>9

(* u is a cut that leaves the lists T, and nothing but lost is out of use. *)
CutOff(u, list, T) ==
    /\ Lists(u) = T /\ Meant(Forget(u, Lost(u, list)), T)
    /\ \A y \in Addr \ Lost(u, list) : LiveIn(mem, y) => LiveIn(Forget(u, Lost(u, list)), y)

Cutting(S, list, hd, e) ==
    LET s == S[hd]
    IN  /\ CutOff(list_cut_position(mem, list, hd, e), list,
                  CASE s = <<>>             -> S
                    [] s # <<>> /\ e = hd   -> CutParts(S, list, hd, 0)
                    [] OTHER                -> CutParts(S, list, hd, Index(s, e)))
        /\ CutOff(list_cut_before(mem, list, hd, e), list,
                  CutParts(S, list, hd, IF e = hd THEN Len(s) ELSE Index(s, e) - 1))

LEMMA ForgetNothing == ASSUME NEW m \in Memory PROVE Forget(m, {}) = m
  BY DEF Forget, Memory

LEMMA CutCut ==
    ASSUME Meant(mem, Lists(mem)), NEW S, S = Lists(mem), NEW list \in Heads, NEW hd \in Heads,
           NEW e \in Addr, CutArgs(list, hd, e)
    PROVE  Cutting(S, list, hd, e)
  <1>1. /\ Meant(mem, S) /\ WholeIn(mem) /\ mem \in Memory /\ list \in Addr
        /\ DOMAIN S = {h \in Heads : LiveIn(mem, h)}
    BY DEF Meant, WholeIn, Addr
  <1>2. list # hd /\ hd \in DOMAIN S /\ (e = hd \/ e \in ToSet(S[hd]))
    BY <1>1 DEF CutArgs, Live
  <1>3. CASE ~LiveIn(mem, list)
    <2>1. UnusedIn(mem, list)
      BY <1>3 DEF UnusedIn
    <2>2. CutIs(mem, S, list, hd, e)
      BY <1>1, <1>2, <2>1, CutMeant
    <2>3. LiveIn(mem, hd) /\ LiveIn(mem, e) /\ (e = hd \/ mem.next[e] # e) /\ hd \in Addr
      BY <1>1, <1>2, OnList
    <2>4. /\ KeepsAll(mem, list_cut_position(mem, list, hd, e))
          /\ KeepsAll(mem, list_cut_before(mem, list, hd, e))
      BY <1>1, <1>2, <2>1, <2>3, CutSound
    <2>5. ASSUME NEW u, NEW T, Meant(u, T), KeepsAll(mem, u) PROVE CutOff(u, list, T)
      <3>1. Lost(u, list) = {} /\ Forget(u, {}) = u
        BY <1>3, <2>5, ForgetNothing DEF Lost, Live, Meant, WholeIn
      <3> QED BY <2>5, <3>1, MeantLists DEF CutOff, KeepsAll
    <2> QED BY <2>2, <2>4, <2>5 DEF CutIs, Cutting
  <1>4. CASE LiveIn(mem, list)
    <2>1. list \in DOMAIN S
      BY <1>1, <1>4
    <2>2. PICK m0, S0 : m0 = Emptied(mem, S, list) /\ S0 = WithHead(S, list, <<>>)
      OBVIOUS
    <2>3. /\ Meant(m0, S0) /\ UnusedIn(m0, list) /\ WholeIn(m0)
          /\ \A x \in Addr \ ToSet(S[list]) : LiveIn(mem, x) => LiveIn(m0, x)
      <3>1. Meant(Emptied(mem, S, list), WithHead(S, list, <<>>))
        BY <1>1, <2>1, EmptiedMeant
      <3>2. /\ UnusedIn(Emptied(mem, S, list), list)
            /\ \A x \in Addr \ ToSet(S[list]) :
                 LiveIn(mem, x) => LiveIn(Emptied(mem, S, list), x)
        BY <1>1, <2>1, EmptiedMeant
      <3>3. Meant(m0, S0) /\ UnusedIn(m0, list)
            /\ \A x \in Addr \ ToSet(S[list]) : LiveIn(mem, x) => LiveIn(m0, x)
        BY <2>2, <3>1, <3>2
      <3> QED BY <3>3 DEF Meant
    <2>4. hd \in DOMAIN S0 /\ S0[hd] = S[hd] /\ \A k : CutParts(S0, list, hd, k) = CutParts(S, list, hd, k)
      BY <1>2, <2>1, <2>2 DEF WithHead, CutParts
    <2>5. CutIs(m0, S0, list, hd, e)
      BY <1>2, <2>3, <2>4, CutMeant
    <2>6. LiveIn(m0, hd) /\ LiveIn(m0, e) /\ (e = hd \/ m0.next[e] # e) /\ hd \in Addr
      BY <1>2, <2>3, <2>4, OnList
    <2>7. /\ KeepsAll(m0, list_cut_position(m0, list, hd, e))
          /\ KeepsAll(m0, list_cut_before(m0, list, hd, e))
      BY <1>1, <1>2, <2>3, <2>6, CutSound
    <2>8. ASSUME NEW u, NEW u0, NEW T, Meant(u0, T), KeepsAll(m0, u0), list \in DOMAIN T,
                 u \in Memory, u0 = Forget(u, ToSet(S[list])),
                 \A x \in ToSet(S[list]) : u.next[x] = mem.next[x] /\ u.prev[x] = mem.prev[x],
                 u.next[list] \notin ToSet(S[list])
          PROVE  CutOff(u, list, T)
      <3>1. Lost(u, list) = ToSet(S[list])
        BY <1>1, <1>4, <2>1, <2>8, PartClosed DEF Lost, Live
      <3>2. /\ ToSet(S[list]) \in SUBSET Nodes
            /\ \A x \in ToSet(S[list]) :
                 /\ u.next[x] \in ToSet(S[list]) \cup {list}
                 /\ u.prev[x] \in ToSet(S[list]) \cup {list}
        BY <1>1, <2>1, <2>8, PartClosed DEF Part, Addr
      <3>3. Lists(u) = T
        BY <2>8, <3>2, ForgottenLists
      <3> QED BY <2>3, <2>8, <3>1, <3>3 DEF CutOff, KeepsAll
    <2>9. CutOff(list_cut_before(mem, list, hd, e), list,
                 CutParts(S, list, hd, IF e = hd THEN Len(S[hd]) ELSE Index(S[hd], e) - 1))
      <3>1. PICK u, u0, k : /\ u = list_cut_before(mem, list, hd, e)
                            /\ u0 = list_cut_before(m0, list, hd, e)
                            /\ k = IF e = hd THEN Len(S[hd]) ELSE Index(S[hd], e) - 1
        OBVIOUS
      <3>2. Meant(u0, CutParts(S, list, hd, k)) /\ KeepsAll(m0, u0)
        BY <2>4, <2>5, <2>7, <3>1 DEF CutIs
      <3>3. list \in DOMAIN CutParts(S, list, hd, k)
        BY DEF CutParts, WithHead
      <3> QED BY <1>1, <1>2, <2>1, <2>2, <2>8, <3>1, <3>2, <3>3, CutForgets
    <2>10. CASE S[hd] # <<>>
      <3>1. PICK u, u0, k : /\ u = list_cut_position(mem, list, hd, e)
                            /\ u0 = list_cut_position(m0, list, hd, e)
                            /\ k = IF e = hd THEN 0 ELSE Index(S[hd], e)
        OBVIOUS
      <3>2. Meant(u0, CutParts(S, list, hd, k)) /\ KeepsAll(m0, u0)
        BY <2>4, <2>5, <2>7, <2>10, <3>1 DEF CutIs
      <3>3. list \in DOMAIN CutParts(S, list, hd, k)
        BY DEF CutParts, WithHead
      <3>4. CutOff(u, list, CutParts(S, list, hd, k))
        BY <1>1, <1>2, <2>1, <2>2, <2>8, <2>10, <3>1, <3>2, <3>3, CutForgets
      <3> QED BY <2>9, <2>10, <3>1, <3>4 DEF Cutting
    <2>11. CASE S[hd] = <<>>
      <3>1. list_cut_position(mem, list, hd, e) = mem
        BY <1>1, <1>2, <2>11, CutWrites DEF list_cut_position
      <3>2. CutOff(mem, list, S)
        <4>1. Lost(mem, list) = {} /\ Forget(mem, {}) = mem
          BY <1>1, ForgetNothing DEF Lost
        <4> QED BY <1>1, <4>1 DEF CutOff
      <3> QED BY <2>9, <2>11, <3>1, <3>2 DEF Cutting
    <2> QED BY <2>10, <2>11
  <1> QED BY <1>3, <1>4

(* A cut leaves lists, and puts out of use only what one list held.        *)
LEMMA CutStep ==
    ASSUME Meant(mem, Lists(mem)), Cut
    PROVE  /\ \E S : Meant(mem', S)
           /\ \/ \A y \in Addr : LiveIn(mem, y) => LiveIn(mem', y)
              \/ \E h \in Heads : Live(h) /\ \A y \in Addr \ ToSet(Lists(mem)[h]) :
                                       LiveIn(mem, y) => LiveIn(mem', y)
  <1>1. PICK list \in Heads, hd \in Heads, e \in Addr :
          /\ CutArgs(list, hd, e)
          /\ \E m \in {list_cut_position(mem, list, hd, e), list_cut_before(mem, list, hd, e)} :
               mem' = Forget(m, Lost(m, list))
    BY DEF Cut
  <1>2. PICK S : S = Lists(mem)
    OBVIOUS
  <1>3. Cutting(S, list, hd, e)
    BY <1>1, <1>2, CutCut
  <1>4. PICK m, T : mem' = Forget(m, Lost(m, list)) /\ CutOff(m, list, T)
    BY <1>1, <1>3 DEF Cutting
  <1>5. Meant(mem', T) /\ \A y \in Addr \ Lost(m, list) : LiveIn(mem, y) => LiveIn(mem', y)
    BY <1>4 DEF CutOff
  <1>6. Lost(m, list) = {} \/ (Live(list) /\ Lost(m, list) = ToSet(Lists(mem)[list]))
    BY DEF Lost
  <1> QED BY <1>5, <1>6


Rotated(S, h) == IF S[h] = <<>> THEN S ELSE WithHead(S, h, Tail(S[h]) \o <<Head(S[h])>>)

LEMMA RotateMeant ==
    ASSUME NEW m, NEW S, Meant(m, S), NEW h \in DOMAIN S
    PROVE  Meant(list_rotate_left(m, h), Rotated(S, h))
  <1>1. WholeIn(m) /\ Shows(m, S) /\ S = [g \in DOMAIN S |-> S[g]]
    BY DEF Meant, Shows
  <1>2. PICK s, L : s = S[h] /\ s \in Seq(Nodes) /\ L = Len(s) /\ L \in Nat
    BY <1>1 DEF Shows
  <1>3. /\ h \in Heads /\ h \in Addr /\ h \notin Nodes
        /\ \A k \in 1 .. L : Spot(S, h, k) = s[k] /\ s[k] \in Nodes
        /\ Spot(S, h, 0) = h /\ Spot(S, h, L + 1) = h
        /\ \A k \in 0 .. L : m.next[Spot(S, h, k)] = Spot(S, h, k + 1) /\ LiveIn(m, Spot(S, h, k))
    BY <1>1, <1>2, ListIs DEF ListOf
  <1>4. m.next[h] = Spot(S, h, 1) /\ LiveIn(m, h)
    <2>1. 0 \in 0 .. L /\ 0 + 1 = 1
      BY <1>2
    <2> QED BY <1>3, <2>1
  <1>5. CASE s = <<>>
    <2>1. L = 0
      BY <1>2, <1>5
    <2>2. L + 1 = 1
      BY <2>1
    <2> QED BY <1>2, <1>3, <1>4, <1>5, <2>2 DEF Rotated, list_rotate_left, list_empty
  <1>6. CASE s # <<>>
    <2>1. 1 \in 1 .. L /\ 1 \in 0 .. L
      BY <1>2, <1>6
    <2>2. PICK e \in Nodes : e = s[1] /\ e = Spot(S, h, 1) /\ LiveIn(m, e) /\ e = Head(s)
      BY <1>2, <1>3, <1>6, <2>1
    <2>3. list_rotate_left(m, h) = list_move_tail(m, e, h)
      BY <1>3, <1>4, <2>2 DEF list_rotate_left, list_empty
    <2>4. Meant(list_move_tail(m, e, h), PutBefore(Without(S, e), h, <<e>>))
      BY <1>3, <1>4, <2>2, MoveMeant
    <2>5. PICK T : T = Without(S, e)
      OBVIOUS
    <2>6. ASSUME NEW g \in DOMAIN S, g # h PROVE T[g] = S[g] /\ h \notin ToSet(S[g])
      <3>1. PICK K \in Nat : K = Len(S[g]) /\ S[g] \in Seq(Nodes)
        BY <1>1 DEF Shows
      <3>2. e \notin ToSet(S[g])
        <4> SUFFICES ASSUME e \in ToSet(S[g]) PROVE FALSE
          OBVIOUS
        <4>1. PICK k \in 0 .. K : Spot(S, g, k) = e
          BY <1>1, <3>1, InList
        <4>2. k \in 0 .. Len(S[g]) /\ 1 \in 0 .. Len(S[h])
          BY <1>2, <2>1, <3>1
        <4> QED BY <1>1, <2>2, <2>6, <4>1, <4>2, OneSpot
      <3>3. h \notin ToSet(S[g])
        BY <1>3, <3>1 DEF ToSet
      <3> QED BY <2>5, <3>2, <3>3 DEF Without
    <2>7. T[h] = Tail(s)
      <3>1. e \in ToSet(S[h]) /\ Index(S[h], e) = 1
        BY <1>1, <1>2, <2>1, <2>2, InList
      <3>2. T[h] = RemoveAt(s, 1)
        BY <1>2, <2>5, <3>1 DEF Without
      <3>3. PICK r : r = RemoveAt(s, 1)
        OBVIOUS
      <3>4. r \in Seq(Nodes) /\ Len(r) = L - 1 /\ \A j \in 1 .. L - 1 : r[j] = s[j + 1]
        <4>1. /\ r \in Seq(Nodes) /\ Len(r) = L - 1
              /\ \A j \in 1 .. L - 1 : r[j] = IF j < 1 THEN s[j] ELSE s[j + 1]
          BY <1>2, <2>1, <3>3, RemoveAtEntries
        <4> QED BY <1>2, <4>1
      <3>5. /\ Tail(s) \in Seq(Nodes) /\ Len(Tail(s)) = L - 1
            /\ \A j \in 1 .. L - 1 : Tail(s)[j] = s[j + 1]
        BY <1>2, <1>6, HeadTailProperties
      <3>6. r = Tail(s)
        BY <1>2, <3>4, <3>5
      <3> QED BY <3>2, <3>3, <3>6
    <2>8. PICK P : P = PutBefore(T, h, <<e>>)
      OBVIOUS
    <2>9. P = [g \in DOMAIN S |-> P[g]] /\ DOMAIN T = DOMAIN S
      BY <2>5, <2>8 DEF PutBefore, Without
    <2>10. h \notin ToSet(T[h])
      <3>1. Tail(s) \in Seq(Nodes)
        BY <1>2, <1>6, HeadTailProperties
      <3> QED BY <1>3, <2>7, <3>1 DEF ToSet
    <2>11. P[h] = Tail(s) \o <<e>>
      BY <2>7, <2>8, <2>9, <2>10 DEF PutBefore
    <2>12. \A g \in DOMAIN S : g # h => P[g] = S[g]
      BY <2>6, <2>8, <2>9 DEF PutBefore
    <2>13. P = Rotated(S, h)
      <3>1. Rotated(S, h) = WithHead(S, h, Tail(s) \o <<e>>)
        BY <1>2, <1>6, <2>2 DEF Rotated
      <3>2. DOMAIN S \cup {h} = DOMAIN S
        OBVIOUS
      <3> QED BY <2>9, <2>11, <2>12, <3>1, <3>2 DEF WithHead
    <2> QED BY <2>3, <2>4, <2>5, <2>8, <2>13
  <1> QED BY <1>5, <1>6

AskIs(m, S, h) ==
    /\ list_empty(m, h) = (S[h] = <<>>)
    /\ list_empty_careful(m, h) = (S[h] = <<>>)
    /\ list_is_singular(m, h) = (Len(S[h]) = 1)
    /\ \A e \in ToSet(S[h]) : list_is_last(m, e, h) = (e = Last(S[h]))
    /\ S[h] # <<>> => /\ list_first_entry(m, h) = Head(S[h])
                      /\ list_last_entry(m, h) = Last(S[h])
    /\ list_first_entry_or_null(m, h) = IF S[h] = <<>> THEN NULL ELSE Head(S[h])

LEMMA AskMeant ==
    ASSUME NEW m, NEW S, Meant(m, S), NEW h \in DOMAIN S
    PROVE  AskIs(m, S, h)
  <1>1. WholeIn(m) /\ Shows(m, S)
    BY DEF Meant
  <1>2. PICK s, L : s = S[h] /\ s \in Seq(Nodes) /\ L = Len(s) /\ L \in Nat
    BY <1>1 DEF Shows
  <1>3. /\ h \in Heads /\ h \notin Nodes
        /\ \A k \in 1 .. L : Spot(S, h, k) = s[k] /\ s[k] \in Nodes
        /\ Spot(S, h, 0) = h /\ Spot(S, h, L + 1) = h
        /\ \A j, k \in 0 .. L : Spot(S, h, j) = Spot(S, h, k) => j = k
        /\ \A k \in 0 .. L : /\ m.next[Spot(S, h, k)] = Spot(S, h, k + 1)
                             /\ m.prev[Spot(S, h, k + 1)] = Spot(S, h, k)
    BY <1>1, <1>2, ListIs DEF ListOf
  <1>4. m.next[h] = Spot(S, h, 1) /\ m.prev[h] = Spot(S, h, L)
    <2>1. 0 \in 0 .. L /\ 0 + 1 = 1 /\ L \in 0 .. L
      BY <1>2
    <2> QED BY <1>3, <2>1
  <1>5. CASE s = <<>>
    <2>1. L = 0 /\ ToSet(s) = {} /\ L # 1
      BY <1>2, <1>5 DEF ToSet
    <2>2. L + 1 = 1
      BY <2>1
    <2>3. m.next[h] = h /\ m.prev[h] = h
      BY <1>3, <1>4, <2>1, <2>2
    <2> QED BY <1>2, <1>5, <2>1, <2>3 DEF AskIs, list_empty, list_empty_careful, list_is_singular,
         list_first_entry_or_null
  <1>6. CASE s # <<>>
    <2>1. 1 \in 1 .. L /\ L \in 1 .. L /\ 1 \in 0 .. L /\ L \in 0 .. L
      BY <1>2, <1>6
    <2>2. m.next[h] = s[1] /\ m.prev[h] = s[L] /\ s[1] # h
      BY <1>3, <1>4, <2>1
    <2>3. Head(s) = s[1] /\ Last(s) = s[L]
      BY <1>2, <1>6 DEF Last
    <2>4. s[1] = s[L] <=> L = 1
      BY <1>3, <2>1
    <2>5. ASSUME NEW e \in ToSet(s) PROVE m.next[e] = h <=> e = s[L]
      <3>1. PICK k \in 1 .. L : e = s[k] /\ e = Spot(S, h, k) /\ m.next[e] = Spot(S, h, k + 1)
        <4>1. PICK k \in 1 .. L : e = s[k]
          BY <1>2 DEF ToSet
        <4>2. k \in 0 .. L
          OBVIOUS
        <4> QED BY <1>3, <4>1, <4>2
      <3>2. CASE k = L
        BY <1>3, <3>1, <3>2
      <3>3. CASE k # L
        <4>1. k + 1 \in 1 .. L /\ k \in 0 .. L
          BY <1>2, <3>3
        <4> QED BY <1>3, <2>1, <3>1, <3>3, <4>1
      <3> QED BY <3>2, <3>3
    <2>6. list_empty(m, h) = FALSE /\ list_empty_careful(m, h) = FALSE
      BY <2>2 DEF list_empty, list_empty_careful
    <2>7. list_is_singular(m, h) = (L = 1)
      BY <2>2, <2>4 DEF list_is_singular, list_empty
    <2> QED BY <1>2, <1>6, <2>2, <2>3, <2>5, <2>6, <2>7
         DEF AskIs, list_is_last, list_first_entry, list_last_entry, list_first_entry_or_null
  <1> QED BY <1>5, <1>6

LEMMA BackwardsMeant ==
    ASSUME NEW m, NEW S, Meant(m, S), NEW h \in DOMAIN S
    PROVE  Follow(m.prev, h) = Reverse(S[h])
  <1>1. h \in Addr /\ Ring(m.next, m.prev, h, S[h])
    BY DEF Meant, Shows, Addr
  <1>2. Ring(m.prev, m.next, h, Reverse(S[h]))
    BY <1>1, ReverseRing
  <1> QED BY <1>1, <1>2, FollowRing

LEMMA DisjointMeant ==
    ASSUME NEW m, NEW S, Meant(m, S), NEW g \in DOMAIN S, NEW h \in DOMAIN S, g # h
    PROVE  ToSet(S[g]) \cap ToSet(S[h]) = {}
  <1>1. WholeIn(m) /\ Shows(m, S)
    BY DEF Meant
  <1>2. PICK K, L : K = Len(S[g]) /\ L = Len(S[h])
    OBVIOUS
  <1> SUFFICES ASSUME NEW e \in ToSet(S[g]), e \in ToSet(S[h]) PROVE FALSE
    OBVIOUS
  <1>3. e \in Nodes
    BY <1>1 DEF Shows, ToSet
  <1>4. PICK j \in 0 .. K : Spot(S, g, j) = e
    BY <1>1, <1>2, <1>3, InList
  <1>5. PICK k \in 0 .. L : Spot(S, h, k) = e
    BY <1>1, <1>2, <1>3, InList
  <1>6. j \in 0 .. Len(S[g]) /\ k \in 0 .. Len(S[h])
    BY <1>2, <1>4, <1>5
  <1> QED BY <1>1, <1>4, <1>5, <1>6, OneSpot

(***************************************************************************)
(* What every call means                                                   *)
(***************************************************************************)
LEMMA ReplaceMeant ==
    ASSUME NEW m, NEW S, Meant(m, S), NEW old \in Addr, LiveIn(m, old),
           NEW new \in Addr, UnusedIn(m, new), new # old, old \in Heads <=> new \in Heads
    PROVE  /\ Meant(list_replace(m, old, new), Substituted(S, old, new))
           /\ Meant(list_replace_init(m, old, new),
                    IF old \in Heads THEN WithHead(Substituted(S, old, new), old, <<>>)
                    ELSE Substituted(S, old, new))
  <1>1. PICK r : r = list_replace(m, old, new)
    OBVIOUS
  <1>2. WholeIn(m) /\ UnusedIn(r, old)
    BY <1>1, ReplaceWhole DEF Meant
  <1>3. CASE old \in Heads
    <2>1. Meant(r, Substituted(S, old, new))
      BY <1>1, <1>3, ReplaceHeadMeant
    <2>2. Meant(INIT_LIST_HEAD(r, old), WithHead(Substituted(S, old, new), old, <<>>))
      BY <1>2, <1>3, <2>1, InitHeadMeant
    <2> QED BY <1>1, <1>3, <2>1, <2>2 DEF list_replace_init
  <1>4. CASE old \notin Heads
    <2>0. old \in Nodes /\ new \in Nodes
      BY <1>4 DEF Addr
    <2>1. Meant(r, Substituted(S, old, new))
      BY <1>1, <2>0, ReplaceEntryMeant
    <2>2. PICK t : t = INIT_LIST_HEAD(r, old)
      OBVIOUS
    <2>3. WholeIn(r) /\ r \in Memory
      BY <2>1 DEF Meant, WholeIn
    <2>4. WholeIn(t) /\ Kept(r, t, old) /\ NoneNew(r, t, old)
      BY <1>2, <2>2, <2>3, InitWhole
    <2>5. \A y \in Addr \ {old} : t.next[y] = r.next[y]
      BY <2>2, <2>3 DEF INIT_LIST_HEAD, Memory
    <2>6. Meant(t, Substituted(S, old, new))
      BY <1>2, <2>0, <2>1, <2>4, <2>5, IsolateMeant
    <2> QED BY <1>1, <1>4, <2>1, <2>2, <2>6 DEF list_replace_init
  <1> QED BY <1>3, <1>4

LEMMA InitMeant ==
    ASSUME NEW m, NEW S, Meant(m, S), NEW x \in Addr, UnusedIn(m, x)
    PROVE  \E S2 : Meant(INIT_LIST_HEAD(m, x), S2)
  <1>1. CASE x \in Heads
    BY <1>1, InitHeadMeant
  <1>2. CASE x \in Nodes
    <2>1. PICK t : t = INIT_LIST_HEAD(m, x)
      OBVIOUS
    <2>2. WholeIn(m) /\ m \in Memory
      BY DEF Meant, WholeIn
    <2>3. WholeIn(t) /\ Kept(m, t, x) /\ NoneNew(m, t, x)
      BY <2>1, <2>2, InitWhole
    <2>4. \A y \in Addr \ {x} : t.next[y] = m.next[y]
      BY <2>1, <2>2 DEF INIT_LIST_HEAD, Memory
    <2>5. Meant(t, S)
      BY <1>2, <2>3, <2>4, IsolateMeant
    <2> QED BY <2>1, <2>5
  <1> QED BY <1>1, <1>2 DEF Addr

(* Where Apart says that a place is outside of the list.                   *)
LEMMA ApartNowhere ==
    ASSUME Meant(mem, Lists(mem)), NEW list \in DOMAIN Lists(mem), NEW at \in Addr, Apart(list, at)
    PROVE  \A k \in 0 .. Len(Lists(mem)[list]) : Spot(Lists(mem), list, k) # at
  <1>1. PICK S : S = Lists(mem)
    OBVIOUS
  <1>2. WholeIn(mem) /\ Shows(mem, S)
    BY <1>1 DEF Meant
  <1>3. PICK s, L : s = S[list] /\ L = Len(s) /\ L \in Nat /\ s \in Seq(Nodes)
    BY <1>1, <1>2 DEF Shows
  <1>4. Spot(S, list, 0) = list /\ \A k \in 1 .. L : Spot(S, list, k) = s[k]
    BY <1>1, <1>2, <1>3, ListIs DEF ListOf
  <1>5. \A k \in 1 .. L : s[k] \in ToSet(s)
    BY <1>3 DEF ToSet
  <1>6. list # at /\ at \notin ToSet(s)
    BY <1>1, <1>3 DEF Apart
  <1>7. \A k \in 0 .. L : k = 0 \/ k \in 1 .. L
    BY <1>3
  <1> QED BY <1>1, <1>3, <1>4, <1>5, <1>6, <1>7

(* All that CallsMean says, from what the lists are now.                   *)
LEMMA MeantCalls ==
    ASSUME Meant(mem, Lists(mem))
    PROVE  CallsMean
  <1>1. PICK S : S = Lists(mem) /\ S = Now
    BY DEF Now
  <1>2. Meant(mem, S) /\ WholeIn(mem) /\ DOMAIN S = {h \in Heads : LiveIn(mem, h)}
        /\ Nodes \subseteq Addr /\ Heads \subseteq Addr
    BY <1>1 DEF Meant, Addr
  <1>3. InsertMeans
    <2> SUFFICES ASSUME NEW new \in Nodes, NEW at \in Addr, Unused(new), Place(at)
                 PROVE  /\ Lists(list_add(mem, new, at)) = PutAfter(S, at, <<new>>)
                        /\ Lists(list_add_tail(mem, new, at)) = PutBefore(S, at, <<new>>)
      BY <1>1 DEF InsertMeans
    <2>1. UnusedIn(mem, new) /\ LiveIn(mem, at) /\ new # at
      BY DEF Unused, Linked, Place, Live, UnusedIn
    <2> QED BY <1>2, <2>1, AddMeant, MeantLists
  <1>4. DeleteMeans
    <2> SUFFICES ASSUME NEW e \in Nodes, Live(e)
                 PROVE  /\ Lists(list_del(mem, e)) = Without(S, e)
                        /\ Lists(list_del_init(mem, e)) = Without(S, e)
                        /\ ~LiveIn(list_del(mem, e), e) /\ LiveIn(list_del_init(mem, e), e)
      BY <1>1 DEF DeleteMeans
    <2> QED BY <1>2, DeleteMeant, MeantLists DEF Live
  <1>5. ReplaceMeans
    <2> SUFFICES ASSUME NEW old \in Addr, NEW new \in Addr, Place(old), Unused(new), new # old,
                        old \in Heads <=> new \in Heads
                 PROVE  /\ Lists(list_replace(mem, old, new)) = Substituted(S, old, new)
                        /\ Lists(list_replace_init(mem, old, new)) =
                             IF old \in Heads THEN WithHead(Substituted(S, old, new), old, <<>>)
                             ELSE Substituted(S, old, new)
      BY <1>1 DEF ReplaceMeans
    <2>1. LiveIn(mem, old) /\ UnusedIn(mem, new)
      BY DEF Unused, Linked, Place, Live, UnusedIn
    <2> QED BY <1>2, <2>1, ReplaceMeant, MeantLists
  <1>6. MoveMeans
    <2> SUFFICES ASSUME NEW e \in Nodes, NEW at \in Addr, Live(e), Place(at), e # at
                 PROVE  /\ Lists(list_move(mem, e, at)) = PutAfter(Without(S, e), at, <<e>>)
                        /\ Lists(list_move_tail(mem, e, at)) = PutBefore(Without(S, e), at, <<e>>)
      BY <1>1 DEF MoveMeans
    <2> QED BY <1>2, MoveMeant, MeantLists DEF Live, Place
  <1>7. RotateMeans
    <2> SUFFICES ASSUME NEW h \in DOMAIN S
                 PROVE  Lists(list_rotate_left(mem, h)) = Rotated(S, h)
      BY <1>1 DEF RotateMeans, Rotated
    <2> QED BY <1>2, RotateMeant, MeantLists
  <1>8. CutMeans
    <2> SUFFICES ASSUME NEW list \in Heads, NEW hd \in Heads, NEW e \in Addr, CutArgs(list, hd, e)
                 PROVE  /\ Lists(list_cut_position(mem, list, hd, e)) =
                             CASE S[hd] = <<>>             -> S
                               [] S[hd] # <<>> /\ e = hd   -> CutParts(S, list, hd, 0)
                               [] OTHER                -> CutParts(S, list, hd, Index(S[hd], e))
                        /\ Lists(list_cut_before(mem, list, hd, e)) =
                             CutParts(S, list, hd, IF e = hd THEN Len(S[hd])
                                                   ELSE Index(S[hd], e) - 1)
      BY <1>1 DEF CutMeans, CutParts
    <2>1. Cutting(S, list, hd, e)
      BY <1>1, CutCut
    <2> QED BY <2>1 DEF Cutting, CutOff
  <1>9. SpliceMeans
    <2> SUFFICES ASSUME NEW list \in Heads, NEW at \in Addr, Live(list), Place(at), Apart(list, at)
                 PROVE  LET q == S[list]
                            rest == IF q = <<>> THEN S ELSE DropHead(S, list)
                        IN  /\ Lists(list_splice(mem, list, at)) = PutAfter(rest, at, q)
                            /\ Lists(list_splice_tail(mem, list, at)) = PutBefore(rest, at, q)
                            /\ Lists(list_splice_init(mem, list, at)) =
                                 WithHead(PutAfter(rest, at, q), list, <<>>)
                            /\ Lists(list_splice_tail_init(mem, list, at)) =
                                 WithHead(PutBefore(rest, at, q), list, <<>>)
      BY <1>1 DEF SpliceMeans
    <2>1. list \in DOMAIN S /\ LiveIn(mem, at)
      BY <1>2 DEF Live, Place
    <2>2. \A k \in 0 .. Len(S[list]) : Spot(S, list, k) # at
      BY <1>1, <2>1, ApartNowhere
    <2>3. SpliceIs(mem, S, list, at)
      BY <1>2, <2>1, <2>2, SpliceMeant
    <2> QED BY <2>3, MeantLists DEF SpliceIs
  <1>10. AskMeans
    <2>1. \A h \in DOMAIN S : AskIs(mem, S, h)
      BY <1>2, AskMeant
    <2> QED BY <1>1, <2>1 DEF AskMeans, AskIs
  <1>11. \A h \in DOMAIN Now : Follow(mem.prev, h) = Reverse(Now[h])
    BY <1>1, <1>2, BackwardsMeant
  <1>12. \A g, h \in DOMAIN Now : g # h => ToSet(Now[g]) \cap ToSet(Now[h]) = {}
    BY <1>1, <1>2, DisjointMeant
  <1> QED BY <1>3, <1>4, <1>5, <1>6, <1>7, <1>8, <1>9, <1>10, <1>11, <1>12 DEF CallsMean

LEMMA InitListsMeant == Init => \E S : Meant(mem, S)
  <1> SUFFICES ASSUME Init PROVE \E S : Meant(mem, S)
    OBVIOUS
  <1>1. WholeIn(mem)
    BY InitRings DEF Rings
  <1>2. \A h \in Heads : LiveIn(mem, h) /\ mem.next[h] = h
    BY DEF Init, LiveIn, Addr
  <1>3. PICK S : S = [h \in Heads |-> <<>>]
    OBVIOUS
  <1>4. S = [h \in DOMAIN S |-> S[h]] /\ DOMAIN S = {h \in Heads : LiveIn(mem, h)}
    BY <1>2, <1>3
  <1>5. ASSUME NEW h \in DOMAIN S
        PROVE  /\ S[h] \in Seq(Nodes)
               /\ \A k \in 0 .. Len(S[h]) : mem.next[Spot(S, h, k)] = Spot(S, h, k + 1)
    <2>1. S[h] = <<>> /\ S[h] \in Seq(Nodes) /\ Len(S[h]) = 0 /\ h \in Heads
      BY <1>3, EmptySeq
    <2>2. \A k : Spot(S, h, k) = h
      BY <2>1 DEF Spot, Met
    <2> QED BY <1>2, <2>1, <2>2
  <1>6. Meant(mem, S)
    BY <1>1, <1>4, <1>5, ChainsMeant
  <1> QED BY <1>6

(* One case per action of Next.                                            *)
LEMMA CallMeant ==
    ASSUME Meant(mem, Lists(mem)), Next
    PROVE  \E S : Meant(mem', S)
  <1>1. PICK T : T = Lists(mem) /\ Meant(mem, T) /\ DOMAIN T = {h \in Heads : LiveIn(mem, h)}
    BY DEF Meant
  <1>2. CASE Insert
    <2>1. PICK new \in Nodes, at \in Addr :
            /\ Unused(new) /\ Place(at)
            /\ mem' \in {list_add(mem, new, at), list_add_tail(mem, new, at)}
      BY <1>2 DEF Insert
    <2>2. UnusedIn(mem, new) /\ LiveIn(mem, at) /\ new # at
      BY <2>1 DEF Unused, Linked, Place, Live, UnusedIn
    <2>3. /\ Meant(list_add(mem, new, at), PutAfter(T, at, <<new>>))
          /\ Meant(list_add_tail(mem, new, at), PutBefore(T, at, <<new>>))
      BY <1>1, <2>2, AddMeant
    <2> QED BY <2>1, <2>3
  <1>3. CASE Initialise
    <2>1. PICK x \in Addr : Unused(x) /\ mem' = INIT_LIST_HEAD(mem, x)
      BY <1>3 DEF Initialise
    <2>2. UnusedIn(mem, x)
      BY <2>1 DEF Unused, Linked, Live, UnusedIn
    <2> QED BY <1>1, <2>1, <2>2, InitMeant
  <1>4. CASE Delete
    <2>1. PICK e \in Nodes : Live(e) /\ mem' \in {list_del(mem, e), list_del_init(mem, e)}
      BY <1>4 DEF Delete
    <2>2. Meant(list_del(mem, e), Without(T, e)) /\ Meant(list_del_init(mem, e), Without(T, e))
      BY <1>1, <2>1, DeleteMeant DEF Live
    <2> QED BY <2>1, <2>2
  <1>5. CASE Replace
    <2>1. PICK old \in Addr, new \in Addr :
            /\ Live(old) /\ Unused(new) /\ new # old /\ (old \in Heads <=> new \in Heads)
            /\ mem' \in {list_replace(mem, old, new), list_replace_init(mem, old, new)}
      BY <1>5 DEF Replace
    <2>2. LiveIn(mem, old) /\ UnusedIn(mem, new)
      BY <2>1 DEF Unused, Linked, Live, UnusedIn
    <2>3. (\E S : Meant(list_replace(mem, old, new), S)) /\ \E S : Meant(list_replace_init(mem, old, new), S)
      BY <1>1, <2>1, <2>2, ReplaceMeant
    <2> QED BY <2>1, <2>3
  <1>6. CASE Move
    <2>1. PICK e \in Nodes, at \in Addr :
            /\ Live(e) /\ Place(at) /\ e # at
            /\ mem' \in {list_move(mem, e, at), list_move_tail(mem, e, at)}
      BY <1>6 DEF Move
    <2>2. /\ Meant(list_move(mem, e, at), PutAfter(Without(T, e), at, <<e>>))
          /\ Meant(list_move_tail(mem, e, at), PutBefore(Without(T, e), at, <<e>>))
      BY <1>1, <2>1, MoveMeant DEF Live, Place
    <2> QED BY <2>1, <2>2
  <1>7. CASE Rotate
    <2>1. PICK h \in Heads : Live(h) /\ mem' = list_rotate_left(mem, h)
      BY <1>7 DEF Rotate
    <2>2. Meant(list_rotate_left(mem, h), Rotated(T, h))
      BY <1>1, <2>1, RotateMeant DEF Live
    <2> QED BY <2>1, <2>2
  <1>8. CASE Cut
    BY <1>8, CutStep
  <1>9. CASE Splice
    <2>1. PICK list \in Heads, at \in Addr :
            /\ Live(list) /\ Place(at) /\ Apart(list, at)
            /\ mem' \in {list_splice(mem, list, at), list_splice_tail(mem, list, at),
                         list_splice_init(mem, list, at),
                         list_splice_tail_init(mem, list, at)}
      BY <1>9 DEF Splice
    <2>2. list \in DOMAIN T /\ LiveIn(mem, at)
      BY <1>1, <2>1 DEF Live, Place
    <2>3. \A k \in 0 .. Len(T[list]) : Spot(T, list, k) # at
      BY <1>1, <2>1, <2>2, ApartNowhere
    <2>4. SpliceIs(mem, T, list, at)
      BY <1>1, <2>2, <2>3, SpliceMeant
    <2>5. /\ \E S : Meant(list_splice(mem, list, at), S)
          /\ \E S : Meant(list_splice_tail(mem, list, at), S)
          /\ \E S : Meant(list_splice_init(mem, list, at), S)
          /\ \E S : Meant(list_splice_tail_init(mem, list, at), S)
      BY <2>4 DEF SpliceIs
    <2> QED BY <2>1, <2>5
  <1> QED BY <1>2, <1>3, <1>4, <1>5, <1>6, <1>7, <1>8, <1>9 DEF Next

LEMMA MeantRings == ASSUME NEW S, Meant(mem, S) PROVE Rings /\ Meant(mem, Lists(mem))
  BY MeantLists DEF Meant, Rings

(* The memory always stands for lists. *)
LEMMA AlwaysMeant == Spec => []Meant(mem, Lists(mem))
  <1>1. Init => Meant(mem, Lists(mem))
    BY InitListsMeant, MeantRings
  <1>2. Meant(mem, Lists(mem)) /\ [Next]_mem => Meant(mem, Lists(mem))'
    <2> SUFFICES ASSUME Meant(mem, Lists(mem)), Next \/ UNCHANGED mem
                 PROVE  Meant(mem', Lists(mem'))
      OBVIOUS
    <2>1. CASE Next
      BY <2>1, CallMeant, MeantLists
    <2>2. CASE UNCHANGED mem
      BY <2>2
    <2> QED BY <2>1, <2>2
  <1> QED BY <1>1, <1>2, PTL DEF Spec

(* Whatever calls are made, the rings stay whole: every neighbour of an    *)
(* object in use is an object in use, linked both ways (list_head.h).      *)
THEOREM RingsStayWhole == Spec => []Rings
  <1>1. Meant(mem, Lists(mem)) => Rings
    BY MeantRings
  <1> QED BY AlwaysMeant, <1>1, PTL

(* A call of list_head.h puts at most one object out of use, the one it    *)
(* deletes, replaces or empties, or, if it is a cut, the entries of the    *)
(* list that it overwrites.  All others stay linked both ways.             *)
THEOREM OthersStayLinked == Spec => OneRetired
  <1>1. Meant(mem, Lists(mem)) /\ [Next]_mem =>
          [\/ \E x \in Addr : Retired \subseteq {x}
           \/ Cut /\ \E h \in Heads : Live(h) /\ Retired \subseteq ToSet(Lists(mem)[h])]_mem
    <2> SUFFICES ASSUME Meant(mem, Lists(mem)), Next
                 PROVE  \/ \E x \in Addr : Retired \subseteq {x}
                        \/ Cut /\ \E h \in Heads : Live(h) /\ Retired \subseteq ToSet(Lists(mem)[h])
      OBVIOUS
    <2>0. \A y : LiveIn(mem, y)' <=> LiveIn(mem', y)
      BY DEF LiveIn
    <2>1. CASE ~Cut
      <3>1. PICK x \in Addr : Kept(mem, mem', x)
        BY <2>1, MeantRings, StepSound DEF Sound
      <3>2. Retired \subseteq {x}
        BY <2>0, <3>1 DEF Retired, Kept, Live
      <3> QED BY <3>2
    <2>2. CASE Cut
      <3>1. CASE \A y \in Addr : LiveIn(mem, y) => LiveIn(mem', y)
        <4>1. Retired = {}
          BY <2>0, <3>1 DEF Retired, Live
        <4>2. PICK h \in Heads : Live(h)
          BY <2>2 DEF Cut, CutArgs
        <4> QED BY <2>2, <4>1, <4>2
      <3>2. CASE \E h \in Heads : Live(h) /\ \A y \in Addr \ ToSet(Lists(mem)[h]) :
                                       LiveIn(mem, y) => LiveIn(mem', y)
        <4>1. PICK h \in Heads : Live(h) /\ \A y \in Addr \ ToSet(Lists(mem)[h]) :
                                       LiveIn(mem, y) => LiveIn(mem', y)
          BY <3>2
        <4>2. Retired \subseteq ToSet(Lists(mem)[h])
          BY <2>0, <4>1 DEF Retired, Live
        <4> QED BY <2>2, <4>1, <4>2
      <3> QED BY <2>2, <3>1, <3>2, CutStep
    <2> QED BY <2>1, <2>2
  <1> QED BY AlwaysMeant, <1>1, PTL DEF Spec, OneRetired

MeaningInv == OfCalls => Meant(mem, Lists(mem))

(* Whatever calls of list_head.h are made, with the arguments that its     *)
(* comments permit, each does to the lists what its comment says, the      *)
(* lists read backwards are the lists read forwards, and no entry is in    *)
(* two of them.                                                            *)
THEOREM EveryCallMeans == MCSpec => []ListCallsMean
  <1>1. MCInit => MeaningInv
    <2> SUFFICES ASSUME MCInit, OfCalls PROVE Meant(mem, Lists(mem))
      BY DEF MeaningInv
    <2>1. Init
      BY DEF MCInit, OfCalls, OfLoops, OfHList, OfStack, OfScript
    <2> QED BY <2>1, InitListsMeant, MeantLists
  <1>2. MeaningInv /\ [MCNext]_<<subject, mem, hVars, loopVars, stackOnly, scriptOnly>> => MeaningInv'
    <2> SUFFICES ASSUME MeaningInv, OfCalls',
                        [MCNext]_<<subject, mem, hVars, loopVars, stackOnly, scriptOnly>>
                 PROVE  Meant(mem, Lists(mem))'
      BY DEF MeaningInv
    <2>1. OfCalls /\ Meant(mem, Lists(mem))
      BY DEF MeaningInv, MCNext, OfCalls
    <2>2. CASE mem' = mem
      BY <2>1, <2>2
    <2>3. CASE Next
      <3>1. PICK S : Meant(mem', S)
        BY <2>1, <2>3, CallMeant
      <3>2. Lists(mem') = S
        BY <3>1, MeantLists
      <3> QED BY <3>1, <3>2
    <2>4. Next \/ mem' = mem
      BY <2>1 DEF MCNext, OfCalls, OfLoops, OfHList, OfStack, OfScript
    <2> QED BY <2>2, <2>3, <2>4
  <1>3. MeaningInv => ListCallsMean
    BY MeantCalls DEF MeaningInv, ListCallsMean
  <1> QED BY <1>1, <1>2, <1>3, PTL DEF MCSpec
================================================================================

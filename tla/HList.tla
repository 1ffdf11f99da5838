--------------------------------- MODULE HList ---------------------------------
(***************************************************************************)
(* The hlist functions of list_head.h: lists with a one-pointer head.  An  *)
(* entry holds the place that points to it, pprev: the field first of a    *)
(* head or the field next of an entry.                                     *)
(***************************************************************************)
EXTENDS ListHead

CONSTANTS
    HHeads,     \* struct hlist_head objects
    HNodes      \* struct hlist_node objects

Firsts == {<<"first", h>> : h \in HHeads}
Nexts == {<<"next", n>> : n \in HNodes}

\* No object and no field of one is at address NULL or at a poison address.
ASSUME HAssumption == /\ {POISON1, POISON2, NULL} \cap (HNodes \cup Firsts \cup Nexts) = {}
                      /\ NULL \notin {POISON1, POISON2}

\* Memory is finite.
ASSUME HFiniteAssumption == IsFiniteSet(HNodes)

VARIABLE hmem   \* the pointer fields, by place, and pprev

HMemory == [at : [Firsts \cup Nexts -> HNodes \cup {NULL, POISON1}],
            pprev : [HNodes -> Firsts \cup Nexts \cup {NULL, POISON2}]]

(***************************************************************************)
(* The functions                                                           *)
(***************************************************************************)
First(m, h) == m.at[<<"first", h>>]
After(m, n) == m.at[<<"next", n>>]

INIT_HLIST_NODE(m, n) ==
    [at |-> [m.at EXCEPT ![<<"next", n>>] = NULL], pprev |-> [m.pprev EXCEPT ![n] = NULL]]

hlist_unhashed(m, n) == m.pprev[n] = NULL

hlist_empty(m, h) == First(m, h) = NULL

(* n->pprev = place, when there is an n *)
PointBack(m, n, place) == IF n = NULL THEN m.pprev ELSE [m.pprev EXCEPT ![n] = place]

(* __hlist_del *)
HUnlink(m, n) ==
    [at |-> [m.at EXCEPT ![m.pprev[n]] = After(m, n)],
     pprev |-> PointBack(m, After(m, n), m.pprev[n])]

hlist_del(m, n) ==
    LET u == HUnlink(m, n)
    IN  [at |-> [u.at EXCEPT ![<<"next", n>>] = POISON1],
         pprev |-> [u.pprev EXCEPT ![n] = POISON2]]

hlist_del_init(m, n) ==
    IF hlist_unhashed(m, n) THEN m ELSE INIT_HLIST_NODE(HUnlink(m, n), n)

hlist_add_head(m, n, h) ==
    [at |-> [m.at EXCEPT ![<<"next", n>>] = First(m, h), ![<<"first", h>>] = n],
     pprev |-> [PointBack(m, First(m, h), <<"next", n>>) EXCEPT ![n] = <<"first", h>>]]

(* Mutant: next->pprev is not written. *)
AddBeforeOneWay(m, n, next) ==
    [at |-> [m.at EXCEPT ![<<"next", n>>] = next, ![m.pprev[next]] = n],
     pprev |-> [m.pprev EXCEPT ![n] = m.pprev[next]]]

hlist_add_before(m, n, next) ==
    [at |-> [m.at EXCEPT ![<<"next", n>>] = next, ![m.pprev[next]] = n],
     pprev |-> [m.pprev EXCEPT ![n] = m.pprev[next], ![next] = <<"next", n>>]]

hlist_add_behind(m, n, prev) ==
    LET at == [m.at EXCEPT ![<<"next", n>>] = After(m, prev), ![<<"next", prev>>] = n]
        back == [m EXCEPT !.pprev[n] = <<"next", prev>>]
    IN  [at |-> at, pprev |-> PointBack(back, at[<<"next", n>>], <<"next", n>>)]

hlist_add_fake(m, n) == [m EXCEPT !.pprev[n] = <<"next", n>>]

hlist_fake(m, n) == m.pprev[n] = <<"next", n>>

hlist_is_singular_node(m, n, h) == After(m, n) = NULL /\ m.pprev[n] = <<"first", h>>

hlist_move_list(m, old, new) ==
    [at |-> [m.at EXCEPT ![<<"first", new>>] = First(m, old), ![<<"first", old>>] = NULL],
     pprev |-> PointBack(m, First(m, old), <<"first", new>>)]

(* hlist_for_each and its kin: the entries met from the place p on. *)
HFollow(m, p) ==
    LET trail[k \in 0 .. Cardinality(HNodes)] ==
          IF k = 0 THEN <<>>
          ELSE LET t == trail[k - 1]
                   q == IF t = <<>> THEN p ELSE <<"next", Last(t)>>
               IN  IF m.at[q] \in HNodes THEN Append(t, m.at[q]) ELSE t
    IN  trail[Cardinality(HNodes)]

(***************************************************************************)
(* Calls, with the arguments that make sense                               *)
(***************************************************************************)
HLists(m) == [h \in HHeads |-> HFollow(m, <<"first", h>>)]
HLinked(n) == \E h \in HHeads : n \in ToSet(HLists(hmem)[h])
Fake(n) == hlist_fake(hmem, n)
HUnused(n) == ~HLinked(n)

HInit == hmem = [at |-> [p \in Firsts \cup Nexts |-> IF p \in Firsts THEN NULL ELSE POISON1],
                 pprev |-> [n \in HNodes |-> POISON2]]

HAdd == \E n \in HNodes :
    /\ HUnused(n)
    /\ \/ hmem' = INIT_HLIST_NODE(hmem, n)
       \/ \E h \in HHeads : hmem' = hlist_add_head(hmem, n, h)
       \/ \E k \in HNodes :
            /\ HLinked(k)
            /\ hmem' \in {hlist_add_before(hmem, n, k), hlist_add_behind(hmem, n, k)}

(* "after that we'll appear to be on some hlist and hlist_del will work" *)
HFake == \E n \in HNodes :
    HUnused(n) /\ hlist_unhashed(hmem, n) /\ hmem' = hlist_add_fake(hmem, n)

HDelete == \E n \in HNodes :
    \/ (HLinked(n) \/ Fake(n)) /\ hmem' = hlist_del(hmem, n)
    \/ /\ HLinked(n) \/ Fake(n) \/ hlist_unhashed(hmem, n)
       /\ hmem' = hlist_del_init(hmem, n)

HMoveList == \E old, new \in HHeads :
    old # new /\ hlist_empty(hmem, new) /\ hmem' = hlist_move_list(hmem, old, new)

HNext == HAdd \/ HFake \/ HDelete \/ HMoveList

HSpec == HInit /\ [][HNext]_hmem

(***************************************************************************)
(* Properties                                                              *)
(***************************************************************************)
HNow == HLists(hmem)
HIndex(s, n) == CHOOSE i \in DOMAIN s : s[i] = n
HWithout(S, n) ==
    [h \in HHeads |-> IF n \in ToSet(S[h]) THEN RemoveAt(S[h], HIndex(S[h], n)) ELSE S[h]]
HPut(S, k, n, d) ==     \* n before (d = 0) or behind (d = 1) the entry k
    [h \in HHeads |-> IF k \notin ToSet(S[h]) THEN S[h]
                      ELSE InsertAt(S[h], HIndex(S[h], k) + d, n)]

(* Every place that leads to an entry is the one the entry points back to, *)
(* so that it can be deleted without knowing its list, and every call does *)
(* what its name says to the lists as they are read by hlist_for_each.     *)
HCallsMean ==
    /\ hmem \in HMemory
    /\ \A h \in HHeads : LET s == HNow[h] IN
         /\ \A i \in DOMAIN s : hmem.pprev[s[i]] =
              IF i = 1 THEN <<"first", h>> ELSE <<"next", s[i - 1]>>
         /\ s # <<>> => After(hmem, Last(s)) = NULL
         /\ hlist_empty(hmem, h) = (s = <<>>)
         /\ \A n \in HNodes : HLinked(n) =>
              hlist_is_singular_node(hmem, n, h) = (s = <<n>>)
    /\ \A n \in HNodes : HUnused(n) =>
         /\ \A h \in HHeads : HLists(hlist_add_head(hmem, n, h)) =
                                [HNow EXCEPT ![h] = <<n>> \o @]
         /\ \A k \in HNodes : HLinked(k) =>
              /\ HLists(hlist_add_before(hmem, n, k)) = HPut(HNow, k, n, 0)
              /\ HLists(hlist_add_behind(hmem, n, k)) = HPut(HNow, k, n, 1)
         /\ hlist_unhashed(hmem, n) \/ Fake(n) =>
              /\ HLists(hlist_add_fake(hmem, n)) = HNow
              /\ HLists(hlist_del_init(hmem, n)) = HNow
    /\ \A n \in HNodes : HLinked(n) =>
         /\ HLists(hlist_del(hmem, n)) = HWithout(HNow, n)
         /\ HLists(hlist_del_init(hmem, n)) = HWithout(HNow, n)
         /\ hlist_unhashed(hlist_del_init(hmem, n), n) /\ ~hlist_unhashed(hmem, n)
    /\ \A g, h \in HHeads : g # h /\ HNow[h] = <<>> =>
         HLists(hlist_move_list(hmem, g, h)) = [HNow EXCEPT ![g] = <<>>, ![h] = HNow[g]]
================================================================================

------------------------------ MODULE ListMeaning ------------------------------
(***************************************************************************)
(* What the calls of list_head.h mean for the lists they are made on: the  *)
(* comments of the header as operations on sequences.                      *)
(***************************************************************************)
EXTENDS ListHead

(* q put before or after the place at, an entry or a head. *)
PutAt(s, i, q) == SubSeq(s, 1, i - 1) \o q \o SubSeq(s, i, Len(s))
Index(s, e) == CHOOSE i \in DOMAIN s : s[i] = e

PutAfter(S, at, q) ==
    [h \in DOMAIN S |-> CASE at = h             -> q \o S[h]
                          [] at \in ToSet(S[h]) -> PutAt(S[h], Index(S[h], at) + 1, q)
                          [] OTHER              -> S[h]]

PutBefore(S, at, q) ==
    [h \in DOMAIN S |-> CASE at = h             -> S[h] \o q
                          [] at \in ToSet(S[h]) -> PutAt(S[h], Index(S[h], at), q)
                          [] OTHER              -> S[h]]

Without(S, e) ==
    [h \in DOMAIN S |-> IF e \in ToSet(S[h]) THEN RemoveAt(S[h], Index(S[h], e)) ELSE S[h]]

(* The list h made to be s; with DropHead, no list any more. *)
WithHead(S, h, s) == [g \in DOMAIN S \cup {h} |-> IF g = h THEN s ELSE S[g]]
DropHead(S, h) == [g \in DOMAIN S \ {h} |-> S[g]]

Substituted(S, old, new) ==
    IF old \in Heads THEN WithHead(DropHead(S, old), new, S[old])
    ELSE [h \in DOMAIN S |-> [i \in DOMAIN S[h] |->
            IF S[h][i] = old THEN new ELSE S[h][i]]]

(***************************************************************************)
(* The meaning of every call that is permitted now                         *)
(***************************************************************************)
Now == Lists(mem)

InsertMeans == \A new \in Nodes, at \in Addr : Unused(new) /\ Place(at) =>
    /\ Lists(list_add(mem, new, at)) = PutAfter(Now, at, <<new>>)
    /\ Lists(list_add_tail(mem, new, at)) = PutBefore(Now, at, <<new>>)

(* list_del leaves an entry that is unusable, list_del_init one that is not. *)
DeleteMeans == \A e \in Nodes : Live(e) =>
    /\ Lists(list_del(mem, e)) = Without(Now, e)
    /\ Lists(list_del_init(mem, e)) = Without(Now, e)
    /\ ~LiveIn(list_del(mem, e), e) /\ LiveIn(list_del_init(mem, e), e)

ReplaceMeans == \A old, new \in Addr :
    Place(old) /\ Unused(new) /\ new # old /\ (old \in Heads <=> new \in Heads) =>
    /\ Lists(list_replace(mem, old, new)) = Substituted(Now, old, new)
    /\ Lists(list_replace_init(mem, old, new)) =
         IF old \in Heads THEN WithHead(Substituted(Now, old, new), old, <<>>)
         ELSE Substituted(Now, old, new)

MoveMeans == \A e \in Nodes, at \in Addr : Live(e) /\ Place(at) /\ e # at =>
    /\ Lists(list_move(mem, e, at)) = PutAfter(Without(Now, e), at, <<e>>)
    /\ Lists(list_move_tail(mem, e, at)) = PutBefore(Without(Now, e), at, <<e>>)

RotateMeans == \A h \in DOMAIN Now :
    Lists(list_rotate_left(mem, h)) =
      IF Now[h] = <<>> THEN Now ELSE WithHead(Now, h, Tail(Now[h]) \o <<Head(Now[h])>>)

(* A cut before the head moves everything, a cut at the head nothing; and  *)
(* a cut of an empty list by position leaves @list as it was.  Otherwise   *)
(* what @list held is lost, and nothing else is.                           *)
CutMeans == \A list, head \in Heads, e \in Addr : CutArgs(list, head, e) =>
    LET s == Now[head]
        Parts(k) == WithHead(WithHead(Now, list, SubSeq(s, 1, k)),
                             head, SubSeq(s, k + 1, Len(s)))
    IN  /\ Lists(list_cut_position(mem, list, head, e)) =
             CASE s = <<>>               -> Now
               [] s # <<>> /\ e = head   -> Parts(0)
               [] OTHER                  -> Parts(Index(s, e))
        /\ Lists(list_cut_before(mem, list, head, e)) =
             Parts(IF e = head THEN Len(s) ELSE Index(s, e) - 1)

SpliceMeans == \A list \in Heads, at \in Addr :
    Live(list) /\ Place(at) /\ Apart(list, at) =>
    LET q == Now[list]
        rest == IF q = <<>> THEN Now ELSE DropHead(Now, list)
    IN  /\ Lists(list_splice(mem, list, at)) = PutAfter(rest, at, q)
        /\ Lists(list_splice_tail(mem, list, at)) = PutBefore(rest, at, q)
        /\ Lists(list_splice_init(mem, list, at)) =
             WithHead(PutAfter(rest, at, q), list, <<>>)
        /\ Lists(list_splice_tail_init(mem, list, at)) =
             WithHead(PutBefore(rest, at, q), list, <<>>)

AskMeans == \A h \in DOMAIN Now :
    /\ list_empty(mem, h) = (Now[h] = <<>>)
    /\ list_empty_careful(mem, h) = (Now[h] = <<>>)
    /\ list_is_singular(mem, h) = (Len(Now[h]) = 1)
    /\ \A e \in ToSet(Now[h]) : list_is_last(mem, e, h) = (e = Last(Now[h]))
    /\ Now[h] # <<>> => /\ list_first_entry(mem, h) = Head(Now[h])
                        /\ list_last_entry(mem, h) = Last(Now[h])
    /\ list_first_entry_or_null(mem, h) = IF Now[h] = <<>> THEN NULL ELSE Head(Now[h])

(* Every call does to the lists what the comment above it says, and the    *)
(* lists read backwards are the lists read forwards: no sequence of calls  *)
(* that respects the comments loses an entry, shows one twice or leaves a  *)
(* walk that does not end.                                                 *)
CallsMean ==
    /\ InsertMeans /\ DeleteMeans /\ ReplaceMeans /\ MoveMeans
    /\ RotateMeans /\ CutMeans /\ SpliceMeans /\ AskMeans
    /\ \A h \in DOMAIN Now : Follow(mem.prev, h) = Reverse(Now[h])
    /\ \A g, h \in DOMAIN Now : g # h => ToSet(Now[g]) \cap ToSet(Now[h]) = {}
================================================================================

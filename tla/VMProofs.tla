------------------------------- MODULE VMProofs --------------------------------
(***************************************************************************)
(* TLAPS proofs about VM, for every page table size, every number of       *)
(* frames and every set of page numbers.                                   *)
(***************************************************************************)
EXTENDS VM, TLAPS

USE NAssumption, FramesAssumption, VpnsAssumption

(* A page number splits into two indices of the page table.                *)
LEMMA VpnSplit ==
    \A vpn \in Vpns : vpn \div N \in Index /\ vpn % N \in Index
  <1> SUFFICES ASSUME NEW vpn \in Vpns
               PROVE  vpn \div N \in Index /\ vpn % N \in Index
    OBVIOUS
  <1>1. vpn \in 0 .. N * N - 1
    OBVIOUS
  <1>2. vpn % N \in 0 .. N - 1
    BY <1>1
  <1>3. vpn \div N \in Int /\ vpn = N * (vpn \div N) + (vpn % N)
    BY <1>1
  <1>4. vpn \div N \in 0 .. N - 1
    BY <1>1, <1>2, <1>3
  <1> QED BY <1>2, <1>4 DEF Index

(* alloc_page and free_page only ever look at directory 0.                 *)
LEMMA OuterIndexIsZero == \A vpn \in Vpns : OuterIndex(vpn) = 0
  <1> SUFFICES ASSUME NEW vpn \in Vpns, vpn = 0 PROVE vpn \div N = 0
    BY DEF OuterIndex
  <1>1. 0 = N * (vpn \div N) + (vpn % N) /\ vpn \div N \in 0 .. N - 1
        /\ vpn % N \in 0 .. N - 1
    BY VpnSplit DEF Index
  <1> QED BY <1>1

(***************************************************************************)
(* The inductive invariant.  MapcountsExact is inductive only together     *)
(* with the fact that no directory but the first ever exists: without it,  *)
(* free could translate a page through one directory and clear the entry   *)
(* of another.                                                             *)
(***************************************************************************)
OnlyFirstDirectory == \A d \in Index : present[d] => d = 0

IInv == TypeOK /\ MapcountsExact /\ OnlyFirstDirectory

(* Invariance: the initial state.                                          *)
LEMMA InitInv == Init => IInv
  BY DEF Init, IInv, TypeOK, MapcountsExact, OnlyFirstDirectory, Mapped, Index,
         PTE, Blank, Mode, Pfn

(* Mapping a page whose entry is not valid to a free frame.                *)
LEMMA MapInv ==
    ASSUME IInv, NEW vpn \in Vpns, NEW mode \in Mode, NEW f \in Pfn,
           CanMap(vpn), IsSmallest(f), Map(vpn, mode, f),
           present' = [present EXCEPT ![OuterIndex(vpn)] = TRUE],
           granted' = [granted EXCEPT ![vpn] = mode],
           UNCHANGED <<pc, slot, i>>
    PROVE  IInv'
  <1> DEFINE e0 == vpn % N
  <1> DEFINE new == [valid |-> TRUE, writable |-> "w" \in mode, pfn |-> f]
  <1>1. OuterIndex(vpn) = 0 /\ 0 \in Index /\ e0 \in Index
    BY OuterIndexIsZero, VpnSplit DEF Index
  <1>2. Directory(0) \in [Index -> PTE] /\ new \in PTE
    BY <1>1 DEF Directory, IInv, TypeOK, PTE, Blank, Pfn
  <1>3. ptes' = [ptes EXCEPT ![0] = [Directory(0) EXCEPT ![e0] = new]]
    BY <1>1 DEF Map
  <1>4. mapcounts[f] = 0 /\ mapcounts' = [mapcounts EXCEPT ![f] = @ + 1]
    BY DEF IsSmallest, FreeFrames, Map
  <1>5. TypeOK'
    BY <1>1, <1>2, <1>3, <1>4 DEF IInv, TypeOK
  <1>6. OnlyFirstDirectory'
    BY <1>1 DEF IInv, OnlyFirstDirectory, TypeOK
  <1>7. \A e \in Index : /\ Mapped(0, e)' <=> (e = e0 \/ Mapped(0, e))
                         /\ ptes'[0][e].pfn = IF e = e0 THEN f
                                              ELSE Directory(0)[e].pfn
                         /\ Mapped(0, e) => Directory(0)[e] = ptes[0][e]
    BY <1>1, <1>2, <1>3 DEF Mapped, Directory, Blank, IInv, TypeOK
  <1>8. ~Mapped(0, e0)
    BY <1>1 DEF CanMap, Directory, Mapped
  <1>9. \A d, e \in Index : Mapped(d, e) => d = 0 /\ ptes[d][e].pfn # f
    BY <1>4 DEF IInv, OnlyFirstDirectory, MapcountsExact, Mapped
  <1>10. \A d \in Index, e \in Index : Mapped(d, e)' => d = 0
    BY <1>6 DEF OnlyFirstDirectory, Mapped
  <1>11. MapcountsExact'
    <2>1. ASSUME NEW e \in Index, Mapped(0, e)'
          PROVE  ptes'[0][e].pfn \in Pfn /\ mapcounts'[ptes'[0][e].pfn] = 1
      <3>1. CASE e = e0
        BY <3>1, <1>1, <1>4, <1>7 DEF IInv, TypeOK
      <3>2. CASE e # e0
        BY <3>2, <2>1, <1>1, <1>4, <1>7, <1>9 DEF IInv, TypeOK, MapcountsExact
      <3> QED BY <3>1, <3>2
    <2>2. ASSUME NEW e \in Index, NEW e2 \in Index, Mapped(0, e)', Mapped(0, e2)',
                 ptes'[0][e].pfn = ptes'[0][e2].pfn
          PROVE  e = e2
      BY <2>2, <1>1, <1>7, <1>9 DEF IInv, MapcountsExact
    <2>3. ASSUME NEW g \in Pfn, mapcounts'[g] # 0
          PROVE  \E d, e \in Index : Mapped(d, e)' /\ ptes'[d][e].pfn = g
      <3>1. CASE g = f
        BY <3>1, <1>1, <1>7
      <3>2. CASE g # f
        <4>1. PICK d, e \in Index : Mapped(d, e) /\ ptes[d][e].pfn = g
          BY <2>3, <3>2, <1>4 DEF IInv, TypeOK, MapcountsExact
        <4> QED BY <4>1, <1>1, <1>7, <1>8, <1>9
      <3> QED BY <3>1, <3>2
    <2> QED BY <2>1, <2>2, <2>3, <1>10 DEF MapcountsExact
  <1> QED BY <1>5, <1>6, <1>11 DEF IInv

(* Clearing an entry that is mapped, of the first directory.               *)
LEMMA FreeInv ==
    ASSUME IInv, NEW vpn \in Vpns, Free(vpn)
    PROVE  IInv'
  <1> DEFINE e0 == vpn % N
  <1> DEFINE f == ptes[0][e0].pfn
  <1>1. OuterIndex(vpn) = 0 /\ 0 \in Index /\ e0 \in Index
    BY OuterIndexIsZero, VpnSplit DEF Index
  <1>2. CASE ~Translates({"r"}, vpn)
    <2>1. UNCHANGED <<present, ptes, mapcounts, pc, slot, i, granted>>
      BY <1>2 DEF Free
    <2> QED BY <2>1 DEF IInv, TypeOK, MapcountsExact, OnlyFirstDirectory, Mapped
  <1>3. CASE Translates({"r"}, vpn)
    <2>1. vpn \div N = 0 /\ Mapped(0, e0)
      BY <1>3, VpnSplit DEF Translates, IInv, OnlyFirstDirectory, Mapped
    <2>2. f \in Pfn /\ mapcounts[f] = 1
      BY <2>1, <1>1 DEF IInv, MapcountsExact
    <2>3. /\ mapcounts' = [mapcounts EXCEPT ![f] = @ - 1]
          /\ ptes' = [ptes EXCEPT ![0][e0] = Blank]
          /\ slot' = 0 /\ i' = 0 /\ pc' = "freeing"
          /\ granted' = [granted EXCEPT ![vpn] = {}]
          /\ UNCHANGED present
      BY <1>1, <1>3 DEF Free
    <2>4. TypeOK'
      BY <1>1, <2>2, <2>3 DEF IInv, TypeOK, Blank, PTE, Mode
    <2>5. /\ \A d, e \in Index : Mapped(d, e)' => Mapped(d, e) /\ ~(d = 0 /\ e = e0)
          /\ \A d, e \in Index : Mapped(d, e) /\ ~(d = 0 /\ e = e0) => Mapped(d, e)'
          /\ \A d, e \in Index : Mapped(d, e)' => ptes'[d][e] = ptes[d][e]
      BY <1>1, <2>3 DEF Mapped, Blank, IInv, TypeOK
    <2>6. \A d, e \in Index : Mapped(d, e)' => ptes[d][e].pfn # f
      BY <1>1, <2>1, <2>5 DEF IInv, MapcountsExact
    <2>7. \A g \in Pfn : mapcounts'[g] = IF g = f THEN 0 ELSE mapcounts[g]
      BY <2>2, <2>3 DEF IInv, TypeOK
    <2>8. MapcountsExact'
      <3>1. ASSUME NEW d \in Index, NEW e \in Index, Mapped(d, e)'
            PROVE  ptes'[d][e].pfn \in Pfn /\ mapcounts'[ptes'[d][e].pfn] = 1
        BY <3>1, <2>5, <2>6, <2>7 DEF IInv, MapcountsExact, Mapped
      <3>2. ASSUME NEW d \in Index, NEW e \in Index, NEW d2 \in Index, NEW e2 \in Index,
                   Mapped(d, e)', Mapped(d2, e2)', ptes'[d][e].pfn = ptes'[d2][e2].pfn
            PROVE  d = d2 /\ e = e2
        BY <3>2, <2>5 DEF IInv, MapcountsExact, Mapped
      <3>3. ASSUME NEW g \in Pfn, mapcounts'[g] # 0
            PROVE  \E d, e \in Index : Mapped(d, e)' /\ ptes'[d][e].pfn = g
        <4>1. g # f /\ mapcounts[g] # 0
          BY <3>3, <2>7
        <4>2. PICK d, e \in Index : Mapped(d, e) /\ ptes[d][e].pfn = g
          BY <4>1 DEF IInv, MapcountsExact
        <4> QED BY <4>1, <4>2, <2>5 DEF Mapped
      <3> QED BY <3>1, <3>2, <3>3 DEF MapcountsExact
    <2> QED BY <2>3, <2>4, <2>8 DEF IInv, OnlyFirstDirectory
  <1> QED BY <1>2, <1>3

(* Allocation, in its four outcomes.                                       *)
LEMMA AllocInv ==
    ASSUME IInv, NEW vpn \in Vpns, NEW mode \in Mode, Alloc(vpn, mode)
    PROVE  IInv'
  <1>1. CASE mode # {} /\ ~Translates({"r"}, vpn) /\ CanMap(vpn)
    <2>1. PICK f \in Pfn : IsSmallest(f) /\ Map(vpn, mode, f)
      BY <1>1 DEF Alloc
    <2>2. /\ present' = [present EXCEPT ![OuterIndex(vpn)] = TRUE]
          /\ granted' = [granted EXCEPT ![vpn] = mode]
          /\ UNCHANGED <<pc, slot, i>>
      BY <1>1 DEF Alloc
    <2> QED BY <1>1, <2>1, <2>2, MapInv
  <1>2. CASE mode # {} /\ ~Translates({"r"}, vpn) /\ ~CanMap(vpn)
    <2>1. OuterIndex(vpn) = 0 /\ 0 \in Index
      BY OuterIndexIsZero DEF Index
    <2>2. /\ ptes' = [ptes EXCEPT ![0] = Directory(0)]
          /\ present' = [present EXCEPT ![0] = TRUE]
          /\ pc' = "exit"
          /\ UNCHANGED <<mapcounts, granted, slot, i>>
      BY <1>2, <2>1 DEF Alloc
    <2>3. Directory(0) \in [Index -> PTE]
      BY <2>1 DEF Directory, IInv, TypeOK, PTE, Blank
    <2>4. /\ \A d, e \in Index : Mapped(d, e)' => Mapped(d, e)
          /\ \A d, e \in Index : Mapped(d, e) => Mapped(d, e)'
          /\ \A d, e \in Index : Mapped(d, e) => ptes'[d][e] = ptes[d][e]
      BY <2>1, <2>2, <2>3 DEF Mapped, Directory, Blank, IInv, TypeOK
    <2>5. TypeOK' /\ OnlyFirstDirectory'
      BY <2>1, <2>2, <2>3 DEF IInv, TypeOK, OnlyFirstDirectory
    <2>6. MapcountsExact'
      BY <2>2, <2>4 DEF IInv, MapcountsExact, Mapped
    <2> QED BY <2>5, <2>6 DEF IInv
  <1>3. CASE mode = {} \/ Translates({"r"}, vpn)
    <2>1. /\ UNCHANGED <<present, ptes, mapcounts, granted, slot, i>>
          /\ pc' \in {"exit", "aborted"}
      BY <1>3 DEF Alloc
    <2> QED BY <2>1 DEF IInv, TypeOK, MapcountsExact, OnlyFirstDirectory, Mapped
  <1> QED BY <1>1, <1>2, <1>3

(* Every step keeps the invariant.                                         *)
LEMMA NextInv == IInv /\ [Next]_vars => IInv'
  <1> SUFFICES ASSUME IInv, [Next]_vars PROVE IInv'
    OBVIOUS
  <1> USE DEF IInv, TypeOK, MapcountsExact, OnlyFirstDirectory, Mapped
  <1>1. ASSUME NEW vpn \in Vpns \cup {N * N}, NEW mode \in Mode, Access(vpn, mode) PROVE IInv'
    BY <1>1 DEF Access
  <1>2. ASSUME NEW vpn \in Vpns, NEW mode \in Mode, Alloc(vpn, mode) PROVE IInv'
    BY <1>2, AllocInv
  <1>3. ASSUME NEW vpn \in Vpns, Free(vpn) PROVE IInv'
    BY <1>3, FreeInv
  <1>4. CASE FreeScan
    BY <1>4 DEF FreeScan
  <1>5. CASE Exit
    BY <1>5 DEF Exit
  <1>6. CASE UnknownCommand
    BY <1>6 DEF UnknownCommand
  <1>7. CASE UNCHANGED vars
    BY <1>7 DEF vars
  <1> QED BY <1>1, <1>2, <1>3, <1>4, <1>5, <1>6, <1>7 DEF Next

(* Every variable keeps its type (what the mode, frame and index may be).  *)
THEOREM TypeCorrect == Spec => []TypeOK
  <1>1. IInv => TypeOK
    BY DEF IInv
  <1> QED BY <1>1, InitInv, NextInv, PTL DEF Spec

(* A frame is counted as used exactly while one entry maps it: no frame    *)
(* backs two pages, none leaks, and free never decrements a count of zero. *)
THEOREM MapcountsAreExact == Spec => []MapcountsExact
  <1>1. IInv => MapcountsExact
    BY DEF IInv
  <1> QED BY <1>1, InitInv, NextInv, PTL DEF Spec

(* No directory but the first ever comes into being: the reason why pages  *)
(* from N on never translate.                                              *)
THEOREM OnlyFirstDirectoryExists == Spec => []OnlyFirstDirectory
  <1>1. IInv => OnlyFirstDirectory
    BY DEF IInv
  <1> QED BY <1>1, InitInv, NextInv, PTL DEF Spec

(* alloc_page takes the smallest free frame.                               *)
THEOREM AllocatesSmallest == Spec => SmallestFrame
  <1> DEFINE Smallest == \A f \in Pfn : mapcounts[f] = 0 /\ mapcounts'[f] = 1
          => \A g \in Pfn : g < f => mapcounts[g] = 1 /\ mapcounts'[g] = 1
  <1>1. ASSUME IInv, IInv', [Next]_vars, NEW f \in Pfn, mapcounts[f] = 0, mapcounts'[f] = 1,
               NEW g \in Pfn, g < f
        PROVE  mapcounts[g] = 1 /\ mapcounts'[g] = 1
    <2>1. \A h \in Pfn : mapcounts[h] \in {0, 1}
      BY <1>1 DEF IInv, MapcountsExact, TypeOK
    <2>2. PICK vpn \in Vpns, mode \in Mode : Alloc(vpn, mode)
      <3>1. ASSUME NEW vpn \in Vpns, Free(vpn) PROVE FALSE
        <4>1. CASE UNCHANGED mapcounts
          BY <4>1, <1>1
        <4>2. CASE mapcounts' =
                     [mapcounts EXCEPT ![ptes[OuterIndex(vpn)][vpn % N].pfn] = @ - 1]
          BY <4>2, <1>1, <2>1 DEF IInv, TypeOK
        <4> QED BY <3>1, <4>1, <4>2 DEF Free
      <3>2. mapcounts' # mapcounts
        BY <1>1
      <3>3. ASSUME NEW vpn \in Vpns \cup {N * N}, NEW mode \in Mode, Access(vpn, mode) PROVE FALSE
        BY <3>2, <3>3 DEF Access
      <3> QED BY <1>1, <3>1, <3>2, <3>3 DEF Next, FreeScan, Exit, UnknownCommand, vars
    <2>3. PICK h \in Pfn : IsSmallest(h) /\ mapcounts' = [mapcounts EXCEPT ![h] = @ + 1]
      <3>1. mapcounts' # mapcounts
        BY <1>1
      <3>2. \E h \in Pfn : IsSmallest(h) /\ Map(vpn, mode, h)
        BY <2>2, <3>1 DEF Alloc
      <3> QED BY <3>2 DEF Map
    <2>4. h = f
      BY <1>1, <2>3 DEF IInv, TypeOK
    <2>5. mapcounts[g] # 0
      BY <1>1, <2>3, <2>4 DEF IsSmallest, FreeFrames, Pfn
    <2> QED BY <1>1, <2>1, <2>3, <2>4, <2>5 DEF IInv, TypeOK
  <1>2. IInv /\ IInv' /\ [Next]_vars => [Smallest]_vars
    BY <1>1
  <1> QED BY <1>2, InitInv, NextInv, PTL DEF Spec, SmallestFrame

(***************************************************************************)
(* What an access tells of the allocations.  A page number of N or more is *)
(* entered in the first directory too, where it hides or shadows another   *)
(* page, so what is said of the first directory is said for as long as no  *)
(* such page has been allocated.                                           *)
(***************************************************************************)
InFirst == \A v \in Vpns : granted[v] # {} => v \in Index

(* The entry of a page of the first directory is valid while the page is   *)
(* allocated, and writable when it was allocated for writing.              *)
EntriesTellGrants ==
    InFirst => \A v \in Vpns : v \in Index =>
      /\ Mapped(0, v) <=> granted[v] # {}
      /\ Mapped(0, v) => (ptes[0][v].writable <=> "w" \in granted[v])

(* The command that reports a full memory is the last one.                 *)
FullIsLast == last.op = "full" => pc = "exit" /\ FullMeansFull

GrantInv == EntriesTellGrants /\ FullIsLast

(* The indices of a page number of the first directory, and of another.    *)
LEMMA FirstIndices ==
    ASSUME NEW v \in Vpns
    PROVE  /\ 0 \in Index
           /\ v \in Index => v \div N = 0 /\ v % N = v
           /\ v \notin Index => v \div N # 0
  <1>1. /\ v \in 0 .. N * N - 1 /\ v \div N \in 0 .. N - 1 /\ v % N \in 0 .. N - 1
        /\ v = N * (v \div N) + (v % N)
    BY VpnSplit DEF Index
  <1>2. v \div N = 0 => v = v % N
    BY <1>1
  <1>3. ASSUME v \in 0 .. N - 1 PROVE v \div N = 0
    BY <1>3, <1>1
  <1> QED BY <1>1, <1>2, <1>3 DEF Index

LEMMA GrantInit == Init => GrantInv
  BY DEF Init, GrantInv, EntriesTellGrants, FullIsLast, Ended, Mapped, Index

(* An allocation that succeeds, and one that finds no frame or no entry.   *)
LEMMA GrantAlloc ==
    ASSUME IInv, GrantInv, NEW vpn \in Vpns, NEW mode \in Mode, Alloc(vpn, mode)
    PROVE  GrantInv'
  <1>1. /\ TypeOK /\ EntriesTellGrants /\ OnlyFirstDirectory
        /\ pc = "command" /\ OuterIndex(vpn) = 0 /\ vpn % N \in Index
    BY OuterIndexIsZero, VpnSplit DEF IInv, GrantInv, Alloc
  <1>2. 0 \in Index /\ (vpn \in Index => vpn \div N = 0 /\ vpn % N = vpn)
    BY FirstIndices
  <1>3. Directory(0) \in [Index -> PTE]
    BY <1>1, <1>2 DEF Directory, TypeOK, PTE, Blank
  <1>4. CASE mode # {} /\ ~Translates({"r"}, vpn) /\ CanMap(vpn)
    <2>1. PICK f \in Pfn : Map(vpn, mode, f)
      BY <1>4 DEF Alloc
    <2> DEFINE new == [valid |-> TRUE, writable |-> "w" \in mode, pfn |-> f]
    <2>2. /\ ptes' = [ptes EXCEPT ![0] = [Directory(0) EXCEPT ![vpn % N] = new]]
          /\ present' = [present EXCEPT ![0] = TRUE]
          /\ granted' = [granted EXCEPT ![vpn] = mode]
          /\ last' = Ended("alloc", vpn, mode, TRUE)
      BY <1>1, <1>4, <2>1 DEF Alloc, Map
    <2>3. FullIsLast'
      BY <2>2 DEF FullIsLast, Ended
    <2>4. ASSUME InFirst'
          PROVE  InFirst /\ vpn \in Index
      BY <1>1, <1>4, <2>2, <2>4 DEF InFirst, TypeOK
    <2>5. /\ present'[0]
          /\ \A e \in Index : ptes'[0][e] = IF e = vpn % N THEN new ELSE Directory(0)[e]
      BY <1>1, <1>2, <1>3, <2>2 DEF TypeOK
    <2>6. ASSUME NEW e \in Index
          PROVE  /\ Directory(0)[e].valid <=> Mapped(0, e)
                 /\ Mapped(0, e) => Directory(0)[e] = ptes[0][e]
      BY DEF Directory, Mapped, Blank
    <2>7. ASSUME InFirst', NEW v \in Vpns, v \in Index
          PROVE  /\ Mapped(0, v)' <=> granted'[v] # {}
                 /\ Mapped(0, v)' => (ptes'[0][v].writable <=> "w" \in granted'[v])
      <3>1. InFirst /\ vpn \in Index /\ vpn % N = vpn
        BY <2>4, <2>7, <1>2
      <3>2. CASE v = vpn
        <4>1. granted'[v] = mode
          BY <1>1, <2>2, <3>2 DEF TypeOK
        <4>2. ptes'[0][v] = new
          BY <2>5, <2>7, <3>1, <3>2
        <4>3. new.valid /\ (new.writable <=> "w" \in mode)
          OBVIOUS
        <4> HIDE DEF new
        <4> QED BY <4>1, <4>2, <4>3, <2>5, <1>4 DEF Mapped
      <3>3. CASE v # vpn
        <4>1. granted'[v] = granted[v]
          BY <1>1, <2>2, <3>3 DEF TypeOK
        <4>2. ptes'[0][v] = Directory(0)[v]
          BY <2>5, <2>7, <3>1, <3>3
        <4>3. /\ Mapped(0, v) <=> granted[v] # {}
              /\ Mapped(0, v) => (ptes[0][v].writable <=> "w" \in granted[v])
          BY <1>1, <2>7, <3>1 DEF EntriesTellGrants
        <4>4. Mapped(0, v)' <=> Directory(0)[v].valid
          BY <2>5, <4>2 DEF Mapped
        <4> QED BY <4>1, <4>2, <4>3, <4>4, <2>6, <2>7
      <3> QED BY <3>2, <3>3
    <2> QED BY <2>3, <2>7 DEF GrantInv, EntriesTellGrants
  <1>5. CASE mode # {} /\ ~Translates({"r"}, vpn) /\ ~CanMap(vpn)
    <2>1. /\ ptes' = [ptes EXCEPT ![0] = Directory(0)]
          /\ present' = [present EXCEPT ![0] = TRUE]
          /\ pc' = "exit" /\ last' = Ended("full", vpn, mode, FALSE)
          /\ mapcounts' = mapcounts /\ granted' = granted
      BY <1>1, <1>5 DEF Alloc
    <2>2. \A e \in Index : /\ Mapped(0, e)' <=> Mapped(0, e)
                           /\ Mapped(0, e) => ptes'[0][e] = ptes[0][e]
      BY <1>1, <1>2, <1>3, <2>1 DEF Mapped, Directory, Blank, TypeOK
    <2>3. EntriesTellGrants'
      BY <1>1, <2>1, <2>2 DEF EntriesTellGrants, InFirst
    <2>4. ASSUME vpn \in Index PROVE FreeFrames' = {}
      <3>1. ~(present[0] /\ ptes[0][vpn].valid)
        BY <1>2, <1>5, <2>4 DEF Translates
      <3>2. ~Directory(0)[vpn].valid
        BY <1>2, <2>4, <3>1 DEF Directory, Blank
      <3>3. FreeFrames = {}
        BY <1>1, <1>2, <1>5, <2>4, <3>2 DEF CanMap
      <3> QED BY <2>1, <3>3 DEF FreeFrames
    <2> QED BY <2>1, <2>3, <2>4 DEF GrantInv, FullIsLast, FullMeansFull, Ended
  <1>6. CASE mode = {} \/ Translates({"r"}, vpn)
    <2>1. /\ UNCHANGED <<present, ptes, mapcounts, granted>>
          /\ last'.op # "full"
      BY <1>1, <1>6 DEF Alloc, Ended, GrantInv, FullIsLast
    <2> QED BY <1>1, <2>1 DEF GrantInv, FullIsLast, EntriesTellGrants, InFirst, Mapped
  <1> QED BY <1>4, <1>5, <1>6

LEMMA GrantFree ==
    ASSUME IInv, GrantInv, NEW vpn \in Vpns, Free(vpn)
    PROVE  GrantInv'
  <1>1. /\ TypeOK /\ EntriesTellGrants /\ OnlyFirstDirectory /\ OuterIndex(vpn) = 0
        /\ 0 \in Index /\ vpn \div N \in Index
    BY OuterIndexIsZero, VpnSplit, FirstIndices DEF IInv, GrantInv
  <1>2. last'.op # "full" /\ present' = present
    BY DEF Free, Ended
  <1>3. CASE ~Translates({"r"}, vpn)
    <2>1. UNCHANGED <<ptes, granted>>
      BY <1>3 DEF Free
    <2> QED BY <1>1, <1>2, <2>1
            DEF GrantInv, FullIsLast, EntriesTellGrants, InFirst, Mapped
  <1>4. CASE Translates({"r"}, vpn)
    <2>1. vpn \in Index /\ vpn % N = vpn
      BY <1>1, <1>4, FirstIndices DEF Translates, OnlyFirstDirectory
    <2>2. /\ ptes' = [ptes EXCEPT ![0][vpn] = Blank]
          /\ granted' = [granted EXCEPT ![vpn] = {}]
      BY <1>1, <1>4, <2>1 DEF Free
    <2>3. InFirst' => InFirst
      BY <1>1, <2>1, <2>2 DEF InFirst, TypeOK
    <2>4. \A v \in Index : ptes'[0][v] = IF v = vpn THEN Blank ELSE ptes[0][v]
      BY <1>1, <2>1, <2>2 DEF TypeOK
    <2>5. \A v \in Vpns : granted'[v] = IF v = vpn THEN {} ELSE granted[v]
      BY <1>1, <2>2 DEF TypeOK
    <2>6. EntriesTellGrants'
      BY <1>1, <1>2, <2>3, <2>4, <2>5 DEF EntriesTellGrants, Mapped, Blank
    <2> QED BY <1>2, <2>6 DEF GrantInv, FullIsLast
  <1> QED BY <1>3, <1>4

LEMMA GrantStep == IInv /\ GrantInv /\ [Next]_vars => GrantInv'
  <1> SUFFICES ASSUME IInv, GrantInv, [Next]_vars PROVE GrantInv'
    OBVIOUS
  <1>1. ASSUME /\ UNCHANGED <<present, ptes, mapcounts, granted>>
               /\ \/ last'.op # "full"
                  \/ last' = last /\ pc = "command"
                  \/ last' = last /\ pc = "freeing"
                  \/ last' = last /\ pc' = pc
        PROVE  GrantInv'
    BY <1>1 DEF GrantInv, FullIsLast, FullMeansFull, FreeFrames, EntriesTellGrants,
                InFirst, Mapped
  <1>2. ASSUME NEW vpn \in Vpns \cup {N * N}, NEW mode \in Mode, Access(vpn, mode)
        PROVE  GrantInv'
    <2>1. /\ UNCHANGED <<present, ptes, mapcounts, granted>> /\ pc = "command"
          /\ last'.op # "full" \/ last' = last
      BY <1>2 DEF Access, Ended
    <2> QED BY <2>1, <1>1
  <1>3. ASSUME NEW vpn \in Vpns, NEW mode \in Mode, Alloc(vpn, mode) PROVE GrantInv'
    BY <1>3, GrantAlloc
  <1>4. ASSUME NEW vpn \in Vpns, Free(vpn) PROVE GrantInv'
    BY <1>4, GrantFree
  <1>5. CASE FreeScan \/ Exit \/ UnknownCommand
    BY <1>5, <1>1 DEF FreeScan, Exit, UnknownCommand
  <1>6. CASE UNCHANGED vars
    BY <1>6, <1>1 DEF vars
  <1> QED BY <1>2, <1>3, <1>4, <1>5, <1>6 DEF Next

(* While the pages that were allocated are all of the first directory, an  *)
(* access succeeds exactly when its page is allocated, and for writes when *)
(* it was allocated for them: nothing an alloc or a free of another page   *)
(* does shows.                                                             *)
THEOREM FirstDirectoryIsExact == Spec => []FirstDirectoryExact
  <1>1. ASSUME IInv, GrantInv, InFirst, NEW vpn \in Vpns, NEW m \in {"r", "w"}
        PROVE  Translates({m}, vpn) <=>
                 granted[vpn] # {} /\ (m = "w" => m \in granted[vpn])
    <2>1. TypeOK /\ EntriesTellGrants /\ OnlyFirstDirectory /\ vpn \div N \in Index
      BY <1>1, VpnSplit DEF IInv, GrantInv
    <2>2. CASE vpn \in Index
      <3>1. vpn \div N = 0 /\ vpn % N = vpn
        BY <2>2, FirstIndices
      <3>2. Translates({m}, vpn) <=> Mapped(0, vpn) /\ (m = "w" => ptes[0][vpn].writable)
        BY <3>1, <1>1 DEF Translates, Mapped
      <3> QED BY <3>2, <2>1, <2>2, <1>1 DEF EntriesTellGrants
    <2>3. CASE vpn \notin Index
      <3>1. ~present[vpn \div N]
        BY <2>1, <2>3, FirstIndices DEF OnlyFirstDirectory
      <3>2. granted[vpn] = {}
        BY <1>1, <2>3 DEF InFirst
      <3> QED BY <3>1, <3>2 DEF Translates
    <2> QED BY <2>2, <2>3
  <1>2. IInv /\ GrantInv => FirstDirectoryExact
    BY <1>1 DEF FirstDirectoryExact, InFirst
  <1> QED BY <1>2, InitInv, NextInv, GrantInit, GrantStep, PTL DEF Spec

(* alloc_page says that the memory is full for a page of the first         *)
(* directory only when every frame is in use, whatever pages alias there.  *)
THEOREM FullIsFull == Spec => []FullMeansFull
  <1>1. GrantInv => FullMeansFull
    BY DEF GrantInv, FullIsLast, FullMeansFull
  <1> QED BY <1>1, InitInv, NextInv, GrantInit, GrantStep, PTL DEF Spec
================================================================================

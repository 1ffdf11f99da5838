---------------------------------- MODULE VM -----------------------------------
(***************************************************************************)
(* The virtual memory simulator of OS-pa3: the MMU and the command loop of *)
(* vm.c over the page table operations of pa3.c.  The two-level page table *)
(* has N entries per level (16 in vm.h), so virtual page numbers are       *)
(* 0 .. N*N-1.  In this repository lookup_tlb() finds nothing and           *)
(* insert_tlb() enters nothing, so that -t only prints more;               *)
(* switch_process() does nothing and handle_page_fault() always refuses:   *)
(* there is one process, and an access that does not translate fails.      *)
(*                                                                         *)
(* An access mode is a set of "r" and "w" (RW_READ, RW_WRITE).             *)
(***************************************************************************)
EXTENDS Integers, FiniteSets

CONSTANTS N,       \* vm.h: NR_PTES_PER_PAGE
          Frames,  \* vm.h: NR_PAGEFRAMES
          Vpns     \* the page numbers that commands name

ASSUME NAssumption == N \in Nat \ {0}
ASSUME FramesAssumption == Frames \in Nat
ASSUME VpnsAssumption == Vpns \subseteq 0 .. N * N - 1

Index == 0 .. N - 1
Pfn == 0 .. Frames - 1
Mode == SUBSET {"r", "w"}
PTE == [valid : BOOLEAN, writable : BOOLEAN, pfn : Nat]
Blank == [valid |-> FALSE, writable |-> FALSE, pfn |-> 0]

VARIABLES
    present,    \* which directories of the page table exist (are not NULL)
    ptes,       \* the entries, by directory and index
    mapcounts,  \* for each page frame, the number of mappings
    pc,         \* "command", "freeing" (the loop of free_page), "exit", "aborted"
    slot,       \* the directory free_page looks through
    i,          \* its loop variable
    last,       \* the last command and how it ended
    granted     \* history: the mode each page was allocated with, {} if it was not

vars == <<present, ptes, mapcounts, pc, slot, i, last, granted>>

Ended(op, vpn, mode, ok) == [op |-> op, vpn |-> vpn, mode |-> mode, ok |-> ok]

Init == /\ present = [d \in Index |-> FALSE]
        /\ ptes = [d \in Index |-> [e \in Index |-> Blank]]
        /\ mapcounts = [f \in Pfn |-> 0]
        /\ pc = "command" /\ slot = 0 /\ i = 0
        /\ last = Ended("none", 0, {}, TRUE)
        /\ granted = [v \in Vpns |-> {}]

(* Mutant: the writable bit is not looked at. *)
TranslatesReadOnly(mode, vpn) == /\ present[vpn \div N]
                                 /\ ptes[vpn \div N][vpn % N].valid

(* Only a mode that is exactly "w" is held against the writable bit.       *)
Translates(mode, vpn) ==
    LET pte == ptes[vpn \div N][vpn % N]
    IN  /\ present[vpn \div N]
        /\ pte.valid
        /\ mode = {"w"} => pte.writable

(***************************************************************************)
(* access, read, write                                                     *)
(***************************************************************************)
(* assert((rw & RW_READ) ^ (rw & RW_WRITE)): the flags are 1 and 2, so the *)
(* exclusive or of both is 3 and the assertion fails for neither alone.    *)
(* The second assertion is that the page number is one of the table's.     *)
AccessAsserts(vpn, mode) == mode # {} /\ vpn < N * N

Access(vpn, mode) ==
    /\ pc = "command"
    /\ IF AccessAsserts(vpn, mode)
         THEN /\ last' = Ended("access", vpn, mode, Translates(mode, vpn))
              /\ UNCHANGED pc
         ELSE pc' = "aborted" /\ UNCHANGED last
    /\ UNCHANGED <<present, ptes, mapcounts, slot, i, granted>>

(***************************************************************************)
(* alloc                                                                   *)
(***************************************************************************)
(* "if (!vpn) outer_index = vpn / NR_PTES_PER_PAGE": always directory 0.   *)
OuterIndex(vpn) == IF vpn = 0 THEN vpn \div N ELSE 0

FreeFrames == {f \in Pfn : mapcounts[f] = 0}
(* Mutant: the search starts from the last frame. *)
IsLargest(f) == f \in FreeFrames /\ \A g \in FreeFrames : g <= f

IsSmallest(f) == f \in FreeFrames /\ \A g \in FreeFrames : f <= g

(* A directory is created, with blank entries, even if no frame is free.   *)
Directory(d) == IF present[d] THEN ptes[d] ELSE [e \in Index |-> Blank]

(* Mutant: the mapping is not counted. *)
MapUncounted(vpn, mode, f) ==
    LET d == OuterIndex(vpn)
    IN  /\ ptes' = [ptes EXCEPT ![d] = [Directory(d) EXCEPT ![vpn % N] =
                      [valid |-> TRUE, writable |-> "w" \in mode, pfn |-> f]]]
        /\ UNCHANGED mapcounts

Map(vpn, mode, f) ==
    LET d == OuterIndex(vpn)
    IN  /\ ptes' = [ptes EXCEPT ![d] = [Directory(d) EXCEPT ![vpn % N] =
                      [valid |-> TRUE, writable |-> "w" \in mode, pfn |-> f]]]
        /\ mapcounts' = [mapcounts EXCEPT ![f] = @ + 1]

(* Mutant: the last frame is never given out. *)
CanMapAllButLast(vpn) == /\ ~Directory(OuterIndex(vpn))[vpn % N].valid
                         /\ FreeFrames \ {Frames - 1} # {}

CanMap(vpn) == /\ ~Directory(OuterIndex(vpn))[vpn % N].valid
               /\ FreeFrames # {}

(* A page that does not translate is mapped to the smallest free frame; a  *)
(* failure ends the command loop.                                          *)
Alloc(vpn, mode) ==
    /\ pc = "command"
    /\ \/ /\ mode # {} /\ ~Translates({"r"}, vpn) /\ CanMap(vpn)
          /\ \E f \in Pfn : IsSmallest(f) /\ Map(vpn, mode, f)
          /\ present' = [present EXCEPT ![OuterIndex(vpn)] = TRUE]
          /\ last' = Ended("alloc", vpn, mode, TRUE)
          /\ granted' = [granted EXCEPT ![vpn] = mode]
          /\ UNCHANGED pc
       \/ /\ mode # {} /\ ~Translates({"r"}, vpn) /\ ~CanMap(vpn)
          /\ LET d == OuterIndex(vpn)
             IN  /\ ptes' = [ptes EXCEPT ![d] = Directory(d)]
                 /\ present' = [present EXCEPT ![d] = TRUE]
          /\ last' = Ended("full", vpn, mode, FALSE)
          /\ pc' = "exit"
          /\ UNCHANGED <<mapcounts, granted>>
       \/ /\ mode # {} /\ Translates({"r"}, vpn)
          /\ last' = Ended("already", vpn, mode, FALSE)
          /\ pc' = "exit"
          /\ UNCHANGED <<present, ptes, mapcounts, granted>>
       \/ /\ mode = {}
          /\ pc' = "aborted"
          /\ UNCHANGED <<present, ptes, mapcounts, last, granted>>
    /\ UNCHANGED <<slot, i>>

(***************************************************************************)
(* free                                                                    *)
(***************************************************************************)
(* Mutant: the entry stays valid. *)
FreeKeepsEntry(vpn) ==
    /\ pc = "command"
    /\ Translates({"r"}, vpn)
    /\ LET d == OuterIndex(vpn)
       IN  /\ mapcounts' = [mapcounts EXCEPT ![ptes[d][vpn % N].pfn] = @ - 1]
           /\ slot' = d /\ i' = 0 /\ pc' = "freeing"
    /\ last' = Ended("free", vpn, {}, TRUE)
    /\ granted' = [granted EXCEPT ![vpn] = {}]
    /\ UNCHANGED <<ptes, present>>

Free(vpn) ==
    /\ pc = "command"
    /\ LET d == OuterIndex(vpn)
       IN  \/ /\ Translates({"r"}, vpn)
              /\ mapcounts' = [mapcounts EXCEPT ![ptes[d][vpn % N].pfn] = @ - 1]
              /\ ptes' = [ptes EXCEPT ![d][vpn % N] = Blank]
              /\ slot' = d /\ i' = 0 /\ pc' = "freeing"
              /\ last' = Ended("free", vpn, {}, TRUE)
              /\ granted' = [granted EXCEPT ![vpn] = {}]
           \/ /\ ~Translates({"r"}, vpn)
              /\ last' = Ended("free", vpn, {}, FALSE)
              /\ UNCHANGED <<ptes, mapcounts, pc, slot, i, granted>>
    /\ UNCHANGED present

InUse(pte) == pte.valid \/ pte.pfn # 0

(* The search for an entry in use, before the directory is given up: the   *)
(* loop variable is never incremented, so the search ends at the first     *)
(* entry or not at all, and the directory is never freed.                  *)
FreeScan ==
    /\ pc = "freeing" /\ i < N
    /\ IF InUse(ptes[slot][i]) THEN pc' = "command" ELSE UNCHANGED pc
    /\ UNCHANGED <<present, ptes, mapcounts, slot, i, last, granted>>

(* The input ends, or an exit command is read.                             *)
Exit == /\ pc = "command"
        /\ pc' = "exit"
        /\ UNCHANGED <<present, ptes, mapcounts, slot, i, last, granted>>

(* A line of four words or more.  The other lines (switch, show,   *)
(* pages, tlb, help, a word that is no command) change nothing.            *)
UnknownCommand ==
    /\ pc = "command"
    /\ pc' = "aborted"
    /\ UNCHANGED <<present, ptes, mapcounts, slot, i, last, granted>>

(* N * N is the first number that is no page; alloc and free do not look.  *)
Next == \/ \E vpn \in Vpns \cup {N * N}, mode \in Mode : Access(vpn, mode)
        \/ \E vpn \in Vpns, mode \in Mode : Alloc(vpn, mode)
        \/ \E vpn \in Vpns : Free(vpn)
        \/ FreeScan \/ Exit \/ UnknownCommand

Spec == Init /\ [][Next]_vars

(* The program itself does not stop running; commands may stop coming.     *)
FairSpec == Spec /\ WF_vars(FreeScan)

(***************************************************************************)
(* Properties                                                              *)
(***************************************************************************)
(* The variables have the types of vm.h.                                   *)
TypeOK ==
    /\ present \in [Index -> BOOLEAN]
    /\ ptes \in [Index -> [Index -> PTE]]
    /\ mapcounts \in [Pfn -> Nat]
    /\ pc \in {"command", "freeing", "exit", "aborted"}
    /\ slot \in Index /\ i \in 0 .. N
    /\ granted \in [Vpns -> Mode]

Mapped(d, e) == present[d] /\ ptes[d][e].valid

(* A frame is counted as used exactly while an entry maps it, and then     *)
(* once: no frame backs two pages and none leaks.                          *)
MapcountsExact ==
    /\ \A d, e \in Index : Mapped(d, e) =>
         ptes[d][e].pfn \in Pfn /\ mapcounts[ptes[d][e].pfn] = 1
    /\ \A d, e, d2, e2 \in Index :
         Mapped(d, e) /\ Mapped(d2, e2) /\ ptes[d][e].pfn = ptes[d2][e2].pfn
           => d = d2 /\ e = e2
    /\ \A f \in Pfn : mapcounts[f] # 0 =>
         \E d, e \in Index : Mapped(d, e) /\ ptes[d][e].pfn = f

(* "allocate the page frame with the smallest pfn": the frames below an    *)
(* allocated one were in use.                                              *)
SmallestFrame ==
    [][ \A f \in Pfn : mapcounts[f] = 0 /\ mapcounts'[f] = 1
          => \A g \in Pfn : g < f => mapcounts[g] = 1 /\ mapcounts'[g] = 1 ]_vars

(* While every page that has been allocated is of the first directory, an  *)
(* access succeeds exactly when its page is allocated, and for writes if it *)
(* was allocated for them.                                                 *)
FirstDirectoryExact ==
    pc = "command" /\ (\A v \in Vpns : granted[v] # {} => v \in Index) =>
      \A vpn \in Vpns, m \in {"r", "w"} :
        Translates({m}, vpn) <=> granted[vpn] # {} /\ (m = "w" => m \in granted[vpn])

(* "Return -1 if all page frames are allocated": a full memory is reported *)
(* for a page of the first directory only when no frame is free.           *)
FullMeansFull == last.op = "full" /\ last.vpn \in Index => FreeFrames = {}

(***************************************************************************)
(* What comments, the README and the test traces promise and the code does *)
(* not do                                                                  *)
(***************************************************************************)
(* A page that was allocated and not freed can be read (testcases/alloc).  *)
AllocatedReadable ==
    pc = "command" => \A vpn \in Vpns : granted[vpn] # {} => Translates({"r"}, vpn)

(* Freeing a page comes to an end.                                         *)
FreeReturns == [](pc = "freeing" => <>(pc # "freeing"))
================================================================================

# Formal models of OS_Coding

The repository holds four independent C programs of an operating systems
course. This directory models their core logic in TLA+, checks it with TLC
on small instances and proves its safety properties with TLAPS for all
instances.

## 1. Inventory

| Component | Source | State | Operations | Model |
|---|---|---|---|---|
| Scheduler framework | `OS-pa2/sched.c`, `process.h`, `resource.h` | `ticks`, `current`, fork queue, ready queue, processes, 16 resources | one loop iteration per tick: fork, schedule, retire, dispatch, acquire, release | `SchedState`, `Sched` |
| Scheduling policies | `OS-pa2/pa2.c` | priorities, wait queues (through the callbacks) | `schedule`, `acquire`, `release`, `forked` of FIFO, SJF, SRTF, RR, Prio, PA, PCP, PIP | `SchedPolicies` |
| Selection loops | `OS-pa2/pa2.c` | a list and the cursors of a walk | the five kinds of walk over a list | `FirstBest`, `PickLoops` |
| Script loader | `OS-pa2/sched.c` `main`, `__load_script` | options, fork queue, the process being described | one per option and per line of the script | `LoadScript` |
| Virtual memory simulator | `OS-pa3/vm.c`, `pa3.c`, `vm.h` | page table, `mapcounts` | alloc, free, read, write, access, exit | `VM` (the TLB, fault and switch functions are empty in this repository) |
| Shell | `OS-pa1/pa1.c` | history list, working directory, child processes, a pipe | external commands, `cd`, `history`, `! n`, `\|`, `exit` | `Shell`, `ShellProperties` |
| Stack | `OS-pa0/stack.c`, `pa0.c` | a list of strings | push, pop, dump, the driver | `Stack` |
| Lists | `list_head.h` (four vendored copies of the same code) | links | every function of the doubly linked and the hash lists, and the loop macros of the former | `ListHead`, `ListMeaning`, `ListWalk`, `HList` |
| Tokenizer, `toy` | `parser.c`, `toy.c` | none | pure | not modelled |

How they interact: the four programs share only `list_head.h` and the
tokenizer. Inside OS-pa2 the framework calls the policy through
`struct scheduler`; both write the ready queue, the wait queues, `current`
and the fields of the processes, and each relies on what the other left
there (a process that is linked nowhere when it is queued, a status, an
age). That shared state is where the program can go wrong. Inside OS-pa3 the
MMU of `vm.c` reads the page table that `pa3.c` writes, and both compute the
place of a page in it by themselves.

What is hard in this code:

* OS-pa2 is one thread, but it simulates concurrent processes: which process
  asks, waits, runs or exits in which tick depends on the script and the
  policy, and the space of scripts is far larger than the seven test cases.
  A release makes the resource free and wakes one waiter, which has to ask
  again, so others can come in between. Circular waits are possible and end
  the simulation silently.
* Lists are intrusive and a process has one link for all queues. Loops swap
  entries under their cursor.
* Priorities and remaining times are cached in one field, `prio`, that
  several functions write.
* OS-pa3 counts mappings per frame by hand, and finds a page by two
  computations that have to agree.
* In OS-pa1 three processes share a pipe; who closes which end when decides
  whether the right command ever sees the end of its input, and the middle
  process waits for the left one before it starts the right one. `! n` calls
  itself on recorded `!` lines.
* `list_head.h` checks nothing: what an entry may be used for depends on
  what was done to it before, and its loops run over lists that their body
  changes.
* The loader takes the lines of a script in any order, and looks at some of
  the mistakes only.

`PROJECT.json` lists the hazards at their lines with the properties that
would catch them.

## 2. Modules

| Module | What it is |
|---|---|
| `SchedState` | Constants with their assumptions, variables and fields of OS-pa2. |
| `FirstBest` | "The first entry with the largest / smallest key": what the selection loops compute. |
| `SchedPolicies` | The callbacks of the eight policies as actions. |
| `Sched` | The framework: composes the callbacks with its own steps; `Next`, `Spec`, `FairSpec`. |
| `SchedProperties` | Kinds of scripts, type invariant, safety, policy and liveness properties. |
| `ProcessLife` | Abstract specification: one CPU, exclusive resources, processes that are born, run, block and exit, with no policy, queue or tick. |
| `SchedRefinement` | The mapping under which `Sched` implements `ProcessLife`. |
| `MCSched` | Script spaces for TLC. |
| `PickLoops` | The five selection loops, one iteration per step. |
| `VM` | The virtual memory simulator. |
| `ListHead` | The functions of `list_head.h` on a memory of `next` and `prev` links; the calls that their comments allow. |
| `ListMeaning` | Each function as an operation on sequences, and that the links do what the sequences say. |
| `ListWalk` | The loop macros, one expression of the `for` per step, with a body that changes the list. |
| `HList` | The hash lists: one link forward and the address of the link that leads back. |
| `Stack` | The stack of OS-pa0 over `ListHead`, and its driver. |
| `LoadScript` | The start of OS-pa2 over `ListHead`: options, then the script line by line. |
| `MCLists` | One instance of the six modules above. |
| `Shell` | The shell, the child it forks and the child of that, with the pipe between the two. |
| `ShellProperties` | What a user may rely on. |
| `MCShell` | Command lines for TLC. |
| `SeqLemmas` | Lemmas on lists: what appending and detaching do to the order and the set of the entries; and that a set of numbers has a least one. |
| `SchedProofs` | What the callbacks of all policies have in common; types, queues, freed memory, statuses, wake-ups and turns of `Sched` for every script. |
| `SchedPolicyProofs` | What a sound script adds: owners, assertions, priorities, who waits and who is left; then aging, and the refinement of `ProcessLife`. |
| `PickLoopsProofs` | The selection loops pick what `FirstBest` says, for lists of every length. |
| `VMProofs` | The invariants of `VM`, for every size. |
| `ListProofs` | The rings stay whole under every call, and every call means what its comment says, for any number of lists and entries. |
| `ListUseProofs` | What is built on the lists and beside them: the stack of OS-pa0 is a stack; the loops visit what they should; the loader builds what the script says; every call of a hash list means what its name says. |
| `ShellProofs` | The safety properties of the shell for any lines, sessions and pipes. |

### Correspondence with the code, OS-pa2

`pc` cuts an iteration of `__do_simulation` into the calls it makes:

    fork -> retire -> dispatch -> acquire -> release -> fork ...

`Fork` is one iteration of `__fork_on_schedule`, `Schedule` the call of
`sched->schedule()` with the assignment to `prev`, `Retire` lines 387-401 of
`sched.c`, `Quit`, `Idle` and `Dispatch` the three ways on from there,
`Granted`, `Refused` and `Progress` the loop of `__run_current_acquire` and
what follows it, `KeepHolding`, `Release` and `EndTick` the loop of
`__run_current_release`. A failing `assert` leads to `pc = "aborted"`.
A struct field is a function from processes (`age`, `prio`, `status`, ...)
or from resources (`owner`, `waitqueue`); a list is the sequence of its
entries, so `Attached(p)`, the model of `!list_empty(&p->list)`, says that
`p` is in some sequence. `pid`, `lifespan`, `prio_orig` and `__starts_at`
never change and are read from `script`. `wanted` is a history variable.

`sched` (the command line option) and `script` (the file) are chosen in the
initial state. The atomic steps are finer than they need to be for one
thread; they let the properties be evaluated between any two calls.

The walks over lists that pick an entry are one step in `SchedPolicies`.
That this is right is not obvious: one walk swaps its best entry with its
cursor, one nests a second walk, one re-links the list it walks.
`PickLoops` models the walks as written and shows that they come out with
`FirstMax`, `FirstMin` or `FirstBelow` of `FirstBest`, the operators
`SchedPolicies` uses.

Abstractions: `ticks` stops at `TickCap`, which no start of a process
exceeds, so every comparison `__starts_at <= ticks` comes out as in the
code; `NR_RESOURCES` is the 16 of the code, whose ids are `0 .. NR_RESOURCES - 1`;
`UINT` stands for 2^32 and is larger than any age or priority that
arises except when a subtraction goes below zero, where the model wraps
around like the code; `MAX_PRIO` and `MAX_LIFESPAN` are parameters.

### Correspondence with the code, OS-pa3

`Access`, `Alloc` and `Free` are the commands of `__do_simulation` in
`vm.c` with all they call (`__translate`, `alloc_page`, the first part of
`free_page`); a command that ends the loop sets `pc` to "exit", a failing
assertion to "aborted". `FreeScan` is one iteration of the loop at the end
of `free_page`. The size of the table (16), the number of frames (128) and
the page numbers in use are parameters. With `-t` the program only prints
more, because `lookup_tlb` finds nothing and `insert_tlb` enters nothing;
there is one process, because `switch_process` is empty. `UnknownCommand` is
a line of more than three words, whose assertion stops the program; `read` and
`write` are `Access` with one mode. `granted` is a history variable.

### Correspondence with the code, `list_head.h`

An object (a head or the `struct list_head` in an entry) is an address; the
memory `mem` gives each its `next` and `prev`, which may hold a poison value.
Every function is an operator from memories to memories of the same name
(`AddBetween`, `JoinOver`, `Unlink`, `CutAfter` and `SpliceBetween` are the
internal functions with `__`), assignment by assignment. The actions call
them with the arguments that the comments allow, which is a matter of the
state of an object: `Live` (its neighbours point back), `Linked` (with
others), `Unused` (new, deleted, replaced or alone). A list is what `Follow`
meets from its head, as `list_for_each` would. The list that a cut fills may
hold entries, which are then lost (`Lost`): they keep links into lists that do
not lead to them any more. As with an entry that was never initialised, whoever
takes one again writes both its links before they are read, so `Forget` gives
them the poison values. All else is as the functions leave it.

`ListWalk` does not list the fourteen macros; it is one loop with the three
choices in which they differ: the field followed, whether the next entry is
kept (`_safe`), and where the loop begins (at the head, `_continue`,
`_from`). `Body` is what the comments allow a body to do, `BodyRemovesNext`
the use of `list_safe_reset_next`. The loops over hash lists are not modelled
beyond the walk itself (`HFollow`): those that continue, start at an entry or are
safe have no definition of their own. `HList` has the places an entry can be
linked from (`first` of a head, `next` of an entry) as addresses, which is
what `pprev` holds.

### Correspondence with the code, OS-pa0 and the loader of OS-pa2

`push_stack`, `pop_stack` and `dump_stack` are the functions; `step` is the
loop of `main` that runs. `malloc` gives any entry that is not in use, so an
entry can be used again, and `pushed` is a history variable. In `LoadScript`
an action is one option of the command line or one line of the file; a
failing assertion sets `stage` to "aborted", writing through the null pointer
`p` to "crashed", an unknown word to "rejected". `opts` and `file` record what
was read. What `LoaderLoads` says of the fork queue is what `Sched` takes as
its initial state.

### Correspondence with the code, OS-pa1

`TypeLine` is a round of the loop of `main` up to the point where the shell
waits or prompts again: `append_history`, the tests of `run_command`, the
replay (`Replayed` is where the recursion of `num_to_tokens` ends, `Replays`
whether it ends at all), `cd`, and the `fork`. `ShellWait` is its `wait`. The
child takes `MiddleExec` without a pipe, and with one `MiddlePipe`,
`MiddleWait` and `MiddleExecRight`; the child of the child takes `LeftExec`.
A program is what the shell can tell of it: whether `execvp` finds it, how
much it writes and whether it reads its input. `LeftWrite`, `LeftEnds`,
`RightReads` and `MiddleEnds` are the programs and the pipe, which are not in
this repository. A line is its first word, the number and the directory after
it, and the programs it names: the words themselves are the tokenizer's.
Two undefined behaviours are choices (`LeftOutcomes`): the argument list of
the left command has no end mark (`pa1.c:112`), so `execvp` may fail; after a
replay the words of the left command lie in the buffer that was freed
(`pa1.c:235`) and that the child allocates again for the joined words, so
it may run with other arguments and write something else.

## 3. Runs

Every passing run explores its instance completely. Deadlock is not checked
because the programs end (`done`, `aborted`, `exit`).

| Run | Instance | Shows |
|---|---|---|
| `sched_three` | 3 processes, 2 resources, 8 policies, fair: all priorities 0..2 with one resource at a time; nested, hand-over-hand and crossed requests; long and uneven lives under PA and SRTF | `OwnerHolds`, `NoAbort`. `NoLostWakeup`: a free resource is waited for only while somebody who was woken for it has yet to ask again. `StrandedByCycle`: when the simulation ends, whoever has not finished waits for an unfinished owner; `OrderedFinish`: with ordered requests all finish. `AgingBound`: with N processes, effective priorities stay below the highest original priority plus N, which is why nobody starves. `SrtfKey`: the cached remaining time is right whenever it is compared. `NeverWaits`: under FIFO and SJF, and under PCP below its ceiling, nobody ever waits. `NoInversion`: under PIP, one resource at a time, no process runs below one that waits. `PrioGivenBack`: a raised priority does not outlive the holding. `SwitchedEachTick`: equals are switched every tick. `Termination`, `WaitersFinish`; `ImplementsProcessLife`. |
| `sched_rough` | 2 processes, 2 resources, scripts with every defect the loader lets through, 8 policies | `TypeOK`; `ListIntegrity` and `NoUseAfterFree` hold even so, because the assertions stop the program in time; `NoLostProcess`: only a process with lifespan 0, or one that PCP refuses, is ever forgotten. |
| `pick_loops` | lists of up to 4 keys out of 0..3, `MAX_LIFESPAN` 2 | `PicksFirstMax`, `PicksFirstMin`, `PicksFirstBelow`, `LoopsEnd`. |
| `vm` | 3 x 3 table, 2 frames, pages 0, 1, 2, 4 | `TypeOK`, `MapcountsExact`, `SmallestFrame`. `FirstDirectoryExact`: while only pages of directory 0 are allocated, a page translates exactly when it should. `FullMeansFull`: such a page is refused only when every frame is in use, whatever else was allocated. |
| `lists` | 2 heads, 3 entries; 5 lines of a script | `Rings`: no link of an object in use leads to one that is not, and links agree both ways. `ListCallsMean`, `HListCallsMean`: in every state that calls can reach, every call does to the lists what its comment says. `LoopsVisit`: every entry ahead is visited once, in order, although the body deletes or moves it. `StackIsStack`. `LoaderLoads`: the fork queue is what the script describes, read as a whole, and a script that cannot be taken stops the loader in the line it cannot take. |
| `shell` | 3 lines typed, each of 26 kinds; a pipe of 2 units; fair | `Sane`: at the prompt no child and no end of a pipe is left. `AllCarried`: the right command starts only when all the left one writes is in the pipe. `Returns`: the prompt comes back unless the left command writes more than the pipe holds. `EndsAsTyped`, `BackwardReplay`: the shell ends at a typed `exit`, or crashes at a `!` whose references lead nowhere, and never otherwise. `CwdFromHistory`: the directory is that of the last successful `cd`, typed or replayed. `RunsAsRecorded`: what runs is what was typed or what the references of a `!` lead to, except on the left side of a replayed pipe. |

Six runs show a comment, document or test trace contradicted by the code:

| Run | The text | The code |
|---|---|---|
| `bug_srtf` | `pa2.c:340` "Shortest Remaining Time First" | preempts for the first shorter process in the queue and then stops looking |
| `bug_max_prio` | `README.md:64` "boosted up to `MAX_PRIO`" | the aging loop after `pick_next` has no limit |
| `bug_pcp_queue` | `pa2.c:869` a blocked process is "attached to the waitqueue" | `pcp_acquire` queues nobody: a refused process is lost |
| `bug_pip_inherit` | `README.md:68-70` priority "set properly when it releases a resource" with "different resources held" | `pip_release` resets it to the original priority |
| `bug_vm_read` | `README.md:22` and `testcases/alloc` use page 16 | it is entered in directory 0 and looked for in directory 1 |
| `bug_vm_free` | `testcases/free:9` frees page 0 and goes on | `free_page` never returns when entry 0 of the directory is blank |

Further divergences seen while modelling; the models contain the behaviour,
and the kinds of scripts in `SchedProperties` say where the properties stop:

* A woken waiter has to ask again (`pa2.c:112-139`), so a later request of a
  process that runs first is served before it, against `pa2.c:65` ("in the
  requesting order") and `README.md:52`.
* The owner's second request for a resource is granted (`pa2.c:558`), and the
  second release fails the assertion of `pa2.c:567` (scripts without
  `NoReacquire`); under FCFS the process waits for itself.
* SJF and SRTF never pick a process longer than `MAX_LIFESPAN` and the loop
  idles for ever (`pa2.c:238-257`).
* A page whose index in directory 0 is taken is refused as "memory is full".
* Under PCP a process whose own priority is `MAX_PRIO` competes with the owner
  of a resource, and a release drops the priority to the original one although
  another resource is held (`pa2.c:882-927`): either way a request can be
  refused, and who is refused is lost (`bug_pcp_queue`). `UnderCeiling` is the
  kind of scripts in which this cannot happen.
* `access n rw` passes the assertion that forbids it (`vm.c:157`).
* A pipe carries no more than it can hold: the middle process waits for the
  left command (`pa1.c:125`) before anybody reads, so a left command with
  more output blocks, and the shell with it, against `OS-pa1/README.md`
  ("All output of the first command should be carried to the input of the
  second command"). `Returns` excludes exactly this case.
* `! n` for an `n` that is not recorded, for an empty line or in a circle
  crashes the shell (`pa1.c:220-235`); a replayed `exit` is run as a program.
* The words of a replayed command lie in freed memory (`pa1.c:235`); the child
  that runs the left side of a pipe allocates it and overwrites words it has yet
  to join, so `echo a b | cat` prints "b" when it is replayed, against
  `OS-pa1/README.md:114` ("execute n-th command in the history").
  `RunsAsRecorded` excludes exactly this command.

### Bounds

Three processes are the smallest number with an owner, a waiter and a third
that comes between them. The long lives, up to 6 ticks, let priorities grow
past the original ones and be reset several times.
Two resources are what a circular wait, hand-over-hand locking and a second
held resource need. Priorities 0..2 give every order of three, ties
included; lives of 3 ticks let a process be preempted before, while and
after it holds a resource, and starts at 0 and 1 put arrivals before and
after an acquisition. In `pick_loops` four entries suffice for a swap back,
a tie before and a tie after the best. In `vm` two frames run out, and page
4 collides with page 1 in directory 0; accesses also name page 9, the first
that is none. Two heads and three entries give empty, single and longer
lists, a target for moves and splices, and an entry between two others; the
bodies of loops can add and remove. The driver of the stack has 3, 2, 2, 1
and 2 for its 4, 3, 4096, 4088 and 1000, which keeps their order and lets
the last loop end by an empty stack. Five lines are a complete description
with two properties, or one that is dropped and another one. Three lines
typed are a command, a reference to it and a reference to that; `Capacity`
is 2 and the programs write 2 (which fits) and 3 (which does not); the
history is otherwise bounded by `MaxHistory` only.

### Fairness

`FairSpec` of `Sched` is weak fairness of the whole next-state relation: the
program is one thread and none of its steps waits for anything outside.
`FairSpec` of `PickLoops` is the same for a loop. `FairSpec` of `VM` is weak
fairness of `FreeScan` alone, the one step the program takes by itself; the
commands come from a user, who may stop. `FairSpec` of `Shell` is weak
fairness of `ShellWait`, `Middle` and `Left`, each a process of its own that
the operating system schedules: a wait whose child has ended returns, a
program that can go on does, and a program ends when it has written all and
read all that it reads. What is typed is under no fairness.

## 4. Proofs

The theorems hold for every value of the constants that satisfies their
assumptions: for OS-pa2 `ProcsAssumption` (`NULL` is no process),
`FileOrderAssumption` (the file describes each process once),
`SchedsAssumption` (the options select among the eight policies),
`ScriptsAssumption` (a script gives each process a description) and
`NumbersAssumption` (the limits and the number of resources are natural
numbers, `UINT` is positive).
No property of scripts is assumed. Where a property is about sound scripts,
this is its own antecedent; the other theorems on OS-pa2 also speak of the
scripts that end in a failing assertion. For the lists it is
`AddrAssumption` (heads and entries are disjoint, and neither the poison
values nor `NULL` are among them) and `FiniteAssumption` (memory is finite), for
the hash lists the same of their heads, entries and fields (`HAssumption`,
`HFiniteAssumption`), for the loader `LoadAssumption` (the fork queue is a head),
for the stack `StackAssumption` (its list is a head, and `main()` does not pop
more of the first strings than it pushed), for the shell `ShellAssumption` (the types
of its constants) and `NoneAssumption` (`NONE`, for a line without a number,
is no number).

| Theorem | Property |
|---|---|
| `SchedProofs!TypeCorrect` | `TypeOK` |
| `SchedProofs!ListsIntact` | `ListIntegrity` |
| `SchedProofs!FreedIsForgotten` | `NoUseAfterFree` |
| `SchedProofs!SrtfKeyIsRemaining` | `SrtfKey` |
| `SchedProofs!NoWakeupIsLost` | `NoLostWakeup` |
| `SchedProofs!TurnsAreTaken` | `SwitchedEachTick`, an action property |
| `SchedPolicyProofs!OwnersHoldExactly` | `OwnerHolds` |
| `SchedPolicyProofs!NothingAborts` | `NoAbort` |
| `SchedPolicyProofs!RaisedOnlyWhileHolding` | `PrioGivenBack` |
| `SchedPolicyProofs!NobodyWaits` | `NeverWaits` |
| `SchedPolicyProofs!NobodyIsForgotten` | `NoLostProcess` |
| `SchedPolicyProofs!OnlyCyclesStrand` | `StrandedByCycle` |
| `SchedPolicyProofs!OrderedScriptsFinish` | `OrderedFinish` |
| `SchedPolicyProofs!NoPriorityInversion` | `NoInversion` |
| `SchedPolicyProofs!AgingIsBounded` | `AgingBound` |
| `SchedPolicyProofs!SimulatorImplementsLife` | `ImplementsProcessLife`, for simulations of sound scripts (under PCP: below the ceiling) |
| `PickLoopsProofs!FirstMaxPicked` | `PicksFirstMax` |
| `PickLoopsProofs!FirstMinPicked` | `PicksFirstMin` |
| `PickLoopsProofs!FirstBelowPicked` | `PicksFirstBelow` |
| `VMProofs!TypeCorrect` | `TypeOK` |
| `VMProofs!MapcountsAreExact` | `MapcountsExact` |
| `VMProofs!OnlyFirstDirectoryExists` | no directory but the first is ever created: the test of `alloc_page` is inverted |
| `VMProofs!AllocatesSmallest` | `SmallestFrame` |
| `VMProofs!FirstDirectoryIsExact` | `FirstDirectoryExact` |
| `VMProofs!FullIsFull` | `FullMeansFull` |
| `ListProofs!RingsStayWhole` | `Rings` |
| `ListProofs!OthersStayLinked` | `OneRetired`: a call puts at most one object out of use, or, if it is a cut, the entries of the one list that it overwrites |
| `ListProofs!EveryCallMeans` | `ListCallsMean` |
| `ListUseProofs!TheListIsAStack` | `StackIsStack` |
| `ListUseProofs!LoopsVisitAll` | `LoopsVisit` |
| `ListUseProofs!ScriptIsLoaded` | `LoaderLoads` |
| `ListUseProofs!EveryHCallMeans` | `HListCallsMean` |
| `ShellProofs!ShellIsSane` | `Sane` |
| `ShellProofs!PipeCarriesAll` | `AllCarried` |
| `ShellProofs!ShellEndsAsTyped` | `EndsAsTyped` |
| `ShellProofs!BackwardIsSafe` | `BackwardReplay` |
| `ShellProofs!CwdFollowsHistory` | `CwdFromHistory` |
| `ShellProofs!RecordedRuns` | `RunsAsRecorded` |

*Scheduler, the callbacks.* The eight policies are reduced to four shape lemmas
(`SchedScheduleShape`, `GrantShape`, `RefuseShape`, `ReleaseShape`): a
`schedule()` keeps the current process, takes an entry of the ready queue
(to which the current process may have been appended only when it is not
blocked), or finds none; a grant changes at most the owner; a refusal makes
the current process wait and queues it at most once; a release wakes at most
one waiter. The invariants then need one case per action of `Next` and look
at a policy only where the property is about it.

*Scheduler, every script* (`Inv`, then `AllInv`). Each part is inductive only
with what it relies on:

* `TypeInv` adds `SomebodyRuns`: in the acquire and release loops there is a
  current process.
* `ListInv` adds `WaitersWait` (who is on a wait queue has the status WAIT, so
  schedule() never puts it back into the ready queue) and `CurrentDetached`
  (from `schedule()` to the end of the tick the current process is on no
  list, so the refusal may link it into a wait queue). It relies on one
  assertion of the code, the one in `__exit_process` that the process is
  linked nowhere: a script may have a request at the end of a lifespan, and
  without the assertion a process could exit from a wait queue. It does not
  rely on the assertions of the `release()` callbacks.
* `FreeInv` adds `LiveUnfinished` (nothing a list or `current` leads to has
  exited), `OwnersHold` (who owns a resource has it in its holding list, so
  the assertion that this list is empty protects the owner field) and
  `PrevLeft` (the process that exits is not the one just picked, because
  `schedule()` looks at its age before it is retired).
* `LifeInv` says what the status of a process tells: only the process that has
  the CPU, or had it until this tick began, is RUNNING (`StatusInv`); who is
  queued at a resource was refused it last, and it is the first request that
  the process is due to make (`WaitersAsked`, `RefusedIsFirst`); who is to run
  again has time left (`TimeLeft`), and whoever has not finished is
  somewhere (`NobodyLost`, `PrevKept`). With it `NoLostWakeup` is inductive:
  the process that is woken, or that takes the resource it was woken for, is
  the one that property names.
* `SrtfInv` extends `SrtfKey` to the process that was chosen and has not run
  yet, which a refusal may queue.
* `AgedInv` bounds aging: who has aged above the largest original priority is
  in the ready queue (`RaisedReady`), and of N processes at most N - k have
  climbed k steps above it (`FewRaised`), because before every step the best
  one is taken out and reset. The step is an argument on cardinalities.

*Scheduler, sound scripts* (`SoundInv`, `PrioInv`). That a process asks for
nothing it holds, and that it holds nothing when its lifespan is over, are
facts about its script and its age; the code tests neither. The inductive
invariant relates the two lists to the script: what is left to acquire is
still to come and in the order of the script (`PendingInv`); every entry of
the holding list was written in the script as a request whose duration has
been counted down once for each tick since (`HoldingInv`, with `Origin` and
`Lag` for the tick that is under way). Two entries for one resource would
then be two requests that overlap. `OwnersAgree`, `NoAbort` and
`PrioGivenBack` follow. It is TLC that showed which scripts are sound for PCP:
`SingleHold` alone does not keep `NeverWaits`, because a process whose
priority is `MAX_PRIO` by itself competes with the owner.

*Scheduler, policies.* `CalmInv` is why nobody waits under FIFO, SJF and PCP:
the owner of a resource is the process that has the CPU (`OwnerRuns`), and
under PCP it runs at `MAX_PRIO` (`AtCeiling`). `EndState` is what is left when
the loop ends: only wait queues have entries, so by `NoLostWakeup` whoever has
not finished waits for an owner who waits too. With ordered requests the
resource that this owner waits for has the larger id, which cannot go on for
ever (`LeastNumber` picks the last one, in place of an induction). `PipInv`
says that nobody in the ready queue is above the process chosen for the tick
(`MaxRuns`), and that no waiter is above the owner of the resource or, while
it is free, the process that was woken for it (`Donated`).

*Refinement.* `RefineFork` to `RefineRelease` map each step to a step or a
stutter of `ProcessLife`. The hypothesis `Sound` of the theorem is needed:
with other scripts a process exits while it is owed a release, or an
assertion stops the program half way. The conclusion has no antecedent of
its own, so the theorem has the specification `SoundSpec`.

*Selection loops.* One invariant per loop says what the walk knows of the
entries it has passed. For the competition of `prio_schedule` it is a choice
of three: the best entry is above the current process and the first of its
kind; or it is as good as the current process, nothing passed is better, and
the walk is not over, because its last entry IS the current process and
sends it into the nested walk; or the nested walk has ended on the first
entry as good as the current process. Nothing bounds the lists: `MaxLen`
is any number.

*Virtual memory.* `MapcountsExact` is inductive only together with
`OnlyFirstDirectory`. `FirstDirectoryExact` needs to know what
an entry tells (`EntriesTellGrants`): as long as no page of another directory
was allocated, the entry of a page is valid while the page is allocated, and
writable when it was allocated for writing. `FullMeansFull` holds afterwards
too, because the command that reports it is the last one (`FullIsLast`).

*Lists.* The functions are compositions of
six surgeries (insert between neighbours, unlink, isolate, replace, cut,
splice); each has a lemma that says of which objects it changes the links,
that the rings are whole afterwards, and that no other object is put out of
use. A function is then one or two surgeries, and the conditions of an action
are what the first of them needs: this is where the comments of `list_head.h`
are used, for instance that the heads of a splice are not neighbours. For every
call but a cut this makes `Rings` inductive as it stands. A cut into a list that
holds entries needs more: that nothing in use but its own entries leads into that
list (`PartClosed`), which is a fact about whole lists. So `Rings` follows from the
stronger invariant of the next paragraph (`AlwaysMeant`).

*Lists, what the calls mean.* `Ring` says that a sequence is what is met from a
head along one field, and backwards along the other; `FollowRing` that
`Follow` then computes this sequence, by the least number for which its
recursion would differ. `Meant` relates a memory and a family of sequences,
one for each head in use: each is the ring of its head. Since the memory is
whole it is enough to follow the links forward (`ChainsMeant`), and an entry
met from a head is met at one place only (`OneSpot`). Each surgery takes a
memory that means `S` to one that means `S` with an entry inserted, removed,
replaced, or a run of entries moved (`InsertMeant` to `CutMeant`), and so does
each function (`CallMeant`). A cut into a list that holds entries is compared with the
same cut after that list was emptied and its entries forgotten (`Emptied`): both
write the same links (`CutForgets`), and what was forgotten is not met from any head
(`ForgottenLists`). The invariant `MeaningInv` is only that the memory
always means something; the questions (`list_empty`, `list_is_last` and their
like) and the reading backwards follow from it without a step.

*Stack.* `list_add` and `list_del` of the first entry append to this sequence and
take its last entry away (`PushRing`, `PopRing`), so that `EntriesInv`
relates list and history; `HeightInv` counts what `main()` has pushed and not
popped at each of its steps.

*Loops.* The body may change the list behind the cursor as it likes, so the
invariant `WalkInv` speaks of what lies ahead only: the entries still due are in
use and linked one to the next up to the head (`Ahead`), and the cursor, with the
loops that are safe the next one too, is where the count of visits says. That the
links lead back follows from `Rings`. A body that deletes, moves or inserts
changes one link ahead at most, and the lemmas on the surgeries say which; what
`list_safe_reset_next` repairs is the one that `BodyRemovesNext` takes out.

*Hash lists.* `Chain` says that a sequence is what is met from the field `first`
of a head, and that each entry points back to the place that leads to it;
`HMeant` relates a memory and one sequence for each head. A place that leads to an
entry is the one the entry points back to, so no entry is met twice (`HOneSpot`,
`HOnePlace`: a least number again), and this is why a deletion needs no head. One
part more is needed for the invariant `HMeaningInv`: an entry that is on no list,
and is initialised or made a fake, has no next one (`Loose`). Without it
`hlist_del` of a fake could write into another list. A call inserts an entry
into one sequence, takes it out, moves a whole list, or changes none
(`HInsertMeant`, `HRemoveMeant`, `HMoveMeant`, `HIdleMeant`).

*Loader.* `LoaderLoads` reads the file as a whole, the loader one line at a time.
The invariant says what the lines read so far come to, in three parts: which
lines stand in a description and what each line leads to (`ReadInv`); which
entries are in which ring, the process being described in its own only
(`PlaceInv`); and that the open description, like each one that is queued, has
what its lines say (`BuiltInv`). A line more changes nothing of what earlier
lines stand for (`InsideGrows`, `DescribedGrows`), and to the open description it
adds what it says (`DescribedNext`). The order of the `end` and `acquire` lines
is given by their ranks; that every rank is taken (`RanksTaken`) is what would
otherwise be an induction, and from it follows that a later line comes last in
the order (`InOrderNext`).

*Shell.* `MiddleInv` says for each state of the middle process what is left of
the others: while it waits it holds both ends of the pipe, so the left command
always has a reader and what it wrote is in the pipe; when the wait is over
nobody but the middle process holds a write end, so `MiddleExecRight` leaves
none, and the amount in the pipe plus what was read stays what was written.

*Shell, its history.* `EndsAsTyped` and `CwdFromHistory` speak of `Ends`, the
end of a chain of references without repetition, while `Shell` follows the
references as `num_to_tokens` does, one call for each. That the two agree
(`EndIsReplayed`, `ReplayEnds`) is an argument on the length of chains, with
`LeastNumber` where one would use an induction: a line that the calls reach
has a shortest chain, which repeats nothing and so is no longer than the
history. A reference that leads backwards to a line that is not empty has an
end (`BackwardEnds`: a first reference without one would refer to an earlier
one). Chains only look at earlier lines, so a line typed later changes nothing
of what the earlier ones stand for (`EarlierReplays`), and `EndInv` and
`CwdInv` need look only at the last line. What it is carried out as (`LastMeant`)
gives `RunsAsRecorded` too.

Every invariant used above was checked by TLC too, on the instances of the
runs that check the property it serves.

Only model-checked is liveness (`Termination`, `WaitersFinish`, `LoopsEnd`,
`Returns`), which is out of the prover's reach. Every invariant, the action
property and the refinement that the runs check are proved.

## 5. Not modelled

Printing (`dump_status`, `__show_pagetable`, `__briefing_process`, prompts)
changes no state. The tokenizer splits a line at white space, and `toy` prints
its arguments: both are pure, and the models begin with words. `lookup_tlb`,
`insert_tlb`, `handle_page_fault` and `switch_process` have no code to model.
Indices that run past an array (`resource_id >= 16` at `sched.c:249`,
`vpn >= 256` in `alloc` and `free` at `vm.c:115`) are undefined behaviour with
no outcome to choose from, and are not given to the models. Calls that fail
for lack of resources (`malloc`, `pipe`, `fopen`) are left out, `fork` is not.
The macros `list_entry` and `hlist_entry` are address arithmetic: an entry and
its link are one address in the models.

## 6. Plan

1. Core of OS-pa2 and OS-pa3, the lists with the programs built on them, and
   the shell: done (sections 2 to 4).
2. Proofs of every safety property, of the action property and of the
   refinement that the passing runs check: done (section 4).
3. Models: a tokenizer over sequences of character classes, if a property of
   one of its callers should come to depend on it.

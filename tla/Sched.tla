-------------------------------- MODULE Sched --------------------------------
(***************************************************************************)
(* Processes: the timer tick and schedule() of sched.c against fork() of   *)
(* fork.c and its two callers, kernel_entry (entry.c) and the shell's      *)
(* test_sched command (shell.c).                                           *)
(*                                                                         *)
(* There is one CPU.  Kernel code runs one step at a time and, once the    *)
(* shell has enabled interrupts, a tick may come between any two steps;    *)
(* the tick's handler itself is atomic.  "current" is never assigned: it   *)
(* is task 0 for ever, so only task 0's counter is ever decremented.       *)
(*                                                                         *)
(* As it is written the kernel never comes to the shell: kernel_entry goes *)
(* on only when fork() returns 0, and fork() returns a slot, 1 or more, or *)
(* -1.  "Readings" chooses whether its test is taken as it is written      *)
(* (FALSE), as it was meant (TRUE: fork() did not fail), or both; ticks    *)
(* and test_sched exist only under the second.                             *)
(*                                                                         *)
(* Left out: signals, sleep_on, wake_up and pause, which nothing in the    *)
(* kernel sends or calls, and the clock's jiffies and time_n.              *)
(***************************************************************************)
EXTENDS Integers, FiniteSets

CONSTANTS
    NR_TASKS,   \* slots of the task table
    Priority,   \* INIT_TASK's priority and counter, 15 in the code
    Readings,   \* of kernel_entry's test: FALSE as written, TRUE as meant
    NULL

ASSUME TasksAssumption == NR_TASKS \in Nat /\ NR_TASKS >= 2
ASSUME PriorityAssumption == Priority \in Nat /\ Priority >= 1
ASSUME ReadingsAssumption == Readings \subseteq BOOLEAN /\ Readings # {}
ASSUME NullAssumption == NULL \notin [state : {"running", "uninterruptible"}, counter : Int,
                                     priority : Nat, pid : Int, entry : {"none", "test_sched1", "test_sched2"}]

VARIABLES
    task,       \* the task table; a task is its state, counter, priority, pid
                \* and the address switch_to would resume it at (tss.reg01)
    ie,         \* interrupts are enabled
    pc,         \* what the kernel code executes next
    caller,     \* whose call of fork() that is
    nr,         \* fork's "pid": the slot it works on, or -1
    structs,    \* how many task_structs fork holds from kmalloc
    stale,      \* contents left in freed task_structs
    running,    \* the slot whose code the CPU executes
    overlap     \* the build gives switch_to's outputs its inputs' registers

vars == <<task, ie, pc, caller, nr, structs, stale, running, overlap>>

Slots == 0..(NR_TASKS - 1)
Entry == {"none", "test_sched1", "test_sched2"}
State == {"running", "uninterruptible"}
Task == [state : State, counter : Int, priority : Nat, pid : Int, entry : Entry]

InitTask == [state |-> "running", counter |-> Priority, priority |-> Priority,
             pid |-> 0, entry |-> "none"]
\* A task_struct in heap memory that was never used.
Blank == [state |-> "running", counter |-> 0, priority |-> 0, pid |-> 0, entry |-> "none"]

-----------------------------------------------------------------------------
(* schedule(): which task it chooses. *)

Runnable(tab, i) == tab[i] # NULL /\ tab[i].state = "running"

\* Mutant of Scan: a later slot with the same counter replaces the choice.
ScanLastOfEquals(tab) ==
    LET from[i \in 1..NR_TASKS] ==
            IF i = NR_TASKS THEN [c |-> -1, next |-> 0]
            ELSE IF Runnable(tab, i) /\ tab[i].counter >= from[i + 1].c
                 THEN [c |-> tab[i].counter, next |-> i]
                 ELSE from[i + 1]
    IN  from[1]

\* The loop over the slots from the last one down to slot 1.
Scan(tab) ==
    LET from[i \in 1..NR_TASKS] ==
            IF i = NR_TASKS THEN [c |-> -1, next |-> 0]
            ELSE IF Runnable(tab, i) /\ tab[i].counter > from[i + 1].c
                 THEN [c |-> tab[i].counter, next |-> i]
                 ELSE from[i + 1]
    IN  from[1]

\* Every task but task 0, asleep or not, gets a new slice.
Recalc(tab) ==
    [i \in Slots |-> IF i = 0 \/ tab[i] = NULL THEN tab[i]
                     ELSE [tab[i] EXCEPT !.counter = @ \div 2 + tab[i].priority]]

\* Mutant of Settled: the loop is left only with a counter above 0, and not
\* when no task can run, where c stays -1.
SettledUnlessPositive(tab) == IF Scan(tab).c > 0 THEN tab ELSE Recalc(tab)

\* The table schedule() chooses from.  It is recalculated when the best
\* counter is 0; runnable tasks then have their priority for a counter, so
\* that a second recalculation changes no runnable task.
Settled(tab) == IF Scan(tab).c # 0 THEN tab ELSE Recalc(tab)

\* The loop of schedule() never ends.
Endless(tab) == Scan(Settled(tab)).c = 0

-----------------------------------------------------------------------------
(* The timer tick: do_schedule, schedule and switch_to. *)

Ticked == [task EXCEPT ![0].counter = @ - 1]

\* Mutant of NewSlice: the slice that ended is not renewed.
NoNewSlice(tab) == tab
NewSlice(tab) == [tab EXCEPT ![0].counter = tab[0].priority]

\* switch_to leaves by "jr ra".  With the registers of inputs and outputs
\* shared, ra is the value it already had and nothing was switched; with
\* separate ones the CPU goes to the next task's reg01, in the middle of the
\* interrupt (interrupts stay off) and with nothing saved for the old task.
SwitchTo(next) ==
    IF overlap
    THEN UNCHANGED <<ie, pc, running>>
    ELSE ie' = FALSE /\ pc' = "switched" /\ running' = next

Tick ==
    /\ ie
    /\ IF Ticked[0].counter > 0
       THEN task' = Ticked /\ UNCHANGED <<ie, pc, running>>
       ELSE LET tab == NewSlice(Ticked)
            IN  IF Endless(tab)
                THEN /\ task' = Settled(tab)
                     /\ ie' = FALSE /\ pc' = "stuck" /\ UNCHANGED running
                ELSE /\ task' = Settled(tab)
                     /\ SwitchTo(Scan(Settled(tab)).next)
    /\ UNCHANGED <<caller, nr, structs, stale, overlap>>

-----------------------------------------------------------------------------
(* fork(): each step is one assignment a tick could see the effect of. *)

Step(from, to) == pc = from /\ pc' = to

\* find_empty_process; fork passes its failure on as -1.
Find ==
    LET free == {i \in Slots \ {0} : task[i] = NULL}
    IN  /\ IF free = {}
           THEN Step("find", "return") /\ nr' = -1
           ELSE Step("find", "alloc") /\ \E i \in free : nr' = i /\ \A j \in free : i <= j
        /\ UNCHANGED <<task, ie, caller, structs, stale, running, overlap>>

\* kmalloc succeeds, and the table gets the struct with whatever is in it.
Link ==
    /\ Step("alloc", "copy")
    /\ \E junk \in {Blank} \cup stale : task' = [task EXCEPT ![nr] = junk]
    /\ structs' = structs + 1
    /\ UNCHANGED <<ie, caller, nr, stale, running, overlap>>

\* kmalloc fails; fork ignores copy_process's -EAGAIN and returns the slot.
AllocFails ==
    /\ Step("alloc", "return")
    /\ UNCHANGED <<task, ie, caller, nr, structs, stale, running, overlap>>

\* *p = *current
Copy ==
    /\ Step("copy", "hold")
    /\ task' = [task EXCEPT ![nr] = task[0]]
    /\ UNCHANGED <<ie, caller, nr, structs, stale, running, overlap>>

Hold ==
    /\ Step("hold", "fill")
    /\ task' = [task EXCEPT ![nr].state = "uninterruptible"]
    /\ UNCHANGED <<ie, caller, nr, structs, stale, running, overlap>>

\* last_pid is never incremented: the pid is 0.
Fill ==
    /\ Step("fill", "memory")
    /\ task' = [task EXCEPT ![nr].pid = 0, ![nr].counter = task[nr].priority]
    /\ UNCHANGED <<ie, caller, nr, structs, stale, running, overlap>>

\* copy_mem succeeds, and the task is made runnable.
Ready ==
    /\ Step("memory", "return")
    /\ task' = [task EXCEPT ![nr].state = "running"]
    /\ UNCHANGED <<ie, caller, nr, structs, stale, running, overlap>>

\* Mutant of MemoryFails: the struct is not freed.
MemoryFailsLeak ==
    /\ Step("memory", "return")
    /\ task' = [task EXCEPT ![nr] = NULL]
    /\ UNCHANGED <<ie, caller, nr, structs, stale, running, overlap>>

\* copy_mem fails: the slot and the struct are given back.
MemoryFails ==
    /\ Step("memory", "return")
    /\ task' = [task EXCEPT ![nr] = NULL]
    /\ stale' = stale \cup {task[nr]}
    /\ structs' = structs - 1
    /\ UNCHANGED <<ie, caller, nr, running, overlap>>

-----------------------------------------------------------------------------
(* The callers of fork(). *)

\* kernel_entry's test of what fork() returned, read as "if (!fork())", the
\* code, or as "if (fork() >= 0)", what its two messages mean.
BootSucceeded(asMeant) == IF asMeant THEN nr # -1 ELSE nr = 0

\* On success kernel_entry enters the shell, which enables interrupts;
\* otherwise it reports that the first process failed, and returns.
BootReturns ==
    /\ caller = "boot"
    /\ \E asMeant \in Readings :
          IF BootSucceeded(asMeant)
          THEN Step("return", "shell") /\ ie' = TRUE
          ELSE Step("return", "halted") /\ UNCHANGED ie
    /\ UNCHANGED <<task, caller, nr, structs, stale, running, overlap>>

\* The shell runs test_sched, whose first act is a fork().
TestSched ==
    /\ Step("shell", "find")
    /\ caller' = "test_sched1"
    /\ UNCHANGED <<task, ie, nr, structs, stale, running, overlap>>

\* test_sched writes to task[pid] without a look at what fork() returned.
SetEntry ==
    /\ pc = "return" /\ caller # "boot"
    /\ IF nr = -1 \/ task[nr] = NULL
       THEN Step("return", "fault") /\ UNCHANGED task
       ELSE Step("return", "priority") /\ task' = [task EXCEPT ![nr].entry = caller]
    /\ UNCHANGED <<ie, caller, nr, structs, stale, running, overlap>>

\* Mutant of SetPriority: the priorities are numbered from 0.
SetPriorityFromZero ==
    /\ Step("priority", "counter")
    /\ task' = [task EXCEPT ![nr].priority = IF caller = "test_sched1" THEN 0 ELSE 1]
    /\ UNCHANGED <<ie, caller, nr, structs, stale, running, overlap>>

SetPriority ==
    /\ Step("priority", "counter")
    /\ task' = [task EXCEPT ![nr].priority = IF caller = "test_sched1" THEN 1 ELSE 2]
    /\ UNCHANGED <<ie, caller, nr, structs, stale, running, overlap>>

SetCounter ==
    /\ pc = "counter"
    /\ task' = [task EXCEPT ![nr].counter = task[nr].priority]
    /\ IF caller = "test_sched1"
       THEN Step("counter", "find") /\ caller' = "test_sched2"
       ELSE Step("counter", "shell") /\ UNCHANGED caller
    /\ UNCHANGED <<ie, nr, structs, stale, running, overlap>>

\* Where the kernel goes no further: kernel_entry returned, a write to a task
\* that does not exist, a search without end, or a task that was switched to.
Ended ==
    /\ pc \in {"halted", "fault", "stuck", "switched"}
    /\ UNCHANGED vars

Init ==
    /\ task = [i \in Slots |-> IF i = 0 THEN InitTask ELSE NULL]
    /\ ie = FALSE
    /\ pc = "find" /\ caller = "boot" /\ nr = -1
    /\ structs = 0 /\ stale = {}
    /\ running = 0
    /\ overlap \in BOOLEAN

Kernel ==
    \/ Find \/ Link \/ AllocFails \/ Copy \/ Hold \/ Fill \/ Ready \/ MemoryFails
    \/ BootReturns \/ TestSched \/ SetEntry \/ SetPriority \/ SetCounter

\* A tick can come until the kernel has ended.
Next == (pc # "fault" /\ Tick) \/ Kernel \/ Ended

Spec == Init /\ [][Next]_vars

-----------------------------------------------------------------------------
PCs == {"find", "alloc", "copy", "hold", "fill", "memory", "return", "priority",
        "counter", "shell", "halted", "fault", "stuck", "switched"}

\* Type correctness of the process table and of fork's and test_sched's
\* progress (sched.c, fork.c).
TypeOK ==
    /\ task \in [Slots -> Task \cup {NULL}]
    /\ ie \in BOOLEAN
    /\ pc \in PCs
    /\ caller \in {"boot", "test_sched1", "test_sched2"}
    /\ nr \in (Slots \ {0}) \cup {-1}
    /\ structs \in Nat
    /\ stale \subseteq Task
    /\ overlap \in BOOLEAN

\* schedule() chooses the runnable task with the most of its slice left, the
\* highest slot among equals, and idle task 0 only when nothing else can run
\* (sched.c:87-88, 108-133), whatever tick or half-made task it meets.
Best(tab) ==
    LET ready == {i \in Slots \ {0} : Runnable(tab, i)}
    IN  IF ready = {} THEN 0
        ELSE CHOOSE i \in ready : \A j \in ready \ {i} :
                \/ tab[j].counter < tab[i].counter
                \/ tab[j].counter = tab[i].counter /\ j < i
ChoosesBest ==
    /\ Scan(task).next = Best(task)
    /\ Scan(Settled(task)).next = Best(Settled(task))

\* The loop of schedule() ends whatever tick it runs in, except when fork's
\* half-made task is the only one it could choose (sched.c:109-133, fork.c:92-100).
ScheduleEnds ==
    pc = "stuck" => \A i \in Slots \ {0, nr} : ~Runnable(task, i)

\* A fork that fails half way gives back the slot and the memory it took
\* (fork.c:166-174).
NoLeak ==
    structs = Cardinality({i \in Slots \ {0} : task[i] # NULL})

\* Task 0, which every tick charges, is never left without a slice: the
\* counter it would be chosen by is positive whenever its code runs
\* (sched.c:215-223).
Task0HasSlice == task[0].counter >= 1

\* The task that fork fills or test_sched changes: its counter and priority
\* are not both the ones it will have.  Where a tick ended the kernel in the
\* middle of that they stay so.
Making(i) == i = nr /\ pc \in {"copy", "hold", "fill", "counter", "stuck", "switched"}

\* No tick takes or gives a slice behind the back of fork and test_sched: as
\* task 0 alone is charged, every other task keeps the whole of its slice,
\* its priority, from fork's and test_sched's last store to it on
\* (fork.c:97-100, shell.c:246-256, sched.c:126-132).
FullSlices ==
    \A i \in Slots \ {0} : task[i] # NULL /\ ~Making(i) => task[i].counter = task[i].priority

\* What fork and test_sched rely on at each step: a slot that is empty until
\* Link, and a task from then on (fork.c:197-215, shell.c:241-256).
SlotOK ==
    /\ pc = "alloc" => nr # -1 /\ task[nr] = NULL
    /\ pc \in {"copy", "hold", "fill", "memory", "priority", "counter"} => nr # -1 /\ task[nr] # NULL

\* Task 0 stays the one it was, with a slice that can be renewed.
Task0OK == task[0] # NULL /\ task[0].priority >= 1 /\ Task0HasSlice

\* The inductive invariant behind the theorems of SchedProofs.
IInv == TypeOK /\ SlotOK /\ Task0OK /\ NoLeak

\* What schedule() relies on in the tasks it chooses from: no counter below 0,
\* and a priority, from which a new slice comes, in all but a task that fork
\* has put into the table and not copied yet.  No tick follows the last one.
TasksOK ==
    /\ \A i \in Slots \ {0} : task[i] # NULL => task[i].counter >= 0
    /\ \A t \in stale : t.counter >= 0
    /\ \A i \in Slots \ {0} : task[i] # NULL =>
          task[i].priority >= 1 \/ (i = nr /\ pc \in {"copy", "stuck", "switched"})
    /\ pc \in {"stuck", "switched"} => ~ie

\* Only fork's own task ever sleeps.
OthersRun ==
    \A i \in Slots \ {0} : task[i] # NULL => task[i].state = "running" \/
        (i = nr /\ pc \in {"copy", "hold", "fill", "memory", "stuck", "switched"})

\* "init first process failed!" is said when there is no first process
\* (entry.c:40-50).
BootFailsWithFork == pc = "halted" => nr = -1 \/ task[nr] = NULL
=============================================================================

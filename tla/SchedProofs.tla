---------------------------- MODULE SchedProofs ----------------------------
(***************************************************************************)
(* Theorems about Sched: fork and its callers keep the process table, the  *)
(* memory fork took and task 0's slice in order whatever tick comes        *)
(* between their steps, and schedule's search finds the best task and      *)
(* ends, for every number of slots and every priority.                     *)
(***************************************************************************)
EXTENDS Sched, FiniteSetTheorems, WellFoundedInduction, TLAPS

Used(tab) == {i \in Slots \ {0} : tab[i] # NULL}

\* The slots are finite in number.
LEMMA SlotsFinite == ASSUME NEW tab PROVE IsFiniteSet(Used(tab)) /\ Cardinality(Used(tab)) \in Nat
<1>1. IsFiniteSet(Slots)
  BY FS_Interval, TasksAssumption DEF Slots
<1>2. Used(tab) \subseteq Slots
  BY DEF Used
<1> QED
  BY <1>1, <1>2, FS_Subset, FS_CardinalityType

\* A slot that is taken counts once more, one that is given back once less.
LEMMA OneMore ==
    ASSUME NEW tab \in [Slots -> Task \cup {NULL}], NEW i \in Slots \ {0}, NEW t \in Task, tab[i] = NULL
    PROVE  Cardinality(Used([tab EXCEPT ![i] = t])) = Cardinality(Used(tab)) + 1
<1>1. Used([tab EXCEPT ![i] = t]) = Used(tab) \cup {i} /\ i \notin Used(tab)
  BY NullAssumption DEF Used, Task, State, Entry
<1> QED
  BY <1>1, SlotsFinite, FS_AddElement

LEMMA OneLess ==
    ASSUME NEW tab \in [Slots -> Task \cup {NULL}], NEW i \in Slots \ {0}, tab[i] # NULL
    PROVE  Cardinality(Used([tab EXCEPT ![i] = NULL])) = Cardinality(Used(tab)) - 1
<1>1. Used([tab EXCEPT ![i] = NULL]) = Used(tab) \ {i} /\ i \in Used(tab)
  BY DEF Used
<1> QED
  BY <1>1, SlotsFinite, FS_RemoveElement

\* An assignment to a task that is there, and stays there, takes no slot.
LEMMA SameUsed ==
    ASSUME NEW tab \in [Slots -> Task \cup {NULL}], NEW i \in Slots \ {0}, NEW t \in Task, tab[i] # NULL
    PROVE  Used([tab EXCEPT ![i] = t]) = Used(tab)
BY NullAssumption DEF Used, Task, State, Entry

-----------------------------------------------------------------------------
\* The recalculation of the slices gives and takes no slot, changes no state
\* and leaves task 0 alone (sched.c:130-132).
LEMMA RecalcKeeps ==
    ASSUME NEW tab \in [Slots -> Task \cup {NULL}]
    PROVE  /\ Recalc(tab) \in [Slots -> Task \cup {NULL}]
           /\ \A i \in Slots : Recalc(tab)[i] = NULL <=> tab[i] = NULL
           /\ Recalc(tab)[0] = tab[0]
<1> DEFINE new(i) == [tab[i] EXCEPT !.counter = @ \div 2 + tab[i].priority]
<1>1. ASSUME NEW i \in Slots, tab[i] # NULL
      PROVE  new(i) \in Task /\ new(i) # NULL
  <2>1. tab[i] \in Task
    BY <1>1
  <2>2. tab[i].counter \div 2 + tab[i].priority \in Int
    BY <2>1 DEF Task
  <2>3. new(i) \in Task
    BY <2>1, <2>2 DEF Task
  <2> QED
    BY <2>3, NullAssumption DEF Task, State, Entry
<1>2. 0 \in Slots
  BY TasksAssumption DEF Slots
<1>3. Recalc(tab) = [i \in Slots |-> IF i = 0 \/ tab[i] = NULL THEN tab[i] ELSE new(i)]
  BY DEF Recalc
<1> HIDE DEF new
<1> QED
  BY <1>1, <1>2, <1>3

\* What holds of a table and of its recalculation holds of the one schedule()
\* settles for.
LEMMA SettledKeeps ==
    ASSUME NEW tab \in [Slots -> Task \cup {NULL}]
    PROVE  /\ Settled(tab) \in [Slots -> Task \cup {NULL}]
           /\ \A i \in Slots : Settled(tab)[i] = NULL <=> tab[i] = NULL
           /\ Settled(tab)[0] = tab[0]
<1>1. Settled(tab) = tab \/ Settled(tab) = Recalc(tab)
  BY DEF Settled
<1> QED
  BY <1>1, RecalcKeeps
-----------------------------------------------------------------------------
LEMMA InitialState == Init => IInv
<1> SUFFICES ASSUME Init PROVE IInv
  OBVIOUS
<1>1. InitTask \in Task /\ InitTask # NULL
  BY NullAssumption, PriorityAssumption DEF InitTask, Task, State, Entry
<1>2. 0 \in Slots
  BY TasksAssumption DEF Slots
<1>3. TypeOK
  BY <1>1 DEF Init, TypeOK, PCs
<1>4. SlotOK
  BY DEF Init, SlotOK
<1>5. Task0OK
  BY <1>1, <1>2, PriorityAssumption DEF Init, Task0OK, Task0HasSlice, InitTask
<1>6. NoLeak
  <2>1. {i \in Slots \ {0} : task[i] # NULL} = {}
    BY DEF Init
  <2> QED
    BY <2>1, FS_EmptySet DEF NoLeak, Init
<1> QED
  BY <1>3, <1>4, <1>5, <1>6 DEF IInv

\* A tick gives and takes no slot, whatever fork is at.
LEMMA TickStep == IInv /\ Tick => IInv'
<1> SUFFICES ASSUME IInv, Tick PROVE IInv'
  OBVIOUS
<1> USE DEF IInv
<1>1. 0 \in Slots /\ task[0] \in Task /\ task[0] # NULL /\ task[0].priority >= 1 /\ task[0].counter >= 1
  BY TasksAssumption DEF Slots, TypeOK, Task0OK, Task0HasSlice
<1> DEFINE renewed == NewSlice(Ticked)
<1>2. /\ Ticked \in [Slots -> Task \cup {NULL}]
      /\ \A i \in Slots : Ticked[i] = NULL <=> task[i] = NULL
      /\ Ticked[0].priority = task[0].priority /\ Ticked[0] # NULL /\ Ticked[0] \in Task
  <2>1. [task[0] EXCEPT !.counter = @ - 1] \in Task
    BY <1>1 DEF Task
  <2> QED
    BY <1>1, <2>1, NullAssumption DEF Ticked, TypeOK, Task, State, Entry
<1>3. /\ renewed \in [Slots -> Task \cup {NULL}]
      /\ \A i \in Slots : renewed[i] = NULL <=> task[i] = NULL
      /\ renewed[0].priority = task[0].priority /\ renewed[0] # NULL
      /\ renewed[0].counter = task[0].priority
  <2>1. [Ticked[0] EXCEPT !.counter = Ticked[0].priority] \in Task
    BY <1>2 DEF Task
  <2>2. renewed = [Ticked EXCEPT ![0] = [Ticked[0] EXCEPT !.counter = Ticked[0].priority]]
    BY DEF NewSlice
  <2> QED
    BY <1>1, <1>2, <2>1, <2>2, NullAssumption DEF Task, State, Entry
<1>4. /\ task' \in [Slots -> Task \cup {NULL}]
      /\ \A i \in Slots : task'[i] = NULL <=> task[i] = NULL
      /\ task'[0] # NULL /\ task'[0].priority >= 1 /\ task'[0].counter >= 1
  <2>1. CASE Ticked[0].counter > 0
    <3>1. task' = Ticked
      BY <2>1 DEF Tick
    <3>2. Ticked[0].counter \in Int
      BY <1>2 DEF Task
    <3> QED
      BY <2>1, <3>1, <3>2, <1>1, <1>2
  <2>2. CASE ~(Ticked[0].counter > 0)
    <3>1. task' = Settled(renewed)
      BY <2>2 DEF Tick
    <3>2. /\ Settled(renewed) \in [Slots -> Task \cup {NULL}]
          /\ \A i \in Slots : Settled(renewed)[i] = NULL <=> renewed[i] = NULL
          /\ Settled(renewed)[0] = renewed[0]
      BY <1>3, SettledKeeps
    <3> HIDE DEF renewed
    <3> QED
      BY <3>1, <3>2, <1>1, <1>3
  <2> QED
    BY <2>1, <2>2
<1>5. /\ ie' \in BOOLEAN
      /\ pc' = pc \/ pc' \in {"stuck", "switched"}
      /\ UNCHANGED <<caller, nr, structs, stale, overlap>>
  BY DEF Tick, SwitchTo, TypeOK
<1>6. TypeOK'
  BY <1>4, <1>5 DEF TypeOK, PCs
<1>7. SlotOK'
  BY <1>4, <1>5 DEF SlotOK, TypeOK
<1>8. Task0OK'
  BY <1>4 DEF Task0OK, Task0HasSlice
<1>9. NoLeak'
  <2>1. {i \in Slots \ {0} : task'[i] # NULL} = {i \in Slots \ {0} : task[i] # NULL}
    BY <1>4
  <2> QED
    BY <2>1, <1>5 DEF NoLeak
<1> QED
  BY <1>6, <1>7, <1>8, <1>9

\* A step of fork that writes t to the slot it works on, which has a task.
LEMMA Assigns ==
    ASSUME IInv, NEW t \in Task, nr # -1, task[nr] # NULL, task' = [task EXCEPT ![nr] = t], structs' = structs
    PROVE  /\ task' \in [Slots -> Task \cup {NULL}] /\ task'[nr] # NULL /\ task'[0] = task[0]
           /\ NoLeak'
<1>1. nr \in Slots \ {0} /\ task \in [Slots -> Task \cup {NULL}] /\ 0 \in Slots
  BY TasksAssumption DEF IInv, TypeOK, Slots
<1>2. t # NULL
  BY NullAssumption DEF Task, State, Entry
<1>3. Used(task') = Used(task)
  BY <1>1, SameUsed
<1> QED
  BY <1>1, <1>2, <1>3 DEF NoLeak, Used, IInv

LEMMA ForkStep == IInv /\ (Find \/ Link \/ AllocFails \/ Copy \/ Hold \/ Fill \/ Ready \/ MemoryFails) => IInv'
<1> SUFFICES ASSUME IInv, Find \/ Link \/ AllocFails \/ Copy \/ Hold \/ Fill \/ Ready \/ MemoryFails
             PROVE  IInv'
  OBVIOUS
<1> USE DEF IInv, Step
<1>0. 0 \in Slots /\ task \in [Slots -> Task \cup {NULL}] /\ task[0] \in Task
  BY TasksAssumption DEF Slots, TypeOK, Task0OK
<1>1. CASE Find
  <2>1. UNCHANGED <<task, structs>>
    BY <1>1 DEF Find
  <2>2. TypeOK'
    BY <1>1 DEF Find, TypeOK, PCs
  <2>3. SlotOK'
    <3>1. CASE {i \in Slots \ {0} : task[i] = NULL} = {}
      BY <1>1, <3>1 DEF Find, SlotOK, Task0OK
    <3>2. CASE {i \in Slots \ {0} : task[i] = NULL} # {}
      <4>1. nr' \in Slots \ {0} /\ task[nr'] = NULL /\ pc' = "alloc"
        BY <1>1, <3>2 DEF Find
      <4>2. nr' # -1
        BY <4>1, TasksAssumption DEF Slots
      <4> QED
        BY <2>1, <4>1, <4>2 DEF SlotOK
    <3> QED
      BY <3>1, <3>2
  <2>4. Task0OK' /\ NoLeak'
    BY <2>1 DEF Task0OK, Task0HasSlice, NoLeak
  <2> QED
    BY <2>2, <2>3, <2>4
<1>2. CASE Link
  <2>1. PICK t \in {Blank} \cup stale : task' = [task EXCEPT ![nr] = t]
    BY <1>2 DEF Link
  <2>2. t \in Task /\ t # NULL
    BY NullAssumption DEF TypeOK, Blank, Task, State, Entry
  <2>3. nr \in Slots \ {0} /\ task[nr] = NULL /\ nr # -1 /\ pc' = "copy"
    BY <1>2 DEF Link, SlotOK, TypeOK
  <2>4. Cardinality(Used(task')) = Cardinality(Used(task)) + 1
    BY <1>0, <2>1, <2>2, <2>3, OneMore
  <2>5. NoLeak'
    BY <1>2, <2>4 DEF NoLeak, Used, Link
  <2>6. task' \in [Slots -> Task \cup {NULL}] /\ task'[nr] # NULL /\ task'[0] = task[0]
    BY <1>0, <2>1, <2>2, <2>3
  <2>7. TypeOK'
    BY <1>2, <2>3, <2>6 DEF Link, TypeOK, PCs
  <2>8. SlotOK' /\ Task0OK'
    BY <1>2, <2>3, <2>6 DEF Link, SlotOK, Task0OK, Task0HasSlice
  <2> QED
    BY <2>5, <2>7, <2>8
<1>3. CASE AllocFails
  <2>1. nr # -1 /\ pc' = "return" /\ UNCHANGED <<task, structs, nr>>
    BY <1>3 DEF AllocFails, SlotOK
  <2>2. TypeOK'
    BY <1>3 DEF AllocFails, TypeOK, PCs
  <2> QED
    BY <2>1, <2>2 DEF SlotOK, Task0OK, Task0HasSlice, NoLeak
<1>4. CASE Copy \/ Hold \/ Fill \/ Ready
  <2>1. /\ nr \in Slots \ {0} /\ nr # -1 /\ task[nr] # NULL /\ task[nr] \in Task
        /\ pc' \in {"hold", "fill", "memory", "return"}
        /\ UNCHANGED <<ie, caller, nr, structs, stale, overlap>>
    BY <1>4 DEF Copy, Hold, Fill, Ready, SlotOK, TypeOK
  <2>2. \E t \in Task : task' = [task EXCEPT ![nr] = t]
    <3>1. CASE Copy
      BY <1>0, <3>1 DEF Copy
    <3>2. CASE Hold
      <4>1. [task[nr] EXCEPT !.state = "uninterruptible"] \in Task
        BY <2>1 DEF Task, State
      <4> QED
        BY <3>2, <4>1 DEF Hold
    <3>3. CASE Fill
      <4> DEFINE p == [task[nr] EXCEPT !.pid = 0]
                 t == [p EXCEPT !.counter = task[nr].priority]
      <4>1. t \in Task
        <5>1. p \in Task
          BY <2>1 DEF Task
        <5> HIDE DEF p
        <5> QED
          BY <2>1, <5>1 DEF Task
      <4>2. task' = [task EXCEPT ![nr] = t]
        BY <1>0, <2>1, <3>3 DEF Fill
      <4> QED
        BY <4>1, <4>2
    <3>4. CASE Ready
      <4>1. [task[nr] EXCEPT !.state = "running"] \in Task
        BY <2>1 DEF Task, State
      <4> QED
        BY <3>4, <4>1 DEF Ready
    <3> QED
      BY <1>4, <3>1, <3>2, <3>3, <3>4
  <2>3. PICK t \in Task : task' = [task EXCEPT ![nr] = t]
    BY <2>2
  <2>4. /\ task' \in [Slots -> Task \cup {NULL}] /\ task'[nr] # NULL /\ task'[0] = task[0]
        /\ NoLeak'
    BY <2>1, <2>3, Assigns
  <2>5. TypeOK'
    BY <2>1, <2>4 DEF TypeOK, PCs
  <2> QED
    BY <2>1, <2>4, <2>5 DEF SlotOK, Task0OK, Task0HasSlice
<1>5. CASE MemoryFails
  <2>1. /\ nr \in Slots \ {0} /\ nr # -1 /\ task[nr] # NULL /\ task[nr] \in Task
        /\ pc' = "return" /\ task' = [task EXCEPT ![nr] = NULL]
    BY <1>5 DEF MemoryFails, SlotOK, TypeOK
  <2>2. Cardinality(Used(task')) = Cardinality(Used(task)) - 1 /\ Cardinality(Used(task')) \in Nat
    BY <1>0, <2>1, OneLess, SlotsFinite
  <2>3. NoLeak' /\ structs' \in Nat
    BY <1>5, <2>2 DEF NoLeak, Used, MemoryFails
  <2>4. TypeOK'
    BY <1>5, <2>1, <2>3 DEF MemoryFails, TypeOK, PCs
  <2>5. SlotOK' /\ Task0OK'
    BY <1>0, <1>5, <2>1 DEF MemoryFails, SlotOK, Task0OK, Task0HasSlice
  <2> QED
    BY <2>3, <2>4, <2>5
<1> QED
  BY <1>1, <1>2, <1>3, <1>4, <1>5

LEMMA CallerStep == IInv /\ (BootReturns \/ TestSched \/ SetEntry \/ SetPriority \/ SetCounter) => IInv'
<1> SUFFICES ASSUME IInv, BootReturns \/ TestSched \/ SetEntry \/ SetPriority \/ SetCounter
             PROVE  IInv'
  OBVIOUS
<1> USE DEF IInv, Step
<1>1. CASE UNCHANGED task
  <2>1. TypeOK'
    BY <1>1 DEF BootReturns, TestSched, SetEntry, SetPriority, SetCounter, TypeOK, PCs
  <2>2. SlotOK'
    BY <1>1 DEF BootReturns, TestSched, SetEntry, SetPriority, SetCounter, SlotOK
  <2>3. Task0OK' /\ NoLeak'
    BY <1>1 DEF BootReturns, TestSched, SetEntry, SetPriority, SetCounter, Task0OK, Task0HasSlice, NoLeak
  <2> QED
    BY <2>1, <2>2, <2>3
<1>2. CASE ~UNCHANGED task
  <2>1. /\ nr \in Slots \ {0} /\ nr # -1 /\ task[nr] # NULL /\ task[nr] \in Task
        /\ pc' \in {"priority", "counter", "find", "shell"}
        /\ caller' \in {"boot", "test_sched1", "test_sched2"}
        /\ UNCHANGED <<ie, nr, structs, stale, overlap>>
    BY <1>2 DEF BootReturns, TestSched, SetEntry, SetPriority, SetCounter, SlotOK, TypeOK
  <2>2. \E t \in Task : task' = [task EXCEPT ![nr] = t]
    <3>1. [task[nr] EXCEPT !.entry = caller] \in Task \/ ~SetEntry
      BY <2>1 DEF Task, Entry, TypeOK, SetEntry
    <3>2. [task[nr] EXCEPT !.priority = IF caller = "test_sched1" THEN 1 ELSE 2] \in Task
      BY <2>1 DEF Task
    <3>3. [task[nr] EXCEPT !.counter = task[nr].priority] \in Task
      BY <2>1 DEF Task
    <3> QED
      BY <1>2, <3>1, <3>2, <3>3 DEF BootReturns, TestSched, SetEntry, SetPriority, SetCounter
  <2>3. PICK t \in Task : task' = [task EXCEPT ![nr] = t]
    BY <2>2
  <2>4. /\ task' \in [Slots -> Task \cup {NULL}] /\ task'[nr] # NULL /\ task'[0] = task[0]
        /\ NoLeak'
    BY <2>1, <2>3, Assigns
  <2>5. TypeOK'
    BY <2>1, <2>4 DEF TypeOK, PCs
  <2> QED
    BY <2>1, <2>4, <2>5 DEF SlotOK, Task0OK, Task0HasSlice
<1> QED
  BY <1>1, <1>2

-----------------------------------------------------------------------------
\* The invariant holds of all that fork, test_sched and the ticks between
\* their steps do (fork.c, sched.c, shell.c:239-256).
THEOREM Invariant == Spec => []IInv
<1>1. IInv /\ [Next]_vars => IInv'
  <2> SUFFICES ASSUME IInv, [Next]_vars PROVE IInv'
    OBVIOUS
  <2>1. CASE Tick
    BY <2>1, TickStep
  <2>2. CASE Kernel
    BY <2>2, ForkStep, CallerStep DEF Kernel
  <2>3. CASE UNCHANGED vars
    BY <2>3 DEF vars, IInv, TypeOK, SlotOK, Task0OK, Task0HasSlice, NoLeak
  <2> QED
    BY <2>1, <2>2, <2>3 DEF Next, Ended
<1> QED
  BY <1>1, InitialState, PTL DEF Spec

\* The process table, and fork's progress in it, keep their types.
THEOREM TypeCorrect == Spec => []TypeOK
<1>1. IInv => TypeOK
  BY DEF IInv
<1> QED
  BY <1>1, Invariant, PTL

\* fork neither leaks a task_struct nor frees one twice: what it holds from
\* kmalloc is one for every slot in use but slot 0, however it fails and
\* whatever tick comes between (fork.c:81-92, 166-174).
THEOREM ForkHoldsTable == Spec => []NoLeak
<1>1. IInv => NoLeak
  BY DEF IInv
<1> QED
  BY <1>1, Invariant, PTL

\* Task 0, by whose counter the kernel's own code is charged, always has some
\* of its slice left, so its ticks go on (sched.c:215-223).
THEOREM Task0Goes == Spec => []Task0HasSlice
<1>1. IInv => Task0HasSlice
  BY DEF IInv, Task0OK
<1> QED
  BY <1>1, Invariant, PTL

-----------------------------------------------------------------------------
(* What the search of schedule() returns.  Scan's recursion goes down the     *)
(* table, and so do the proofs about it: a set of slots that has the last     *)
(* one, and with a slot the one below it, has them all.                       *)

LEMMA Downwards ==
    ASSUME NEW S, NR_TASKS \in S, \A i \in 1..NR_TASKS - 1 : i + 1 \in S => i \in S
    PROVE  1..NR_TASKS \subseteq S
<1> SUFFICES ASSUME NEW k \in 1..NR_TASKS, k \notin S PROVE FALSE
  OBVIOUS
<1> DEFINE D == {d \in Nat : d < NR_TASKS /\ NR_TASKS - d \notin S}
<1>1. NR_TASKS \in Nat /\ NR_TASKS - k \in D
  BY TasksAssumption
<1>2. PICK d \in D : \A e \in D : ~(<<e, d>> \in OpToRel(<, Nat))
  BY <1>1, NatLessThanWellFounded, WFMin
<1>3. d \in Nat /\ d < NR_TASKS /\ NR_TASKS - d \notin S
  BY <1>2
<1>4. d # 0
  BY <1>1, <1>3
<1>5. d - 1 \in Nat /\ d - 1 < d
  BY <1>3, <1>4
<1>6. d - 1 \notin D
  <2>1. <<d - 1, d>> \in OpToRel(<, Nat)
    BY <1>3, <1>5 DEF OpToRel
  <2> QED
    BY <1>2, <2>1
<1>7. NR_TASKS - (d - 1) \in S
  BY <1>1, <1>3, <1>5, <1>6
<1>8. NR_TASKS - d \in 1..NR_TASKS - 1 /\ (NR_TASKS - d) + 1 = NR_TASKS - (d - 1)
  BY <1>1, <1>3, <1>4
<1> QED
  BY <1>3, <1>7, <1>8

\* f is what the scan has found at each slot from k on.
Found(tab, k, f) ==
    f = [i \in k..NR_TASKS |->
            IF i = NR_TASKS THEN [c |-> -1, next |-> 0]
            ELSE IF Runnable(tab, i) /\ tab[i].counter > f[i + 1].c
                 THEN [c |-> tab[i].counter, next |-> i]
                 ELSE f[i + 1]]

\* The recursion of Scan defines a function.
LEMMA ScanDefined == ASSUME NEW tab PROVE \E f : Found(tab, 1, f) /\ Scan(tab) = f[1]
<1> DEFINE S == {k \in 1..NR_TASKS : \E f : Found(tab, k, f)}
<1>1. NR_TASKS \in S
  <2> DEFINE f == [i \in NR_TASKS..NR_TASKS |-> [c |-> -1, next |-> 0]]
  <2>1. \A i \in NR_TASKS..NR_TASKS : i = NR_TASKS
    BY TasksAssumption
  <2>2. Found(tab, NR_TASKS, f)
    BY <2>1 DEF Found
  <2> QED
    BY <2>2, TasksAssumption
<1>2. ASSUME NEW k \in 1..NR_TASKS - 1, k + 1 \in S PROVE k \in S
  <2>1. PICK f : Found(tab, k + 1, f)
    BY <1>2
  <2> DEFINE g == [i \in k..NR_TASKS |->
                      IF i = k THEN IF Runnable(tab, k) /\ tab[k].counter > f[k + 1].c
                                    THEN [c |-> tab[k].counter, next |-> k]
                                    ELSE f[k + 1]
                      ELSE f[i]]
             h == [i \in k..NR_TASKS |->
                      IF i = NR_TASKS THEN [c |-> -1, next |-> 0]
                      ELSE IF Runnable(tab, i) /\ tab[i].counter > g[i + 1].c
                           THEN [c |-> tab[i].counter, next |-> i]
                           ELSE g[i + 1]]
  <2>2. k \in Nat /\ k # NR_TASKS /\ NR_TASKS \in Nat /\ k < NR_TASKS
    BY TasksAssumption
  <2>3. \A i \in k + 1..NR_TASKS : g[i] = f[i]
    BY <2>2
  <2>4. ASSUME NEW i \in k..NR_TASKS PROVE g[i] = h[i]
    <3>1. CASE i = k
      <4>1. g[k + 1] = f[k + 1]
        BY <2>2, <2>3
      <4> QED
        BY <2>2, <3>1, <4>1
    <3>2. CASE i # k
      <4>1. i \in k + 1..NR_TASKS /\ (i # NR_TASKS => i + 1 \in k + 1..NR_TASKS)
        BY <2>2, <3>2
      <4>2. g[i] = f[i] /\ (i # NR_TASKS => g[i + 1] = f[i + 1])
        BY <2>3, <4>1
      <4>3. f[i] = IF i = NR_TASKS THEN [c |-> -1, next |-> 0]
                   ELSE IF Runnable(tab, i) /\ tab[i].counter > f[i + 1].c
                        THEN [c |-> tab[i].counter, next |-> i]
                        ELSE f[i + 1]
        BY <2>1, <4>1 DEF Found
      <4>4. h[i] = IF i = NR_TASKS THEN [c |-> -1, next |-> 0]
                   ELSE IF Runnable(tab, i) /\ tab[i].counter > g[i + 1].c
                        THEN [c |-> tab[i].counter, next |-> i]
                        ELSE g[i + 1]
        OBVIOUS
      <4> HIDE DEF g, h
      <4> QED
        BY <4>2, <4>3, <4>4
    <3> QED
      BY <3>1, <3>2
  <2>5. g = h
    BY <2>4
  <2> HIDE DEF g
  <2>6. Found(tab, k, g)
    BY <2>5 DEF Found
  <2> QED
    BY <2>2, <2>6
<1>3. 1 \in S
  <2> HIDE DEF S
  <2> QED
    BY <1>1, <1>2, Downwards, TasksAssumption
<1>4. \E f : Found(tab, 1, f)
  BY <1>3
<1>5. Found(tab, 1, CHOOSE f : Found(tab, 1, f))
  BY <1>4
<1>6. Scan(tab) = (CHOOSE f : Found(tab, 1, f))[1]
  BY DEF Scan, Found
<1> QED
  BY <1>5, <1>6

\* A table whose tasks have no negative counter, those of slot 0 apart.
Counted(tab) ==
    /\ tab \in [Slots -> Task \cup {NULL}]
    /\ \A i \in Slots \ {0} : tab[i] # NULL => tab[i].counter >= 0

\* r is the best of the slots from k on: the most of a slice left, then the
\* highest slot; or there is nothing to run.
BestFrom(tab, k, r) ==
    LET ready == {i \in k..NR_TASKS - 1 : Runnable(tab, i)}
    IN  \/ ready = {} /\ r.c = -1 /\ r.next = 0
        \/ /\ r.next \in ready /\ r.c = tab[r.next].counter
           /\ \A j \in ready : tab[j].counter <= r.c /\ (tab[j].counter = r.c => j <= r.next)

\* The scan finds the best task (sched.c:112-122).
LEMMA ScanFindsBest == ASSUME NEW tab, Counted(tab) PROVE BestFrom(tab, 1, Scan(tab))
<1>1. PICK f : Found(tab, 1, f) /\ Scan(tab) = f[1]
  BY ScanDefined
<1> DEFINE S == {k \in 1..NR_TASKS : BestFrom(tab, k, f[k])}
<1>2. NR_TASKS \in 1..NR_TASKS /\ 1 \in 1..NR_TASKS /\ NR_TASKS \in Nat
  BY TasksAssumption
<1>3. \A k \in 1..NR_TASKS :
        f[k] = IF k = NR_TASKS THEN [c |-> -1, next |-> 0]
               ELSE IF Runnable(tab, k) /\ tab[k].counter > f[k + 1].c
                    THEN [c |-> tab[k].counter, next |-> k]
                    ELSE f[k + 1]
  BY <1>1 DEF Found
<1>4. NR_TASKS \in S
  <2>1. {i \in NR_TASKS..NR_TASKS - 1 : Runnable(tab, i)} = {}
    BY <1>2
  <2>2. f[NR_TASKS] = [c |-> -1, next |-> 0]
    BY <1>2, <1>3
  <2> QED
    BY <1>2, <2>1, <2>2 DEF BestFrom
<1>5. ASSUME NEW k \in 1..NR_TASKS - 1, k + 1 \in S PROVE k \in S
  <2> DEFINE here == {i \in k..NR_TASKS - 1 : Runnable(tab, i)}
             above == {i \in k + 1..NR_TASKS - 1 : Runnable(tab, i)}
             r == f[k + 1]
  <2>1. k \in 1..NR_TASKS /\ k \in Slots \ {0} /\ k # NR_TASKS
    BY <1>2 DEF Slots
  <2>2. \A i : i \in here <=> i \in above \/ (i = k /\ Runnable(tab, k))
    BY <1>2
  <2>3. \A i \in above : i \in Int /\ i > k /\ i \in Slots \ {0} /\ tab[i] # NULL
    BY <1>2 DEF Slots, Runnable
  <2>4. \A i \in Slots \ {0} : tab[i] # NULL => tab[i].counter \in Nat
    BY DEF Counted, Task
  <2>5. \/ above = {} /\ r.c = -1 /\ r.next = 0
        \/ /\ r.next \in above /\ r.c = tab[r.next].counter
           /\ \A j \in above : tab[j].counter <= r.c /\ (tab[j].counter = r.c => j <= r.next)
    BY <1>5 DEF BestFrom
  <2>6. f[k] = IF Runnable(tab, k) /\ tab[k].counter > r.c THEN [c |-> tab[k].counter, next |-> k] ELSE r
    BY <1>3, <2>1
  <2>7. r.c \in Int /\ (above # {} => r.next \in above)
    BY <2>3, <2>4, <2>5
  <2> HIDE DEF here, above, r
  <2>8. CASE Runnable(tab, k) /\ tab[k].counter > r.c
    <3>1. f[k].c = tab[k].counter /\ f[k].next = k /\ k \in here /\ tab[k].counter \in Nat
      BY <2>1, <2>2, <2>4, <2>6, <2>8 DEF Runnable
    <3>2. \A j \in above : tab[j].counter < tab[k].counter
      BY <2>3, <2>4, <2>5, <2>7, <2>8, <3>1
    <3>3. ASSUME NEW j \in here PROVE tab[j].counter <= f[k].c /\ (tab[j].counter = f[k].c => j <= f[k].next)
      <4>1. CASE j = k
        BY <2>1, <3>1, <4>1
      <4>2. CASE j \in above
        BY <2>3, <2>4, <3>1, <3>2, <4>2
      <4> QED
        BY <2>2, <4>1, <4>2
    <3>4. BestFrom(tab, k, f[k])
      BY <3>1, <3>3 DEF BestFrom, here
    <3> QED
      BY <2>1, <3>4
  <2>9. CASE ~(Runnable(tab, k) /\ tab[k].counter > r.c)
    <3>1. f[k] = r
      BY <2>6, <2>9
    <3>2. above = {} => here = {}
      <4> SUFFICES ASSUME above = {}, Runnable(tab, k) PROVE FALSE
        BY <2>2
      <4>1. r.c = -1 /\ tab[k].counter \in Nat
        BY <2>1, <2>4, <2>5 DEF Runnable
      <4> QED
        BY <2>9, <4>1
    <3>3. ASSUME above # {}, NEW j \in here PROVE tab[j].counter <= r.c /\ (tab[j].counter = r.c => j <= r.next)
      <4>1. CASE j = k
        <5>1. tab[k].counter \in Nat /\ tab[k].counter <= r.c
          BY <2>1, <2>2, <2>3, <2>4, <2>7, <2>9, <4>1, <3>3 DEF Runnable
        <5>2. r.next \in above /\ k <= r.next
          BY <2>1, <2>3, <2>7, <3>3
        <5> QED
          BY <4>1, <5>1, <5>2
      <4>2. CASE j \in above
        BY <2>5, <4>2
      <4> QED
        BY <2>2, <4>1, <4>2
    <3>4. BestFrom(tab, k, f[k])
      BY <2>2, <2>5, <3>1, <3>2, <3>3 DEF BestFrom, here
    <3> QED
      BY <2>1, <3>4
  <2> QED
    BY <2>8, <2>9
<1>6. 1 \in S
  <2> HIDE DEF S
  <2> QED
    BY <1>2, <1>4, <1>5, Downwards
<1> QED
  BY <1>1, <1>6

\* schedule()'s choice, as a search, is the task that ChoosesBest names.
LEMMA ScanIsBest == ASSUME NEW tab, Counted(tab) PROVE Scan(tab).next = Best(tab)
<1> DEFINE ready == {i \in Slots \ {0} : Runnable(tab, i)}
           Better(i) == \A j \in ready \ {i} : \/ tab[j].counter < tab[i].counter
                                               \/ tab[j].counter = tab[i].counter /\ j < i
           r == Scan(tab)
<1>1. {i \in 1..NR_TASKS - 1 : Runnable(tab, i)} = ready
  BY TasksAssumption DEF Slots
<1>2. \/ ready = {} /\ r.c = -1 /\ r.next = 0
      \/ /\ r.next \in ready /\ r.c = tab[r.next].counter
         /\ \A j \in ready : tab[j].counter <= r.c /\ (tab[j].counter = r.c => j <= r.next)
  BY <1>1, ScanFindsBest DEF BestFrom
<1>3. \A i \in ready : i \in Int /\ tab[i].counter \in Int
  BY DEF Counted, Task, Slots, Runnable
<1>4. Best(tab) = IF ready = {} THEN 0 ELSE CHOOSE i \in ready : Better(i)
  BY DEF Best
<1> HIDE DEF ready, r
<1>5. CASE ready = {}
  BY <1>2, <1>4, <1>5 DEF r
<1>6. CASE ready # {}
  <2>1. r.next \in ready /\ Better(r.next)
    BY <1>2, <1>3, <1>6
  <2>2. ASSUME NEW i \in ready, NEW j \in ready, Better(i), Better(j) PROVE i = j
    BY <1>3, <2>2
  <2>3. (CHOOSE i \in ready : Better(i)) \in ready /\ Better(CHOOSE i \in ready : Better(i))
    <3> HIDE DEF Better
    <3> QED
      BY <2>1
  <2>4. (CHOOSE i \in ready : Better(i)) = r.next
    <3> HIDE DEF Better
    <3> QED
      BY <2>1, <2>2, <2>3
  <2> QED
    BY <1>4, <1>6, <2>4 DEF r
<1> QED
  BY <1>5, <1>6

\* The recalculation keeps who can run, and whoever has a priority gets at
\* least that much of a slice (sched.c:130-132).
LEMMA RecalcCounts ==
    ASSUME NEW tab, Counted(tab)
    PROVE  /\ Counted(Recalc(tab))
           /\ \A i \in Slots \ {0} : tab[i] # NULL =>
                /\ Recalc(tab)[i] # NULL
                /\ Recalc(tab)[i].state = tab[i].state
                /\ Recalc(tab)[i].priority = tab[i].priority
                /\ Recalc(tab)[i].counter >= tab[i].priority
<1>1. ASSUME NEW i \in Slots \ {0}, tab[i] # NULL
      PROVE  /\ Recalc(tab)[i] # NULL
             /\ Recalc(tab)[i].state = tab[i].state
             /\ Recalc(tab)[i].priority = tab[i].priority
             /\ Recalc(tab)[i].counter >= tab[i].priority
             /\ Recalc(tab)[i].counter >= 0
  <2> DEFINE n == tab[i].counter \div 2 + tab[i].priority
  <2>1. tab[i] \in Task /\ tab[i].counter \in Nat /\ tab[i].priority \in Nat
    BY <1>1 DEF Counted, Task
  <2>2. n \in Nat /\ n >= tab[i].priority
    BY <2>1
  <2>3. Recalc(tab)[i] = [tab[i] EXCEPT !.counter = n]
    BY <1>1 DEF Recalc
  <2> HIDE DEF n
  <2>4. [tab[i] EXCEPT !.counter = n] \in Task
    BY <2>1, <2>2 DEF Task
  <2>5. Recalc(tab)[i] # NULL
    BY <2>3, <2>4, NullAssumption DEF Task, State, Entry
  <2> QED
    BY <2>1, <2>2, <2>3, <2>5 DEF Task
<1>2. tab \in [Slots -> Task \cup {NULL}]
  BY DEF Counted
<1>3. Recalc(tab) \in [Slots -> Task \cup {NULL}] /\ \A i \in Slots : Recalc(tab)[i] = NULL <=> tab[i] = NULL
  BY <1>2, RecalcKeeps
<1> QED
  BY <1>1, <1>3 DEF Counted

\* What schedule() settles for has no negative counters, either.
LEMMA SettledCounts ==
    ASSUME NEW tab, Counted(tab)
    PROVE  /\ Counted(Settled(tab))
           /\ \A i \in Slots \ {0} : tab[i] # NULL =>
                /\ Settled(tab)[i] # NULL
                /\ Settled(tab)[i].state = tab[i].state
                /\ Settled(tab)[i].priority = tab[i].priority
BY RecalcCounts DEF Settled

\* The loop of schedule() goes on for ever only when no task it could choose
\* has a priority (sched.c:109-133).
LEMMA EndlessWithoutPriority ==
    ASSUME NEW tab, Counted(tab), Endless(tab), NEW i \in Slots \ {0}, Runnable(tab, i)
    PROVE  ~(tab[i].priority >= 1)
<1> SUFFICES ASSUME tab[i].priority >= 1 PROVE FALSE
  OBVIOUS
<1>1. Settled(tab) = Recalc(tab) /\ Scan(Recalc(tab)).c = 0
  BY DEF Endless, Settled
<1>2. /\ Counted(Recalc(tab)) /\ Runnable(Recalc(tab), i)
      /\ tab[i].priority \in Nat /\ Recalc(tab)[i].counter \in Int
      /\ Recalc(tab)[i].counter >= tab[i].priority
  BY RecalcCounts DEF Runnable, Counted, Task
<1>3. BestFrom(Recalc(tab), 1, Scan(Recalc(tab)))
  BY <1>2, ScanFindsBest
<1>4. i \in {j \in 1..NR_TASKS - 1 : Runnable(Recalc(tab), j)}
  BY <1>2, TasksAssumption DEF Slots
<1>5. Recalc(tab)[i].counter <= Scan(Recalc(tab)).c
  BY <1>3, <1>4 DEF BestFrom
<1> QED
  BY <1>1, <1>2, <1>5

-----------------------------------------------------------------------------
(* The tasks schedule() chooses from. *)

LEMMA TaskCounted == ASSUME IInv, TasksOK PROVE Counted(task)
BY DEF IInv, TypeOK, TasksOK, Counted

\* A tick's charge and the new slice are task 0's; the others stay.
LEMMA TickCharges ==
    ASSUME IInv, TasksOK
    PROVE  /\ Counted(Ticked) /\ Counted(NewSlice(Ticked))
           /\ \A i \in Slots \ {0} : Ticked[i] = task[i] /\ NewSlice(Ticked)[i] = task[i]
<1>1. task \in [Slots -> Task \cup {NULL}] /\ Counted(task) /\ task[0] \in Task /\ 0 \in Slots
  BY TaskCounted, TasksAssumption DEF IInv, TypeOK, Task0OK, Slots
<1>2. [task[0] EXCEPT !.counter = @ - 1] \in Task
  BY <1>1 DEF Task
<1>3. Ticked \in [Slots -> Task \cup {NULL}] /\ Ticked[0] \in Task /\ \A i \in Slots \ {0} : Ticked[i] = task[i]
  BY <1>1, <1>2 DEF Ticked
<1>4. [Ticked[0] EXCEPT !.counter = Ticked[0].priority] \in Task
  BY <1>3 DEF Task
<1>5. NewSlice(Ticked) = [Ticked EXCEPT ![0] = [Ticked[0] EXCEPT !.counter = Ticked[0].priority]]
  BY DEF NewSlice
<1>6. /\ NewSlice(Ticked) \in [Slots -> Task \cup {NULL}]
      /\ \A i \in Slots \ {0} : NewSlice(Ticked)[i] = task[i]
  BY <1>1, <1>3, <1>4, <1>5
<1> QED
  BY <1>1, <1>3, <1>6 DEF Counted

LEMMA TickTasks == IInv /\ TasksOK /\ ScheduleEnds /\ pc # "stuck" /\ Tick => TasksOK' /\ ScheduleEnds'
<1> SUFFICES ASSUME IInv, TasksOK, pc # "stuck", Tick PROVE TasksOK' /\ ScheduleEnds'
  OBVIOUS
<1> DEFINE renewed == NewSlice(Ticked)
<1>1. ie /\ pc \notin {"stuck", "switched"}
  BY DEF Tick, TasksOK
<1>5. renewed \in [Slots -> Task \cup {NULL}] /\ \A i \in Slots \ {0} : renewed[i] = task[i]
  BY TickCharges DEF Counted
<1>6. Counted(Ticked) /\ Counted(renewed) /\ \A i \in Slots \ {0} : Ticked[i] = task[i]
  BY TickCharges
<1> HIDE DEF renewed
<1>7. /\ Counted(Settled(renewed))
      /\ \A i \in Slots \ {0} : task[i] # NULL =>
           /\ Settled(renewed)[i] # NULL
           /\ Settled(renewed)[i].state = task[i].state
           /\ Settled(renewed)[i].priority = task[i].priority
      /\ \A i \in Slots \ {0} : Settled(renewed)[i] = NULL <=> task[i] = NULL
  BY <1>5, <1>6, SettledCounts, SettledKeeps
<1>8. /\ Counted(task')
      /\ \A i \in Slots \ {0} : task'[i] # NULL =>
            task[i] # NULL /\ task'[i].priority = task[i].priority /\ task'[i].state = task[i].state
  BY <1>6, <1>7 DEF Tick, renewed, Runnable
<1>9. /\ pc' = pc \/ pc' \in {"stuck", "switched"}
      /\ pc' \in {"stuck", "switched"} => ~ie'
      /\ UNCHANGED <<nr, stale>>
  BY <1>1 DEF Tick, SwitchTo
<1>10. TasksOK'
  BY <1>1, <1>8, <1>9 DEF TasksOK, Counted, Runnable
<1>11. ScheduleEnds'
  <2> SUFFICES ASSUME pc' = "stuck", NEW i \in Slots \ {0, nr}, Runnable(task', i) PROVE FALSE
    BY <1>9 DEF ScheduleEnds, Runnable
  <2>1. Endless(renewed)
    BY <1>1, <1>9 DEF Tick, SwitchTo, renewed
  <2>2. Runnable(renewed, i) /\ renewed[i] = task[i]
    BY <1>5, <1>8 DEF Runnable
  <2>3. task[i].priority >= 1
    BY <1>1, <1>8, <2>2 DEF TasksOK, Runnable
  <2> QED
    BY <1>6, <2>1, <2>2, <2>3, EndlessWithoutPriority
<1> QED
  BY <1>10, <1>11

\* fork or its caller gives the slot nr the task t, or takes it away.
LEMMA AssignTasks ==
    ASSUME IInv, TasksOK, ScheduleEnds, NEW t, nr \in Slots \ {0}, task' = [task EXCEPT ![nr] = t],
           pc' \notin {"stuck", "switched"},
           t # NULL => t.counter >= 0 /\ (t.priority >= 1 \/ pc' = "copy"),
           nr' = nr, \A s \in stale' : s.counter >= 0
    PROVE  TasksOK' /\ ScheduleEnds'
<1>1. task'[nr] = t /\ \A i \in Slots \ {0, nr} : task'[i] = task[i]
  BY DEF IInv, TypeOK
<1>2. ASSUME NEW i \in Slots \ {0} PROVE task'[i] # NULL => task'[i].counter >= 0
  BY <1>1 DEF TasksOK
<1>3. ASSUME NEW i \in Slots \ {0}, task'[i] # NULL
      PROVE  task'[i].priority >= 1 \/ (i = nr /\ pc' = "copy")
  <2>1. CASE i = nr
    BY <1>1, <1>3, <2>1
  <2>2. CASE i # nr
    BY <1>1, <1>3, <2>2 DEF TasksOK
  <2> QED
    BY <2>1, <2>2
<1> QED
  BY <1>2, <1>3 DEF TasksOK, ScheduleEnds, Runnable

LEMMA KernelTasks == IInv /\ TasksOK /\ ScheduleEnds /\ Kernel => TasksOK' /\ ScheduleEnds'
<1> SUFFICES ASSUME IInv, TasksOK, ScheduleEnds, Kernel PROVE TasksOK' /\ ScheduleEnds'
  OBVIOUS
<1> USE DEF Step
<1>1. /\ task \in [Slots -> Task \cup {NULL}] /\ 0 \in Slots /\ task[0] \in Task
      /\ task[0].priority >= 1 /\ task[0].counter >= 1
      /\ \A s \in stale : s.counter >= 0 /\ s \in Task
  BY TasksAssumption DEF IInv, TypeOK, Task0OK, Task0HasSlice, Slots, TasksOK
<1>2. CASE Find \/ AllocFails \/ BootReturns \/ TestSched \/ (SetEntry /\ UNCHANGED task)
  <2>1. /\ UNCHANGED <<task, stale>> /\ pc \notin {"copy", "stuck", "switched"}
        /\ pc' \notin {"stuck", "switched"}
    BY <1>2 DEF Find, AllocFails, BootReturns, TestSched, SetEntry
  <2> QED
    BY <2>1 DEF TasksOK, ScheduleEnds, Runnable
<1>3. CASE Link
  <2>1. PICK t \in {Blank} \cup stale : task' = [task EXCEPT ![nr] = t]
    BY <1>3 DEF Link
  <2>2. t.counter >= 0
    BY <1>1, <2>1 DEF Blank
  <2>3. nr \in Slots \ {0} /\ pc = "alloc" /\ pc' = "copy" /\ nr' = nr /\ stale' = stale
    BY <1>3 DEF Link, IInv, SlotOK, TypeOK
  <2> QED
    BY <1>1, <2>1, <2>2, <2>3, AssignTasks
<1>4. CASE Copy \/ Hold \/ Fill \/ Ready \/ (SetEntry /\ ~UNCHANGED task) \/ SetPriority \/ SetCounter
  <2>1. /\ nr \in Slots \ {0} /\ task[nr] # NULL /\ task[nr] \in Task
        /\ pc \in {"copy", "hold", "fill", "memory", "return", "priority", "counter"}
        /\ pc = "copy" <=> Copy
        /\ pc' \in {"hold", "fill", "memory", "return", "priority", "counter", "find", "shell"}
        /\ nr' = nr /\ stale' = stale
    BY <1>4 DEF Copy, Hold, Fill, Ready, SetEntry, SetPriority, SetCounter, IInv, SlotOK, TypeOK
  <2>2. /\ task[nr].counter >= 0 /\ task[nr].priority \in Nat
        /\ ~Copy => task[nr].priority >= 1
    BY <2>1 DEF TasksOK, Runnable, Task
  <2>3. \E t : /\ task' = [task EXCEPT ![nr] = t]
               /\ t.counter >= 0 /\ (~Copy => t.priority >= 1)
               /\ Copy => t.priority >= 1
    <3>1. CASE Copy
      <4>1. task' = [task EXCEPT ![nr] = task[0]] /\ task[0].counter >= 0
        BY <1>1, <3>1 DEF Copy, Task
      <4> QED
        BY <1>1, <4>1
    <3>2. CASE Hold
      <4> DEFINE t == [task[nr] EXCEPT !.state = "uninterruptible"]
      <4>1. task' = [task EXCEPT ![nr] = t] /\ t.counter >= 0 /\ t.priority = task[nr].priority
        BY <2>1, <2>2, <3>2 DEF Hold, Task
      <4> QED
        BY <2>1, <2>2, <3>2, <4>1 DEF Hold
    <3>3. CASE Fill
      <4> DEFINE p == [task[nr] EXCEPT !.pid = 0]
                 t == [p EXCEPT !.counter = task[nr].priority]
      <4>1. p \in Task /\ p.state = task[nr].state /\ p.priority = task[nr].priority
        BY <2>1 DEF Task
      <4>2. task' = [task EXCEPT ![nr] = t]
        BY <1>1, <2>1, <3>3 DEF Fill
      <4>3. t.counter = task[nr].priority /\ t.state = task[nr].state /\ t.priority = task[nr].priority
        BY <4>1 DEF Task
      <4>4. ~Copy
        BY <2>1, <3>3 DEF Fill
      <4> HIDE DEF t
      <4>5. t.counter >= 0 /\ t.priority >= 1
        BY <2>2, <4>3, <4>4
      <4> QED
        BY <4>2, <4>5
    <3>4. CASE Ready
      <4> DEFINE t == [task[nr] EXCEPT !.state = "running"]
      <4>1. task' = [task EXCEPT ![nr] = t] /\ t.counter >= 0 /\ t.priority = task[nr].priority
        BY <2>1, <2>2, <3>4 DEF Ready, Task
      <4> QED
        BY <2>1, <2>2, <3>4, <4>1 DEF Ready
    <3>5. CASE SetEntry /\ ~UNCHANGED task
      <4> DEFINE t == [task[nr] EXCEPT !.entry = caller]
      <4>1. /\ task' = [task EXCEPT ![nr] = t] /\ t.counter >= 0
            /\ t.state = task[nr].state /\ t.priority = task[nr].priority
        BY <2>1, <2>2, <3>5 DEF SetEntry, Task
      <4> QED
        BY <2>1, <2>2, <3>5, <4>1 DEF SetEntry
    <3>6. CASE SetPriority
      <4> DEFINE n == IF caller = "test_sched1" THEN 1 ELSE 2
                 t == [task[nr] EXCEPT !.priority = n]
      <4>1. task' = [task EXCEPT ![nr] = t] /\ t.counter >= 0 /\ t.priority = n /\ n >= 1
        BY <2>1, <2>2, <3>6 DEF SetPriority, Task
      <4> HIDE DEF t, n
      <4> QED
        BY <4>1
    <3>7. CASE SetCounter
      <4> DEFINE t == [task[nr] EXCEPT !.counter = task[nr].priority]
      <4>1. /\ task' = [task EXCEPT ![nr] = t] /\ t.counter = task[nr].priority
            /\ t.state = task[nr].state /\ t.priority = task[nr].priority
        BY <2>1, <2>2, <3>7 DEF SetCounter, Task
      <4>2. ~Copy
        BY <2>1, <3>7 DEF SetCounter
      <4> HIDE DEF t
      <4>3. t.counter >= 0 /\ t.priority >= 1
        BY <2>2, <4>1, <4>2
      <4> QED
        BY <4>1, <4>3
    <3> QED
      BY <1>4, <3>1, <3>2, <3>3, <3>4, <3>5, <3>6, <3>7
  <2>4. PICK t : /\ task' = [task EXCEPT ![nr] = t]
                 /\ t.counter >= 0 /\ (~Copy => t.priority >= 1)
                 /\ Copy => t.priority >= 1
    BY <2>3
  <2>5. Copy => t # NULL
    BY <1>1, <2>1, <2>4, NullAssumption DEF Copy, IInv, Task0OK
  <2> QED
    BY <1>1, <2>1, <2>4, <2>5, AssignTasks
<1>5. CASE MemoryFails
  <2>1. nr \in Slots \ {0} /\ task[nr] # NULL /\ task' = [task EXCEPT ![nr] = NULL]
        /\ pc = "memory" /\ pc' = "return" /\ nr' = nr /\ stale' = stale \cup {task[nr]}
    BY <1>5 DEF MemoryFails, IInv, SlotOK, TypeOK
  <2>2. \A s \in stale' : s.counter >= 0
    BY <1>1, <2>1 DEF TasksOK
  <2> QED
    BY <2>1, <2>2, AssignTasks
<1> QED
  BY <1>2, <1>3, <1>4, <1>5 DEF Kernel

\* Every task that can be chosen has a counter that is not negative and, once
\* fork has copied it, a priority; schedule()'s loop has not met another.
THEOREM TasksInvariant == Spec => [](TasksOK /\ ScheduleEnds)
<1>1. Init => TasksOK /\ ScheduleEnds
  BY DEF Init, TasksOK, ScheduleEnds, Runnable
<1>2. IInv /\ (TasksOK /\ ScheduleEnds) /\ [Next]_vars => (TasksOK /\ ScheduleEnds)'
  <2> SUFFICES ASSUME IInv, TasksOK, ScheduleEnds, [Next]_vars PROVE TasksOK' /\ ScheduleEnds'
    OBVIOUS
  <2>1. CASE Tick
    <3>1. pc # "stuck"
      BY <2>1 DEF Tick, TasksOK
    <3> QED
      BY <2>1, <3>1, TickTasks
  <2>2. CASE Kernel
    BY <2>2, KernelTasks
  <2>3. CASE UNCHANGED vars
    BY <2>3 DEF vars, TasksOK, ScheduleEnds, Runnable
  <2> QED
    BY <2>1, <2>2, <2>3 DEF Next, Ended
<1> QED
  BY <1>1, <1>2, Invariant, PTL DEF Spec

\* The loop of schedule() ends unless fork's half-made task is the only one it
\* could choose (sched.c:109-133, fork.c:92-100).
THEOREM ScheduleReturns == Spec => []ScheduleEnds
<1>1. TasksOK /\ ScheduleEnds => ScheduleEnds
  OBVIOUS
<1> QED
  BY <1>1, TasksInvariant, PTL

\* schedule() chooses the runnable task with the most of its slice left, the
\* highest slot among equals, before and after a recalculation, whatever
\* fork is in the middle of (sched.c:87-88, 108-133).
THEOREM BestIsChosen == Spec => []ChoosesBest
<1>1. IInv /\ TasksOK => ChoosesBest
  <2> SUFFICES ASSUME IInv, TasksOK PROVE ChoosesBest
    OBVIOUS
  <2>1. Counted(task) /\ Counted(Settled(task))
    BY TaskCounted, SettledCounts
  <2> QED
    BY <2>1, ScanIsBest DEF ChoosesBest
<1>2. IInv /\ (TasksOK /\ ScheduleEnds) => ChoosesBest
  BY <1>1
<1> QED
  BY <1>2, Invariant, TasksInvariant, PTL

-----------------------------------------------------------------------------
(* The slices that the tasks keep. *)

\* A tick recalculates the slices only while fork's half-made task is the only
\* one of the table besides task 0: any other could run, with a slice left.
LEMMA TickSlices ==
    ASSUME IInv, TasksOK, FullSlices, OthersRun, Tick
    PROVE  FullSlices' /\ OthersRun'
<1> DEFINE renewed == NewSlice(Ticked)
<1>1. /\ ie /\ pc \notin {"stuck", "switched"} /\ nr' = nr
      /\ pc' = pc \/ pc' \in {"stuck", "switched"}
  BY DEF Tick, SwitchTo, TasksOK
<1>2. \A i \in Slots : Making(i) => Making(i)'
  BY <1>1 DEF Making
<1>4. Counted(Ticked) /\ Counted(renewed) /\ \A i \in Slots \ {0} : Ticked[i] = task[i] /\ renewed[i] = task[i]
  BY TickCharges
<1>5. task' \in {Ticked, Settled(renewed)}
  BY DEF Tick
<1> HIDE DEF renewed
<1>6. CASE task' = Ticked \/ Scan(renewed).c # 0
  <2>1. \A i \in Slots \ {0} : task'[i] = task[i]
    BY <1>4, <1>5, <1>6 DEF Settled
  <2> QED
    BY <1>1, <1>2, <2>1 DEF FullSlices, OthersRun
<1>7. CASE task' = Settled(renewed) /\ Scan(renewed).c = 0
  <2> DEFINE ready == {i \in 1..NR_TASKS - 1 : Runnable(renewed, i)}
  <2>1. BestFrom(renewed, 1, Scan(renewed))
    BY <1>4, ScanFindsBest
  <2>2. PICK k \in ready : renewed[k].counter = 0 /\ \A j \in ready : renewed[j].counter <= 0
    BY <1>7, <2>1 DEF BestFrom
  <2>3. \A i \in Slots \ {0} : i \in 1..NR_TASKS - 1
    BY TasksAssumption DEF Slots
  <2>4. \A i \in 1..NR_TASKS - 1 : i \in Slots \ {0}
    BY TasksAssumption DEF Slots
  <2>5. ASSUME NEW i \in Slots \ {0}, task[i] # NULL, ~Making(i), ~(i = nr /\ pc = "memory") PROVE FALSE
    <3>1. Runnable(renewed, i) /\ renewed[i] = task[i]
      BY <1>1, <1>4, <2>5 DEF OthersRun, Runnable, Making
    <3>2. task[i].priority >= 1 /\ task[i].counter = task[i].priority
      BY <1>1, <2>5 DEF FullSlices, TasksOK, Making
    <3>3. task[i].counter <= 0
      BY <2>2, <2>3, <3>1
    <3>4. task[i].counter \in Int /\ task[i].priority \in Nat
      BY <2>5 DEF IInv, TypeOK, Task
    <3> QED
      BY <3>2, <3>3, <3>4
  <2>6. Making(nr) /\ k = nr
    <3>1. k \in Slots \ {0} /\ task[k] # NULL /\ task[k].counter = 0
      BY <1>4, <2>2, <2>4 DEF Runnable
    <3>2. ~(k = nr /\ pc = "memory")
      <4> SUFFICES ASSUME k = nr, pc = "memory" PROVE FALSE
        OBVIOUS
      <4>1. ~Making(k) /\ task[k].counter = task[k].priority /\ task[k].priority >= 1
        BY <3>1 DEF Making, FullSlices, TasksOK
      <4>2. task[k].counter \in Int
        BY <3>1 DEF IInv, TypeOK, Task
      <4> QED
        BY <3>1, <4>1, <4>2
    <3> QED
      BY <2>5, <3>1, <3>2 DEF Making
  <2>7. \A i \in Slots \ {0} : task[i] # NULL => Making(i)
    BY <2>5, <2>6 DEF Making
  <2>8. /\ \A i \in Slots \ {0} : task'[i] # NULL => task[i] # NULL
        /\ \A i \in Slots \ {0} : task[i] # NULL => task'[i].state = task[i].state
    BY <1>4, <1>7, SettledKeeps, SettledCounts DEF Counted
  <2> QED
    BY <1>1, <1>2, <2>7, <2>8 DEF FullSlices, OthersRun
<1> QED
  BY <1>5, <1>6, <1>7

\* A store to a task's own fields leaves its others as they are.
LEMMA OwnFields ==
    ASSUME NEW t \in Task, NEW n \in Nat, NEW e
    PROVE  /\ [t EXCEPT !.entry = e].counter = t.counter /\ [t EXCEPT !.entry = e].priority = t.priority
           /\ [t EXCEPT !.entry = e].state = t.state
           /\ [t EXCEPT !.state = e].counter = t.counter /\ [t EXCEPT !.state = e].priority = t.priority
           /\ [t EXCEPT !.state = e].state = e
           /\ [t EXCEPT !.counter = n].counter = n /\ [t EXCEPT !.counter = n].priority = t.priority
           /\ [t EXCEPT !.counter = n].state = t.state
           /\ [t EXCEPT !.pid = 0, !.counter = n].counter = n
           /\ [t EXCEPT !.pid = 0, !.counter = n].priority = t.priority
BY DEF Task

\* fork or its caller changes the task of the slot nr.
LEMMA AssignSlices ==
    ASSUME IInv, FullSlices, OthersRun, NEW t, nr' = nr, task' = [task EXCEPT ![nr] = t],
           nr \in Slots \ {0}, pc \notin {"stuck", "switched"}, pc' \notin {"stuck", "switched"},
           pc' \notin {"copy", "hold", "fill", "counter"} /\ t # NULL => t.counter = t.priority,
           pc' \notin {"copy", "hold", "fill", "memory"} /\ t # NULL => t.state = "running"
    PROVE  FullSlices' /\ OthersRun'
<1>1. task'[nr] = t /\ \A i \in Slots \ {0, nr} : task'[i] = task[i]
  BY DEF IInv, TypeOK
<1>2. ASSUME NEW i \in Slots \ {0}, task'[i] # NULL, ~Making(i)' PROVE task'[i].counter = task'[i].priority
  <2>1. CASE i = nr
    BY <1>1, <1>2, <2>1 DEF Making
  <2>2. CASE i # nr
    BY <1>1, <1>2, <2>2 DEF FullSlices, Making
  <2> QED
    BY <2>1, <2>2
<1>3. ASSUME NEW i \in Slots \ {0}, task'[i] # NULL,
             ~(i = nr' /\ pc' \in {"copy", "hold", "fill", "memory", "stuck", "switched"})
      PROVE  task'[i].state = "running"
  <2>1. CASE i = nr
    BY <1>1, <1>3, <2>1
  <2>2. CASE i # nr
    BY <1>1, <1>3, <2>2 DEF OthersRun
  <2> QED
    BY <2>1, <2>2
<1> QED
  BY <1>2, <1>3 DEF FullSlices, OthersRun

LEMMA KernelSlices ==
    ASSUME IInv, FullSlices, OthersRun, Kernel
    PROVE  FullSlices' /\ OthersRun'
<1> USE DEF Step
<1>1. CASE Find \/ AllocFails \/ BootReturns \/ TestSched \/ (SetEntry /\ UNCHANGED task /\ pc' = "fault")
  <2>1. UNCHANGED task /\ pc \in {"find", "alloc", "return", "shell"}
    BY <1>1 DEF Find, AllocFails, BootReturns, TestSched, SetEntry
  <2> QED
    BY <2>1 DEF FullSlices, OthersRun, Making
<1>2. CASE Link
  <2>1. PICK t \in {Blank} \cup stale : task' = [task EXCEPT ![nr] = t]
    BY <1>2 DEF Link
  <2>2. nr \in Slots \ {0} /\ pc = "alloc" /\ pc' = "copy" /\ nr' = nr
    BY <1>2 DEF Link, IInv, SlotOK, TypeOK
  <2> QED
    BY <2>1, <2>2, AssignSlices
<1>3. CASE Copy \/ Hold \/ Fill \/ Ready \/ MemoryFails \/ (SetEntry /\ pc' # "fault") \/ SetPriority \/ SetCounter
  <2>1. /\ nr \in Slots \ {0} /\ task[nr] # NULL /\ task[nr] \in Task /\ task[nr].priority \in Nat
        /\ nr' = nr /\ pc' \notin {"stuck", "switched"}
        /\ pc \in {"copy", "hold", "fill", "memory", "return", "priority", "counter"}
    BY <1>3 DEF Copy, Hold, Fill, Ready, MemoryFails, SetEntry, SetPriority, SetCounter, IInv, SlotOK, TypeOK, Task
  <2>2. CASE Copy \/ Hold
    <3>1. pc' \in {"hold", "fill"} /\ \E t : task' = [task EXCEPT ![nr] = t]
      BY <2>2 DEF Copy, Hold
    <3> QED
      BY <2>1, <3>1, AssignSlices
  <2>3. CASE Fill
    <3> DEFINE t == [task[nr] EXCEPT !.pid = 0, !.counter = task[nr].priority]
    <3>1. task' = [task EXCEPT ![nr] = t] /\ pc' = "memory"
      BY <2>1, <2>3 DEF Fill, IInv, TypeOK
    <3>2. t.counter = t.priority
      BY <2>1, OwnFields
    <3> HIDE DEF t
    <3> QED
      BY <2>1, <3>1, <3>2, AssignSlices
  <2>4. CASE Ready
    <3> DEFINE t == [task[nr] EXCEPT !.state = "running"]
    <3>1. task' = [task EXCEPT ![nr] = t] /\ pc = "memory" /\ pc' = "return"
      BY <2>4 DEF Ready
    <3>2. t.counter = t.priority /\ t.state = "running"
      BY <2>1, <3>1, OwnFields DEF FullSlices, Making
    <3> HIDE DEF t
    <3> QED
      BY <2>1, <3>1, <3>2, AssignSlices
  <2>5. CASE MemoryFails
    BY <2>1, <2>5, AssignSlices DEF MemoryFails
  <2>6. CASE SetEntry /\ pc' # "fault"
    <3> DEFINE t == [task[nr] EXCEPT !.entry = caller]
    <3>1. task' = [task EXCEPT ![nr] = t] /\ pc = "return" /\ pc' = "priority"
      BY <2>6 DEF SetEntry
    <3>2. t.counter = t.priority /\ t.state = "running"
      BY <2>1, <3>1, OwnFields DEF FullSlices, Making, OthersRun
    <3> HIDE DEF t
    <3> QED
      BY <2>1, <3>1, <3>2, AssignSlices
  <2>7. CASE SetPriority
    <3> DEFINE n == IF caller = "test_sched1" THEN 1 ELSE 2
               t == [task[nr] EXCEPT !.priority = n]
    <3>1. task' = [task EXCEPT ![nr] = t] /\ pc = "priority" /\ pc' = "counter"
      BY <2>7 DEF SetPriority
    <3>2. t.state = "running"
      BY <2>1, <3>1 DEF OthersRun, Task
    <3> HIDE DEF t
    <3> QED
      BY <2>1, <3>1, <3>2, AssignSlices
  <2>8. CASE SetCounter
    <3> DEFINE t == [task[nr] EXCEPT !.counter = task[nr].priority]
    <3>1. task' = [task EXCEPT ![nr] = t] /\ pc = "counter" /\ pc' \in {"find", "shell"}
      BY <2>8 DEF SetCounter
    <3>2. t.counter = t.priority /\ t.state = "running"
      BY <2>1, <3>1, OwnFields DEF OthersRun
    <3> HIDE DEF t
    <3> QED
      BY <2>1, <3>1, <3>2, AssignSlices
  <2> QED
    BY <1>3, <2>2, <2>3, <2>4, <2>5, <2>6, <2>7, <2>8
<1> QED
  BY <1>1, <1>2, <1>3 DEF Kernel, SetEntry

\* Every task but task 0 keeps the whole of its slice, its priority, from
\* fork's and test_sched's last store to it on, whatever ticks come between
\* their steps (fork.c:97-100, shell.c:246-256, sched.c:126-132).
THEOREM SlicesStayFull == Spec => []FullSlices
<1>1. Init => FullSlices /\ OthersRun
  BY DEF Init, FullSlices, OthersRun
<1>2. IInv /\ (TasksOK /\ ScheduleEnds) /\ (FullSlices /\ OthersRun) /\ [Next]_vars
        => (FullSlices /\ OthersRun)'
  <2> SUFFICES ASSUME IInv, TasksOK, FullSlices, OthersRun, [Next]_vars PROVE FullSlices' /\ OthersRun'
    OBVIOUS
  <2>1. CASE Tick
    BY <2>1, TickSlices
  <2>2. CASE Kernel
    BY <2>2, KernelSlices
  <2>3. CASE UNCHANGED vars
    BY <2>3 DEF vars, FullSlices, OthersRun, Making
  <2> QED
    BY <2>1, <2>2, <2>3 DEF Next, Ended
<1> QED
  BY <1>1, <1>2, Invariant, TasksInvariant, PTL DEF Spec
=============================================================================

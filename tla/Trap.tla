-------------------------------- MODULE Trap --------------------------------
(***************************************************************************)
(* A trap from the interrupt to ertn: trap_entry saves the registers on    *)
(* the stack of whatever was interrupted, trap_handler serves one source   *)
(* and turns interrupts on again, and trap_entry restores the registers    *)
(* one by one with interrupts on (trap.c).  A trap taken in that window    *)
(* finds the outer one's code, registers and frame half way.               *)
(*                                                                         *)
(* The frame of 33 words is reduced to four, one for each way a register   *)
(* can lie in it: ra in its lowest word, sp, a0 for those in the middle,   *)
(* and s8, which the code stores one word above the frame, at $sp+256.     *)
(* What the handlers do to the kernel is the matter of Sched, Keyboard and *)
(* Console; here they only use registers.                                  *)
(***************************************************************************)
EXTENDS Integers, Sequences, SequencesExt

CONSTANTS
    Device,     \* the sources behind the external interrupt controller
    MaxDepth    \* bound: traps inside one another

ASSUME DeviceAssumption == "timer" \notin Device
ASSUME DepthAssumption == MaxDepth \in Nat \ {0}

VARIABLES
    pc,         \* where the CPU is; a register's name: at its load
    regs,       \* the registers
    mem,        \* the stack
    ie,         \* CRMD.IE
    pie,        \* PRMD.PIE
    era,        \* ERA
    pending,    \* the sources with an interrupt to be served
    saved       \* history: who was interrupted, the innermost last

vars == <<pc, regs, mem, ie, pie, era, pending, saved>>

Reg == {"ra", "sp", "a0", "s8"}
Slot == [ra |-> 0, sp |-> 1, a0 |-> 2, s8 |-> 3]
FRAME == 3      \* what trap_entry moves sp by; one word short of the slots
HFRAME == 2     \* trap_handler's own frame, with its return address on top

\* What a word or a register may hold.
Word(of, n) == [of |-> of, n |-> n]
Address(n) == Word("stack", n)
BackToEntry == Word("trap_entry", 0)

\* The interrupted kernel code has two words of stack of its own.
Bottom == MaxDepth * (FRAME + HFRAME)
Top == Bottom + 1

sp == regs["sp"].n
Innermost == Last(saved)

-----------------------------------------------------------------------------
(* The kernel code that is interrupted, and the interrupt hardware. *)

\* The kernel computes: new values in its registers and its words.
Work(v) ==
    /\ pc = "run"
    /\ regs' = [r \in Reg |-> IF r = "sp" THEN regs[r] ELSE Word(r, v)]
    /\ mem' = [mem EXCEPT ![Bottom] = Word("local", v), ![Top] = Word("local", v)]
    /\ UNCHANGED <<pc, ie, pie, era, pending, saved>>

Raise(s) ==
    /\ s \notin pending
    /\ pending' = pending \cup {s}
    /\ UNCHANGED <<pc, regs, mem, ie, pie, era, saved>>

Interrupted == [pc |-> pc, regs |-> regs, nested |-> FALSE,
                stack |-> [a \in 0..Top |-> IF a < sp THEN Word("free", 0) ELSE mem[a]]]

\* The CPU takes an interrupt before the next instruction.  The trap in whose
\* window it comes is marked.
Trap ==
    /\ ie /\ pending # {} /\ pc # "astray" /\ Len(saved) < MaxDepth
    /\ era' = pc /\ pie' = ie /\ ie' = FALSE
    /\ pc' = "entry"
    /\ saved' = Append(IF pc = "run" THEN saved
                       ELSE [saved EXCEPT ![Len(saved)].nested = TRUE], Interrupted)
    /\ UNCHANGED <<regs, mem, pending>>

-----------------------------------------------------------------------------
(* trap_entry up to the call, and trap_handler's prologue *)

\* trap_handler's frame holds the address behind its call.
Call(from, stack) ==
    /\ regs' = [regs EXCEPT !["sp"] = Address(from - HFRAME), !["ra"] = BackToEntry]
    /\ mem' = [stack EXCEPT ![from - 1] = BackToEntry, ![from - HFRAME] = Word("local", 2)]

\* Mutant of Save: s8 is not saved, its place being taken.
SaveInFrame(from) ==
    [a \in 0..Top |->
        IF \E r \in Reg \ {"s8"} : a = from + Slot[r]
        THEN LET r == CHOOSE r \in Reg \ {"s8"} : a = from + Slot[r]
             IN  IF r = "sp" THEN Address(from) ELSE regs[r]
        ELSE mem[a]]

\* The stack with every register stored in its slot above from.
Save(from) ==
    [a \in 0..Top |->
        IF \E r \in Reg : a = from + Slot[r]
        THEN LET r == CHOOSE r \in Reg : a = from + Slot[r]
             IN  IF r = "sp" THEN Address(from) ELSE regs[r]
        ELSE mem[a]]

\* Mutant of Entry: the frame is a word too small for the registers below s8.
EntryTight ==
    /\ pc = "entry" /\ pc' = "handler"
    /\ Call(sp - FRAME + 1, Save(sp - FRAME + 1))
    /\ UNCHANGED <<ie, pie, era, pending, saved>>

Entry ==
    /\ pc = "entry" /\ pc' = "handler"
    /\ Call(sp - FRAME, Save(sp - FRAME))
    /\ UNCHANGED <<ie, pie, era, pending, saved>>

-----------------------------------------------------------------------------
(* trap_handler *)

\* timer_interrupt.  It also empties the keyboard's controller, which takes
\* back an interrupt on a level triggered line.
TimerInterrupt == \E drained \in {{}, Device} : pending' = pending \ ({"timer"} \cup drained)

\* All devices that claim are served and acknowledged.
DeviceInterrupt == pending' = pending \ Device

\* Mutant of Dispatch: the devices come first.
DispatchDevices ==
    IF pending \cap Device # {} THEN DeviceInterrupt ELSE TimerInterrupt

Dispatch == IF "timer" \in pending THEN TimerInterrupt ELSE DeviceInterrupt

\* From intr_off to intr_on.  The handler changes the registers a function may
\* change; ERA and PRMD are read at its start and written back at its end.
Handler ==
    /\ pc = "handler" /\ pc' = "return"
    /\ Dispatch
    /\ regs' = [regs EXCEPT !["ra"] = Word("scratch", 0), !["a0"] = Word("scratch", 0)]
    /\ era' = era /\ pie' = pie /\ ie' = TRUE
    /\ UNCHANGED <<mem, saved>>

\* trap_handler's epilogue, with interrupts on.
Return ==
    /\ pc = "return"
    /\ regs' = [regs EXCEPT !["ra"] = mem[sp + HFRAME - 1], !["sp"] = Address(sp + HFRAME)]
    /\ pc' = IF regs'["ra"] = BackToEntry THEN "s8" ELSE "astray"
    /\ UNCHANGED <<mem, ie, pie, era, pending, saved>>

-----------------------------------------------------------------------------
(* the rest of trap_entry *)

\* What comes after the load of r.
After == [s8 |-> "a0", a0 |-> "sp", sp |-> "ra", ra |-> "pop"]

Load(r) ==
    /\ pc = r /\ pc' = After[r]
    /\ regs' = [regs EXCEPT ![r] = mem[sp + Slot[r]]]
    /\ UNCHANGED <<mem, ie, pie, era, pending, saved>>

Pop ==
    /\ pc = "pop" /\ pc' = "ertn"
    /\ regs' = [regs EXCEPT !["sp"] = Address(sp + FRAME)]
    /\ UNCHANGED <<mem, ie, pie, era, pending, saved>>

\* ertn to anywhere but where the interrupted code was, or with other
\* registers, is the end of the model: what runs then is no code's intention.
Ertn ==
    /\ pc = "ertn"
    /\ pc' = IF era = Innermost.pc /\ regs = Innermost.regs THEN era ELSE "astray"
    /\ ie' = pie
    /\ saved' = Front(saved)
    /\ UNCHANGED <<regs, mem, pie, era, pending>>

Astray == pc = "astray" /\ UNCHANGED vars

-----------------------------------------------------------------------------
\* The kernel after trap_init and the shell's intr_on.
Init ==
    /\ pc = "run" /\ ie = TRUE /\ pie = FALSE /\ era = "run"
    /\ regs = [r \in Reg |-> IF r = "sp" THEN Address(Bottom) ELSE Word(r, 0)]
    /\ mem = [a \in 0..Top |-> Word("local", IF a >= Bottom THEN 0 ELSE 2)]
    /\ pending = {} /\ saved = <<>>

TrapCode == Trap \/ Entry \/ Handler \/ Return \/ (\E r \in Reg : Load(r)) \/ Pop \/ Ertn

Next ==
    \/ \E v \in 0..1 : Work(v)
    \/ \E s \in Device \cup {"timer"} : Raise(s)
    \/ TrapCode
    \/ Astray

Spec == Init /\ [][Next]_vars

\* The CPU takes an interrupt that is pending and enabled, and goes on.
FairSpec == Spec /\ WF_vars(TrapCode)

-----------------------------------------------------------------------------
Window == {"return", "s8", "a0", "sp", "ra", "pop", "ertn"}

\* A trap that no other trap met in its window resumes exactly what it
\* interrupted: the instruction, every register, interrupts on.  One that was
\* met by a trap has lost ERA and ra but no other register, and goes back into
\* trap_handler's or trap_entry's way back (trap.c:65-138, 190-193).
Resumes ==
    pc = "ertn" =>
        IF Innermost.nested
        THEN era \in Window /\ \A r \in Reg \ {"ra"} : regs[r] = Innermost.regs[r]
        ELSE era = Innermost.pc /\ regs = Innermost.regs /\ pie

\* The stack of the interrupted code is as it was but for its lowest word,
\* where trap_entry put s8 (trap.c:67, 100).
OnlyLowestWordLost ==
    pc = "ertn" =>
        LET from == Innermost.regs["sp"].n
        IN  /\ \A a \in from + 1..Top : mem[a] = Innermost.stack[a]
            /\ mem[from] = Innermost.regs["s8"]

-----------------------------------------------------------------------------
(* The inductive invariant behind the theorems of TrapProofs. *)

Words == [of : Reg \cup {"stack", "trap_entry", "local", "scratch", "free"}, n : Int]
Context == [pc : {"run"} \cup Window, regs : [Reg -> Words], nested : BOOLEAN,
            stack : [0..Top -> Words]]

TypeOK ==
    /\ pc \in {"run", "entry", "handler", "astray"} \cup Window
    /\ regs \in [Reg -> Words] /\ mem \in [0..Top -> Words]
    /\ ie \in BOOLEAN /\ pie \in BOOLEAN /\ era \in {"run"} \cup Window
    /\ pending \subseteq Device \cup {"timer"}
    /\ saved \in Seq(Context) /\ Len(saved) <= MaxDepth

\* The k-th trap: the stack pointer it found, and where it is, with which
\* registers.
Traps == 1..Len(saved)
Found(k) == saved[k].regs["sp"].n
At(k) == IF k = Len(saved) THEN pc ELSE saved[k + 1].pc
Regs(k) == IF k = Len(saved) THEN regs ELSE saved[k + 1].regs

\* How far the stack pointer is below the one that was found.
Used(p) ==
    CASE p \in {"entry", "ertn"} -> 0
      [] p \in {"handler", "return"} -> FRAME + HFRAME
      [] OTHER -> FRAME

\* All but the innermost trap were met by another one in their window.
NestingOK ==
    /\ saved = <<>> <=> pc = "run"
    /\ \A k \in Traps : saved[k].pc = "run" <=> k = 1
    /\ \A k \in Traps \ {Len(saved)} : saved[k].nested
    /\ pc \in {"entry", "handler"} => ~Innermost.nested
    /\ ie <=> pc \in {"run"} \cup Window
    /\ saved # <<>> => pie /\ era \in (IF Innermost.nested THEN Window ELSE {Innermost.pc})

\* Each trap's stack is below that of the one it interrupted.
StackOK(k) ==
    /\ Found(k) >= Bottom - (k - 1) * (FRAME + HFRAME) /\ Found(k) <= Bottom
    /\ saved[k].regs["sp"] = Address(Found(k))
    /\ Regs(k)["sp"] = Address(Found(k) - Used(At(k)))
    /\ \A j \in Traps : j < k => Found(k) <= Found(j) - Used(At(j))

\* What a trap has restored, s8 being changed by nobody.
RegistersOK(k) ==
    /\ saved[k].regs["s8"] = regs["s8"]
    /\ At(k) = "entry" => Regs(k) = saved[k].regs
    /\ At(k) \in {"sp", "ra", "pop", "ertn"} => Regs(k)["a0"] = saved[k].regs["a0"]
    /\ At(k) \in {"pop", "ertn"} /\ ~saved[k].nested => Regs(k)["ra"] = saved[k].regs["ra"]

\* The frame holds what will still be restored, and what is above it is the
\* interrupted code's.
FrameOK(k) ==
    /\ At(k) \notin {"entry", "ertn"} =>
        /\ mem[Found(k) - FRAME + Slot["sp"]] = Address(Found(k) - FRAME)
        /\ mem[Found(k) - FRAME + Slot["a0"]] = saved[k].regs["a0"]
        /\ saved[k].nested \/ mem[Found(k) - FRAME] = saved[k].regs["ra"]
    /\ At(k) \in {"handler", "return"} => mem[Found(k) - FRAME - 1] = BackToEntry
    /\ At(k) # "entry" => mem[Found(k)] = saved[k].regs["s8"]
    /\ \A a \in Found(k) + 1..Top : mem[a] = saved[k].stack[a]

IInv ==
    /\ TypeOK
    /\ pc # "astray" =>
        /\ NestingOK
        /\ saved = <<>> => regs["sp"] = Address(Bottom)
        /\ \A k \in Traps : StackOK(k) /\ RegistersOK(k) /\ FrameOK(k)

-----------------------------------------------------------------------------
\* A timer interrupt is served, however often the devices interrupt
\* (trap.c:159-163).
TimerServed == "timer" \in pending ~> "timer" \notin pending \/ pc = "astray"
=============================================================================

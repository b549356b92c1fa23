----------------------------- MODULE TrapProofs -----------------------------
(***************************************************************************)
(* Theorems about Trap: what a trap resumes, and what it leaves on the     *)
(* stack of the code it interrupted, for any number of traps inside one    *)
(* another, interrupts at every instruction, and any set of devices.       *)
(***************************************************************************)
EXTENDS Trap, SequenceTheorems, TLAPS

\* The interrupted code's stack has room for every trap's frames.
LEMMA Room == Bottom \in Nat /\ Bottom = MaxDepth * 5 /\ Top = Bottom + 1 /\ FRAME = 3 /\ HFRAME = 2
BY DepthAssumption DEF Bottom, Top, FRAME, HFRAME

LEMMA WordTypes ==
    /\ \A n \in Int : Address(n) \in Words
    /\ BackToEntry \in Words /\ Word("scratch", 0) \in Words /\ Word("local", 2) \in Words
    /\ Word("free", 0) \in Words
    /\ \A v \in Int, r \in Reg : Word(r, v) \in Words
    /\ \A v \in Int : Word("local", v) \in Words
BY DEF Address, BackToEntry, Word, Words

LEMMA InnermostIs ==
    ASSUME TypeOK, saved # <<>>
    PROVE  /\ Len(saved) \in Traps /\ Innermost = saved[Len(saved)] /\ Innermost \in Context
           /\ \A k \in Traps : saved[k] \in Context
BY DEF TypeOK, Traps, Innermost, Last

-----------------------------------------------------------------------------
LEMMA InitialState == Init => IInv
<1> SUFFICES ASSUME Init PROVE IInv
  OBVIOUS
<1>1. regs \in [Reg -> Words]
  BY Room, WordTypes DEF Init
<1>6. regs["sp"] = Address(Bottom)
  BY DEF Init, Reg
<1>2. mem \in [0..Top -> Words]
  BY Room, WordTypes DEF Init
<1>3. saved = <<>> /\ saved \in Seq(Context) /\ Len(saved) <= MaxDepth
  BY DepthAssumption DEF Init
<1>4. TypeOK
  BY <1>1, <1>2, <1>3 DEF Init, TypeOK
<1>5. Traps = {}
  BY <1>3 DEF Traps
<1> QED
  BY <1>6, <1>3, <1>4, <1>5 DEF Init, IInv, NestingOK

-----------------------------------------------------------------------------
\* What holds of every trap while the CPU is where it should be.
LEMMA TrapFacts ==
    ASSUME IInv, pc # "astray", NEW k \in Traps
    PROVE  /\ k \in Nat /\ k >= 1 /\ k <= Len(saved) /\ Len(saved) \in Nat /\ Len(saved) <= MaxDepth
           /\ saved[k] \in Context /\ saved[k].regs \in [Reg -> Words]
           /\ Found(k) \in Int /\ Found(k) >= 5 /\ Found(k) <= Bottom
           /\ StackOK(k) /\ RegistersOK(k) /\ FrameOK(k)
           /\ k # Len(saved) => k + 1 \in Traps /\ At(k) = saved[k + 1].pc /\ Regs(k) = saved[k + 1].regs
                                /\ At(k) \in Window /\ saved[k].nested
<1>1. TypeOK /\ NestingOK /\ StackOK(k) /\ RegistersOK(k) /\ FrameOK(k)
  BY DEF IInv
<1>2. k \in 1..Len(saved) /\ Len(saved) \in Nat /\ Len(saved) <= MaxDepth
  BY <1>1 DEF TypeOK, Traps
<1>3. saved[k] \in Context
  BY <1>1, <1>2 DEF TypeOK
<1>4. saved[k].regs \in [Reg -> Words] /\ "sp" \in Reg
  BY <1>3 DEF Context, Reg
<1>5. Found(k) \in Int
  BY <1>4 DEF Found, Words
<1>6. Found(k) >= Bottom - (k - 1) * (FRAME + HFRAME) /\ Found(k) <= Bottom
  BY <1>1 DEF StackOK
<1>7. Found(k) >= 5
  <2>1. (k - 1) * (FRAME + HFRAME) = (k - 1) * 5
    BY DEF FRAME, HFRAME
  <2>2. MaxDepth \in Nat
    BY DepthAssumption
  <2> QED
    BY <1>2, <1>5, <1>6, <2>1, <2>2, Room
<1>8. ASSUME k # Len(saved)
      PROVE  k + 1 \in Traps /\ At(k) = saved[k + 1].pc /\ Regs(k) = saved[k + 1].regs
             /\ At(k) \in Window /\ saved[k].nested
  <2>1. k + 1 \in 1..Len(saved) /\ k + 1 # 1
    BY <1>2, <1>8
  <2>2. saved[k + 1] \in Context /\ saved[k + 1].pc # "run" /\ saved[k].nested
    BY <1>1, <1>2, <1>8, <2>1 DEF TypeOK, NestingOK, Traps
  <2> QED
    BY <1>8, <2>1, <2>2 DEF Traps, At, Regs, Context
<1> QED
  BY <1>1, <1>2, <1>3, <1>4, <1>5, <1>6, <1>7, <1>8

\* How far apart the stacks of two traps are.
LEMMA Apart ==
    ASSUME IInv, pc # "astray", NEW k \in Traps, NEW j \in Traps, j < k
    PROVE  /\ Used(At(j)) \in {0, 3, 5} /\ Found(k) <= Found(j) - Used(At(j))
           /\ At(j) = "return" <=> Used(At(j)) = 5
           /\ At(j) = "ertn" <=> Used(At(j)) = 0
<1>1. Found(k) <= Found(j) - Used(At(j))
  BY TrapFacts DEF StackOK
<1>2. At(j) \in Window
  BY TrapFacts
<1> QED
  BY <1>1, <1>2, Room DEF Used, Window

\* What the innermost trap does leaves the others as they were, if it changes no
\* word above the one where it found the stack pointer, and that one to s8 only.
LEMMA Outer ==
    ASSUME IInv, pc # "astray", saved # <<>>, UNCHANGED saved,
           regs'["s8"] = regs["s8"],
           \A a \in 0..Top : a > Found(Len(saved)) => mem'[a] = mem[a],
           \/ mem'[Found(Len(saved))] = mem[Found(Len(saved))]
           \/ mem'[Found(Len(saved))] = regs["s8"],
           NEW k \in Traps, k # Len(saved)
    PROVE  StackOK(k)' /\ RegistersOK(k)' /\ FrameOK(k)'
<1> DEFINE d == Len(saved)
<1>1. d \in Traps /\ k < d
  BY InnermostIs, TrapFacts DEF IInv
<1>2. /\ Traps' = Traps /\ Bottom' = Bottom /\ Top' = Top
      /\ \A j \in Traps : Found(j)' = Found(j) /\ (j # d => At(j)' = At(j) /\ Regs(j)' = Regs(j))
  BY DEF Traps, Found, At, Regs, Bottom, Top
<1>3. StackOK(k) /\ RegistersOK(k) /\ FrameOK(k) /\ saved[k].nested /\ At(k) \in Window
  BY <1>1, TrapFacts
<1>4. StackOK(k)'
  <2>1. \A j \in Traps : j < k => j # d
    BY <1>1, TrapFacts
  <2> QED
    BY <1>1, <1>2, <1>3, <2>1 DEF StackOK, Used
<1>5. RegistersOK(k)'
  BY <1>1, <1>2, <1>3 DEF RegistersOK
<1>6. FrameOK(k)'
  <2> DEFINE f == Found(k)
             g == Found(d)
             u == Used(At(k))
  <2>1. /\ f \in Int /\ g \in Int /\ f >= 5 /\ g >= 5 /\ f <= Bottom /\ Top = Bottom + 1 /\ Bottom \in Nat
        /\ g <= f - u /\ u \in {0, 3, 5} /\ (At(k) = "return" <=> u = 5) /\ (At(k) = "ertn" <=> u = 0)
    BY <1>1, TrapFacts, Apart, Room
  <2>2. \A a \in 0..Top : a > g => mem'[a] = mem[a]
    OBVIOUS
  <2>3. mem'[g] = mem[g] \/ mem'[g] = saved[k].regs["s8"]
    BY <1>3 DEF RegistersOK
  <2>4. At(k) # "ertn" => mem'[f - 2] = mem[f - 2] /\ mem'[f - 1] = mem[f - 1]
    BY <2>1, <2>2
  <2>5. At(k) = "return" => mem'[f - 4] = mem[f - 4]
    BY <2>1, <2>2
  <2>6. mem'[f] = saved[k].regs["s8"]
    <3>1. mem[f] = saved[k].regs["s8"]
      BY <1>3 DEF FrameOK, Window
    <3>2. CASE f = g
      BY <3>1, <3>2, <2>3
    <3>3. CASE f # g
      BY <3>1, <3>3, <2>1, <2>2
    <3> QED
      BY <3>2, <3>3
  <2>7. \A a \in f + 1..Top : mem'[a] = mem[a]
    BY <2>1, <2>2
  <2>8. f - FRAME + Slot["sp"] = f - 2 /\ f - FRAME + Slot["a0"] = f - 1 /\ f - FRAME - 1 = f - 4
    BY <2>1 DEF FRAME, Slot
  <2>9. At(k) # "handler"
    BY <1>3 DEF Window
  <2>10. \A a \in f + 1..Top : mem[a] = saved[k].stack[a]
    BY <1>3 DEF FrameOK
  <2>11. At(k) # "ertn" => mem[f - 2] = Address(f - FRAME) /\ mem[f - 1] = saved[k].regs["a0"]
    BY <1>3, <2>8, <2>9 DEF FrameOK, Window
  <2>12. At(k) = "return" => mem[f - 4] = BackToEntry
    BY <1>3, <2>8 DEF FrameOK
  <2>13. Found(k)' = f /\ At(k)' = At(k)
    BY <1>1, <1>2
  <2> HIDE DEF f, g, u
  <2> QED
    BY <1>2, <1>3, <2>4, <2>5, <2>6, <2>7, <2>8, <2>9, <2>10, <2>11, <2>12, <2>13 DEF FrameOK, f
<1> QED
  BY <1>4, <1>5, <1>6

\* The innermost trap is the one the CPU is in.
LEMMA Inside ==
    ASSUME IInv, pc # "astray", pc # "run"
    PROVE  /\ TypeOK /\ NestingOK /\ saved # <<>> /\ Len(saved) \in Traps
           /\ Innermost = saved[Len(saved)] /\ Innermost \in Context
           /\ At(Len(saved)) = pc /\ Regs(Len(saved)) = regs
           /\ regs["sp"] = Address(Found(Len(saved)) - Used(pc))
           /\ sp = Found(Len(saved)) - Used(pc)
<1>1. TypeOK /\ NestingOK /\ saved # <<>>
  BY DEF IInv, NestingOK
<1>2. At(Len(saved)) = pc /\ Regs(Len(saved)) = regs
  BY DEF At, Regs
<1>3. regs["sp"] = Address(Found(Len(saved)) - Used(pc))
  BY <1>1, <1>2, InnermostIs, TrapFacts DEF StackOK
<1>4. sp = Found(Len(saved)) - Used(pc)
  BY <1>3 DEF sp, Address, Word
<1> QED
  BY <1>1, <1>2, <1>3, <1>4, InnermostIs

\* A step of the innermost trap keeps the invariant if it keeps its own part.
LEMMA StepInside ==
    ASSUME IInv, pc # "astray", pc # "run", UNCHANGED saved,
           regs'["s8"] = regs["s8"],
           \A a \in 0..Top : a > Found(Len(saved)) => mem'[a] = mem[a],
           \/ mem'[Found(Len(saved))] = mem[Found(Len(saved))]
           \/ mem'[Found(Len(saved))] = regs["s8"],
           TypeOK', NestingOK',
           StackOK(Len(saved))', RegistersOK(Len(saved))', FrameOK(Len(saved))'
    PROVE  IInv'
<1>1. saved # <<>> /\ Traps' = Traps /\ Len(saved)' = Len(saved)
  BY Inside DEF Traps
<1>2. \A k \in Traps : k # Len(saved) => StackOK(k)' /\ RegistersOK(k)' /\ FrameOK(k)'
  BY <1>1, Outer
<1> QED
  BY <1>1, <1>2 DEF IInv

\* The innermost trap's distance to the others is kept.
LEMMA StackKept ==
    ASSUME IInv, pc # "astray", pc # "run", UNCHANGED saved,
           regs'["sp"] = Address(Found(Len(saved)) - Used(pc'))
    PROVE  /\ StackOK(Len(saved))' /\ At(Len(saved))' = pc' /\ Regs(Len(saved))' = regs'
           /\ Found(Len(saved))' = Found(Len(saved))
<1> DEFINE d == Len(saved)
<1>1. d \in Traps /\ d \in Nat /\ StackOK(d)
  BY Inside, TrapFacts
<1>2. /\ Traps' = Traps /\ d' = d /\ Bottom' = Bottom
      /\ \A j \in Traps : Found(j)' = Found(j) /\ (j # d => At(j)' = At(j) /\ Regs(j)' = Regs(j))
  BY DEF Traps, Found, At, Regs, Bottom
<1>3. At(d)' = pc' /\ Regs(d)' = regs'
  BY DEF At, Regs
<1>4. \A j \in Traps : j < d => j # d
  BY <1>1 DEF Traps
<1> QED
  BY <1>1, <1>2, <1>3, <1>4 DEF StackOK, Used

LEMMA Saved ==
    ASSUME NEW from \in Int, 0 <= from, from + 3 <= Top, TypeOK
    PROVE  /\ Save(from) \in [0..Top -> Words]
           /\ Save(from)[from] = regs["ra"] /\ Save(from)[from + 1] = Address(from)
           /\ Save(from)[from + 2] = regs["a0"] /\ Save(from)[from + 3] = regs["s8"]
           /\ \A a \in 0..Top : a < from \/ a > from + 3 => Save(from)[a] = mem[a]
<1>1. Reg = {"ra", "sp", "a0", "s8"} /\ Slot["ra"] = 0 /\ Slot["sp"] = 1 /\ Slot["a0"] = 2 /\ Slot["s8"] = 3
  BY DEF Reg, Slot
<1>2. \A r \in Reg : Slot[r] \in 0..3
  BY <1>1
<1>3. \A r \in Reg : (CHOOSE q \in Reg : from + Slot[r] = from + Slot[q]) = r
  <2> TAKE r \in Reg
  <2>1. \A q \in Reg : from + Slot[r] = from + Slot[q] => q = r
    BY <1>1
  <2> QED
    BY <2>1
<1>4. Top \in Int /\ \A r \in Reg : from + Slot[r] \in 0..Top
  BY <1>2, Room
<1>5. \A r \in Reg : Save(from)[from + Slot[r]] = IF r = "sp" THEN Address(from) ELSE regs[r]
  <2> TAKE r \in Reg
  <2>1. Save(from)[from + Slot[r]] =
            LET q == CHOOSE q \in Reg : from + Slot[r] = from + Slot[q]
            IN  IF q = "sp" THEN Address(from) ELSE regs[q]
    BY <1>4 DEF Save
  <2> QED
    BY <1>3, <2>1
<1>6. \A a \in 0..Top : a < from \/ a > from + 3 => Save(from)[a] = mem[a]
  <2> TAKE a \in 0..Top
  <2>1. a < from \/ a > from + 3 => ~\E r \in Reg : a = from + Slot[r]
    BY <1>2, <1>4
  <2> QED
    BY <2>1 DEF Save
<1>7. Save(from) \in [0..Top -> Words]
  <2> SUFFICES ASSUME NEW a \in 0..Top PROVE Save(from)[a] \in Words
    BY DEF Save
  <2>1. CASE \E r \in Reg : a = from + Slot[r]
    BY <1>5, <2>1, WordTypes DEF TypeOK
  <2>2. CASE ~\E r \in Reg : a = from + Slot[r]
    BY <2>2 DEF Save, TypeOK
  <2> QED
    BY <2>1, <2>2
<1> QED
  BY <1>1, <1>5, <1>6, <1>7

-----------------------------------------------------------------------------
\* The kernel's own steps and the devices'.
LEMMA KernelStep ==
    IInv /\ ((\E v \in 0..1 : Work(v)) \/ (\E s \in Device \cup {"timer"} : Raise(s)) \/ UNCHANGED vars) => IInv'
<1> SUFFICES ASSUME IInv, (\E v \in 0..1 : Work(v)) \/ (\E s \in Device \cup {"timer"} : Raise(s)) \/ UNCHANGED vars
             PROVE  IInv'
  OBVIOUS
<1>1. ASSUME NEW v \in 0..1, Work(v) PROVE IInv'
  <2>1. pc = "run" /\ pc' = "run" /\ saved = <<>> /\ UNCHANGED <<ie, pie, era, pending, saved>>
    BY <1>1 DEF Work, IInv, NestingOK
  <2>2. regs' \in [Reg -> Words] /\ regs'["sp"] = regs["sp"]
    <3>1. \A r \in Reg : Word(r, v) \in Words
      BY WordTypes
    <3>2. regs' = [r \in Reg |-> IF r = "sp" THEN regs[r] ELSE Word(r, v)]
      BY <1>1 DEF Work
    <3>3. "sp" \in Reg /\ regs \in [Reg -> Words]
      BY DEF Reg, IInv, TypeOK
    <3> QED
      BY <3>1, <3>2, <3>3
  <2>3. mem' \in [0..Top -> Words]
    <3>1. Word("local", v) \in Words
      BY WordTypes
    <3> QED
      BY <1>1, <3>1 DEF Work, IInv, TypeOK
  <2>4. TypeOK'
    BY <2>1, <2>2, <2>3 DEF IInv, TypeOK
  <2>5. Traps' = {}
    BY <2>1 DEF Traps
  <2> QED
    BY <2>1, <2>2, <2>4, <2>5 DEF IInv, NestingOK, Bottom
<1>2. CASE (\E s \in Device \cup {"timer"} : Raise(s)) \/ UNCHANGED vars
  <2>1. UNCHANGED <<pc, regs, mem, ie, pie, era, saved>> /\ pending' \subseteq Device \cup {"timer"}
    BY <1>2 DEF Raise, vars, IInv, TypeOK
  <2>2. TypeOK'
    BY <2>1 DEF IInv, TypeOK
  <2>3. /\ Traps' = Traps /\ Innermost' = Innermost
        /\ \A k : Found(k)' = Found(k) /\ At(k)' = At(k) /\ Regs(k)' = Regs(k)
    BY <2>1 DEF Traps, Innermost, Found, At, Regs
  <2>4. \A k : StackOK(k)' = StackOK(k) /\ RegistersOK(k)' = RegistersOK(k) /\ FrameOK(k)' = FrameOK(k)
    BY <2>1, <2>3 DEF StackOK, RegistersOK, FrameOK, Used, Bottom, Top
  <2>5. NestingOK' = NestingOK
    BY <2>1, <2>3 DEF NestingOK
  <2> QED
    BY <2>1, <2>2, <2>3, <2>4, <2>5 DEF IInv, Bottom
<1> QED
  BY <1>1, <1>2

LEMMA EntryStep == IInv /\ Entry => IInv'
<1> SUFFICES ASSUME IInv, Entry PROVE IInv'
  OBVIOUS
<1> DEFINE d == Len(saved)
           f == Found(Len(saved))
<1>1. /\ pc = "entry" /\ pc' = "handler" /\ UNCHANGED <<ie, pie, era, pending, saved>>
      /\ Call(sp - FRAME, Save(sp - FRAME))
  BY DEF Entry
<1>2. /\ TypeOK /\ NestingOK /\ d \in Traps /\ At(d) = pc /\ Regs(d) = regs /\ sp = f - Used(pc)
      /\ Innermost = saved[d]
  BY <1>1, Inside
<1>3. /\ f \in Int /\ f >= 5 /\ f <= Bottom /\ Bottom \in Nat /\ Top = Bottom + 1
      /\ StackOK(d) /\ RegistersOK(d) /\ FrameOK(d)
  BY <1>1, <1>2, TrapFacts, Room
<1>4. sp - FRAME = f - 3 /\ f - 3 - HFRAME = f - 5
  BY <1>1, <1>2, <1>3, Room DEF Used
<1> DEFINE s == Save(f - 3)
<1>5. /\ s \in [0..Top -> Words] /\ s[f - 3] = regs["ra"] /\ s[f - 2] = Address(f - 3)
      /\ s[f - 1] = regs["a0"] /\ s[f] = regs["s8"]
      /\ \A a \in 0..Top : a < f - 3 \/ a > f => s[a] = mem[a]
  <2>1. f - 3 \in Int /\ 0 <= f - 3 /\ f - 3 + 3 <= Top /\ f - 3 + 1 = f - 2 /\ f - 3 + 2 = f - 1 /\ f - 3 + 3 = f
    BY <1>3
  <2> HIDE DEF f, d
  <2> QED
    BY <1>2, <2>1, Saved
<1>6. /\ regs' = [regs EXCEPT !["sp"] = Address(f - 5), !["ra"] = BackToEntry]
      /\ mem' = [s EXCEPT ![f - 4] = BackToEntry, ![f - 5] = Word("local", 2)]
  <2>1. f - 3 - 1 = f - 4
    BY <1>3
  <2> QED
    BY <1>1, <1>4, <2>1 DEF Call
<1>7. regs' \in [Reg -> Words] /\ regs'["sp"] = Address(f - 5) /\ regs'["s8"] = regs["s8"]
  BY <1>2, <1>3, <1>6, WordTypes DEF TypeOK, Reg
<1>8. /\ mem' \in [0..Top -> Words] /\ mem'[f - 4] = BackToEntry /\ mem'[f - 3] = regs["ra"]
      /\ mem'[f - 2] = Address(f - 3) /\ mem'[f - 1] = regs["a0"] /\ mem'[f] = regs["s8"]
      /\ \A a \in 0..Top : a > f => mem'[a] = mem[a]
  <2> HIDE DEF s, f
  <2> QED
    BY <1>3, <1>5, <1>6, WordTypes
<1>9. TypeOK'
  BY <1>1, <1>2, <1>7, <1>8 DEF TypeOK
<1>10. Used(pc') = 5
  BY <1>1, Room DEF Used
<1>11. StackOK(d)' /\ At(d)' = "handler" /\ Regs(d)' = regs' /\ Found(d)' = f
  BY <1>1, <1>7, <1>10, StackKept
<1>12. regs = saved[d].regs /\ ~saved[d].nested
  BY <1>1, <1>2, <1>3 DEF RegistersOK, NestingOK
<1>13. NestingOK'
  <2>1. Traps' = Traps /\ Innermost' = Innermost /\ "entry" \notin Window /\ "handler" \notin Window
    BY <1>1 DEF Traps, Innermost, Window
  <2> QED
    BY <1>1, <1>2, <1>12, <2>1 DEF NestingOK
<1>14. RegistersOK(d)'
  BY <1>1, <1>3, <1>7, <1>11 DEF RegistersOK
<1>15. FrameOK(d)'
  <2>1. \A a \in f + 1..Top : mem'[a] = saved[d].stack[a]
    <3>1. \A a \in f + 1..Top : mem[a] = saved[d].stack[a]
      BY <1>3 DEF FrameOK
    <3>2. \A a \in f + 1..Top : a \in 0..Top /\ a > f
      BY <1>3
    <3> QED
      BY <1>8, <3>1, <3>2
  <2>2. f - FRAME + Slot["sp"] = f - 2 /\ f - FRAME + Slot["a0"] = f - 1 /\ f - FRAME - 1 = f - 4 /\ f - FRAME = f - 3
    BY <1>3 DEF FRAME, Slot
  <2>3. Top' = Top /\ d' = d
    BY <1>1 DEF Top, Bottom
  <2> HIDE DEF f, d
  <2> QED
    BY <1>1, <1>8, <1>11, <1>12, <2>1, <2>2, <2>3 DEF FrameOK
<1> QED
  BY <1>1, <1>7, <1>8, <1>9, <1>11, <1>13, <1>14, <1>15, StepInside

LEMMA HandlerStep == IInv /\ Handler => IInv'
<1> SUFFICES ASSUME IInv, Handler PROVE IInv'
  OBVIOUS
<1> DEFINE d == Len(saved)
           f == Found(Len(saved))
<1>1. /\ pc = "handler" /\ pc' = "return" /\ UNCHANGED <<mem, pie, era, saved>> /\ ie' = TRUE
      /\ Dispatch
      /\ regs' = [regs EXCEPT !["ra"] = Word("scratch", 0), !["a0"] = Word("scratch", 0)]
  BY DEF Handler
<1>2. /\ TypeOK /\ NestingOK /\ d \in Traps /\ At(d) = pc /\ Regs(d) = regs
      /\ regs["sp"] = Address(f - Used(pc)) /\ Innermost = saved[d] /\ saved # <<>>
  BY <1>1, Inside
<1>3. StackOK(d) /\ RegistersOK(d) /\ FrameOK(d)
  BY <1>1, <1>2, TrapFacts
<1>4. /\ regs' \in [Reg -> Words] /\ regs'["s8"] = regs["s8"] /\ regs'["sp"] = regs["sp"]
  BY <1>1, <1>2, WordTypes DEF TypeOK, Reg
<1>5. Used(pc') = Used(pc)
  BY <1>1 DEF Used
<1>6. StackOK(d)' /\ At(d)' = "return" /\ Regs(d)' = regs' /\ Found(d)' = f
  BY <1>1, <1>2, <1>4, <1>5, StackKept
<1>7. TypeOK'
  <2>1. pending' \subseteq pending
    BY <1>1 DEF Dispatch, TimerInterrupt, DeviceInterrupt
  <2>2. pc' \in Window
    BY <1>1 DEF Window
  <2> QED
    BY <1>1, <1>2, <1>4, <2>1, <2>2 DEF TypeOK
<1>8. NestingOK'
  <2>1. Traps' = Traps /\ Innermost' = Innermost /\ "return" \in Window
    BY <1>1 DEF Traps, Innermost, Window
  <2> QED
    BY <1>1, <1>2, <2>1 DEF NestingOK
<1>9. RegistersOK(d)'
  BY <1>1, <1>3, <1>4, <1>6 DEF RegistersOK
<1>10. FrameOK(d)'
  <2>1. Top' = Top /\ d' = d /\ f = Found(d)
    BY <1>1 DEF Top, Bottom
  <2> HIDE DEF f, d
  <2> QED
    BY <1>1, <1>2, <1>3, <1>6, <2>1 DEF FrameOK
<1> QED
  BY <1>1, <1>4, <1>6, <1>7, <1>8, <1>9, <1>10, StepInside

\* The way back: a step of trap_handler's epilogue or trap_entry's loads.
LEMMA WayBack ==
    ASSUME IInv, pc \in Window \ {"ertn"}, pc' \in Window \ {"return"},
           UNCHANGED <<mem, ie, pie, era, pending, saved>>,
           regs' \in [Reg -> Words], regs'["s8"] = regs["s8"],
           regs'["sp"] = Address(Found(Len(saved)) - Used(pc')),
           pc' \in {"sp", "ra", "pop", "ertn"} => regs'["a0"] = saved[Len(saved)].regs["a0"],
           pc' \in {"pop", "ertn"} /\ ~saved[Len(saved)].nested => regs'["ra"] = saved[Len(saved)].regs["ra"]
    PROVE  IInv'
<1> DEFINE d == Len(saved)
           f == Found(Len(saved))
<1>1. pc # "astray" /\ pc # "run" /\ pc # "entry" /\ pc' # "run" /\ pc' # "entry" /\ pc' # "handler"
  BY DEF Window
<1>2. /\ TypeOK /\ NestingOK /\ d \in Traps /\ At(d) = pc /\ Regs(d) = regs /\ Innermost = saved[d] /\ saved # <<>>
  BY <1>1, Inside
<1>3. StackOK(d) /\ RegistersOK(d) /\ FrameOK(d)
  BY <1>1, <1>2, TrapFacts
<1>4. StackOK(d)' /\ At(d)' = pc' /\ Regs(d)' = regs' /\ Found(d)' = f
  BY <1>1, StackKept
<1>5. TypeOK'
  BY <1>2 DEF TypeOK
<1>6. NestingOK'
  <2>1. Traps' = Traps /\ Innermost' = Innermost
    BY DEF Traps, Innermost
  <2> QED
    BY <1>1, <1>2, <2>1 DEF NestingOK
<1>7. RegistersOK(d)'
  BY <1>1, <1>3, <1>4 DEF RegistersOK
<1>8. FrameOK(d)'
  <2>1. Top' = Top /\ d' = d /\ f = Found(d)
    BY DEF Top, Bottom
  <2> HIDE DEF f, d
  <2> QED
    BY <1>1, <1>2, <1>3, <1>4, <2>1 DEF FrameOK
<1> QED
  BY <1>1, <1>4, <1>5, <1>6, <1>7, <1>8, StepInside

\* Where the registers of the innermost trap lie while it goes back.
LEMMA FrameRead ==
    ASSUME IInv, pc \in Window \ {"ertn"}
    PROVE  LET d == Len(saved)
               f == Found(Len(saved))
           IN  /\ f \in Int /\ f >= 5 /\ f <= Bottom /\ Top = Bottom + 1 /\ Bottom \in Nat
               /\ sp = f - Used(pc) /\ regs \in [Reg -> Words] /\ mem \in [0..Top -> Words]
               /\ RegistersOK(d) /\ At(d) = pc /\ Regs(d) = regs
               /\ mem[f - 2] = Address(f - 3) /\ mem[f - 1] = saved[d].regs["a0"]
               /\ saved[d].nested \/ mem[f - 3] = saved[d].regs["ra"]
               /\ pc = "return" => mem[f - 4] = BackToEntry
               /\ mem[f] = regs["s8"]
<1> DEFINE d == Len(saved)
           f == Found(Len(saved))
<1>1. pc # "astray" /\ pc # "run" /\ pc # "entry"
  BY DEF Window
<1>2. TypeOK /\ d \in Traps /\ At(d) = pc /\ Regs(d) = regs /\ sp = f - Used(pc)
  BY <1>1, Inside
<1>3. /\ RegistersOK(d) /\ FrameOK(d)
      /\ f \in Int /\ f >= 5 /\ f <= Bottom /\ Top = Bottom + 1 /\ Bottom \in Nat
  BY <1>1, <1>2, TrapFacts, Room
<1>4. f - FRAME + Slot["sp"] = f - 2 /\ f - FRAME + Slot["a0"] = f - 1 /\ f - FRAME - 1 = f - 4 /\ f - FRAME = f - 3
  BY <1>3 DEF FRAME, Slot
<1>5. saved[d].regs["s8"] = regs["s8"]
  BY <1>3 DEF RegistersOK
<1>6. /\ mem[f - 2] = Address(f - 3) /\ mem[f - 1] = saved[d].regs["a0"]
      /\ saved[d].nested \/ mem[f - 3] = saved[d].regs["ra"]
      /\ pc = "return" => mem[f - 4] = BackToEntry
      /\ mem[f] = saved[d].regs["s8"]
  BY <1>1, <1>2, <1>3, <1>4 DEF FrameOK
<1> QED
  BY <1>2, <1>3, <1>5, <1>6 DEF TypeOK

LEMMA ReturnStep == IInv /\ Return => IInv'
<1> SUFFICES ASSUME IInv, Return PROVE IInv'
  OBVIOUS
<1> DEFINE f == Found(Len(saved))
<1>1. /\ pc = "return" /\ UNCHANGED <<mem, ie, pie, era, pending, saved>>
      /\ regs' = [regs EXCEPT !["ra"] = mem[sp + HFRAME - 1], !["sp"] = Address(sp + HFRAME)]
      /\ pc' = IF regs'["ra"] = BackToEntry THEN "s8" ELSE "astray"
  BY DEF Return
<1>2. /\ f \in Int /\ f >= 5 /\ f <= Bottom /\ Top = Bottom + 1 /\ Bottom \in Nat /\ sp = f - 5
      /\ regs \in [Reg -> Words] /\ mem \in [0..Top -> Words] /\ mem[f - 4] = BackToEntry
  BY <1>1, FrameRead, Room DEF Used, Window
<1>3. sp + HFRAME - 1 = f - 4 /\ sp + HFRAME = f - 3
  BY <1>2, Room
<1>4. /\ regs' \in [Reg -> Words] /\ regs'["ra"] = BackToEntry /\ regs'["sp"] = Address(f - 3)
      /\ regs'["s8"] = regs["s8"]
  BY <1>1, <1>2, <1>3, WordTypes DEF Reg
<1>5. pc' = "s8" /\ Used(pc') = 3
  BY <1>1, <1>4, Room DEF Used
<1> QED
  BY <1>1, <1>4, <1>5, WayBack DEF Window

LEMMA LoadStep == ASSUME NEW r \in Reg PROVE IInv /\ Load(r) => IInv'
<1> SUFFICES ASSUME IInv, Load(r) PROVE IInv'
  OBVIOUS
<1> DEFINE d == Len(saved)
           f == Found(Len(saved))
<1>1. /\ pc = r /\ pc' = After[r] /\ UNCHANGED <<mem, ie, pie, era, pending, saved>>
      /\ regs' = [regs EXCEPT ![r] = mem[sp + Slot[r]]]
  BY DEF Load
<1>2. pc \in Window \ {"ertn"} /\ Used(pc) = 3 /\ pc # "return"
  BY <1>1, Room DEF Reg, Window, Used
<1>3. /\ f \in Int /\ f >= 5 /\ f <= Bottom /\ Top = Bottom + 1 /\ Bottom \in Nat /\ sp = f - 3
      /\ regs \in [Reg -> Words] /\ mem \in [0..Top -> Words]
      /\ RegistersOK(d) /\ At(d) = pc /\ Regs(d) = regs
      /\ mem[f - 2] = Address(f - 3) /\ mem[f - 1] = saved[d].regs["a0"]
      /\ saved[d].nested \/ mem[f - 3] = saved[d].regs["ra"]
      /\ mem[f] = regs["s8"]
  BY <1>2, FrameRead
<1>4. /\ Slot["ra"] = 0 /\ Slot["sp"] = 1 /\ Slot["a0"] = 2 /\ Slot["s8"] = 3
      /\ After["s8"] = "a0" /\ After["a0"] = "sp" /\ After["sp"] = "ra" /\ After["ra"] = "pop"
      /\ Reg = {"ra", "sp", "a0", "s8"}
  BY DEF Slot, After, Reg
<1>5. sp + 0 = f - 3 /\ sp + 1 = f - 2 /\ sp + 2 = f - 1 /\ sp + 3 = f
  BY <1>3
<1>6. regs["sp"] = Address(f - 3)
  <2>1. pc # "astray" /\ pc # "run"
    BY <1>2 DEF Window
  <2> QED
    BY <1>2, <2>1, Inside
<1>7. Used("a0") = 3 /\ Used("sp") = 3 /\ Used("ra") = 3 /\ Used("pop") = 3
  BY Room DEF Used
<1>8. pc' \in Window \ {"return"}
  BY <1>1, <1>4 DEF Window
<1>9. f - 3 \in 0..Top /\ f - 2 \in 0..Top /\ f - 1 \in 0..Top /\ f \in 0..Top
  BY <1>3
<1>10. pc \in {"sp", "ra"} => regs["a0"] = saved[d].regs["a0"]
  BY <1>3 DEF RegistersOK
<1> HIDE DEF f, d
<1>11. CASE r = "s8"
  <2>1. pc' = "a0" /\ regs' = [regs EXCEPT !["s8"] = mem[f]]
    BY <1>1, <1>4, <1>5, <1>11
  <2>2. regs' \in [Reg -> Words] /\ regs'["s8"] = regs["s8"] /\ regs'["sp"] = Address(f - 3)
    BY <1>3, <1>4, <1>6, <1>9, <2>1
  <2> QED
    BY <1>1, <1>2, <1>7, <1>8, <2>1, <2>2, WayBack DEF f, d
<1>12. CASE r = "a0"
  <2>1. pc' = "sp" /\ regs' = [regs EXCEPT !["a0"] = mem[f - 1]]
    BY <1>1, <1>4, <1>5, <1>12
  <2>2. /\ regs' \in [Reg -> Words] /\ regs'["s8"] = regs["s8"] /\ regs'["sp"] = Address(f - 3)
        /\ regs'["a0"] = saved[d].regs["a0"]
    BY <1>3, <1>4, <1>6, <1>9, <2>1
  <2> QED
    BY <1>1, <1>2, <1>7, <1>8, <2>1, <2>2, WayBack DEF f, d
<1>13. CASE r = "sp"
  <2>1. pc' = "ra" /\ regs' = [regs EXCEPT !["sp"] = mem[f - 2]]
    BY <1>1, <1>4, <1>5, <1>13
  <2>2. /\ regs' \in [Reg -> Words] /\ regs'["s8"] = regs["s8"] /\ regs'["sp"] = Address(f - 3)
        /\ regs'["a0"] = saved[d].regs["a0"]
    BY <1>1, <1>3, <1>4, <1>9, <1>10, <1>13, <2>1
  <2> QED
    BY <1>1, <1>2, <1>7, <1>8, <2>1, <2>2, WayBack DEF f, d
<1>14. CASE r = "ra"
  <2>1. pc' = "pop" /\ regs' = [regs EXCEPT !["ra"] = mem[f - 3]]
    BY <1>1, <1>4, <1>5, <1>14
  <2>2. /\ regs' \in [Reg -> Words] /\ regs'["s8"] = regs["s8"] /\ regs'["sp"] = Address(f - 3)
        /\ regs'["a0"] = saved[d].regs["a0"] /\ (saved[d].nested \/ regs'["ra"] = saved[d].regs["ra"])
    BY <1>1, <1>3, <1>4, <1>6, <1>9, <1>10, <1>14, <2>1
  <2> QED
    BY <1>1, <1>2, <1>7, <1>8, <2>1, <2>2, WayBack DEF f, d
<1> QED
  BY <1>4, <1>11, <1>12, <1>13, <1>14

LEMMA PopStep == IInv /\ Pop => IInv'
<1> SUFFICES ASSUME IInv, Pop PROVE IInv'
  OBVIOUS
<1> DEFINE d == Len(saved)
           f == Found(Len(saved))
<1>1. /\ pc = "pop" /\ pc' = "ertn" /\ UNCHANGED <<mem, ie, pie, era, pending, saved>>
      /\ regs' = [regs EXCEPT !["sp"] = Address(sp + FRAME)]
  BY DEF Pop
<1>2. /\ f \in Int /\ sp = f - 3 /\ regs \in [Reg -> Words] /\ RegistersOK(d) /\ At(d) = pc /\ Regs(d) = regs
  BY <1>1, FrameRead, Room DEF Used, Window
<1>3. sp + FRAME = f /\ f - Used(pc') = f
  BY <1>1, <1>2, Room DEF Used
<1>4. /\ regs' \in [Reg -> Words] /\ regs'["sp"] = Address(f)
      /\ regs'["s8"] = regs["s8"] /\ regs'["a0"] = regs["a0"] /\ regs'["ra"] = regs["ra"]
  BY <1>1, <1>2, <1>3, WordTypes DEF Reg
<1>5. /\ regs["a0"] = saved[d].regs["a0"]
      /\ saved[d].nested \/ regs["ra"] = saved[d].regs["ra"]
  BY <1>1, <1>2 DEF RegistersOK
<1> HIDE DEF f, d
<1> QED
  BY <1>1, <1>3, <1>4, <1>5, WayBack DEF Window, f, d

\* Back in the code that was interrupted, with its registers: the trap below is
\* where it was.
LEMMA ErtnStep == IInv /\ Ertn => IInv'
<1> SUFFICES ASSUME IInv, Ertn PROVE IInv'
  OBVIOUS
<1> DEFINE d == Len(saved)
           f == Found(Len(saved))
<1>1. /\ pc = "ertn" /\ UNCHANGED <<regs, mem, pie, era, pending>> /\ ie' = pie /\ saved' = Front(saved)
      /\ pc' = IF era = Innermost.pc /\ regs = Innermost.regs THEN era ELSE "astray"
  BY DEF Ertn
<1>2. /\ TypeOK /\ NestingOK /\ d \in Traps /\ At(d) = pc /\ Regs(d) = regs
      /\ regs["sp"] = Address(f - Used(pc)) /\ Innermost = saved[d] /\ Innermost \in Context /\ saved # <<>>
  BY <1>1, Inside
<1>3. /\ saved' \in Seq(Context) /\ Len(saved') = d - 1 /\ d \in Nat /\ d >= 1 /\ d <= MaxDepth
      /\ \A k \in 1..d - 1 : saved'[k] = saved[k]
  <2>1. saved \in Seq(Context) /\ saved # <<>> /\ d \in Nat /\ d >= 1 /\ d <= MaxDepth
    BY <1>2 DEF TypeOK, Traps
  <2>2. saved' = SubSeq(saved, 1, Len(saved) - 1)
    BY <1>1 DEF Front
  <2>3. \A i \in 1..d - 1 : saved[i] \in Context
    BY <2>1, ElementOfSeq
  <2>4. /\ SubSeq(saved, 1, d - 1) \in Seq(Context)
        /\ Len(SubSeq(saved, 1, d - 1)) = (IF 1 <= d - 1 THEN d - 1 - 1 + 1 ELSE 0)
        /\ \A i \in 1..d - 1 - 1 + 1 : SubSeq(saved, 1, d - 1)[i] = saved[1 + i - 1]
    <3> d - 1 \in Int /\ 1 \in Int
      BY <2>1
    <3> HIDE DEF d
    <3> QED
      BY <2>3, SubSeqProperties
  <2>5. /\ \A i \in 1..d - 1 : 1 + i - 1 = i
        /\ d - 1 - 1 + 1 = d - 1 /\ (IF 1 <= d - 1 THEN d - 1 - 1 + 1 ELSE 0) = d - 1
    <3> HIDE DEF d
    <3> QED
      BY <2>1
  <2> QED
    BY <2>1, <2>2, <2>4, <2>5
<1>4. TypeOK'
  <2>1. era \in {"run"} \cup Window /\ pie \in BOOLEAN /\ d - 1 <= MaxDepth
    BY <1>2, <1>3, DepthAssumption DEF TypeOK
  <2> QED
    BY <1>1, <1>2, <1>3, <2>1 DEF TypeOK
<1>5. CASE pc' = "astray"
  BY <1>4, <1>5 DEF IInv
<1>6. CASE pc' # "astray"
  <2>1. pc' = saved[d].pc /\ pc' = era /\ regs = saved[d].regs /\ saved[d].pc \in {"run"} \cup Window
    BY <1>1, <1>2, <1>6 DEF Context
  <2>2. /\ Traps' = 1..d - 1 /\ Traps = 1..d /\ Bottom' = Bottom /\ Top' = Top
    BY <1>3 DEF Traps, Bottom, Top
  <2>3. \A k \in Traps' : /\ k \in Traps /\ k # d /\ Found(k)' = Found(k) /\ saved'[k] = saved[k]
                          /\ At(k)' = At(k) /\ Regs(k)' = Regs(k)
    <3> TAKE k \in Traps'
    <3>1. k \in 1..d - 1 /\ k \in Traps /\ k # d
      BY <1>3, <2>2
    <3>2. At(k) = saved[k + 1].pc /\ Regs(k) = saved[k + 1].regs
      BY <3>1 DEF At, Regs
    <3>3. k # d - 1 => saved'[k + 1] = saved[k + 1]
      BY <1>3, <3>1
    <3>4. At(k)' = (IF k = d - 1 THEN pc' ELSE saved'[k + 1].pc) /\ Regs(k)' = (IF k = d - 1 THEN regs' ELSE saved'[k + 1].regs)
      BY <1>3 DEF At, Regs
    <3>5. k = d - 1 => k + 1 = d
      BY <1>3
    <3>6. Found(k)' = Found(k) /\ saved'[k] = saved[k]
      BY <1>3, <3>1 DEF Found
    <3> QED
      BY <1>1, <2>1, <3>1, <3>2, <3>3, <3>4, <3>5, <3>6
  <2>4. NestingOK'
    <3>1. saved' = <<>> <=> d = 1
      BY <1>3
    <3>2. saved[d].pc = "run" <=> d = 1
      BY <1>2 DEF NestingOK
    <3>3. \A k \in Traps' : (saved'[k].pc = "run" <=> k = 1) /\ saved'[k].nested
      BY <1>2, <2>3 DEF NestingOK
    <3>4. saved' # <<>> => Innermost'.nested
      <4>1. saved' # <<>> => d - 1 \in Traps'
        BY <1>3, <2>2, <3>1
      <4>2. Innermost' = saved'[d - 1]
        BY <1>3 DEF Innermost, Last
      <4> QED
        BY <4>1, <4>2, <3>3
    <3>5. pc' \notin {"entry", "handler"}
      BY <2>1 DEF Window
    <3>6. ie' = TRUE /\ pie' = TRUE
      BY <1>1, <1>2 DEF NestingOK, TypeOK
    <3>7. "run" \notin Window
      BY DEF Window
    <3>8. pc' \in {"run"} \cup Window /\ (pc' = "run" <=> saved' = <<>>) /\ era' = pc'
      BY <1>1, <2>1, <3>1, <3>2
    <3>9. Traps' \ {Len(saved')} \subseteq Traps'
      OBVIOUS
    <3> QED
      BY <3>3, <3>4, <3>5, <3>6, <3>7, <3>8, <3>9 DEF NestingOK
  <2>5. saved' = <<>> => regs'["sp"] = Address(Bottom)
    <3>1. saved' = <<>> => d = 1
      BY <1>3
    <3>2. f \in Int /\ f <= Bottom /\ f >= Bottom - (d - 1) * (FRAME + HFRAME)
      BY <1>1, <1>2, TrapFacts DEF StackOK
    <3>3. d = 1 => f = Bottom
      BY <3>2, Room DEF FRAME, HFRAME
    <3>4. Used(pc) = 0 /\ f - 0 = f
      BY <1>1, <3>2 DEF Used
    <3> QED
      BY <1>1, <1>2, <3>1, <3>3, <3>4
  <2>6. \A k \in Traps' : StackOK(k)' /\ RegistersOK(k)' /\ FrameOK(k)'
    <3> TAKE k \in Traps'
    <3>1. k \in Traps /\ StackOK(k) /\ RegistersOK(k) /\ FrameOK(k)
      BY <1>1, <2>3, TrapFacts
    <3>2. StackOK(k)'
      BY <2>2, <2>3, <3>1 DEF StackOK, Used
    <3>3. RegistersOK(k)'
      BY <1>1, <2>3, <3>1 DEF RegistersOK
    <3>4. FrameOK(k)'
      BY <1>1, <2>2, <2>3, <3>1 DEF FrameOK
    <3> QED
      BY <3>2, <3>3, <3>4
  <2> QED
    BY <1>4, <2>4, <2>5, <2>6 DEF IInv
<1> QED
  BY <1>5, <1>6

-----------------------------------------------------------------------------
\* What an interrupt adds to saved, and what it leaves of it.
LEMMA Met ==
    ASSUME TypeOK, NestingOK, Trap
    PROVE  /\ saved' \in Seq(Context) /\ Len(saved') = Len(saved) + 1 /\ saved' # <<>>
           /\ pc \in {"run"} \cup Window
           /\ saved'[Len(saved) + 1] = Interrupted /\ Interrupted \in Context
           /\ \A k \in Traps : /\ saved'[k].pc = saved[k].pc /\ saved'[k].regs = saved[k].regs
                               /\ saved'[k].stack = saved[k].stack /\ saved'[k].nested
<1> DEFINE d == Len(saved)
<1>1. pc \in {"run"} \cup Window /\ (pc = "run" <=> saved = <<>>)
  BY DEF Trap, NestingOK
<1>2. Interrupted \in Context
  <2>1. [a \in 0..Top |-> IF a < sp THEN Word("free", 0) ELSE mem[a]] \in [0..Top -> Words]
    BY WordTypes DEF TypeOK
  <2> QED
    BY <1>1, <2>1 DEF Interrupted, Context, TypeOK
<1>3. CASE pc = "run"
  <2>1. saved' = <<Interrupted>> /\ Traps = {} /\ Len(saved) = 0
    BY <1>1, <1>3 DEF Trap, Traps
  <2> QED
    BY <1>1, <1>2, <2>1
<1>4. CASE pc # "run"
  <2> DEFINE met == [saved EXCEPT ![d].nested = TRUE]
             marked == [saved[d] EXCEPT !.nested = TRUE]
  <2>1. saved # <<>> /\ saved \in Seq(Context) /\ d \in 1..Len(saved)
    BY <1>1, <1>4 DEF TypeOK
  <2>2. saved' = Append(met, Interrupted)
    BY <1>4 DEF Trap
  <2>3. saved[d] \in Context
    BY <2>1
  <2>4. marked \in Context /\ marked.pc = saved[d].pc /\ marked.regs = saved[d].regs
        /\ marked.stack = saved[d].stack /\ marked.nested
    BY <2>3 DEF Context
  <2>5. met = [saved EXCEPT ![d] = marked]
    OBVIOUS
  <2> HIDE DEF marked
  <2>6. /\ met \in Seq(Context) /\ Len(met) = d
        /\ \A k \in 1..d : met[k] = IF k = d THEN marked ELSE saved[k]
    <3> HIDE DEF met
    <3> QED
      BY <2>1, <2>4, <2>5, ExceptSeq
  <2> HIDE DEF met
  <2>7. /\ saved' \in Seq(Context) /\ Len(saved') = d + 1
        /\ saved'[d + 1] = Interrupted /\ \A k \in 1..d : saved'[k] = met[k]
    BY <1>2, <2>2, <2>6
  <2>8. ASSUME NEW k \in Traps
        PROVE  /\ saved'[k].pc = saved[k].pc /\ saved'[k].regs = saved[k].regs
               /\ saved'[k].stack = saved[k].stack /\ saved'[k].nested
    <3>1. k \in 1..d /\ saved'[k] = IF k = d THEN marked ELSE saved[k]
      BY <2>6, <2>7 DEF Traps
    <3>2. k # d => saved[k].nested
      BY DEF NestingOK
    <3> QED
      BY <3>1, <3>2, <2>4
  <2>9. saved' # <<>>
    BY <2>1, <2>7
  <2> QED
    BY <1>1, <1>2, <2>7, <2>8, <2>9
<1> QED
  BY <1>3, <1>4

LEMMA TrapStep == IInv /\ Trap => IInv'
<1> SUFFICES ASSUME IInv, Trap, NEW d, d = Len(saved) + 1 PROVE IInv'
  OBVIOUS
<1>1. TypeOK /\ NestingOK /\ pc # "astray"
  BY DEF IInv, Trap
<1>2. /\ saved' \in Seq(Context) /\ Len(saved') = d /\ saved' # <<>>
      /\ pc \in {"run"} \cup Window
      /\ saved'[d] = Interrupted /\ Interrupted \in Context
      /\ \A k \in Traps : /\ saved'[k].pc = saved[k].pc /\ saved'[k].regs = saved[k].regs
                          /\ saved'[k].stack = saved[k].stack /\ saved'[k].nested
  BY <1>1, Met
<1>3. /\ pc' = "entry" /\ era' = pc /\ pie' = TRUE /\ ie' = FALSE /\ UNCHANGED <<regs, mem, pending>>
      /\ Len(saved) < MaxDepth
  BY <1>1 DEF Trap, NestingOK, TypeOK
<1>4. /\ Len(saved) \in Nat /\ d \in Nat /\ d >= 1 /\ Traps = 1..Len(saved) /\ Traps' = Traps \cup {d}
      /\ \A k \in Traps : k \in Nat /\ k < d
  BY <1>1, <1>2 DEF TypeOK, Traps
<1>5. /\ Interrupted.pc = pc /\ Interrupted.regs = regs /\ ~Interrupted.nested
      /\ Interrupted.stack = [a \in 0..Top |-> IF a < sp THEN Word("free", 0) ELSE mem[a]]
  BY DEF Interrupted
<1>6. Bottom' = Bottom /\ Top' = Top
  BY DEF Bottom, Top
<1>7. \A k \in Traps : Found(k)' = Found(k) /\ At(k)' = At(k) /\ Regs(k)' = Regs(k)
  <2> TAKE k \in Traps
  <2>1. Found(k)' = Found(k)
    BY <1>2 DEF Found
  <2>2. k # d /\ At(k)' = saved'[k + 1].pc /\ Regs(k)' = saved'[k + 1].regs
    BY <1>2, <1>4 DEF At, Regs
  <2>3. CASE k = Len(saved)
    BY <1>2, <1>5, <2>1, <2>2, <2>3 DEF At, Regs
  <2>4. CASE k # Len(saved)
    <3>1. k + 1 \in Traps
      BY <2>4, <1>4
    <3> QED
      BY <1>2, <2>1, <2>2, <2>4, <3>1 DEF At, Regs
  <2> QED
    BY <2>3, <2>4
<1>8. At(d)' = "entry" /\ Regs(d)' = regs /\ Found(d)' = sp
  <2>1. Len(saved)' = d
    BY <1>2
  <2>2. At(d)' = pc' /\ Regs(d)' = regs'
    BY <2>1 DEF At, Regs
  <2>3. Found(d)' = Interrupted.regs["sp"].n
    BY <1>2 DEF Found
  <2> QED
    BY <1>3, <1>5, <2>2, <2>3 DEF sp
<1>9. TypeOK'
  <2>1. d <= MaxDepth
    BY <1>3, <1>4, DepthAssumption
  <2> QED
    BY <1>1, <1>2, <1>3, <2>1 DEF TypeOK
<1>10. Innermost' = Interrupted
  BY <1>2 DEF Innermost, Last
<1>11. d = 1 <=> pc = "run"
  BY <1>1, <1>4 DEF NestingOK, TypeOK
<1>12. NestingOK'
  <2>1. \A k \in Traps' : saved'[k].pc = "run" <=> k = 1
    <3>1. \A k \in Traps : saved'[k].pc = "run" <=> k = 1
      BY <1>1, <1>2 DEF NestingOK
    <3> QED
      BY <1>2, <1>4, <1>5, <1>11, <3>1
  <2>2. \A k \in Traps' \ {Len(saved')} : saved'[k].nested
    BY <1>2, <1>4
  <2>3. "entry" \notin Window /\ "run" # "entry"
    BY DEF Window
  <2> QED
    BY <1>2, <1>3, <1>5, <1>10, <2>1, <2>2, <2>3 DEF NestingOK
<1>13. /\ regs["sp"] = Address(sp) /\ sp \in Int /\ sp <= Bottom /\ sp >= 0
       /\ sp >= Bottom - (d - 1) * (FRAME + HFRAME)
       /\ \A j \in Traps : sp <= Found(j) - Used(At(j))
       /\ \A j \in Traps : saved[j].regs["s8"] = regs["s8"]
  <2>1. CASE saved = <<>>
    <3>1. regs["sp"] = Address(Bottom) /\ sp = Bottom
      BY <1>1, <2>1 DEF IInv, sp, Address, Word
    <3>2. Traps = {} /\ d = 1 /\ (d - 1) * (FRAME + HFRAME) = 0
      BY <1>4, <2>1 DEF FRAME, HFRAME
    <3> QED
      BY <3>1, <3>2, Room
  <2>2. CASE saved # <<>>
    <3> DEFINE e == Len(saved)
    <3>1. /\ e \in Traps /\ At(e) = pc /\ sp = Found(e) - Used(pc) /\ regs["sp"] = Address(Found(e) - Used(pc))
          /\ pc \in Window
      BY <1>1, <1>2, <1>11, <1>4, <2>2, Inside DEF NestingOK
    <3>2. /\ Found(e) \in Int /\ Found(e) >= 5 /\ Found(e) <= Bottom
          /\ Found(e) >= Bottom - (e - 1) * (FRAME + HFRAME)
      BY <1>1, <3>1, TrapFacts DEF StackOK
    <3>3. Used(pc) \in {0, 3, 5}
      BY <3>1, Room DEF Used, Window
    <3>4. (d - 1) * (FRAME + HFRAME) = (e - 1) * (FRAME + HFRAME) + 5
      BY <1>4 DEF FRAME, HFRAME
    <3>5. (e - 1) * (FRAME + HFRAME) \in Int
      BY <1>4 DEF FRAME, HFRAME
    <3>6. sp \in Int /\ sp <= Bottom /\ sp >= 0 /\ sp >= Bottom - (d - 1) * (FRAME + HFRAME) /\ sp <= Found(e)
      <4> HIDE DEF e
      <4> QED
        BY <3>1, <3>2, <3>3, <3>4, <3>5, Room
    <3>7. \A j \in Traps : sp <= Found(j) - Used(At(j))
      <4> TAKE j \in Traps
      <4>1. CASE j = e
        BY <3>1, <3>6, <4>1
      <4>2. CASE j # e
        <5>1. j < e
          BY <1>4, <4>2
        <5>2. /\ Found(e) <= Found(j) - Used(At(j)) /\ Used(At(j)) \in {0, 3, 5} /\ Found(j) \in Int
          BY <1>1, <3>1, <5>1, Apart, TrapFacts
        <5> QED
          BY <3>2, <3>6, <5>2
      <4> QED
        BY <4>1, <4>2
    <3>8. \A j \in Traps : saved[j].regs["s8"] = regs["s8"]
      BY <1>1, TrapFacts DEF RegistersOK
    <3> QED
      BY <3>1, <3>6, <3>7, <3>8
  <2> QED
    BY <2>1, <2>2
<1>14. \A k \in Traps : StackOK(k)' /\ RegistersOK(k)' /\ FrameOK(k)'
  <2> TAKE k \in Traps
  <2>1. StackOK(k) /\ RegistersOK(k) /\ FrameOK(k)
    BY <1>1, TrapFacts
  <2>2. k # d /\ \A j \in Traps' : j < k => j \in Traps
    BY <1>4
  <2>3. StackOK(k)'
    BY <1>2, <1>6, <1>7, <2>1, <2>2 DEF StackOK, Used
  <2>4. RegistersOK(k)'
    BY <1>2, <1>3, <1>7, <2>1 DEF RegistersOK
  <2>5. FrameOK(k)'
    BY <1>2, <1>3, <1>6, <1>7, <2>1 DEF FrameOK
  <2> QED
    BY <2>3, <2>4, <2>5
<1>15. StackOK(d)'
  <2>1. Used("entry") = 0 /\ sp - 0 = sp
    BY <1>13 DEF Used
  <2>2. saved'[d].regs["sp"] = Address(sp) /\ regs'["sp"] = Address(sp)
    BY <1>2, <1>3, <1>5, <1>13
  <2>3. \A j \in Traps' : j < d => j \in Traps
    BY <1>4
  <2> QED
    BY <1>3, <1>6, <1>7, <1>8, <1>13, <2>1, <2>2, <2>3 DEF StackOK, Used
<1>16. RegistersOK(d)'
  BY <1>2, <1>3, <1>5, <1>8 DEF RegistersOK
<1>17. FrameOK(d)'
  <2>1. \A a \in sp + 1..Top : mem'[a] = Interrupted.stack[a]
    BY <1>3, <1>5, <1>13, Room
  <2>2. At(d)' = "entry" /\ Found(d)' = sp /\ saved'[d] = Interrupted
    BY <1>2, <1>8
  <2> QED
    BY <1>6, <2>1, <2>2 DEF FrameOK
<1> QED
  BY <1>2, <1>4, <1>9, <1>12, <1>14, <1>15, <1>16, <1>17 DEF IInv

-----------------------------------------------------------------------------
\* The invariant of every step.
THEOREM Invariant == Spec => []IInv
<1>1. IInv /\ [Next]_vars => IInv'
  <2> SUFFICES ASSUME IInv, [Next]_vars PROVE IInv'
    OBVIOUS
  <2>1. ASSUME Astray PROVE IInv'
    BY <2>1, KernelStep DEF Astray
  <2> QED
    BY <2>1, KernelStep, TrapStep, EntryStep, HandlerStep, ReturnStep, LoadStep, PopStep, ErtnStep
       DEF Next, TrapCode
<1> QED
  BY <1>1, InitialState, PTL DEF Spec

\* Registers, stack and history have their types, the stack never outgrows its
\* words, and no more traps are inside one another than the bound.
THEOREM TypeCorrect == Spec => []TypeOK
<1>1. IInv => TypeOK
  BY DEF IInv
<1> QED
  BY <1>1, Invariant, PTL

\* What holds at ertn.
LEMMA AtErtn ==
    ASSUME IInv, pc = "ertn"
    PROVE  /\ TypeOK /\ NestingOK /\ saved # <<>> /\ Innermost = saved[Len(saved)] /\ Innermost \in Context
           /\ RegistersOK(Len(saved)) /\ FrameOK(Len(saved))
           /\ At(Len(saved)) = "ertn" /\ Regs(Len(saved)) = regs
           /\ Found(Len(saved)) \in Int /\ regs["sp"] = Innermost.regs["sp"]
<1> DEFINE d == Len(saved)
<1>1. /\ TypeOK /\ NestingOK /\ d \in Traps /\ At(d) = pc /\ Regs(d) = regs /\ saved # <<>>
      /\ regs["sp"] = Address(Found(d) - Used(pc)) /\ Innermost = saved[d] /\ Innermost \in Context
  BY Inside
<1>2. StackOK(d) /\ RegistersOK(d) /\ FrameOK(d) /\ Found(d) \in Int
  BY <1>1, TrapFacts
<1>3. Found(d) - Used(pc) = Found(d)
  BY <1>2 DEF Used
<1>4. saved[d].regs["sp"] = Address(Found(d))
  BY <1>2 DEF StackOK
<1> QED
  BY <1>1, <1>2, <1>3, <1>4

\* A trap that no other met in its window goes back to the instruction it
\* interrupted with every register and interrupts on; one that was met has all
\* registers but ra, and goes back into the way back itself (trap.c:65-138,
\* 190-193): whatever the depth, and wherever the others came.
THEOREM TrapResumes == Spec => []Resumes
<1>1. ASSUME IInv PROVE Resumes
  <2> SUFFICES ASSUME pc = "ertn" PROVE Resumes
    BY DEF Resumes
  <2>1. /\ TypeOK /\ NestingOK /\ Innermost = saved[Len(saved)] /\ Innermost \in Context /\ saved # <<>>
        /\ RegistersOK(Len(saved)) /\ At(Len(saved)) = "ertn" /\ Regs(Len(saved)) = regs
        /\ regs["sp"] = Innermost.regs["sp"]
    BY <1>1, AtErtn
  <2>2. /\ regs["s8"] = Innermost.regs["s8"] /\ regs["a0"] = Innermost.regs["a0"]
        /\ ~Innermost.nested => regs["ra"] = Innermost.regs["ra"]
    BY <2>1 DEF RegistersOK
  <2>3. \A r \in Reg \ {"ra"} : regs[r] = Innermost.regs[r]
    BY <2>1, <2>2 DEF Reg
  <2>4. ~Innermost.nested => regs = Innermost.regs
    <3>1. regs \in [Reg -> Words] /\ Innermost.regs \in [Reg -> Words]
      BY <2>1 DEF TypeOK, Context
    <3>2. ~Innermost.nested => \A r \in Reg : regs[r] = Innermost.regs[r]
      BY <2>2, <2>3
    <3> QED
      BY <3>1, <3>2
  <2>5. pie /\ era \in (IF Innermost.nested THEN Window ELSE {Innermost.pc})
    BY <2>1 DEF NestingOK
  <2> QED
    BY <2>3, <2>4, <2>5 DEF Resumes
<1> QED
  BY <1>1, Invariant, PTL

\* A trap leaves the stack of the code it interrupted as it was, but for the
\* lowest word, which holds s8 (trap.c:67, 100).
THEOREM StackLeft == Spec => []OnlyLowestWordLost
<1>1. ASSUME IInv PROVE OnlyLowestWordLost
  <2> SUFFICES ASSUME pc = "ertn" PROVE OnlyLowestWordLost
    BY DEF OnlyLowestWordLost
  <2>1. Innermost = saved[Len(saved)] /\ FrameOK(Len(saved)) /\ At(Len(saved)) = "ertn"
    BY <1>1, AtErtn
  <2>2. Found(Len(saved)) = Innermost.regs["sp"].n
    BY <2>1 DEF Found
  <2> QED
    BY <2>1, <2>2 DEF OnlyLowestWordLost, FrameOK
<1> QED
  BY <1>1, Invariant, PTL
=============================================================================

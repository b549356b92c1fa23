--------------------------- MODULE ConsoleProofs ---------------------------
(***************************************************************************)
(* Theorems about Console: the handshake of the shell, the editor and the  *)
(* keyboard interrupt, the room for a command line, and the line the user  *)
(* sees against the one that is read, for every size of the ring, every    *)
(* set of words and of files, and keys at every step.                      *)
(***************************************************************************)
EXTENDS Console, SequenceTheorems, TLAPS

\* The pointers' arithmetic: one step on, one step back, both within the ring.
LEMMA PlusInRing == ASSUME NEW p \in Places, NEW k \in Nat PROVE Plus(p, k) \in Places
<1>1. p + k \in Nat
  BY DEF Places
<1>2. \A n \in Nat : n % SHELL_BUF_SIZE \in 0..SHELL_BUF_SIZE - 1
  BY SizeAssumption
<1> QED
  BY <1>1, <1>2 DEF Plus, Places

LEMMA PlusOne ==
    ASSUME NEW p \in Places
    PROVE  Plus(p, 1) = IF p = SHELL_BUF_SIZE - 1 THEN 0 ELSE p + 1
<1>1. CASE p = SHELL_BUF_SIZE - 1
  <2>1. SHELL_BUF_SIZE % SHELL_BUF_SIZE = 0
    BY SizeAssumption
  <2> QED
    BY <1>1, <2>1, SizeAssumption DEF Plus, Places
<1>2. CASE p # SHELL_BUF_SIZE - 1
  <2>1. \A n \in 0..SHELL_BUF_SIZE - 1 : n % SHELL_BUF_SIZE = n
    BY SizeAssumption
  <2> QED
    BY <1>2, <2>1, SizeAssumption DEF Plus, Places
<1> QED
  BY <1>1, <1>2

\* The ring never holds as many characters as it has places.
LEMMA DistanceFits ==
    ASSUME NEW p \in Places, NEW q \in Places
    PROVE  Distance(p, q) \in 0..SHELL_BUF_SIZE - 1
BY SizeAssumption DEF Distance, Places

\* Taking one character brings the drain loop one closer to its end.
LEMMA DistanceTaken ==
    ASSUME NEW p \in Places, NEW q \in Places, p # q
    PROVE  Distance(Plus(p, 1), q) = Distance(p, q) - 1 /\ Distance(p, q) \in 1..SHELL_BUF_SIZE - 1
BY PlusOne, SizeAssumption DEF Distance, Places

-----------------------------------------------------------------------------
LEMMA InitialState == Init => IInv
<1> SUFFICES ASSUME Init PROVE IInv
  OBVIOUS
<1>1. 0 \in Places
  BY SizeAssumption DEF Places
<1>2. {start, end, first, limit} \subseteq Places /\ shell_buf \in [Places -> Char \cup {NUL}]
  BY <1>1 DEF Init
<1>3. {handle_cmd_flag, enable_shell, enable_vim, exit_flag, cached} \subseteq BOOLEAN
  BY Zenon DEF Init
<1>4. cmd \in Seq(Char \cup {NUL}) /\ echo \in Seq(Char) /\ Len(cmd) = 0
  BY DEF Init
<1>5. TypeOK
  BY <1>2, <1>3, <1>4 DEF Init, TypeOK
<1>6. OpenOK /\ EscOK /\ TextOK /\ SaveHasFile
  BY DEF Init, OpenOK, EscOK, NeverDeaf, Opening, TextOK, SaveHasFile
<1>7. DrainOK
  BY <1>4, SizeAssumption DEF Init, DrainOK, CmdFits, Draining
<1> QED
  BY <1>5, <1>6, <1>7 DEF IInv
-----------------------------------------------------------------------------
(* The keyboard interrupt. *)

LEMMA ShellKeyType ==
    ASSUME TypeOK, NEW k \in Char \cup {Enter, Back}, ShellKey(k)
    PROVE  /\ shell_buf' \in [Places -> Char \cup {NUL}] /\ end' \in Places /\ start' = start
           /\ handle_cmd_flag' \in BOOLEAN /\ echo' \in Seq(Char)
<1>1. CASE ~enable_shell
  BY <1>1 DEF ShellKey, TypeOK, ring
<1>2. CASE enable_shell /\ k = Enter
  BY <1>2, KeysAssumption DEF ShellKey, TypeOK, ring, Char
<1>3. CASE enable_shell /\ k \in Char
  <2>1. /\ shell_buf' = [shell_buf EXCEPT ![end] = k] /\ end' = Plus(end, 1)
        /\ echo' = Append(echo, k) /\ UNCHANGED <<start, handle_cmd_flag>>
    BY <1>3, KeysAssumption DEF ShellKey, Char
  <2> QED
    BY <1>3, <2>1, PlusInRing DEF TypeOK
<1>4. CASE enable_shell /\ k = Back
  <2>1. Erase
    BY <1>4, KeysAssumption DEF ShellKey, Char
  <2>2. Plus(end, SHELL_BUF_SIZE - 1) \in Places
    BY PlusInRing, SizeAssumption DEF TypeOK
  <2>3. SubSeq(echo, 1, Len(echo) - 1) \in Seq(Char)
    BY DEF TypeOK
  <2> QED
    BY <2>1, <2>2, <2>3 DEF Erase, TypeOK
<1> QED
  BY <1>1, <1>2, <1>3, <1>4

\* ESC while the editor listens, and every other key.
LEMMA VimKeyCases ==
    ASSUME NEW k, VimKey(k)
    PROVE  \/ /\ enable_vim /\ k = Esc /\ ~enable_vim' /\ enable_vim' \in BOOLEAN /\ exit_flag' = TRUE
              /\ disk' = Save /\ pc' = (IF vim_file = NoFile THEN "crashed" ELSE pc)
              /\ UNCHANGED <<vim_file, copy>>
           \/ ~(enable_vim /\ k = Esc) /\ UNCHANGED <<session, pc>>
BY DEF VimKey

LEMMA SaveType == TypeOK => Save \in [File -> File]
BY DEF TypeOK, Save

LEMMA KeyStep == ASSUME NEW k \in Char \cup {Enter, Back}, IInv, Key(k) PROVE IInv'
<1> USE DEF IInv
<1>1. VimKey(k) /\ ShellKey(k) /\ UNCHANGED <<regs, enable_shell, cmd, todo>>
      /\ mishap' = mishap \cup Mishaps(k) /\ mishap' \subseteq {"slip", "full", "early", "failed"}
  BY DEF Key, Mishaps, TypeOK
<1>2. TypeOK'
  <2>1. /\ shell_buf' \in [Places -> Char \cup {NUL}] /\ end' \in Places /\ start' = start
        /\ handle_cmd_flag' \in BOOLEAN /\ echo' \in Seq(Char)
    BY <1>1, ShellKeyType
  <2>2. /\ enable_vim' \in BOOLEAN /\ exit_flag' \in BOOLEAN /\ disk' \in [File -> File]
        /\ UNCHANGED <<vim_file, copy>> /\ pc' \in {pc, "crashed"}
    BY <1>1, VimKeyCases, SaveType DEF TypeOK, session
  <2> QED
    BY <1>1, <2>1, <2>2 DEF TypeOK, regs
<1>3. CASE enable_vim /\ k = Esc
  <2>1. /\ ~enable_vim' /\ exit_flag' /\ disk' = Save /\ UNCHANGED <<vim_file, copy, todo, enable_shell>>
        /\ pc' = IF vim_file = NoFile THEN "crashed" ELSE pc
    BY <1>1, <1>3, VimKeyCases
  <2>2. Opening => "early" \in mishap'
    BY <1>1, <1>3 DEF Mishaps
  <2>3. OpenOK'
    BY <1>1, <2>1 DEF OpenOK
  <2>4. EscOK'
    BY <1>1, <2>1, <2>2 DEF EscOK, NeverDeaf, Opening
  <2>5. TextOK'
    <3> SUFFICES ASSUME "early" \notin mishap' PROVE TextOK'
      BY DEF TextOK
    <3>1. "early" \notin mishap /\ ~Opening
      BY <1>1, <2>2
    <3>2. disk' = disk
      <4>1. vim_file = NoFile \/ (pc = "wait" /\ copy = vim_file /\ vim_file \in File)
        BY <1>3, <3>1 DEF TextOK, OpenOK
      <4> QED
        BY <2>1, <3>1, <4>1 DEF Save, TextOK, TypeOK
    <3> QED
      BY <2>1, <3>1, <3>2, <1>3 DEF TextOK, Opening
  <2>6. SaveHasFile'
    <3>1. CASE vim_file = NoFile
      BY <1>1, <1>3, <2>2, <3>1 DEF OpenOK, SaveHasFile, Opening
    <3>2. CASE vim_file # NoFile
      BY <1>1, <2>1, <3>2 DEF SaveHasFile
    <3> QED
      BY <3>1, <3>2
  <2>7. DrainOK'
    BY <1>1, <2>1 DEF DrainOK, CmdFits, Draining, regs
  <2> QED
    BY <1>2, <2>3, <2>4, <2>5, <2>6, <2>7
<1>4. CASE ~(enable_vim /\ k = Esc)
  <2>1. UNCHANGED <<session, pc, todo, enable_shell>>
    BY <1>1, <1>4, VimKeyCases
  <2>2. OpenOK' /\ EscOK' /\ SaveHasFile'
    BY <1>1, <2>1 DEF OpenOK, EscOK, NeverDeaf, Opening, SaveHasFile, session
  <2>3. TextOK'
    BY <1>1, <2>1 DEF TextOK, Opening, session
  <2>4. DrainOK'
    BY <1>1, <2>1 DEF DrainOK, CmdFits, Draining, regs
  <2> QED
    BY <1>2, <2>2, <2>3, <2>4
<1> QED
  BY <1>3, <1>4

-----------------------------------------------------------------------------
(* The shell and the editor. *)

\* The drain loop: the ring's pointers and the length of the command.
LEMMA DrainSteps == IInv /\ (Poll \/ Drain \/ Take) => IInv'
<1> SUFFICES ASSUME IInv, Poll \/ Drain \/ Take PROVE IInv'
  OBVIOUS
<1> USE DEF IInv
<1>1. CASE Poll
  <2>1. TypeOK'
    BY <1>1 DEF Poll, Goto, TypeOK, ring, regs, session
  <2>2. OpenOK' /\ EscOK' /\ TextOK' /\ SaveHasFile'
    BY <1>1 DEF Poll, Goto, OpenOK, EscOK, NeverDeaf, Opening, TextOK, SaveHasFile, session
  <2>3. Len(cmd') = 0 /\ first' \in Places /\ limit' \in Places /\ pc' = "drain"
    BY <1>1 DEF Poll, Goto, TypeOK, ring
  <2>4. Distance(first, limit)' \in 0..SHELL_BUF_SIZE - 1
    <3>1. Distance(first', limit') \in 0..SHELL_BUF_SIZE - 1
      BY <2>3, DistanceFits
    <3> QED
      BY <3>1 DEF Distance
  <2>5. DrainOK'
    BY <2>3, <2>4, SizeAssumption DEF DrainOK, CmdFits, Draining
  <2> QED
    BY <2>1, <2>2, <2>5
<1>2. CASE Drain
  <2>1. pc = "drain" /\ pc' \in {"take", "run"}
    BY <1>2 DEF Drain
  <2>2. TypeOK'
    <3>1. 0 \in Places
      BY SizeAssumption DEF Places
    <3> QED
      BY <1>2, <3>1 DEF Drain, From, TypeOK, session
  <2>3. OpenOK' /\ EscOK' /\ TextOK' /\ SaveHasFile'
    BY <1>2, <2>1 DEF Drain, OpenOK, EscOK, NeverDeaf, Opening, TextOK, SaveHasFile, session
  <2>4. cached /\ pc' = "take" => first # limit
    BY <1>2, <2>1 DEF Drain, From, Until, Draining
  <2>5. UNCHANGED <<cached, cmd>> /\ (pc' = "take" => UNCHANGED <<first, limit>>)
    BY <1>2 DEF Drain
  <2>6. DrainOK'
    BY <2>1, <2>4, <2>5 DEF DrainOK, CmdFits, Draining, Distance
  <2> QED
    BY <2>2, <2>3, <2>6
<1>3. CASE Take
  <2>1. pc = "take" /\ pc' = "drain"
    BY <1>3 DEF Take, Goto
  <2>2. From \in Places /\ Plus(first, 1) \in Places /\ Plus(start, 1) \in Places
    BY PlusInRing DEF From, TypeOK
  <2>3. shell_buf[From] \in Char \cup {NUL}
    BY <2>2 DEF TypeOK
  <2>4. cmd' \in Seq(Char \cup {NUL}) /\ Len(cmd') = Len(cmd) + 1
    BY <1>3, <2>3 DEF Take, TypeOK
  <2>5. shell_buf' \in [Places -> Char \cup {NUL}]
    BY <1>3, <2>2 DEF Take, TypeOK
  <2>6. first' \in Places /\ start' \in Places
    BY <1>3, <2>2 DEF Take, TypeOK
  <2>7. TypeOK'
    BY <1>3, <2>1, <2>4, <2>5, <2>6 DEF Take, TypeOK, session
  <2>8. OpenOK' /\ EscOK' /\ TextOK' /\ SaveHasFile'
    BY <1>3, <2>1 DEF Take, OpenOK, EscOK, NeverDeaf, Opening, TextOK, SaveHasFile, session
  <2>9. DrainOK'
    <3> SUFFICES ASSUME cached PROVE DrainOK'
      BY <1>3 DEF Take, DrainOK
    <3>1. first \in Places /\ limit \in Places /\ Len(cmd) \in Nat
      BY DEF TypeOK
    <3>2. first # limit /\ Len(cmd) + Distance(first, limit) < SHELL_BUF_SIZE
      BY <2>1 DEF DrainOK, Draining
    <3>3. /\ Distance(Plus(first, 1), limit) = Distance(first, limit) - 1
          /\ Distance(first, limit) \in 1..SHELL_BUF_SIZE - 1
      BY <3>1, <3>2, DistanceTaken
    <3>4. first' = Plus(first, 1) /\ UNCHANGED <<cached, limit>>
      BY <1>3 DEF Take
    <3>5. Distance(first, limit)' = Distance(Plus(first, 1), limit)
      BY <3>4 DEF Distance
    <3> QED
      BY <2>1, <2>4, <3>1, <3>2, <3>3, <3>4, <3>5, SizeAssumption DEF DrainOK, CmdFits
  <2> QED
    BY <2>7, <2>8, <2>9
<1> QED
  BY <1>1, <1>2, <1>3

\* The command is executed and leaves the ring's pointers and the editor alone.
LEMMA ExecutedType ==
    ASSUME TypeOK, Executed
    PROVE  cmd' \in Seq(Char \cup {NUL}) /\ echo' \in Seq(Char) /\ Len(cmd') = 0
BY DEF Executed, TypeOK

LEMMA RunSteps == IInv /\ (RunOther \/ RunExit \/ RunTest \/ RunVim \/ Leave) => IInv'
<1> SUFFICES ASSUME IInv, RunOther \/ RunExit \/ RunTest \/ RunVim \/ Leave PROVE IInv'
  OBVIOUS
<1> USE DEF IInv
<1>1. CASE RunOther \/ RunExit \/ RunTest
  <2>1. /\ pc = "run" /\ pc' \in {"poll", "leave"} /\ Executed
        /\ handle_cmd_flag' \in BOOLEAN
        /\ UNCHANGED <<ring, regs, enable_shell, session, todo, mishap>>
    BY <1>1 DEF RunOther, RunExit, RunTest, Goto, TypeOK
  <2>2. cmd' \in Seq(Char \cup {NUL}) /\ echo' \in Seq(Char) /\ Len(cmd') = 0
    BY <2>1, ExecutedType
  <2>3. TypeOK'
    BY <2>1, <2>2 DEF TypeOK, ring, regs, session
  <2>4. OpenOK' /\ EscOK' /\ TextOK' /\ SaveHasFile'
    BY <2>1 DEF OpenOK, EscOK, NeverDeaf, Opening, TextOK, SaveHasFile, session
  <2>5. DrainOK'
    BY <2>1, <2>2, SizeAssumption DEF DrainOK, CmdFits, Draining
  <2> QED
    BY <2>3, <2>4, <2>5
<1>2. CASE RunVim
  <2>1. /\ pc = "run" /\ pc' = "open" /\ Executed /\ ~enable_shell' /\ enable_shell' \in BOOLEAN
        /\ todo' = {"enable_vim", "vim_file", "exit_flag"}
        /\ UNCHANGED <<ring, regs, handle_cmd_flag, session, mishap>>
    BY <1>2 DEF RunVim, Goto
  <2>2. cmd' \in Seq(Char \cup {NUL}) /\ echo' \in Seq(Char) /\ Len(cmd') = 0
    BY <2>1, ExecutedType
  <2>3. TypeOK'
    BY <2>1, <2>2 DEF TypeOK, ring, regs, session
  <2>4. OpenOK' /\ EscOK' /\ TextOK' /\ SaveHasFile'
    BY <2>1 DEF OpenOK, EscOK, NeverDeaf, Opening, TextOK, SaveHasFile, session
  <2>5. DrainOK'
    BY <2>1, <2>2, SizeAssumption DEF DrainOK, CmdFits, Draining
  <2> QED
    BY <2>3, <2>4, <2>5
<1>3. CASE Leave
  <2>1. TypeOK'
    BY <1>3 DEF Leave, Goto, TypeOK, ring, regs, session
  <2>2. OpenOK' /\ EscOK' /\ TextOK' /\ SaveHasFile'
    BY <1>3 DEF Leave, Goto, OpenOK, EscOK, NeverDeaf, Opening, TextOK, SaveHasFile, session
  <2>3. DrainOK'
    BY <1>3 DEF Leave, Goto, DrainOK, CmdFits, Draining, regs
  <2> QED
    BY <2>1, <2>2, <2>3
<1> QED
  BY <1>1, <1>2, <1>3

\* The editor's first stores, in any order.
LEMMA StoreStep == ASSUME NEW x \in todo, IInv, Store(x) PROVE IInv'
<1> USE DEF IInv
<1>1. /\ pc = "open" /\ pc' = (IF todo' = {} THEN "find" ELSE "open") /\ todo' = todo \ {x}
      /\ UNCHANGED <<ring, regs, handle_cmd_flag, enable_shell, copy, disk, cmd, echo, mishap>>
  BY DEF Store
<1>2. /\ enable_vim' = (enable_vim \/ x = "enable_vim")
      /\ exit_flag' = (exit_flag /\ x # "exit_flag")
      /\ vim_file' = IF x = "vim_file" THEN NoFile ELSE vim_file
  BY DEF Store
<1>3. TypeOK'
  <2>1. enable_vim' \in BOOLEAN /\ exit_flag' \in BOOLEAN
    BY <1>2, Zenon
  <2>2. vim_file' \in File \cup {NoFile} /\ todo' \subseteq {"enable_vim", "vim_file", "exit_flag"}
    BY <1>1, <1>2 DEF TypeOK
  <2> QED
    BY <1>1, <2>1, <2>2 DEF TypeOK, ring, regs
<1>4. OpenOK'
  <2>1. enable_vim' => pc' \in {"open", "find"}
    BY <1>1
  <2>2. pc' \in {"open", "find"} /\ ~enable_shell'
    BY <1>1 DEF OpenOK
  <2>3. "vim_file" \notin todo' => vim_file' = NoFile
    BY <1>1, <1>2 DEF OpenOK
  <2>4. pc' = "find" => vim_file' = NoFile
    BY <1>1, <2>3
  <2> QED
    BY <2>1, <2>2, <2>3, <2>4 DEF OpenOK
<1>5. EscOK'
  <2>1. "enable_vim" \notin todo' => enable_vim' \/ "early" \in mishap'
    BY <1>1, <1>2 DEF EscOK, Opening
  <2> QED
    BY <1>1, <2>1 DEF EscOK, NeverDeaf
<1>6. TextOK' /\ SaveHasFile'
  BY <1>1 DEF TextOK, SaveHasFile, Opening
<1>7. DrainOK'
  BY <1>1 DEF DrainOK, CmdFits, Draining, regs
<1> QED
  BY <1>3, <1>4, <1>5, <1>6, <1>7

\* From the file to the editor's loop.
LEMMA OpenSteps ==
    IInv /\ ((\E f \in File : FindFile(f)) \/ FindFails \/ ClearCopy \/ LoadCopy) => IInv'
<1> SUFFICES ASSUME IInv, (\E f \in File : FindFile(f)) \/ FindFails \/ ClearCopy \/ LoadCopy
             PROVE  IInv'
  OBVIOUS
<1> USE DEF IInv
<1>1. ASSUME NEW f \in File, FindFile(f) PROVE IInv'
  <2>1. /\ pc = "find" /\ pc' = "clear" /\ vim_file' = f
        /\ UNCHANGED <<ring, regs, handle_cmd_flag, enable_shell, enable_vim, exit_flag,
                       copy, disk, cmd, todo, echo, mishap>>
    BY <1>1 DEF FindFile, Goto
  <2>2. TypeOK'
    BY <2>1 DEF TypeOK, ring, regs
  <2>3. OpenOK'
    BY <2>1, FilesAssumption DEF OpenOK
  <2>4. EscOK' /\ TextOK' /\ SaveHasFile'
    BY <2>1 DEF EscOK, NeverDeaf, Opening, TextOK, SaveHasFile
  <2>5. DrainOK'
    BY <2>1 DEF DrainOK, CmdFits, Draining, regs
  <2> QED
    BY <2>2, <2>3, <2>4, <2>5
<1>2. CASE FindFails
  <2>1. /\ pc = "find" /\ pc' = "back" /\ mishap' = mishap \cup {"failed"}
        /\ UNCHANGED <<ring, regs, handle_cmd_flag, enable_shell, session, cmd, todo, echo>>
    BY <1>2 DEF FindFails, Goto
  <2>2. TypeOK'
    BY <2>1 DEF TypeOK, ring, regs, session
  <2>3. OpenOK'
    BY <2>1 DEF OpenOK, session
  <2>4. EscOK' /\ SaveHasFile'
    BY <2>1 DEF EscOK, NeverDeaf, Opening, SaveHasFile
  <2>5. TextOK'
    BY <2>1 DEF OpenOK, TextOK, Opening, session
  <2>6. DrainOK'
    BY <2>1 DEF DrainOK, CmdFits, Draining, regs
  <2> QED
    BY <2>2, <2>3, <2>4, <2>5, <2>6
<1>3. CASE ClearCopy
  <2>1. /\ pc = "clear" /\ pc' = "load" /\ copy' = Blank
        /\ UNCHANGED <<ring, regs, handle_cmd_flag, enable_shell, enable_vim, exit_flag,
                       vim_file, disk, cmd, todo, echo, mishap>>
    BY <1>3 DEF ClearCopy, Goto
  <2>2. TypeOK'
    BY <2>1 DEF TypeOK, ring, regs
  <2>3. OpenOK' /\ EscOK' /\ TextOK' /\ SaveHasFile'
    BY <2>1 DEF OpenOK, EscOK, NeverDeaf, Opening, TextOK, SaveHasFile
  <2>4. DrainOK'
    BY <2>1 DEF DrainOK, CmdFits, Draining, regs
  <2> QED
    BY <2>2, <2>3, <2>4
<1>4. CASE LoadCopy
  <2>1. /\ pc = "load" /\ pc' = "wait" /\ copy' = disk[vim_file]
        /\ UNCHANGED <<ring, regs, handle_cmd_flag, enable_shell, enable_vim, exit_flag,
                       vim_file, disk, cmd, todo, echo, mishap>>
    BY <1>4 DEF LoadCopy, Goto
  <2>2. vim_file \in File
    BY <2>1 DEF OpenOK
  <2>3. TypeOK'
    BY <2>1, <2>2 DEF TypeOK, ring, regs
  <2>4. OpenOK' /\ TextOK' /\ SaveHasFile'
    BY <2>1, <2>2 DEF OpenOK, Opening, TextOK, SaveHasFile
  <2>5. enable_vim \/ "early" \in mishap
    BY <2>1 DEF EscOK, Opening
  <2>6. EscOK'
    BY <2>1, <2>5 DEF EscOK, NeverDeaf, Opening
  <2>7. DrainOK'
    BY <2>1 DEF DrainOK, CmdFits, Draining, regs
  <2> QED
    BY <2>3, <2>4, <2>6, <2>7
<1> QED
  BY <1>1, <1>2, <1>3, <1>4

\* Out of the editor and back to the shell's loop.
LEMMA BackSteps == IInv /\ (Wait \/ BackToShell \/ ResetFlag) => IInv'
<1> SUFFICES ASSUME IInv, Wait \/ BackToShell \/ ResetFlag PROVE IInv'
  OBVIOUS
<1> USE DEF IInv
<1>1. TypeOK'
  BY DEF Wait, BackToShell, ResetFlag, Goto, TypeOK, ring, regs, session
<1>2. DrainOK'
  BY DEF Wait, BackToShell, ResetFlag, Goto, DrainOK, CmdFits, Draining, regs
<1>3. CASE Wait
  <2>1. OpenOK' /\ EscOK' /\ TextOK' /\ SaveHasFile'
    BY <1>3 DEF Wait, Goto, OpenOK, EscOK, NeverDeaf, Opening, TextOK, SaveHasFile
  <2> QED
    BY <1>1, <1>2, <2>1
<1>4. CASE BackToShell
  <2>1. OpenOK' /\ EscOK' /\ TextOK' /\ SaveHasFile'
    BY <1>4 DEF BackToShell, Goto, OpenOK, EscOK, NeverDeaf, Opening, TextOK, SaveHasFile, session
  <2> QED
    BY <1>1, <1>2, <2>1
<1>5. CASE ResetFlag
  <2>1. OpenOK' /\ EscOK' /\ TextOK' /\ SaveHasFile'
    BY <1>5 DEF ResetFlag, Goto, OpenOK, EscOK, NeverDeaf, Opening, TextOK, SaveHasFile, session
  <2> QED
    BY <1>1, <1>2, <2>1
<1> QED
  BY <1>3, <1>4, <1>5

LEMMA Stutter == IInv /\ UNCHANGED vars => IInv'
<1> SUFFICES ASSUME IInv, UNCHANGED vars PROVE IInv'
  OBVIOUS
<1>1. TypeOK' /\ DrainOK'
  BY DEF vars, ring, regs, session, IInv, TypeOK, DrainOK, CmdFits, Draining
<1>2. OpenOK' /\ EscOK' /\ TextOK' /\ SaveHasFile'
  BY DEF vars, session, IInv, OpenOK, EscOK, NeverDeaf, Opening, TextOK, SaveHasFile
<1> QED
  BY <1>1, <1>2 DEF IInv

-----------------------------------------------------------------------------
\* The inductive invariant of the console, with keys before, between and after
\* all steps of the shell and the editor.
THEOREM Invariant == Spec => []IInv
<1>1. IInv /\ [Next]_vars => IInv'
  <2> SUFFICES ASSUME IInv, [Next]_vars PROVE IInv'
    OBVIOUS
  <2>1. CASE \E k \in Char \cup {Enter, Back} : Key(k)
    BY <2>1, KeyStep
  <2>2. CASE Poll \/ Drain \/ Take
    BY <2>2, DrainSteps
  <2>3. CASE RunOther \/ RunExit \/ RunTest \/ RunVim \/ Leave
    BY <2>3, RunSteps
  <2>4. CASE \E x \in todo : Store(x)
    BY <2>4, StoreStep
  <2>5. CASE (\E f \in File : FindFile(f)) \/ FindFails \/ ClearCopy \/ LoadCopy
    BY <2>5, OpenSteps
  <2>6. CASE Wait \/ BackToShell \/ ResetFlag
    BY <2>6, BackSteps
  <2>7. CASE UNCHANGED vars
    BY <2>7, Stutter
  <2> QED
    BY <2>1, <2>2, <2>3, <2>4, <2>5, <2>6, <2>7 DEF Next, Shell, Idle
<1> QED
  BY InitialState, <1>1, PTL DEF Spec

\* Type correctness of the console's state (shell.c, vim.c).
THEOREM TypeCorrect == Spec => []TypeOK
<1>1. IInv => TypeOK
  BY DEF IInv
<1> QED
  BY Invariant, <1>1, PTL

\* In the build that looks at the end pointer once, cmd_content holds every
\* drained line and its 0, whatever is typed during the drain (shell.c:77-88).
\* Nothing is said of the build that looks at it again before each character.
THEOREM CommandFits == Spec => []CmdFits
<1>1. IInv => CmdFits
  BY DEF IInv, DrainOK, CmdFits
<1> QED
  BY Invariant, <1>1, PTL

\* The editor that can no longer hear ESC had it while it was opening
\* (vim.c:48-51, 145-148, 172-175).
THEOREM EditorHears == Spec => []NeverDeaf
<1>1. IInv => NeverDeaf
  BY DEF IInv, EscOK
<1> QED
  BY Invariant, <1>1, PTL

\* No file gets the text of another one unless ESC saved while the editor was
\* opening (vim.c:30-41, 114-118, 167-168).
THEOREM FilesKeepText == Spec => []TextStays
<1>1. IInv => TextStays
  BY DEF IInv, TextOK, TextStays
<1> QED
  BY Invariant, <1>1, PTL

\* A save without a file needs an ESC while the editor was opening, or an
\* editor that failed to open (vim.c:50, 145-146, 163-165).
THEOREM SavesToFile == Spec => []SaveHasFile
<1>1. IInv => SaveHasFile
  BY DEF IInv
<1> QED
  BY Invariant, <1>1, PTL

\* A key goes to the shell or to the editor, never to both, until the editor
\* has once failed to open (kbd.c:69-70, shell.c:232-234, vim.c:163-165).
THEOREM KeysHaveOneReader == Spec => []OneReader
<1>1. IInv => OneReader
  BY DEF IInv, OpenOK, OneReader
<1> QED
  BY Invariant, <1>1, PTL
-----------------------------------------------------------------------------
(* The line on the screen.  The places of the ring are counted from where the
   drain loop is. *)

LEMMA Remainders ==
    ASSUME NEW a \in Int
    PROVE  /\ 0 <= a /\ a < SHELL_BUF_SIZE => a % SHELL_BUF_SIZE = a
           /\ SHELL_BUF_SIZE <= a /\ a < 2 * SHELL_BUF_SIZE => a % SHELL_BUF_SIZE = a - SHELL_BUF_SIZE
           /\ 0 - SHELL_BUF_SIZE <= a /\ a < 0 => a % SHELL_BUF_SIZE = a + SHELL_BUF_SIZE
BY SizeAssumption

LEMMA PlusIs ==
    ASSUME NEW p \in Places, NEW k \in 0..SHELL_BUF_SIZE
    PROVE  Plus(p, k) = IF p + k < SHELL_BUF_SIZE THEN p + k ELSE (p + k) - SHELL_BUF_SIZE
<1> DEFINE a == p + k
<1>1. a \in Int /\ 0 <= a /\ a < 2 * SHELL_BUF_SIZE /\ SHELL_BUF_SIZE \in Int
  BY SizeAssumption DEF Places
<1> HIDE DEF a
<1>2. a < SHELL_BUF_SIZE => a % SHELL_BUF_SIZE = a
  BY <1>1, Remainders
<1>3. SHELL_BUF_SIZE <= a => a % SHELL_BUF_SIZE = a - SHELL_BUF_SIZE
  BY <1>1, Remainders
<1>4. a % SHELL_BUF_SIZE = IF a < SHELL_BUF_SIZE THEN a ELSE a - SHELL_BUF_SIZE
  BY <1>1, <1>2, <1>3
<1> QED
  BY <1>4 DEF Plus, a

LEMMA DistanceIs ==
    ASSUME NEW p \in Places, NEW q \in Places
    PROVE  (q - p) % SHELL_BUF_SIZE = Distance(p, q)
<1>1. q - p \in Int /\ 0 - SHELL_BUF_SIZE <= q - p /\ q - p < SHELL_BUF_SIZE
  BY SizeAssumption DEF Places
<1> QED
  BY <1>1, Remainders, SizeAssumption DEF Distance, Places

\* The place that is n characters on, and the next one.
LEMMA PlacesOn ==
    ASSUME NEW p \in Places, NEW n \in 0..SHELL_BUF_SIZE - 1
    PROVE  /\ Plus(p, n) \in Places
           /\ \A m \in 0..SHELL_BUF_SIZE - 1 : Plus(p, n) = Plus(p, m) => n = m
           /\ Plus(Plus(p, 1), n) = Plus(p, n + 1)
           /\ Plus(p, 0) = p
<1>1. Plus(p, n) = IF p + n < SHELL_BUF_SIZE THEN p + n ELSE (p + n) - SHELL_BUF_SIZE
  BY PlusIs, SizeAssumption
<1>2. \A m \in 0..SHELL_BUF_SIZE - 1 : Plus(p, m) = IF p + m < SHELL_BUF_SIZE THEN p + m ELSE (p + m) - SHELL_BUF_SIZE
  BY PlusIs, SizeAssumption
<1>3. Plus(p, n + 1) = IF p + (n + 1) < SHELL_BUF_SIZE THEN p + (n + 1) ELSE (p + (n + 1)) - SHELL_BUF_SIZE
  BY PlusIs, SizeAssumption
<1>4. Plus(p, 1) = IF p = SHELL_BUF_SIZE - 1 THEN 0 ELSE p + 1
  BY PlusOne
<1>5. Plus(p, 1) \in Places
  BY <1>4, SizeAssumption DEF Places
<1>6. Plus(Plus(p, 1), n) = IF Plus(p, 1) + n < SHELL_BUF_SIZE THEN Plus(p, 1) + n ELSE (Plus(p, 1) + n) - SHELL_BUF_SIZE
  BY <1>5, PlusIs, SizeAssumption
<1>7. Plus(p, n) \in Places
  BY <1>1, SizeAssumption DEF Places
<1>8. \A m \in 0..SHELL_BUF_SIZE - 1 : Plus(p, n) = Plus(p, m) => n = m
  BY <1>1, <1>2, SizeAssumption DEF Places
<1>9. Plus(Plus(p, 1), n) = Plus(p, n + 1)
  BY <1>3, <1>4, <1>6, SizeAssumption DEF Places
<1>10. Plus(p, 0) = p
  BY <1>2, SizeAssumption DEF Places
<1> QED
  BY <1>7, <1>8, <1>9, <1>10

\* One character more, one less, and what lies at the end.
LEMMA DistanceMoves ==
    ASSUME NEW p \in Places, NEW q \in Places
    PROVE  /\ Plus(p, Distance(p, q)) = q
           /\ Plus(q, 1) # p => Distance(p, Plus(q, 1)) = Distance(p, q) + 1
           /\ p # q => Distance(p, Plus(q, SHELL_BUF_SIZE - 1)) = Distance(p, q) - 1
           /\ Distance(p, q) = 0 <=> p = q
           /\ \A r \in Places : Distance(p, q) = Distance(p, r) => q = r
<1>1. Distance(p, q) \in 0..SHELL_BUF_SIZE - 1
  BY DistanceFits
<1>2. Plus(p, Distance(p, q)) = q
  <2>1. Plus(p, Distance(p, q)) = IF p + Distance(p, q) < SHELL_BUF_SIZE THEN p + Distance(p, q)
                                  ELSE (p + Distance(p, q)) - SHELL_BUF_SIZE
    BY <1>1, PlusIs, SizeAssumption
  <2> QED
    BY <2>1, SizeAssumption DEF Distance, Places
<1>3. Plus(q, 1) # p => Distance(p, Plus(q, 1)) = Distance(p, q) + 1
  BY PlusOne, SizeAssumption DEF Distance, Places
<1>4. p # q => Distance(p, Plus(q, SHELL_BUF_SIZE - 1)) = Distance(p, q) - 1
  <2>1. Plus(q, SHELL_BUF_SIZE - 1) = IF q = 0 THEN SHELL_BUF_SIZE - 1 ELSE q - 1
    <3>1. Plus(q, SHELL_BUF_SIZE - 1) = IF q + (SHELL_BUF_SIZE - 1) < SHELL_BUF_SIZE THEN q + (SHELL_BUF_SIZE - 1)
                                        ELSE (q + (SHELL_BUF_SIZE - 1)) - SHELL_BUF_SIZE
      BY PlusIs, SizeAssumption
    <3> QED
      BY <3>1, SizeAssumption DEF Places
  <2> QED
    BY <2>1, SizeAssumption DEF Distance, Places
<1>5. /\ Distance(p, q) = 0 <=> p = q
      /\ \A r \in Places : Distance(p, q) = Distance(p, r) => q = r
  BY SizeAssumption DEF Distance, Places
<1> QED
  BY <1>2, <1>3, <1>4, <1>5

LEMMA ShowsTyped ==
    ASSUME NEW e \in Seq(Char), NEW c \in Seq(Char \cup {NUL}), NEW buf \in [Places -> Char \cup {NUL}],
           NEW f \in Places, NEW q \in Places, NEW k \in Char,
           Shows(e, c, buf, f, Distance(f, q)), Plus(q, 1) # f
    PROVE  Shows(Append(e, k), c, [buf EXCEPT ![q] = k], f, Distance(f, Plus(q, 1)))
<1> DEFINE n == Distance(f, q)
<1>1. n \in Nat /\ n < SHELL_BUF_SIZE - 1 /\ Distance(f, Plus(q, 1)) = n + 1 /\ Plus(f, n) = q
  <2>1. Plus(q, 1) \in Places
    BY PlusInRing
  <2>2. Distance(f, Plus(q, 1)) \in 0..SHELL_BUF_SIZE - 1 /\ n \in 0..SHELL_BUF_SIZE - 1
    BY <2>1, DistanceFits
  <2>3. Distance(f, Plus(q, 1)) = n + 1 /\ Plus(f, n) = q
    BY DistanceMoves
  <2> QED
    BY <2>2, <2>3, SizeAssumption
<1> HIDE DEF n
<1>2. /\ Len(e) = Len(c) + n
      /\ \A i \in 1..Len(c) : c[i] = e[i]
      /\ \A i \in 1..n : buf[Plus(f, i - 1)] = e[Len(c) + i]
  BY DEF Shows, n
<1>3. Len(e) \in Nat /\ Len(c) \in Nat
  OBVIOUS
<1>4. Len(Append(e, k)) = Len(e) + 1 /\ Append(e, k)[Len(e) + 1] = k /\ \A i \in 1..Len(e) : Append(e, k)[i] = e[i]
  OBVIOUS
<1>5. \A i \in 1..Len(c) : c[i] = Append(e, k)[i]
  BY <1>1, <1>2, <1>3, <1>4
<1>6. ASSUME NEW i \in 1..n + 1 PROVE [buf EXCEPT ![q] = k][Plus(f, i - 1)] = Append(e, k)[Len(c) + i]
  <2>1. i - 1 \in 0..SHELL_BUF_SIZE - 1 /\ n \in 0..SHELL_BUF_SIZE - 1
    BY <1>1, SizeAssumption
  <2>2. Plus(f, i - 1) \in Places /\ (Plus(f, i - 1) = q => i - 1 = n)
    BY <1>1, <2>1, PlacesOn
  <2>3. CASE i = n + 1
    <3>1. Plus(f, i - 1) = q /\ Len(c) + i = Len(e) + 1
      BY <1>1, <1>2, <1>3, <2>3
    <3> QED
      BY <1>4, <3>1
  <2>4. CASE i # n + 1
    <3>1. i \in 1..n /\ Plus(f, i - 1) # q /\ Len(c) + i \in 1..Len(e)
      BY <1>1, <1>2, <1>3, <2>2, <2>4
    <3> QED
      BY <1>2, <1>4, <2>2, <3>1
  <2> QED
    BY <2>3, <2>4
<1>7. Len(Append(e, k)) = Len(c) + (n + 1)
  BY <1>1, <1>2, <1>3, <1>4
<1> QED
  BY <1>1, <1>5, <1>6, <1>7 DEF Shows

LEMMA ShowsErased ==
    ASSUME NEW e \in Seq(Char), NEW c \in Seq(Char \cup {NUL}), NEW buf,
           NEW f \in Places, NEW q \in Places,
           Shows(e, c, buf, f, Distance(f, q)), f # q
    PROVE  Shows(SubSeq(e, 1, Len(e) - 1), c, buf, f, Distance(f, Plus(q, SHELL_BUF_SIZE - 1)))
<1> DEFINE n == Distance(f, q)
           d == SubSeq(e, 1, Len(e) - 1)
<1>1. n \in Nat /\ n >= 1 /\ Distance(f, Plus(q, SHELL_BUF_SIZE - 1)) = n - 1
  BY DistanceFits, DistanceMoves
<1> HIDE DEF n
<1>2. /\ Len(e) = Len(c) + n
      /\ \A i \in 1..Len(c) : c[i] = e[i]
      /\ \A i \in 1..n : buf[Plus(f, i - 1)] = e[Len(c) + i]
  BY DEF Shows, n
<1>3. Len(c) \in Nat /\ Len(e) \in Nat /\ Len(e) >= 1
  BY <1>1, <1>2
<1>4. Len(d) = Len(e) - 1 /\ \A i \in 1..Len(e) - 1 : d[i] = e[i]
  <2> DEFINE m == Len(e) - 1
  <2>1. m \in Nat
    BY <1>3
  <2>2. \A i \in 1..m : e[i] \in Char
    BY <1>3
  <2> HIDE DEF m
  <2>3. /\ Len(SubSeq(e, 1, m)) = (IF 1 <= m THEN m - 1 + 1 ELSE 0)
        /\ \A i \in 1..m - 1 + 1 : SubSeq(e, 1, m)[i] = e[1 + i - 1]
    BY <2>1, <2>2, SubSeqProperties
  <2>4. m - 1 + 1 = m /\ \A i \in 1..m : 1 + i - 1 = i
    BY <2>1
  <2>5. (IF 1 <= m THEN m ELSE 0) = m
    BY <2>1
  <2> QED
    BY <2>3, <2>4, <2>5 DEF m
<1> HIDE DEF d
<1>5. Len(d) = Len(c) + (n - 1)
  BY <1>1, <1>2, <1>3, <1>4
<1>6. \A i \in 1..Len(c) : c[i] = d[i]
  BY <1>1, <1>2, <1>3, <1>4
<1>7. \A i \in 1..n - 1 : buf[Plus(f, i - 1)] = d[Len(c) + i]
  <2> TAKE i \in 1..n - 1
  <2>1. i \in 1..n /\ Len(c) + i \in 1..Len(e) - 1
    BY <1>1, <1>2, <1>3
  <2> QED
    BY <1>2, <1>4, <2>1
<1> QED
  BY <1>1, <1>5, <1>6, <1>7 DEF Shows, d

LEMMA ShowsTaken ==
    ASSUME NEW e \in Seq(Char), NEW c \in Seq(Char \cup {NUL}), NEW buf \in [Places -> Char \cup {NUL}],
           NEW f \in Places, NEW q \in Places,
           Shows(e, c, buf, f, Distance(f, q)), f # q
    PROVE  Shows(e, Append(c, buf[f]), [buf EXCEPT ![f] = NUL], Plus(f, 1), Distance(Plus(f, 1), q))
<1> DEFINE n == Distance(f, q)
           g == Plus(f, 1)
           a == Append(c, buf[f])
<1>1. n \in Nat /\ n >= 1 /\ n < SHELL_BUF_SIZE /\ Distance(g, q) = n - 1
  <2>1. Distance(g, q) = n - 1 /\ n \in 1..SHELL_BUF_SIZE - 1
    BY DistanceTaken
  <2> QED
    BY <2>1, SizeAssumption
<1> HIDE DEF n
<1>2. /\ Len(e) = Len(c) + n
      /\ \A i \in 1..Len(c) : c[i] = e[i]
      /\ \A i \in 1..n : buf[Plus(f, i - 1)] = e[Len(c) + i]
  BY DEF Shows, n
<1>3. Len(c) \in Nat /\ Len(e) \in Nat
  OBVIOUS
<1>4. Len(a) = Len(c) + 1 /\ a[Len(c) + 1] = buf[f] /\ \A i \in 1..Len(c) : a[i] = c[i]
  OBVIOUS
<1> HIDE DEF a, g
<1>5. buf[f] = e[Len(c) + 1]
  <2>1. 1 \in 1..n /\ 1 - 1 = 0
    BY <1>1
  <2>2. Plus(f, 0) = f
    BY PlacesOn, SizeAssumption
  <2>3. buf[Plus(f, 1 - 1)] = e[Len(c) + 1]
    BY <1>2, <2>1
  <2> QED
    BY <2>1, <2>2, <2>3
<1>6. Len(e) = Len(a) + (n - 1)
  BY <1>1, <1>2, <1>3, <1>4
<1>7. \A i \in 1..Len(a) : a[i] = e[i]
  BY <1>2, <1>3, <1>4, <1>5
<1>8. ASSUME NEW i \in 1..n - 1 PROVE [buf EXCEPT ![f] = NUL][Plus(g, i - 1)] = e[Len(a) + i]
  <2>1. i - 1 \in 0..SHELL_BUF_SIZE - 1 /\ i \in 0..SHELL_BUF_SIZE - 1 /\ i + 1 \in 1..n /\ i # 0
        /\ 0 \in 0..SHELL_BUF_SIZE - 1 /\ i - 1 + 1 = i /\ i + 1 - 1 = i
    BY <1>1, SizeAssumption
  <2>2. Plus(g, i - 1) = Plus(f, i)
    BY <2>1, PlacesOn DEF g
  <2>3. Plus(f, i) \in Places /\ Plus(f, i) # f
    BY <2>1, PlacesOn
  <2>4. buf[Plus(f, i)] = e[Len(c) + (i + 1)]
    BY <1>2, <2>1
  <2>5. Len(c) + (i + 1) = Len(a) + i
    BY <1>3, <1>4, <2>1
  <2> QED
    BY <2>2, <2>3, <2>4, <2>5
<1> QED
  BY <1>1, <1>6, <1>7, <1>8 DEF Shows, a, g

LEMMA ShowsExecuted ==
    ASSUME NEW e \in Seq(Char), NEW c \in Seq(Char \cup {NUL}), NEW buf, NEW f, NEW n \in Nat,
           Shows(e, c, buf, f, n)
    PROVE  Shows(SubSeq(e, Len(c) + 1, Len(e)), << >>, buf, f, n)
<1> DEFINE d == SubSeq(e, Len(c) + 1, Len(e))
<1>1. /\ Len(e) = Len(c) + n
      /\ \A i \in 1..n : buf[Plus(f, i - 1)] = e[Len(c) + i]
  BY DEF Shows
<1>2. Len(c) \in Nat /\ Len(e) \in Nat
  OBVIOUS
<1>3. Len(d) = n /\ \A i \in 1..n : d[i] = e[Len(c) + i]
  <2>1. /\ Len(d) = (IF Len(c) + 1 <= Len(e) THEN Len(e) - (Len(c) + 1) + 1 ELSE 0)
        /\ \A i \in 1..Len(e) - (Len(c) + 1) + 1 : d[i] = e[Len(c) + 1 + i - 1]
    <3>1. Len(c) + 1 \in Int /\ Len(e) \in Int /\ \A i \in Len(c) + 1..Len(e) : e[i] \in Char
      BY <1>2
    <3> QED
      BY <3>1, SubSeqProperties
  <2>2. Len(e) - (Len(c) + 1) + 1 = n /\ \A i \in 1..n : Len(c) + 1 + i - 1 = Len(c) + i
    BY <1>1, <1>2
  <2>3. (IF Len(c) + 1 <= Len(e) THEN n ELSE 0) = n
    BY <1>1, <1>2
  <2> HIDE DEF d
  <2> QED
    BY <2>1, <2>2, <2>3
<1> HIDE DEF d
<1>4. Len(<< >>) = 0 /\ Len(d) = 0 + n /\ \A i \in 1..n : 0 + i = i
  BY <1>3
<1>5. \A i \in 1..n : buf[Plus(f, i - 1)] = d[0 + i]
  BY <1>1, <1>3, <1>4
<1> QED
  BY <1>4, <1>5 DEF Shows, d

\* A key: the drain loop keeps its pointers, and no slip leaves something to
\* erase.
LEMMA KeyLine == ASSUME NEW k \in Char \cup {Enter, Back}, IInv, LineOK, Key(k) PROVE LineOK'
<1> SUFFICES ASSUME pc' # "crashed", mishap' \cap {"slip", "full"} = {} PROVE LineOK'
  BY DEF LineOK
<1>1. ShellKey(k) /\ UNCHANGED <<cached, first, limit, cmd, pc>> /\ mishap' = mishap \cup Mishaps(k)
  BY DEF Key, VimKey, regs
<1>2. pc # "crashed" /\ mishap \cap {"slip", "full"} = {} /\ Mishaps(k) \cap {"slip", "full"} = {}
  BY <1>1
<1>3. /\ Shows(echo, cmd, shell_buf, From, Distance(From, end))
      /\ ~Draining /\ pc # "run" => cmd = <<>>
      /\ cached /\ Draining => Distance(first, limit) <= Distance(first, end)
      /\ ~cached /\ pc = "take" => start # end
  BY <1>2 DEF LineOK
<1>4. /\ start \in Places /\ end \in Places /\ first \in Places /\ limit \in Places /\ From \in Places
      /\ echo \in Seq(Char) /\ cmd \in Seq(Char \cup {NUL}) /\ shell_buf \in [Places -> Char \cup {NUL}]
  BY DEF IInv, TypeOK, From
<1>5. SUFFICES /\ start' = start
               /\ Shows(echo', cmd, shell_buf', From, Distance(From, end'))
               /\ cached /\ Draining => Distance(first, limit) <= Distance(first, end')
               /\ ~cached /\ pc = "take" => start # end'
  <2>1. start' = start => From' = From /\ Draining' = Draining
    BY <1>1 DEF From, Draining
  <2> QED
    BY <1>1, <1>3, <1>5, <2>1 DEF LineOK, Draining, Shows, Distance
<1>6. CASE UNCHANGED <<ring, echo>>
  BY <1>3, <1>6 DEF ring
<1>7. CASE enable_shell /\ k \in Char
  <2>1. /\ shell_buf' = [shell_buf EXCEPT ![end] = k] /\ end' = Plus(end, 1)
        /\ echo' = Append(echo, k) /\ start' = start
    BY <1>1, <1>7, KeysAssumption DEF ShellKey, Char
  <2>2. Plus(end, 1) # From
    BY <1>2, <1>7 DEF Mishaps
  <2>3. Shows(echo', cmd, shell_buf', From, Distance(From, end'))
    BY <1>3, <1>4, <1>7, <2>1, <2>2, ShowsTyped
  <2>4. Distance(From, end') = Distance(From, end) + 1 /\ Distance(From, end) \in Nat
    <3>1. Distance(From, Plus(end, 1)) = Distance(From, end) + 1
      BY <1>4, <2>2, DistanceMoves
    <3>2. Distance(From, end) \in Nat
      BY <1>4, DistanceFits
    <3> QED
      BY <2>1, <3>1, <3>2
  <2>5. Distance(first, limit) \in Nat
    BY <1>4, DistanceFits
  <2>6. cached /\ Draining => Distance(first, limit) <= Distance(first, end')
    BY <1>3, <2>4, <2>5 DEF From
  <2>7. ~cached /\ pc = "take" => start # end'
    BY <2>1, <2>2 DEF From
  <2> QED
    BY <2>1, <2>3, <2>6, <2>7
<1>8. CASE enable_shell /\ k = Back /\ end # start
  <2>1. /\ end' = Plus(end, SHELL_BUF_SIZE - 1) /\ echo' = SubSeq(echo, 1, Len(echo) - 1)
        /\ UNCHANGED <<shell_buf, start>>
    BY <1>1, <1>8, KeysAssumption DEF ShellKey, Erase, Char
  <2>2. ~Slips
    BY <1>2, <1>8 DEF Mishaps
  <2>3. Distance(first, limit) \in Nat /\ Distance(first, end) \in Nat /\ Distance(From, end) \in Nat
    BY <1>4, DistanceFits
  <2>4. cached /\ Draining => Distance(first, limit) < Distance(first, end) /\ first # end
    <3> SUFFICES ASSUME cached, Draining PROVE Distance(first, limit) < Distance(first, end) /\ first # end
      OBVIOUS
    <3>1. end # limit
      BY <2>2 DEF Slips
    <3>2. Distance(first, limit) # Distance(first, end)
      BY <1>4, <3>1, DistanceMoves
    <3>3. Distance(first, end) # 0
      BY <1>3, <2>3, <3>2
    <3>4. first # end
      BY <1>4, <3>3, DistanceMoves
    <3> QED
      BY <1>3, <2>3, <3>2, <3>4
  <2>5. From # end
    BY <1>8, <2>4 DEF From
  <2>6. Shows(echo', cmd, shell_buf', From, Distance(From, end'))
    BY <1>3, <1>4, <2>1, <2>5, ShowsErased
  <2>7. Distance(From, end') = Distance(From, end) - 1
    BY <1>4, <2>1, <2>5, DistanceMoves
  <2>8. cached /\ Draining => Distance(first, limit) <= Distance(first, end')
    BY <2>3, <2>4, <2>7 DEF From
  <2>9. ASSUME ~cached, pc = "take" PROVE start # end'
    <3>1. From = start /\ Plus(start, 1) # end
      BY <2>2, <2>9 DEF Slips, From
    <3>2. Plus(start, Distance(start, end)) = end
      BY <1>4, DistanceMoves
    <3>3. Distance(start, end) # 1
      BY <3>1, <3>2
    <3>4. Distance(start, end') # 0
      BY <2>3, <2>7, <3>1, <3>3
    <3>5. end' \in Places
      BY <1>4, <2>1, PlusInRing, SizeAssumption
    <3> QED
      BY <1>4, <3>4, <3>5, DistanceMoves
  <2> QED
    BY <2>1, <2>6, <2>8, <2>9
<1> QED
  BY <1>1, <1>6, <1>7, <1>8, KeysAssumption DEF ShellKey, Erase, ring, Char

\* The drain loop.
LEMMA DrainLine == IInv /\ LineOK /\ (Poll \/ Drain \/ Take) => LineOK'
<1> SUFFICES ASSUME IInv, LineOK, Poll \/ Drain \/ Take, pc' # "crashed", mishap' \cap {"slip", "full"} = {}
             PROVE  LineOK'
  BY DEF LineOK
<1>1. pc \in {"poll", "drain", "take"} /\ UNCHANGED <<end, cached, echo, mishap>>
  BY DEF Poll, Drain, Take, Goto, ring, regs
<1>2. /\ Shows(echo, cmd, shell_buf, From, Distance(From, end))
      /\ ~Draining /\ pc # "run" => cmd = <<>>
      /\ cached /\ Draining => Distance(first, limit) <= Distance(first, end)
      /\ ~cached /\ pc = "take" => start # end
  BY <1>1 DEF LineOK
<1>3. /\ start \in Places /\ end \in Places /\ first \in Places /\ limit \in Places /\ From \in Places
      /\ echo \in Seq(Char) /\ cmd \in Seq(Char \cup {NUL}) /\ shell_buf \in [Places -> Char \cup {NUL}]
  BY DEF IInv, TypeOK, From
<1>4. CASE Poll
  <2>1. /\ pc = "poll" /\ pc' = "drain" /\ cmd' = <<>> /\ UNCHANGED ring
        /\ cached => first' = start /\ limit' = end
    BY <1>4 DEF Poll, Goto
  <2>2. From' = From /\ cmd' = cmd /\ From = start
    BY <1>1, <1>2, <2>1 DEF From, Draining, ring
  <2>3. Shows(echo, cmd, shell_buf, From, Distance(From, end))'
    BY <1>1, <1>2, <2>1, <2>2 DEF Shows, Distance, ring
  <2>4. cached => Distance(first, limit)' = Distance(first, end)' /\ Distance(first, end)' \in Nat
    <3>1. Distance(start, end) \in Nat
      BY <1>3, DistanceFits
    <3>2. cached => Distance(first', limit') = Distance(first', end') /\ Distance(first', end') \in Nat
      BY <1>1, <2>1, <3>1 DEF Distance
    <3> QED
      BY <1>1, <3>2 DEF Distance
  <2> QED
    BY <1>1, <2>1, <2>3, <2>4 DEF LineOK, Draining
<1>5. CASE Drain
  <2>1. /\ pc = "drain" /\ pc' \in {"take", "run"} /\ UNCHANGED <<shell_buf, cmd>>
        /\ pc' = "take" => From # Until /\ UNCHANGED <<start, first, limit>>
        /\ pc' = "run" => start' = From
    BY <1>5 DEF Drain
  <2>2. From' = From
    BY <1>1, <2>1 DEF From, Draining
  <2>3. Shows(echo, cmd, shell_buf, From, Distance(From, end))'
    BY <1>1, <1>2, <2>1, <2>2 DEF Shows, Distance
  <2>4. (cached /\ Draining => Distance(first, limit) <= Distance(first, end))'
    BY <1>1, <1>2, <2>1 DEF Distance, Draining
  <2>5. (~cached /\ pc = "take" => start # end)'
    BY <1>1, <2>1 DEF From, Until
  <2> QED
    BY <2>1, <2>3, <2>4, <2>5 DEF LineOK, Draining
<1>6. CASE Take
  <2>1. /\ pc = "take" /\ pc' = "drain" /\ UNCHANGED limit
        /\ cmd' = Append(cmd, shell_buf[From]) /\ shell_buf' = [shell_buf EXCEPT ![From] = NUL]
        /\ cached => first' = Plus(first, 1) /\ From = first
        /\ ~cached => start' = Plus(start, 1) /\ From = start
    BY <1>6 DEF Take, Goto, From, Draining
  <2>2. From' = Plus(From, 1)
    BY <1>1, <2>1 DEF From, Draining
  <2>3. Distance(first, limit) \in Nat /\ Distance(first, end) \in Nat
    BY <1>3, DistanceFits
  <2>4. From # end
    <3>1. CASE cached
      <4>1. first # limit
        BY <2>1, <3>1 DEF IInv, DrainOK
      <4>2. Distance(first, limit) # 0
        BY <1>3, <4>1, DistanceMoves
      <4>3. Distance(first, end) # 0
        BY <1>2, <2>1, <2>3, <3>1, <4>2 DEF Draining
      <4>4. first # end
        BY <1>3, <4>3, DistanceMoves
      <4> QED
        BY <2>1, <3>1, <4>4
    <3>2. CASE ~cached
      BY <1>2, <2>1, <3>2
    <3> QED
      BY <3>1, <3>2
  <2>5. Shows(echo, cmd', shell_buf', Plus(From, 1), Distance(Plus(From, 1), end))
    BY <1>2, <1>3, <2>1, <2>4, ShowsTaken
  <2>6. Shows(echo, cmd, shell_buf, From, Distance(From, end))'
    BY <1>1, <2>2, <2>5 DEF Shows, Distance
  <2>7. ASSUME cached PROVE Distance(first, limit)' <= Distance(first, end)'
    <3>1. first # limit /\ first # end /\ Distance(first, limit) <= Distance(first, end)
      BY <1>2, <2>1, <2>4, <2>7 DEF IInv, DrainOK, Draining
    <3>2. /\ Distance(Plus(first, 1), limit) = Distance(first, limit) - 1
          /\ Distance(Plus(first, 1), end) = Distance(first, end) - 1
      BY <1>3, <3>1, DistanceTaken
    <3>3. Distance(first, limit)' = Distance(first, limit) - 1 /\ Distance(first, end)' = Distance(first, end) - 1
      BY <1>1, <2>1, <2>7, <3>2 DEF Distance
    <3> QED
      BY <2>3, <3>1, <3>3
  <2> QED
    BY <1>1, <2>1, <2>6, <2>7 DEF LineOK, Draining
<1> QED
  BY <1>4, <1>5, <1>6

\* The command is executed: what is left of the screen is what is in the ring.
LEMMA RunLine == IInv /\ LineOK /\ (RunOther \/ RunExit \/ RunTest \/ RunVim) => LineOK'
<1> SUFFICES ASSUME IInv, LineOK, RunOther \/ RunExit \/ RunTest \/ RunVim,
                    mishap' \cap {"slip", "full"} = {}
             PROVE  LineOK'
  BY DEF LineOK
<1>1. /\ pc = "run" /\ pc' \in {"poll", "leave", "open"} /\ Executed
      /\ UNCHANGED <<shell_buf, start, end, cached, mishap>>
  BY DEF RunOther, RunExit, RunTest, RunVim, Goto, ring, regs
<1>2. Shows(echo, cmd, shell_buf, From, Distance(From, end))
  BY <1>1 DEF LineOK
<1>3. start \in Places /\ end \in Places /\ echo \in Seq(Char) /\ cmd \in Seq(Char \cup {NUL})
  BY DEF IInv, TypeOK
<1>4. From = start /\ From' = start
  BY <1>1 DEF From, Draining
<1>5. Distance(start, end) \in Nat
  BY <1>3, DistanceFits
<1>6. Shows(echo', <<>>, shell_buf, start, Distance(start, end))
  BY <1>1, <1>2, <1>3, <1>4, <1>5, ShowsExecuted DEF Executed
<1>7. cmd' = <<>>
  BY <1>1 DEF Executed
<1>8. Shows(echo, cmd, shell_buf, From, Distance(From, end))'
  BY <1>1, <1>4, <1>6, <1>7 DEF Shows, Distance
<1> QED
  BY <1>1, <1>7, <1>8 DEF LineOK, Draining

\* Everything else leaves the ring and the screen alone.
LEMMA OtherLine ==
    /\ LineOK
    /\ \/ Leave \/ (\E x \in todo : Store(x)) \/ (\E f \in File : FindFile(f))
       \/ FindFails \/ ClearCopy \/ LoadCopy \/ Wait \/ BackToShell \/ ResetFlag
    => LineOK'
<1> SUFFICES ASSUME LineOK, mishap' \cap {"slip", "full"} = {},
                    \/ Leave \/ (\E x \in todo : Store(x)) \/ (\E f \in File : FindFile(f))
                    \/ FindFails \/ ClearCopy \/ LoadCopy \/ Wait \/ BackToShell \/ ResetFlag
             PROVE  LineOK'
  BY DEF LineOK
<1>1. /\ pc \notin {"drain", "take", "run", "crashed"} /\ pc' \notin {"drain", "take", "run", "crashed"}
      /\ UNCHANGED <<shell_buf, start, end, cached, cmd, echo>> /\ mishap \subseteq mishap'
  BY DEF Leave, Store, FindFile, FindFails, ClearCopy, LoadCopy, Wait, BackToShell, ResetFlag, Goto, ring, regs
<1>2. Shows(echo, cmd, shell_buf, From, Distance(From, end)) /\ cmd = <<>>
  BY <1>1 DEF LineOK, Draining
<1>3. From = start /\ From' = start
  BY <1>1 DEF From, Draining
<1>4. Shows(echo, cmd, shell_buf, From, Distance(From, end))'
  BY <1>1, <1>2, <1>3 DEF Shows, Distance
<1> QED
  BY <1>1, <1>2, <1>4 DEF LineOK, Draining

\* The characters of the screen are those of the command and of the ring.
THEOREM LineInvariant == Spec => []LineOK
<1>1. Init => LineOK
  <2> SUFFICES ASSUME Init PROVE LineOK
    OBVIOUS
  <2>1. From = 0 /\ end = 0 /\ 0 \in Places /\ echo = <<>> /\ cmd = <<>> /\ pc = "poll"
    BY SizeAssumption DEF Init, From, Draining, Places
  <2>2. Distance(From, end) = 0 /\ Len(<<>>) = 0
    BY <2>1, DistanceMoves
  <2>3. Shows(echo, cmd, shell_buf, From, Distance(From, end))
    BY <2>1, <2>2 DEF Shows
  <2> QED
    BY <2>1, <2>3 DEF LineOK, Draining
<1>2. IInv /\ LineOK /\ [Next]_vars => LineOK'
  <2> SUFFICES ASSUME IInv, LineOK, [Next]_vars PROVE LineOK'
    OBVIOUS
  <2>1. CASE \E k \in Char \cup {Enter, Back} : Key(k)
    BY <2>1, KeyLine
  <2>2. CASE Poll \/ Drain \/ Take
    BY <2>2, DrainLine
  <2>3. CASE RunOther \/ RunExit \/ RunTest \/ RunVim
    BY <2>3, RunLine
  <2>4. CASE \/ Leave \/ (\E x \in todo : Store(x)) \/ (\E f \in File : FindFile(f))
             \/ FindFails \/ ClearCopy \/ LoadCopy \/ Wait \/ BackToShell \/ ResetFlag
    BY <2>4, OtherLine
  <2>5. CASE UNCHANGED vars
    BY <2>5 DEF vars, ring, regs, LineOK, From, Draining, Shows, Distance
  <2> QED
    BY <2>1, <2>2, <2>3, <2>4, <2>5 DEF Next, Shell, Idle
<1> QED
  BY Invariant, <1>1, <1>2, PTL DEF Spec

\* What the shell has taken for a command and what is still in its ring are
\* what the user sees typed, in order, in every interleaving of keys with the
\* drain loop, in both builds of that loop (shell.c:36-56, 82-88).
THEOREM LineShown == Spec => []LineFaithful
<1>1. IInv /\ LineOK => LineFaithful
  <2> SUFFICES ASSUME IInv, Shows(echo, cmd, shell_buf, From, Distance(From, end))
               PROVE  cmd \o Pending = echo
    BY DEF LineOK, LineFaithful
  <2> DEFINE n == Distance(From, end)
  <2>1. From \in Places /\ end \in Places /\ echo \in Seq(Char) /\ cmd \in Seq(Char \cup {NUL})
        /\ shell_buf \in [Places -> Char \cup {NUL}]
    BY DEF IInv, TypeOK, From
  <2>2. n \in Nat /\ (end - From) % SHELL_BUF_SIZE = n
    BY <2>1, DistanceFits, DistanceIs
  <2>3. /\ Len(echo) = Len(cmd) + n
        /\ \A i \in 1..Len(cmd) : cmd[i] = echo[i]
        /\ \A i \in 1..n : shell_buf[Plus(From, i - 1)] = echo[Len(cmd) + i]
    BY DEF Shows
  <2>4. Pending = [i \in 1..n |-> shell_buf[Plus(From, i - 1)]]
    BY <2>2 DEF Pending
  <2> HIDE DEF n
  <2>5. Pending \in Seq(Char \cup {NUL}) /\ Len(Pending) = n
        /\ \A i \in 1..n : Pending[i] = shell_buf[Plus(From, i - 1)]
    <3>1. ASSUME NEW i \in 1..n PROVE shell_buf[Plus(From, i - 1)] \in Char \cup {NUL}
      <4>1. i - 1 \in Nat
        BY <2>2
      <4>2. Plus(From, i - 1) \in Places
        BY <2>1, <4>1, PlusInRing
      <4> QED
        BY <2>1, <4>2
    <3> QED
      BY <2>2, <2>4, <3>1
  <2>6. /\ cmd \o Pending \in Seq(Char \cup {NUL}) /\ Len(cmd \o Pending) = Len(cmd) + n
        /\ \A i \in 1..Len(cmd) + n :
              (cmd \o Pending)[i] = IF i <= Len(cmd) THEN cmd[i] ELSE Pending[i - Len(cmd)]
    BY <2>1, <2>5, ConcatProperties
  <2>7. ASSUME NEW i \in 1..Len(echo) PROVE (cmd \o Pending)[i] = echo[i]
    <3>1. Len(cmd) \in Nat /\ i \in 1..Len(cmd) + n
      BY <2>1, <2>3
    <3>2. CASE i <= Len(cmd)
      BY <2>3, <2>6, <3>1, <3>2
    <3>3. CASE ~(i <= Len(cmd))
      <4>1. i - Len(cmd) \in 1..n /\ Len(cmd) + (i - Len(cmd)) = i
        BY <2>2, <3>1, <3>3
      <4>2. (cmd \o Pending)[i] = Pending[i - Len(cmd)]
        BY <2>6, <3>1, <3>3
      <4>3. Pending[i - Len(cmd)] = echo[Len(cmd) + (i - Len(cmd))]
        BY <2>3, <2>5, <4>1
      <4> QED
        BY <4>1, <4>2, <4>3
    <3> QED
      BY <3>2, <3>3
  <2> QED
    <3>1. echo \in Seq(Char \cup {NUL})
      BY <2>1
    <3> QED
      BY <2>3, <2>6, <2>7, <3>1, SeqEqual
<1> QED
  BY Invariant, LineInvariant, <1>1, PTL
=============================================================================

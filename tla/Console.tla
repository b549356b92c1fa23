------------------------------- MODULE Console -------------------------------
(***************************************************************************)
(* The console: the shell's line buffer and command loop (shell.c) and the *)
(* opening and leaving of the editor (vim.c), against the keyboard         *)
(* interrupt that writes to both of them.                                  *)
(*                                                                         *)
(* The interrupt handler is one step (Key); it may come between any two    *)
(* steps of the shell's own code.  What kbd_irq makes of the bytes of the  *)
(* keyboard is not modelled here: a key is one character handed to         *)
(* vim_input_handle and then to shell_buf_update.  A word of a command     *)
(* line stands for one character, and a text for the file it came from.    *)
(*                                                                         *)
(* Left out: the commands that only print or only call fs.c, releases of   *)
(* keys (the shell ignores them, the editor repaints), and the editor's    *)
(* cursor.                                                                 *)
(***************************************************************************)
EXTENDS Integers, Sequences

CONSTANTS
    SHELL_BUF_SIZE,     \* size of the ring, and of handle_cmd's cmd_content
    Word,               \* what can be typed on a command line
    Vim, Exit, Test,    \* words that begin a "vim", "exit", "test_sched" line
    Enter, Back, Esc,   \* keys
    File, NoFile,
    Blank,              \* the text of file_copy when it is all zeros
    NUL,                \* a byte 0 of the ring
    MaxTyped            \* bound: characters typed and not yet executed

ASSUME SizeAssumption == SHELL_BUF_SIZE \in Nat /\ SHELL_BUF_SIZE >= 2
ASSUME BoundAssumption == MaxTyped \in Nat
ASSUME KeysAssumption == Enter # Back /\ {Enter, Back} \cap (Word \cup {Esc}) = {}
ASSUME FilesAssumption == {NoFile, Blank} \cap File = {}

VARIABLES
    shell_buf, start, end,      \* the ring and its two pointers
    cached,     \* the build keeps the drain loop's pointers in registers,
    first, limit,               \* and these are the registers
    handle_cmd_flag, enable_shell,
    enable_vim, exit_flag, vim_file,
    copy,       \* whose text file_copy holds
    disk,       \* disk[f]: whose text file f holds
    cmd,        \* cmd_content
    pc,         \* what the shell's code does next
    todo,       \* the first stores of vim_entry that are still to be made
    echo,       \* history: the characters on the screen not yet executed
    mishap      \* history: what has gone wrong, see the properties

ring == <<shell_buf, start, end>>
regs == <<cached, first, limit>>
session == <<enable_vim, exit_flag, vim_file, copy, disk>>
vars == <<ring, regs, handle_cmd_flag, enable_shell, session, cmd, pc, todo,
          echo, mishap>>

Places == 0..(SHELL_BUF_SIZE - 1)
Char == Word \cup {Esc}

Plus(p, k) == (p + k) % SHELL_BUF_SIZE

Draining == pc \in {"drain", "take"}
Opening == pc \in {"open", "find", "clear", "load"}

\* The pointers the drain loop goes by.
From == IF cached /\ Draining THEN first ELSE start
Until == IF cached /\ Draining THEN limit ELSE end

-----------------------------------------------------------------------------
(* The keyboard interrupt. *)

\* save_file writes what file_copy has that is not 0 to the open file.
Save ==
    IF copy = Blank \/ vim_file = NoFile THEN disk ELSE [disk EXCEPT ![vim_file] = copy]

\* Mutant of VimKey: exit_flag is not set.
VimKeySilent(k) ==
    IF enable_vim /\ k = Esc
    THEN /\ enable_vim' = FALSE
         /\ disk' = Save
         /\ pc' = IF vim_file = NoFile THEN "crashed" ELSE pc
         /\ UNCHANGED <<exit_flag, vim_file, copy>>
    ELSE UNCHANGED <<session, pc>>
\* Mutant of VimKey: ESC closes the file and leaves enable_vim to vim_entry.
VimKeyCloses(k) ==
    IF enable_vim /\ k = Esc
    THEN /\ exit_flag' = TRUE
         /\ disk' = Save
         /\ pc' = IF vim_file = NoFile THEN "crashed" ELSE pc
         /\ vim_file' = IF pc = "wait" THEN NoFile ELSE vim_file
         /\ UNCHANGED <<enable_vim, copy>>
    ELSE UNCHANGED <<session, pc>>

\* vim_input_handle, of which only ESC changes more than file_copy's text
\* and the cursor.  With no file open, save_file writes through NULL.
VimKey(k) ==
    IF enable_vim /\ k = Esc
    THEN /\ enable_vim' = FALSE
         /\ exit_flag' = TRUE
         /\ disk' = Save
         /\ pc' = IF vim_file = NoFile THEN "crashed" ELSE pc
         /\ UNCHANGED <<vim_file, copy>>
    ELSE UNCHANGED <<session, pc>>

\* A backspace takes a character the drain loop has taken already.
Slips ==
    \/ ~cached /\ pc = "take" /\ Plus(start, 1) = end
    \/ cached /\ Draining /\ end = limit

\* Mutant of Erase: the pointer is not wrapped below 0.
EraseAtZero ==
    /\ IF end # start
       THEN /\ end' = IF end = 0 THEN 0 ELSE end - 1
            /\ echo' = SubSeq(echo, 1, Len(echo) - 1)
       ELSE UNCHANGED <<end, echo>>
    /\ UNCHANGED <<shell_buf, start, handle_cmd_flag>>

Erase ==
    /\ IF end # start
       THEN end' = Plus(end, SHELL_BUF_SIZE - 1) /\ echo' = SubSeq(echo, 1, Len(echo) - 1)
       ELSE UNCHANGED <<end, echo>>
    /\ UNCHANGED <<shell_buf, start, handle_cmd_flag>>

\* shell_buf_update
ShellKey(k) ==
    CASE ~enable_shell -> UNCHANGED <<ring, handle_cmd_flag, echo>>
      [] enable_shell /\ k = Enter ->
            handle_cmd_flag' = TRUE /\ UNCHANGED <<ring, echo>>
      [] enable_shell /\ k \in Char ->
            /\ shell_buf' = [shell_buf EXCEPT ![end] = k]
            /\ end' = Plus(end, 1)
            /\ echo' = Append(echo, k)
            /\ UNCHANGED <<start, handle_cmd_flag>>
      [] enable_shell /\ k = Back -> Erase

Mishaps(k) ==
    {m \in {"slip", "full", "early"} :
        CASE m = "slip"  -> enable_shell /\ k = Back /\ end # start /\ Slips
          [] m = "full"  -> enable_shell /\ k \in Char /\ Plus(end, 1) = From
          [] m = "early" -> enable_vim /\ k = Esc /\ Opening}

\* After a slip the pointers are out of step: the model types no more, it
\* shows what the shell makes of it.
Key(k) ==
    /\ "slip" \notin mishap /\ pc # "crashed"
    /\ k \in Char => Len(echo) < MaxTyped
    /\ VimKey(k)
    /\ ShellKey(k)
    /\ mishap' = mishap \cup Mishaps(k)
    /\ UNCHANGED <<regs, enable_shell, cmd, todo>>

-----------------------------------------------------------------------------
(* entry_shell and handle_cmd. *)

Goto(from, to) == pc = from /\ pc' = to

\* while(handle_cmd_flag == 0)
Poll ==
    /\ handle_cmd_flag
    /\ Goto("poll", "drain")
    /\ cmd' = <<>>
    /\ IF cached THEN first' = start /\ limit' = end ELSE UNCHANGED <<first, limit>>
    /\ UNCHANGED <<ring, cached, handle_cmd_flag, enable_shell, session, todo,
                   echo, mishap>>

\* Mutant of Drain: the loop looks at the pointers only after a character.
DrainDoWhile ==
    /\ pc = "drain"
    /\ IF From # Until \/ cmd = <<>>
       THEN pc' = "take" /\ UNCHANGED <<start, first, limit>>
       ELSE pc' = "run" /\ start' = From /\ first' = 0 /\ limit' = 0
    /\ UNCHANGED <<shell_buf, end, cached, handle_cmd_flag, enable_shell, session,
                   cmd, todo, echo, mishap>>

\* while(shell_buf_start_ptr != shell_buf_end_ptr).  The registers are free after it.
Drain ==
    /\ pc = "drain"
    /\ IF From # Until
       THEN pc' = "take" /\ UNCHANGED <<start, first, limit>>
       ELSE pc' = "run" /\ start' = From /\ first' = 0 /\ limit' = 0
    /\ UNCHANGED <<shell_buf, end, cached, handle_cmd_flag, enable_shell, session,
                   cmd, todo, echo, mishap>>

Take ==
    /\ Goto("take", "drain")
    /\ cmd' = Append(cmd, shell_buf[From])
    /\ shell_buf' = [shell_buf EXCEPT ![From] = NUL]
    /\ IF cached
       THEN first' = Plus(first, 1) /\ UNCHANGED start
       ELSE start' = Plus(start, 1) /\ UNCHANGED first
    /\ UNCHANGED <<end, cached, limit, handle_cmd_flag, enable_shell, session, todo,
                   echo, mishap>>

\* The command's name is what stands before the first 0.
Begins(word) == cmd # <<>> /\ cmd[1] = word

Executed == echo' = SubSeq(echo, Len(cmd) + 1, Len(echo)) /\ cmd' = <<>>

\* Mutant of RunOther: handle_cmd_flag is not reset.
RunOtherAgain ==
    /\ Goto("run", "poll")
    /\ ~\E w \in {Exit, Test} : Begins(w)
    /\ Executed
    /\ UNCHANGED <<ring, regs, handle_cmd_flag, enable_shell, session, todo, mishap>>

\* A command that only prints, a wrong one, and one without its parameter.
RunOther ==
    /\ Goto("run", "poll")
    /\ ~\E w \in {Exit, Test} : Begins(w)
    /\ handle_cmd_flag' = FALSE
    /\ Executed
    /\ UNCHANGED <<ring, regs, enable_shell, session, todo, mishap>>

RunExit ==
    /\ Goto("run", "leave")
    /\ Begins(Exit)
    /\ handle_cmd_flag' = FALSE
    /\ Executed
    /\ UNCHANGED <<ring, regs, enable_shell, session, todo, mishap>>

\* test_sched ends without a reset of handle_cmd_flag and without a return
\* value: entry_shell takes what happens to be there for the state.
RunTest ==
    /\ \E next \in {"poll", "leave"} : Goto("run", next)
    /\ Begins(Test)
    /\ Executed
    /\ UNCHANGED <<ring, regs, handle_cmd_flag, enable_shell, session, todo, mishap>>

\* Mutant of RunVim: the shell goes on listening.
RunVimListening ==
    /\ Goto("run", "open")
    /\ Begins(Vim)
    /\ todo' = {"enable_vim", "vim_file", "exit_flag"}
    /\ Executed
    /\ UNCHANGED <<ring, regs, handle_cmd_flag, enable_shell, session, mishap>>

RunVim ==
    /\ Goto("run", "open")
    /\ Begins(Vim)
    /\ enable_shell' = FALSE
    /\ todo' = {"enable_vim", "vim_file", "exit_flag"}
    /\ Executed
    /\ UNCHANGED <<ring, regs, handle_cmd_flag, session, mishap>>

\* entry_shell after its loop.
Leave ==
    /\ Goto("leave", "exited")
    /\ enable_shell' = FALSE
    /\ UNCHANGED <<ring, regs, handle_cmd_flag, session, cmd, todo, echo, mishap>>

-----------------------------------------------------------------------------
(* vim_entry. *)

\* vim_entry begins with plain stores, which the compiler may reorder up to
\* the first call.
Store(x) ==
    /\ pc = "open" /\ x \in todo
    /\ todo' = todo \ {x}
    /\ pc' = IF todo' = {} THEN "find" ELSE pc
    /\ enable_vim' = (enable_vim \/ x = "enable_vim")
    /\ exit_flag' = (exit_flag /\ x # "exit_flag")
    /\ vim_file' = IF x = "vim_file" THEN NoFile ELSE vim_file
    /\ UNCHANGED <<ring, regs, handle_cmd_flag, enable_shell, copy, disk, cmd,
                   echo, mishap>>

\* The file is in the folder or is created.
FindFile(f) ==
    /\ Goto("find", "clear")
    /\ vim_file' = f
    /\ UNCHANGED <<ring, regs, handle_cmd_flag, enable_shell, enable_vim, exit_flag,
                   copy, disk, cmd, todo, echo, mishap>>

\* create_file failed: vim_entry returns with enable_vim still set.
FindFails ==
    /\ Goto("find", "back")
    /\ mishap' = mishap \cup {"failed"}
    /\ UNCHANGED <<ring, regs, handle_cmd_flag, enable_shell, session, cmd, todo, echo>>

\* Mutant of ClearCopy: a copy that is already there is not made again.
ClearOnce ==
    /\ Goto("clear", IF copy = Blank THEN "load" ELSE "wait")
    /\ UNCHANGED <<ring, regs, handle_cmd_flag, enable_shell, session, cmd, todo,
                   echo, mishap>>

\* create_copy: file_copy is zeroed, then filled from the file.
ClearCopy ==
    /\ Goto("clear", "load")
    /\ copy' = Blank
    /\ UNCHANGED <<ring, regs, handle_cmd_flag, enable_shell, enable_vim, exit_flag,
                   vim_file, disk, cmd, todo, echo, mishap>>

LoadCopy ==
    /\ Goto("load", "wait")
    /\ copy' = disk[vim_file]
    /\ UNCHANGED <<ring, regs, handle_cmd_flag, enable_shell, enable_vim, exit_flag,
                   vim_file, disk, cmd, todo, echo, mishap>>

\* while(1) if(exit_flag == 1) break
Wait ==
    /\ Goto("wait", "back")
    /\ exit_flag
    /\ enable_vim' = FALSE
    /\ UNCHANGED <<ring, regs, handle_cmd_flag, enable_shell, exit_flag, vim_file,
                   copy, disk, cmd, todo, echo, mishap>>

BackToShell ==
    /\ Goto("back", "reset")
    /\ enable_shell' = TRUE
    /\ UNCHANGED <<ring, regs, handle_cmd_flag, session, cmd, todo, echo, mishap>>

ResetFlag ==
    /\ Goto("reset", "poll")
    /\ handle_cmd_flag' = FALSE
    /\ UNCHANGED <<ring, regs, enable_shell, session, cmd, todo, echo, mishap>>

-----------------------------------------------------------------------------
\* entry_shell has cleared the ring and enabled interrupts.
Init ==
    /\ shell_buf = [p \in Places |-> NUL] /\ start = 0 /\ end = 0
    /\ cached \in BOOLEAN /\ first = 0 /\ limit = 0
    /\ handle_cmd_flag = FALSE /\ enable_shell = TRUE
    /\ enable_vim = FALSE /\ exit_flag = FALSE /\ vim_file = NoFile
    /\ copy = Blank /\ disk = [f \in File |-> f]
    /\ cmd = <<>> /\ pc = "poll" /\ todo = {}
    /\ echo = <<>> /\ mishap = {}

Shell ==
    \/ Poll \/ Drain \/ Take
    \/ RunOther \/ RunExit \/ RunTest \/ RunVim \/ Leave
    \/ \E x \in todo : Store(x)
    \/ \E f \in File : FindFile(f)
    \/ FindFails \/ ClearCopy \/ LoadCopy \/ Wait \/ BackToShell \/ ResetFlag

\* The shell waiting for a key that nobody presses, and the end of the kernel.
Idle ==
    /\ \/ pc = "poll" /\ ~handle_cmd_flag
       \/ pc = "wait" /\ ~exit_flag
       \/ pc \in {"exited", "crashed"}
    /\ UNCHANGED vars

Next == (\E k \in Char \cup {Enter, Back} : Key(k)) \/ Shell \/ Idle

Spec == Init /\ [][Next]_vars

\* The shell's code is all the CPU executes between interrupts.
FairSpec == Spec /\ WF_vars(Shell)

-----------------------------------------------------------------------------
\* Type correctness of the console's state (shell.c, vim.c).
TypeOK ==
    /\ shell_buf \in [Places -> Char \cup {NUL}]
    /\ {start, end, first, limit} \subseteq Places
    /\ {handle_cmd_flag, enable_shell, enable_vim, exit_flag, cached} \subseteq BOOLEAN
    /\ vim_file \in File \cup {NoFile}
    /\ copy \in File \cup {Blank}
    /\ disk \in [File -> File]
    /\ cmd \in Seq(Char \cup {NUL})
    /\ pc \in {"poll", "drain", "take", "run", "leave", "exited", "open", "find",
               "clear", "load", "wait", "back", "reset", "crashed"}
    /\ todo \subseteq {"enable_vim", "vim_file", "exit_flag"}
    /\ echo \in Seq(Char)
    /\ mishap \subseteq {"slip", "full", "early", "failed"}

\* The characters of the ring that the drain loop has not come to.
Pending ==
    [n \in 1..((end - From) % SHELL_BUF_SIZE) |-> shell_buf[Plus(From, n - 1)]]

\* What the shell has taken for a command and what is still in its ring are
\* together what the user sees typed, in order, while keys arrive before,
\* during and after the drain (shell.c:36-56, 82-88).  There are two ways out:
\* the ring filled up, where full and empty look the same, and a backspace
\* that took back a character the drain loop had already committed to.
LineFaithful ==
    pc # "crashed" /\ mishap \cap {"slip", "full"} = {} => cmd \o Pending = echo

\* In the build that looks at the end pointer once, cmd_content, as long as the
\* ring, holds every drained line and its 0 (shell.c:77-88).  In the other build
\* keys that come during the drain prolong the line, and it has no such bound.
CmdFits == cached => Len(cmd) < SHELL_BUF_SIZE

\* The editor waits for an ESC it can no longer hear only when ESC came while
\* the editor was opening (vim.c:48-51, 145-148, 172-175).
NeverDeaf ==
    pc = "wait" /\ ~enable_vim /\ ~exit_flag => "early" \in mishap

\* No file gets the text of another one, over any sequence of edits, unless
\* ESC saved while the editor was opening (vim.c:30-41, 114-118, 167-168).
TextStays ==
    (\E f \in File : disk[f] # f) => "early" \in mishap

\* The editor saves into no file only when ESC came while it was opening, or
\* after it failed to open and left enable_vim set (vim.c:50, 145-146, 163-165).
SaveHasFile ==
    pc = "crashed" => mishap \cap {"early", "failed"} # {}

\* A key goes to the shell or to the editor, never to both, until the editor
\* has once failed to open (kbd.c:69-70, shell.c:232-234, vim.c:163-165).
OneReader ==
    enable_shell /\ enable_vim => "failed" \in mishap

-----------------------------------------------------------------------------
(* The inductive invariant behind the theorems of ConsoleProofs. *)

\* The editor listens only while it is open, with the shell switched off, and
\* has a file from find on.
OpenOK ==
    /\ enable_vim => pc \in {"open", "find", "clear", "load", "wait"} \/ "failed" \in mishap
    /\ pc \in {"open", "find", "clear", "load", "wait", "back"} => ~enable_shell
    /\ pc \in {"clear", "load", "wait"} => vim_file \in File
    /\ pc = "find" \/ (pc = "open" /\ "vim_file" \notin todo) => vim_file = NoFile
    /\ enable_vim /\ vim_file = NoFile => pc \in {"open", "find"} \/ "failed" \in mishap

\* An ESC that clears enable_vim is either remembered in exit_flag or was early.
EscOK ==
    /\ pc \in {"find", "clear", "load", "wait"} => todo = {}
    /\ Opening /\ "enable_vim" \notin todo => enable_vim \/ "early" \in mishap
    /\ NeverDeaf

\* ESC saves the text of the file it saves to, or into no file.
TextOK ==
    "early" \notin mishap =>
        /\ \A f \in File : disk[f] = f
        /\ pc = "wait" => copy = vim_file
        /\ enable_vim /\ ~Opening /\ pc # "wait" => vim_file = NoFile

\* What the drain loop has taken and what it still will take fit.
Distance(p, q) == IF p <= q THEN q - p ELSE q - p + SHELL_BUF_SIZE
DrainOK ==
    cached => /\ CmdFits
              /\ Draining => Len(cmd) + Distance(first, limit) < SHELL_BUF_SIZE
              /\ pc = "take" => first # limit

IInv == TypeOK /\ OpenOK /\ EscOK /\ TextOK /\ SaveHasFile /\ DrainOK

\* A screen e shows the command so far, c, and then the n characters of the
\* ring from place from on.
Shows(e, c, buf, from, n) ==
    /\ Len(e) = Len(c) + n
    /\ \A i \in 1..Len(c) : c[i] = e[i]
    /\ \A i \in 1..n : buf[Plus(from, i - 1)] = e[Len(c) + i]

\* The drain loop has not gone past the end.
LineOK ==
    pc # "crashed" /\ mishap \cap {"slip", "full"} = {} =>
        /\ Shows(echo, cmd, shell_buf, From, Distance(From, end))
        /\ ~Draining /\ pc # "run" => cmd = <<>>
        /\ cached /\ Draining => Distance(first, limit) <= Distance(first, end)
        /\ ~cached /\ pc = "take" => start # end

-----------------------------------------------------------------------------
\* Every Enter is served: the shell comes to poll for a new one, or waits for
\* the editor's user, or has ended (shell.c:277-284).  Only a test_sched line
\* leaves the Enter in force for the line after it (shell.c:239-256).
EnterServed ==
    handle_cmd_flag ~> \/ ~handle_cmd_flag
                       \/ pc \in {"wait", "exited", "crashed"}
                       \/ pc = "run" /\ Begins(Test)
=============================================================================

------------------------------- MODULE Editor -------------------------------
(***************************************************************************)
(* The editor's text (vim.c): create_copy lays a file out in the rows and  *)
(* columns of file_copy, every key moves the cursor or writes a cell, and  *)
(* save_file strings the cells together again and writes them where the    *)
(* file is, next to another file.  When these functions run relative to    *)
(* one another is the matter of Console.                                   *)
(*                                                                         *)
(* file_copy is one row of cells, as it is in memory: column COLS of a row *)
(* is column 0 of the next.  A cell is a character, 0 or Marker.  What is  *)
(* only displayed is left out, print2screen but for the rows it reads.     *)
(***************************************************************************)
EXTENDS Integers, Sequences

CONSTANTS
    Char,       \* the characters of a text, a line's end among them
    NewLine,    \* the line's end
    ROWS, COLS, \* 1000 and 80
    Low,        \* 22, the lowest row of the screen the cursor goes to
    High,       \* 3, the row from which it scrolls up
    FileRoom,   \* 4096, the bytes of a file
    Texts,      \* what files may hold at the start
    MaxTyped    \* bound: characters typed while the kernel runs

Zero == "0"
Marker == "1"

ASSUME TextAssumption ==
    /\ NewLine \in Char /\ Char # {NewLine} /\ Char \cap {Zero, Marker} = {}
    /\ Texts \subseteq Seq(Char) /\ \A text \in Texts : Len(text) <= FileRoom
ASSUME ShapeAssumption ==
    /\ {ROWS, COLS, FileRoom} \subseteq Nat \ {0} /\ ROWS * COLS > 1 /\ MaxTyped \in Nat
    /\ High \in Nat /\ Low \in Nat /\ High < Low

VARIABLES
    disk,       \* the file's bytes, and behind them the next file's
    file_copy, c_x, c_y, offset, file_ln,
    open,       \* the editor runs
    typed,      \* number of characters typed
    run,        \* history: cells typed into since the cursor was moved
    was,        \* history: the text when it was opened
    saved,      \* history: the text was saved at least once
    mishap      \* history: what went wrong, see the properties

cursor == <<c_x, c_y, offset>>
vars == <<disk, file_copy, cursor, file_ln, open, typed, run, was, saved, mishap>>

Cells == 0..ROWS * COLS - 1
Bytes == 0..FileRoom + ROWS * COLS

Empty == [i \in Cells |-> Zero]
Row == c_y + offset
Here == Row * COLS + c_x

-----------------------------------------------------------------------------
(* Text in memory, and in the copy. *)

\* The string that begins at the start of the file.
StringOn(d) ==
    LET ends == {i \in Bytes : d[i] = Zero}
        len == CHOOSE i \in ends : \A j \in ends : i <= j
    IN  [i \in 1..len |-> d[i - 1]]

\* What save_file has written after each cell: those with characters in them.
Read(copy) ==
    LET text[i \in 0..ROWS * COLS] ==
            IF i = 0 THEN <<>>
            ELSE IF copy[i - 1] \in {Zero, Marker} THEN text[i - 1]
            ELSE Append(text[i - 1], copy[i - 1])
    IN  text

TextOf(copy) == Read(copy)[ROWS * COLS]

\* Mutant of Saved: a 0 is written behind every text.
SavedEnded(copy) ==
    LET text == TextOf(copy) \o <<Zero>>
    IN  [i \in Bytes |-> IF i < Len(text) THEN text[i + 1] ELSE disk[i]]

\* save_file ends without writing a 0.
Saved(copy) ==
    LET text == TextOf(copy)
    IN  [i \in Bytes |-> IF i < Len(text) THEN text[i + 1] ELSE disk[i]]

\* One turn of create_copy's loop.  A row that is full puts Marker into the
\* next one, where the next character goes, too.
Place(lay, c) ==
    LET at == lay.y * COLS + lay.x
        full == c # NewLine /\ lay.x + 1 >= COLS
        written == [i \in Cells |-> IF i = at THEN c
                                    ELSE IF full /\ i = (lay.y + 1) * COLS THEN Marker
                                    ELSE lay.copy[i]]
    IN  [copy |-> written,
         x |-> IF c = NewLine \/ full THEN 0 ELSE lay.x + 1,
         y |-> IF c = NewLine \/ full THEN lay.y + 1 ELSE lay.y,
         ln |-> IF c = NewLine THEN lay.ln + 1 ELSE lay.ln,
         outside |-> lay.outside \/ at \notin Cells \/ (full /\ (lay.y + 1) * COLS \notin Cells)]

\* What create_copy has laid out after each character.
Laid(text) ==
    LET lay[i \in 0..Len(text)] ==
            IF i = 0 THEN [copy |-> Empty, x |-> 0, y |-> 0, ln |-> 0, outside |-> FALSE]
            ELSE Place(lay[i - 1], text[i])
    IN  lay

Layout(text) == Laid(text)[Len(text)]

-----------------------------------------------------------------------------
(* Opening and leaving. *)

\* vim_entry's resets and create_copy.
Open ==
    /\ ~open
    /\ LET text == StringOn(disk)
           lay == Layout(text)
       IN  /\ file_copy' = lay.copy /\ file_ln' = lay.ln
           /\ was' = text
           /\ mishap' = IF lay.outside THEN mishap \cup {"rows"} ELSE mishap
    /\ c_x' = 0 /\ c_y' = 0 /\ offset' = 0
    /\ open' = TRUE /\ run' = {}
    /\ UNCHANGED <<disk, typed, saved>>

Esc ==
    /\ open
    /\ disk' = Saved(file_copy)
    /\ mishap' = IF Len(TextOf(file_copy)) > FileRoom THEN mishap \cup {"too long"} ELSE mishap
    /\ open' = FALSE /\ saved' = TRUE
    /\ UNCHANGED <<file_copy, cursor, file_ln, typed, run, was>>

-----------------------------------------------------------------------------
(* The keys of the cursor. *)

Arrow == open /\ run' = {} /\ UNCHANGED <<disk, file_copy, file_ln, open, typed, was, saved>>

\* Mutant of Up: a negative offset stays.
UpKeepsOffset ==
    /\ Arrow /\ c_y > 0
    /\ IF c_y > High \/ offset <= 0
       THEN c_y' = c_y - 1 /\ UNCHANGED offset
       ELSE offset' = offset - 1 /\ UNCHANGED c_y
    /\ UNCHANGED <<c_x, mishap>>

Up ==
    /\ Arrow
    /\ \/ c_y > High /\ c_y' = c_y - 1 /\ UNCHANGED offset
       \/ c_y <= High /\ offset > 0 /\ offset' = offset - 1 /\ UNCHANGED c_y
       \/ c_y <= High /\ offset <= 0 /\ c_y > 0 /\ offset' = 0 /\ c_y' = c_y - 1
    /\ UNCHANGED <<c_x, mishap>>

\* At the end of the text the offset is what it would be for the text's last
\* screen, which for a short text is negative.
Down ==
    /\ Arrow
    /\ \/ c_y < Low /\ c_y' = c_y + 1 /\ UNCHANGED offset
       \/ c_y >= Low /\ offset < file_ln - (Low + 1) /\ offset' = offset + 1 /\ UNCHANGED c_y
       \/ /\ c_y >= Low /\ offset >= file_ln - (Low + 1) /\ c_y <= Low + 3
          /\ offset' = file_ln - (Low + 1) /\ c_y' = c_y + 1
    /\ UNCHANGED <<c_x, mishap>>

Right == Arrow /\ c_x < COLS - 1 /\ c_x' = c_x + 1 /\ UNCHANGED <<c_y, offset, mishap>>
Left == Arrow /\ c_x > 0 /\ c_x' = c_x - 1 /\ UNCHANGED <<c_y, offset, mishap>>

-----------------------------------------------------------------------------
(* Typing. *)

\* Mutant of Advance: the cursor wraps in front of the last column.
AdvanceEarly(c) ==
    IF c = NewLine THEN c_x' = 1 /\ c_y' = c_y + 1
    ELSE IF c_x < COLS - 1 THEN c_x' = c_x + 1 /\ UNCHANGED c_y
    ELSE c_x' = 0 /\ UNCHANGED c_y

\* The line's end leaves the cursor in column 1, and column COLS is written to.
Advance(c) ==
    IF c = NewLine THEN c_x' = 1 /\ c_y' = c_y + 1
    ELSE IF c_x < COLS THEN c_x' = c_x + 1 /\ UNCHANGED c_y
    ELSE c_x' = 0 /\ c_y' = c_y + 1

\* Any other key that is pressed writes its character, Zero if it has none.
Type(c) ==
    /\ open /\ typed < MaxTyped
    /\ file_copy' = [i \in Cells |-> IF i = Here THEN c ELSE file_copy[i]]
    /\ Advance(c)
    /\ typed' = typed + 1
    /\ run' = run \cup {Here}
    /\ mishap' = mishap \cup (IF Here \notin Cells THEN {"outside"} ELSE {})
                        \cup (IF Here \in run THEN {"lost"} ELSE {})
                        \cup (IF c_x = COLS THEN {"wrapped"} ELSE {})
    /\ UNCHANGED <<disk, offset, file_ln, open, was, saved>>

-----------------------------------------------------------------------------
\* A file, and next to it one that is all of NextFile.
NextFile == CHOOSE c \in Char : c # NewLine

Init ==
    /\ \E text \in Texts :
        disk = [i \in Bytes |-> IF i < Len(text) THEN text[i + 1]
                                ELSE IF i \in FileRoom..FileRoom + 1 THEN NextFile
                                ELSE Zero]
    /\ file_copy = Empty /\ c_x = 0 /\ c_y = 0 /\ offset = 0 /\ file_ln = 0
    /\ open = FALSE /\ typed = 0 /\ run = {} /\ was = <<>> /\ saved = FALSE /\ mishap = {}

\* After a write outside of file_copy anything may happen.
Next ==
    /\ mishap \cap {"outside", "rows"} = {}
    /\ \/ Open \/ Esc
       \/ Up \/ Down \/ Right \/ Left
       \/ \E c \in Char \cup {Zero} : Type(c)

Spec == Init /\ [][Next]_vars

-----------------------------------------------------------------------------
\* The cursor does not stray from the text.  It is above file_copy only in a
\* text shorter than the screen, in which Down reached the bottom, and never
\* further than the scrolling margin allows (vim.c:54-66, 75-77).  As long as
\* nothing was typed since the file was opened, it stays within the first
\* Low + 4 rows or at most three rows below the text; typing moves it down
\* without a test, and the second part says nothing of that (vim.c:92-104).
CursorNearText ==
    /\ Row < 0 => file_ln < Low + 1 - High /\ offset < 0 /\ Row >= file_ln - (Low + 1) + High
    /\ typed = 0 => Row <= Low + 4 \/ Row <= file_ln + 3

\* Opening and saving are inverse: what was loaded would be saved as it was,
\* line ends and full rows included (vim.c:114-142), and what was saved is what a
\* later opening reads, if the text did not get shorter and leaves room for its
\* end (vim.c:30-41, 123).  The file next to it is changed only by a text that is
\* too long for its own (vim.c:35).
RoundTrip ==
    LET text == TextOf(file_copy)
    IN  mishap \cap {"outside", "rows"} = {} =>
            /\ open /\ typed = 0 => text = was
            /\ saved /\ ~open /\ Len(text) >= Len(was) /\ Len(text) < FileRoom => StringOn(disk) = text
            /\ "too long" \notin mishap => \A i \in FileRoom..FileRoom + 1 : disk[i] = NextFile

\* A character is overwritten by what is typed right after it only where a
\* line is longer than COLS (vim.c:93-103).
TypedStays == "lost" \in mishap => "wrapped" \in mishap

-----------------------------------------------------------------------------
(* The inductive invariant behind the theorems of EditorProofs. *)

Types ==
    /\ disk \in [Bytes -> Char \cup {Zero}] /\ file_copy \in [Cells -> Char \cup {Zero, Marker}]
    /\ c_x \in 0..COLS /\ c_y \in Nat /\ offset \in Int /\ file_ln \in Nat
    /\ open \in BOOLEAN /\ saved \in BOOLEAN /\ typed \in Nat /\ run \subseteq Int

\* Behind the end of the file's text there is nothing of an older one, and
\* behind the next file there is always an end (vim.c:30-41).
DiskOK ==
    /\ \A i, j \in Bytes : i < j /\ j < FileRoom /\ disk[i] = Zero => disk[j] = Zero
    /\ disk[FileRoom + ROWS * COLS] = Zero
    /\ open => was = StringOn(disk)

\* The offset is negative only as Down left it, and the cursor then stays below
\* the scrolling margin (vim.c:54-79).
CursorOK ==
    /\ offset < 0 => offset = file_ln - (Low + 1) /\ c_y >= High
    /\ typed = 0 => c_y <= Low + 4 /\ (offset <= 0 \/ offset <= file_ln - (Low + 1))

\* Typing goes on behind what was typed.
RunOK == "wrapped" \notin mishap => "lost" \notin mishap /\ \A i \in run : i < Here

IInv == Types /\ DiskOK /\ CursorOK /\ RunOK /\ RoundTrip
=============================================================================

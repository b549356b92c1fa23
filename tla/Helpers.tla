------------------------------ MODULE Helpers ------------------------------
(***************************************************************************)
(* The helpers everything else is made of: string.c, memory.c, the numbers *)
(* that printf prints (io.c), and the walk over the firmware's list        *)
(* (boot_param.c), which is a user of memcmp.                              *)
(*                                                                         *)
(* A behaviour is one call: Called chooses the arguments and the memory    *)
(* they point into, the action of the function makes what it leaves        *)
(* behind. A loop is a recursive function: what there is after its i-th    *)
(* turn.  The properties compare results with definitions that do not      *)
(* loop.                                                                   *)
(***************************************************************************)
EXTENDS Integers, Sequences, FiniteSets, SequencesExt

CONSTANTS
    Char,       \* the characters other than 0
    Size,       \* bytes of memory that pointers point into
    Nibbles,    \* of four bits, in an int and in a pointer
    RowSize,    \* bytes of a row that split writes to, 100
    ResultRows, \* rows of the caller's array, 100 in fs.c
    MaxFormat,  \* bound: length of printf's formats
    Byte,       \* what a header may consist of
    MaxBytes,   \* bound: the bytes of a header
    Headers,    \* the firmware's list headers, NULL is not one of them
    NULL

ASSUME HelpersAssumption ==
    /\ Size \in Nat \ {0} /\ Nibbles \in Nat \ {0} /\ RowSize \in Nat \ {0} /\ ResultRows \in Nat \ {0}
    /\ MaxFormat \in Nat /\ MaxBytes \in Nat /\ Byte \subseteq 0..255
    /\ IsFiniteSet(Headers) /\ NULL \notin Headers /\ 0 \notin Char

VARIABLES
    call,       \* the function and its arguments
    mem,        \* the memory
    ret,        \* what the call returned or printed, nothing before it did
    loongson_mem_map

callVars == <<call, mem, ret, loongson_mem_map>>

Addr == 0..Size - 1
Mem == [Addr -> Char \cup {0}]

-----------------------------------------------------------------------------
(* memory.c *)

memset(m, p, c, n) ==
    LET turn[i \in 0..n] == IF i = 0 THEN m ELSE [turn[i - 1] EXCEPT ![p + i - 1] = c]
    IN  turn[n]

\* A turn of the loops that copy.
CopyByte(m, d, s) == IF {d, s} \subseteq Addr THEN [m EXCEPT ![d] = m[s]] ELSE m

\* The memory after every turn of a loop that copies from s to d.
Copying(m, d, s) ==
    LET turn[i \in 0..Size] == IF i = 0 THEN m ELSE CopyByte(turn[i - 1], d + i - 1, s + i - 1)
    IN  turn

memcpy(m, d, s, n) == Copying(m, d, s)[n]

\* 1 for equal.  Its only user compares the start of a signature.
memcmp(a, b, n) == IF \A i \in 1..n : a[i] = b[i] THEN 1 ELSE 0

-----------------------------------------------------------------------------
(* string.c *)

strlen(m, p) == CHOOSE n \in 0..Size : m[p + n] = 0 /\ \A i \in 0..n - 1 : m[p + i] # 0

\* The loops of strcmp and strncmp come to the i-th character.
Alike(m, p, q, i) == \A j \in 0..i - 1 : m[p + j] # 0 /\ m[q + j] # 0 /\ m[p + j] = m[q + j]

strcmp(m, p, q) ==
    IF \E i \in 0..Size : Alike(m, p, q, i) /\ m[p + i] # m[q + i] THEN 1 ELSE 0

\* A string and its beginning are equal: line 50 is commented out.
strncmp(m, p, q, n) ==
    IF \E i \in 0..n - 1 : Alike(m, p, q, i) /\ m[p + i] # m[q + i] /\ m[p + i] # 0 /\ m[q + i] # 0
    THEN 1 ELSE 0

\* How many turns the loop of strncpy makes.  It may leave the memory.
CopyTurns(m, d, s, n) ==
    LET Stops(i) == {d + i, s + i} \subseteq Addr => Copying(m, d, s)[i][s + i] = 0 \/ i = n
    IN  CHOOSE i \in 0..Size : Stops(i) /\ \A j \in 0..i - 1 : ~Stops(j)

\* The 0 comes in addition to what was copied.  "off": the loop goes on outside
\* of the memory.
Ended(m, d, s, i) ==
    IF {d + i, s + i} \subseteq Addr
    THEN [m |-> [Copying(m, d, s)[i] EXCEPT ![d + i] = 0], off |-> FALSE]
    ELSE [m |-> Copying(m, d, s)[i], off |-> TRUE]

\* Mutant of strncpy: the end counts among the n.
StrncpyCounted(m, d, s, n) == Ended(m, d, s, CopyTurns(m, d, s, IF n = 0 THEN 0 ELSE n - 1))

strncpy(m, d, s, n) == Ended(m, d, s, CopyTurns(m, d, s, n))

\* The same loop without a bound.
strcpy(m, d, s) == strncpy(m, d, s, Size)

\* What split has read and what it has written, row after row; the last row is
\* without its 0.
Splitting(m, str, delim, skip) ==
    LET turn[t \in 0..Size] ==
            IF t = 0 THEN [k |-> 0, rows |-> <<<<>>>>]
            ELSE LET s == turn[t - 1]
                     last == Len(s.rows)
                 IN  IF s.k >= strlen(m, str) THEN s
                     ELSE IF strncmp(m, str + s.k, delim, strlen(m, delim)) = 1
                     THEN [k |-> s.k + 1, rows |-> [s.rows EXCEPT ![last] = Append(@, m[str + s.k])]]
                     ELSE [k |-> s.k + skip, rows |-> Append([s.rows EXCEPT ![last] = Append(@, 0)], <<>>)]
    IN  turn

\* The caller's array behind that: the rows follow each other, a row that is too
\* long runs into the next one, which is written later, and what would lie
\* outside of the array is left out.
RowAt(j) == (j - 1) * RowSize
Stale == -1
Laid(rows) ==
    LET writers(o) == {j \in DOMAIN rows : o - RowAt(j) \in 0..Len(rows[j]) - 1}
    IN  [o \in 0..RowAt(ResultRows + 1) - 1 |->
            IF writers(o) = {} THEN Stale ELSE LET j == Max(writers(o)) IN rows[j][o - RowAt(j) + 1]]

\* Mutant of split: one character is skipped for any delimiter.
SplitByOne(m, str, delim) ==
    LET rows == Splitting(m, str, delim, 1)[Size].rows IN [rows |-> rows, result |-> Laid(rows)]

split(m, str, delim) ==
    LET rows == Splitting(m, str, delim, strlen(m, delim))[Size].rows
    IN  [rows |-> rows, result |-> Laid(rows)]

-----------------------------------------------------------------------------
(* Numbers (io.c).  A digit is its value. *)

Power[i \in 0..Nibbles] == IF i = 0 THEN 1 ELSE 16 * Power[i - 1]
Wrap == Power[Nibbles]
Unsigned(x) == x % Wrap
Negated(x) == (-x) % Wrap

Digits(x, base) ==
    LET digits[y \in 0..x] ==
            IF y \div base = 0 THEN <<y % base>> ELSE Append(digits[y \div base], y % base)
    IN  digits[x]

\* Mutant of printint: the negation is an int.
PrintintSigned(xx, base) ==
    [sign |-> xx < 0,
     digits |-> Digits(IF xx = -(Wrap \div 2) THEN 0 ELSE IF xx < 0 THEN -xx ELSE xx, base)]

\* sign is 1 for %d and for %x.
printint(xx, base) ==
    [sign |-> xx < 0, digits |-> Digits(IF xx < 0 THEN Negated(xx) ELSE Unsigned(xx), base)]

\* The highest nibble, again and again.
printptr(x) ==
    LET shifted[i \in 0..Nibbles] == IF i = 0 THEN x ELSE (shifted[i - 1] * 16) % Wrap
    IN  [i \in 1..Nibbles |-> shifted[i - 1] \div (Wrap \div 16)]

-----------------------------------------------------------------------------
(* printf.  A format is a sequence of characters: "d" is one that converts *)
(* an argument behind a "%".  What is printed is a character, or a number  *)
(* that stands for the argument of that number.                            *)

Plain(c) == [char |-> c, arg |-> 0]
Number(n) == [char |-> "d", arg |-> n]

\* After every character: whether a "%" is open, the arguments taken and what
\* was printed.  A "%" at the end prints nothing, and one before any other
\* character is printed with it.
Printing(fmt) ==
    LET turn[i \in 0..Len(fmt)] ==
            IF i = 0 THEN [open |-> FALSE, args |-> 0, out |-> <<>>]
            ELSE LET s == turn[i - 1]
                     Out(open, args, text) == [open |-> open, args |-> args, out |-> s.out \o text]
                 IN  CASE ~s.open /\ fmt[i] # "%" -> Out(FALSE, s.args, <<Plain(fmt[i])>>)
                       [] ~s.open /\ fmt[i] = "%" -> Out(TRUE, s.args, <<>>)
                       [] s.open /\ fmt[i] = "d" -> Out(FALSE, s.args + 1, <<Number(s.args + 1)>>)
                       [] s.open /\ fmt[i] = "%" -> Out(FALSE, s.args, <<Plain("%")>>)
                       [] OTHER -> Out(FALSE, s.args, <<Plain("%"), Plain(fmt[i])>>)
    IN  turn

printf(fmt) == Printing(fmt)[Len(fmt)].out

-----------------------------------------------------------------------------
(* The list of the firmware (boot_param.c).  A header has a signature, its *)
(* bytes and a next.                                                       *)

Signature == {"MEM", "VBIOS", "SINFO"}
Text(sig) == CASE sig = "MEM" -> <<"M", "E", "M", "0", "0">>
               [] sig = "VBIOS" -> <<"V", "B", "I", "O", "S">>
               [] sig = "SINFO" -> <<"S", "I", "N", "F", "O">>
               [] OTHER -> <<"x", "x", "x", "x", "x">>

\* Mutant of ext_listhdr_checksum: the sum is an int.
ChecksumWide(h) == FoldLeft(LAMBDA sum, byte : sum + byte, 0, h.bytes)

ext_listhdr_checksum(h) ==
    LET sum[i \in 0..Len(h.bytes)] == IF i = 0 THEN 0 ELSE (sum[i - 1] + h.bytes[i]) % 256
    IN  sum[Len(h.bytes)]

parse_mem(list, h) == [map |-> h, failed |-> ext_listhdr_checksum(list[h]) # 0]

\* The walk from a header, with what parse_mem remembered last; parse_vbios and
\* parse_screeninfo do nothing.
Walking(list, head, map) ==
    LET turn[k \in 0..Cardinality(Headers)] ==
            IF k = 0 THEN [fhead |-> head, map |-> map, failed |-> FALSE]
            ELSE LET s == turn[k - 1]
                     parsed == parse_mem(list, s.fhead)
                 IN  IF s.fhead = NULL \/ s.failed THEN s
                     ELSE IF memcmp(Text(list[s.fhead].signature), Text("MEM"), 3) = 1
                     THEN [fhead |-> list[s.fhead].next, map |-> s.map, failed |-> FALSE]
                     ELSE [fhead |-> IF parsed.failed THEN s.fhead ELSE list[s.fhead].next,
                           map |-> parsed.map, failed |-> parsed.failed]
    IN  turn

\* A list that has not ended after as many turns as there are headers leads back
\* into itself, and is walked for ever.
list_find(list, head, map) ==
    LET s == Walking(list, head, map)[Cardinality(Headers)]
    IN  [map |-> s.map, ret |-> IF head = NULL \/ s.failed THEN -1 ELSE 0, ends |-> s.fhead = NULL \/ s.failed]

-----------------------------------------------------------------------------
(* The calls.  A string that is read has an end. *)

StringAt(m, p) == [i \in 1..strlen(m, p) |-> m[p + i - 1]]
HasEnd(m, p) == \E e \in Addr : e >= p /\ m[e] = 0

Calls(op, P, Q, N) == [op : {op}, p : P, q : Q, n : N]
MemoryCall(c, m) ==
    \/ c \in Calls("memset", Addr, {0}, 0..Size) /\ c.p + c.n <= Size
    \/ c \in Calls("memcpy", Addr, Addr, 0..Size) /\ c.p + c.n <= Size /\ c.q + c.n <= Size
    \/ c \in Calls("strcpy", Addr, Addr, {0}) \cup Calls("strncpy", Addr, Addr, 0..Size) /\ HasEnd(m, c.q)
    \/ c \in Calls("strcmp", Addr, Addr, {0}) \cup Calls("strncmp", Addr, Addr, 0..Size)
        /\ HasEnd(m, c.p) /\ HasEnd(m, c.q)
    \/ c \in Calls("split", Addr, Addr, {0}) /\ HasEnd(m, c.p) /\ HasEnd(m, c.q) /\ m[c.q] # 0

Void == <<"void">>
Memset == call.op = "memset" /\ \E c \in Char \cup {0} : mem' = memset(mem, call.p, c, call.n) /\ ret' = <<c>>
Memcpy == call.op = "memcpy" /\ mem' = memcpy(mem, call.p, call.q, call.n) /\ ret' = Void
Strcpy ==
    /\ call.op \in {"strcpy", "strncpy"}
    /\ LET r == IF call.op = "strcpy" THEN strcpy(mem, call.p, call.q) ELSE strncpy(mem, call.p, call.q, call.n)
       IN  mem' = r.m /\ ret' = <<r.off>>
Compare ==
    /\ \/ call.op = "strcmp" /\ ret' = <<strcmp(mem, call.p, call.q)>>
       \/ call.op = "strncmp" /\ ret' = <<strncmp(mem, call.p, call.q, call.n)>>
    /\ UNCHANGED mem
Split == call.op = "split" /\ ret' = <<split(mem, call.p, call.q)>> /\ UNCHANGED mem
Format ==
    /\ \/ call.op = "printint" /\ ret' = <<printint(call.x, call.base)>>
       \/ call.op = "printptr" /\ ret' = <<printptr(call.x)>>
       \/ call.op = "printf" /\ ret' = <<printf(call.fmt)>>
    /\ UNCHANGED mem

\* env_init: the list may be empty.
ListFind ==
    /\ call.op = "list_find"
    /\ LET r == list_find(call.list, call.fhead, loongson_mem_map)
       IN  loongson_mem_map' = r.map /\ ret' = <<r.ret, r.ends>>
    /\ UNCHANGED <<call, mem>>

IntOf == -(Wrap \div 2)..Wrap \div 2 - 1
Formats == UNION {[1..n -> {"%", "d", "t"}] : n \in 0..MaxFormat}
Bytes == UNION {[1..n -> Byte] : n \in 0..MaxBytes}
Header == [signature : Signature \cup {"other"}, bytes : Bytes, next : Headers \cup {NULL}]

Called ==
    /\ ret = <<>> /\ loongson_mem_map = NULL
    /\ \/ mem \in Mem /\ \E op \in {"memset", "memcpy", "strcpy", "strncpy", "strcmp", "strncmp", "split"} :
            call \in Calls(op, Addr, Addr, 0..Size) /\ MemoryCall(call, mem)
       \/ /\ mem = [a \in Addr |-> 0]
          /\ \/ call \in [op : {"printint"}, x : IntOf, base : {10, 16}]
             \/ call \in [op : {"printptr"}, x : 0..Wrap - 1]
             \/ call \in [op : {"printf"}, fmt : Formats]
             \/ call \in [op : {"list_find"}, fhead : Headers \cup {NULL}, list : [Headers -> Header]]

Returns ==
    /\ ret = <<>>
    /\ \/ (Memset \/ Memcpy \/ Strcpy \/ Compare \/ Split \/ Format) /\ UNCHANGED <<call, loongson_mem_map>>
       \/ ListFind

OneCall == Called /\ [][Returns]_callVars

-----------------------------------------------------------------------------
Until(n, m, p) == LET str == StringAt(m, p) IN SubSeq(str, 1, IF n < Len(str) THEN n ELSE Len(str))
Same(from, to) == \A a \in Addr \ (from..to) : mem'[a] = mem[a]

\* What a copy of a string of at most so many characters leaves behind.
StringCopied(bound) ==
    LET text == Until(bound, mem, call.q)
        inside == call.p > call.q /\ call.p <= call.q + Len(text)
        n == IF inside THEN bound ELSE Len(text)
    IN  /\ ret'[1] <=> call.p + n >= Size
        /\ ~ret'[1] => Same(call.p, call.p + n)
        /\ ~ret'[1] /\ ~inside => StringAt(mem', call.p) = text

Copied == /\ call.op = "strcpy" => StringCopied(Size)
          /\ call.op = "strncpy" => StringCopied(call.n)
          /\ call.op = "memcpy" =>
                /\ Same(call.p, call.p + call.n - 1)
                /\ call.p <= call.q \/ call.p >= call.q + call.n =>
                    \A i \in 0..call.n - 1 : mem'[call.p + i] = mem[call.q + i]
          /\ call.op = "memset" =>
                Same(call.p, call.p + call.n - 1) /\ \A i \in 0..call.n - 1 : mem'[call.p + i] = ret'[1]

Compared == /\ call.op = "strcmp" => (ret'[1] = 0 <=> StringAt(mem, call.p) = StringAt(mem, call.q))
            /\ call.op = "strncmp" =>
                  LET s == Until(call.n, mem, call.p)
                      t == Until(call.n, mem, call.q)
                  IN  ret'[1] = 0 <=> IsPrefix(s, t) \/ IsPrefix(t, s)

\* The copies copy exactly, a 0 behind the bound included, and touch nothing
\* else, unless the destination begins within the source; then a string's end
\* is overwritten before it is met, and only strncpy's bound ends the loop
\* (string.c:17-65, memory.c:4-12, 55-65).  strcmp tells strings apart, strncmp
\* only those of which neither is a beginning of the other (string.c:3-52).
StringsExact == [][Copied /\ Compared]_callVars

\* The characters of a piece, without the 0 that ends it, and where the pieces
\* begin in the string.
PieceSize(rows, j) == IF j < Len(rows) THEN Len(rows[j]) - 1 ELSE Len(rows[j])
PieceFrom(rows, gap) ==
    LET from[j \in DOMAIN rows] == IF j = 1 THEN 0 ELSE from[j - 1] + PieceSize(rows, j - 1) + gap
    IN  from

\* What split writes, row after row, is the string again with the delimiter
\* between the pieces, no piece has the delimiter in it, and each but the last
\* one ends with a 0.  Of a longer delimiter a beginning is enough at the string's
\* end.  In the caller's array a row has the first RowSize bytes of its piece: all
\* of it if it fits with its 0; a longer piece has no 0 in its row, and reads on
\* into the next piece (string.c:67-102).
SplitKeepsText ==
    ret # <<>> /\ call.op = "split" =>
        LET rows == ret[1].rows
            text == StringAt(mem, call.p)
            delim == StringAt(mem, call.q)
            size(j) == PieceSize(rows, j)
            from == PieceFrom(rows, Len(delim))
            end == from[Len(rows)] + size(Len(rows))
        IN  /\ Len(text) <= end /\ end < Len(text) + Len(delim)
            /\ \A j \in DOMAIN rows :
                LET rest == SubSeq(text, from[j] + size(j) + 1, Len(text))
                IN  /\ (0 \in Range(rows[j])) <=> j < Len(rows)
                    /\ SubSeq(rows[j], 1, size(j)) = SubSeq(text, from[j] + 1, from[j] + size(j))
                    /\ j < Len(rows) => IsPrefix(rest, delim) \/ IsPrefix(delim, rest)
                    /\ \A i \in 1..size(j) - Len(delim) + 1 : SubSeq(rows[j], i, i + Len(delim) - 1) # delim
                    /\ j <= ResultRows =>
                        \A i \in DOMAIN rows[j] : i <= RowSize => ret[1].result[RowAt(j) + i - 1] = rows[j][i]

\* What digits read as.
Value(digits, base) ==
    LET v[i \in 0..Len(digits)] == IF i = 0 THEN 0 ELSE v[i - 1] * base + digits[i]
    IN  v[Len(digits)]

\* There are k "%" in a row up to the i-th character, and no more.
Percents(fmt, i, k) == (\A j \in i - k + 1..i : fmt[j] = "%") /\ (k = i \/ fmt[i - k] # "%")
Conversions(fmt) ==
    {i \in DOMAIN fmt : fmt[i] = "d" /\ \E k \in 0..i - 1 : k % 2 = 1 /\ Percents(fmt, i - 1, k)}
Taken(out) == {i \in DOMAIN out : out[i].arg # 0}

\* What is printed of a number reads as that number, and has no leading 0 but
\* for a pointer's, which has all its digits (io.c:27-60).  printf takes an
\* argument for every conversion, one after another, and for nothing else
\* (io.c:73-112).
PrintsRight ==
    ret # <<>> =>
        /\ call.op = "printint" =>
            /\ Value(ret[1].digits, call.base) = (IF ret[1].sign THEN -call.x ELSE call.x)
            /\ Head(ret[1].digits) = 0 => Len(ret[1].digits) = 1
        /\ call.op = "printptr" => Value(ret[1], 16) = call.x /\ Len(ret[1]) = Nibbles
        /\ call.op = "printf" =>
            /\ Cardinality(Taken(ret[1])) = Cardinality(Conversions(call.fmt))
            /\ \A i \in Taken(ret[1]) : ret[1][i].arg = Cardinality(Taken(ret[1]) \cap (1..i))

\* The sum of a header's bytes: in base 1 every place counts the same.
Total(bytes) == Value(bytes, 1)

\* The scan remembers a header of the list it was given, or none.  It fails if
\* the bytes of the last one it remembered do not add up to a multiple of 256,
\* and for an empty list, and ends if it fails or the list ends
\* (boot_param.c:43-82, 113-156).
ScanAnswers ==
    call.op = "list_find" /\ ret # <<>> =>
        LET at[k \in 0..Cardinality(Headers)] ==
                IF k = 0 THEN call.fhead ELSE IF at[k - 1] = NULL THEN NULL ELSE call.list[at[k - 1]].next
            wrong == loongson_mem_map # NULL /\ Total(call.list[loongson_mem_map].bytes) % 256 # 0
        IN  /\ loongson_mem_map \in Range(at) \cup {NULL}
            /\ ret[1] = -1 <=> wrong \/ call.fhead = NULL
            /\ ret[2] <=> wrong \/ at[Cardinality(Headers)] = NULL

\* When the scan succeeds, what it remembers as the memory map has its
\* signature, MEM (boot_param.h:54, boot_param.c:123-125).
MapHasSignature ==
    call.op = "list_find" /\ ret = <<0, TRUE>> /\ loongson_mem_map # NULL =>
        call.list[loongson_mem_map].signature = "MEM"
=============================================================================

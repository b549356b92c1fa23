------------------------------ MODULE Keyboard ------------------------------
(***************************************************************************)
(* The keyboard: from a key going down to the calls of vim_input_handle    *)
(* and shell_buf_update, through the controller's byte register, kbd_irq   *)
(* (kbd.c), and the timer, which throws away what it finds there           *)
(* (trap.c:25-28).                                                         *)
(*                                                                         *)
(* A key that goes down sends its code, one that goes up the prefix F0 and *)
(* its code; an extended key sends E0 before either.  kbd_irq knows a key  *)
(* by the number keymap has for its code.  The code is looked up without   *)
(* its E0, so that several keys have one number: the two Ctrl and the two  *)
(* Alt keys, Enter and the pad's Enter, the arrows and the pad's digits.   *)
(* E0 itself is KEY_RESERVED there and F0 KEY_INSERT.                      *)
(*                                                                         *)
(* Bytes arrive while the handlers run, so every read of the controller is *)
(* a step of its own; the handlers themselves exclude each other, for both *)
(* run with interrupts off.  A byte carries what it stands for, for the    *)
(* properties only.  capslock_state, which is written and never read, the  *)
(* callback table, which nothing calls, keys that send more than one code  *)
(* (Print Screen, Pause) and keys that keymap has no number for are left   *)
(* out.                                                                    *)
(***************************************************************************)
EXTENDS Integers, Sequences

CONSTANTS
    Key,            \* the keys that exist
    Extended,       \* those that send E0 first
    Number,         \* the numbers of keys
    keymap,         \* the number of each key
    Shift,          \* the numbers of the shift keys
    KEY_RESERVED,   \* key number 0, and what E0 is taken for
    KEY_INSERT,     \* what F0 is taken for
    MaxBytes        \* bound: bytes sent and not yet read

\* Key k shares its number with no other key.
Sole(k) == \A l \in Key : keymap[l] = keymap[k] => l = k

ASSUME KeysAssumption == Extended \subseteq Key /\ keymap \in [Key -> Number]
ASSUME NumbersAssumption == KEY_RESERVED # KEY_INSERT /\ {KEY_RESERVED, KEY_INSERT} \cap Number = {}
ASSUME ShiftAssumption == Shift \subseteq Number /\ \A k \in Key : keymap[k] \in Shift => Sole(k)
ASSUME BoundAssumption == MaxBytes \in Nat

VARIABLES
    down,       \* the keys that are held down
    queue,      \* the bytes sent and not yet read, of which
    ready,      \* the controller offers this many now
    irq,        \* the keyboard's bit of the interrupt status register
    kbd_status, \* which keys kbd_irq takes for pushed
    kbd_n,      \* kbd_irq's key
    shifted,    \* issue_c is the upper of kbd_n's two characters
    pc,         \* what the interrupt handler does next
    whole,      \* machine: the bytes of a key arrive together
    edge,       \* machine: the interrupt line is edge triggered
    told,       \* history: the byte this kbd_irq read last, or Nothing
    lost,       \* history: numbers whose latest change the timer threw away
    mishap      \* history: what has gone wrong, see the properties

line == <<down, queue, ready>>
machine == <<whole, edge>>
handler == <<kbd_status, kbd_n, shifted>>
vars == <<line, irq, handler, pc, machine, told, lost, mishap>>

Byte == [key : Number, code : Number \cup {KEY_RESERVED, KEY_INSERT}, push : BOOLEAN,
         shift : BOOLEAN, last : BOOLEAN]
Nothing == [code |-> KEY_RESERVED]

-----------------------------------------------------------------------------
(* The keyboard and its controller. *)

\* What keymap makes of the bytes of a key k that goes down (push) or up, the
\* shift keys then being held or not.
Bytes(k, push, shift) ==
    LET byte(code, last) == [key |-> keymap[k], code |-> code, push |-> push, shift |-> shift, last |-> last]
        e0 == IF k \in Extended THEN <<byte(KEY_RESERVED, FALSE)>> ELSE <<>>
        f0 == IF push THEN <<>> ELSE <<byte(KEY_INSERT, FALSE)>>
    IN  e0 \o f0 \o <<byte(keymap[k], TRUE)>>

ShiftHeld(keys) == \E k \in keys : keymap[k] \in Shift

Send(bytes) ==
    /\ Len(queue) + Len(bytes) <= MaxBytes
    /\ queue' = queue \o bytes

\* A key goes down, or repeats while it is held.
Push(k) ==
    /\ down' = down \cup {k}
    /\ Send(Bytes(k, TRUE, ShiftHeld(down')))
    /\ UNCHANGED <<ready, irq, handler, pc, machine, told, lost, mishap>>

Release(k) ==
    /\ k \in down
    /\ down' = down \ {k}
    /\ Send(Bytes(k, FALSE, ShiftHeld(down')))
    /\ UNCHANGED <<ready, irq, handler, pc, machine, told, lost, mishap>>

\* The empty controller takes the next byte, or all there are, and raises
\* its interrupt line.
Arrive ==
    /\ ready = 0 /\ queue # <<>>
    /\ ready' = IF whole THEN Len(queue) ELSE 1
    /\ irq' = TRUE
    /\ UNCHANGED <<down, queue, handler, pc, machine, told, lost, mishap>>

\* kbd_read_byte: without a byte the register still has the one before.
InRegister == IF ready > 0 THEN Head(queue) ELSE told

ReadByte ==
    /\ IF ready > 0
       THEN queue' = Tail(queue) /\ ready' = ready - 1
       ELSE UNCHANGED <<queue, ready>>
    /\ UNCHANGED down

-----------------------------------------------------------------------------
(* keyboard_interrupt *)

Goto(from, to) == pc = from /\ pc' = to

Interrupt ==
    /\ Goto("idle", "kbd_irq")
    /\ irq
    /\ UNCHANGED <<line, irq, handler, machine, told, lost, mishap>>

\* kbd_irq has looked b up in keymap and takes its key for pushed or not.
Decode(b, pushed) ==
    /\ kbd_n' = b.code
    /\ kbd_status' = [kbd_status EXCEPT ![b.code] = pushed]
    /\ told' = b
    /\ lost' = IF b.last THEN lost \ {b.key} ELSE lost

\* Mutant of Issue: the table is chosen before the key's own change.
IssueBefore == shifted' = (\E s \in Shift : kbd_status[s])

\* issue_c's table is chosen after the key's own change.
Issue == shifted' = (\E s \in Shift : kbd_status'[s])

\* The body of kbd_irq's loop, up to its second read if there is one.
ReadKey ==
    /\ pc = "kbd_irq" /\ ready > 0
    /\ ReadByte
    /\ Decode(InRegister, TRUE)
    /\ IF InRegister.code = KEY_INSERT
       THEN pc' = "release" /\ UNCHANGED shifted
       ELSE Issue /\ UNCHANGED pc
    /\ UNCHANGED <<irq, machine, mishap>>

\* Mutant of ReadRelease: the key is left as the first read made it.
ReadReleaseForgets ==
    /\ Goto("release", "kbd_irq")
    /\ ReadByte
    /\ kbd_n' = InRegister.code /\ told' = InRegister
    /\ UNCHANGED <<kbd_status, lost>>
    /\ Issue
    /\ mishap' = IF ready = 0 THEN mishap \cup {"stale"} ELSE mishap
    /\ UNCHANGED <<irq, machine>>

\* After a break prefix the next byte is read without asking for it.
ReadRelease ==
    /\ Goto("release", "kbd_irq")
    /\ ReadByte
    /\ Decode(InRegister, FALSE)
    /\ Issue
    /\ mishap' = IF ready = 0 THEN mishap \cup {"stale"} ELSE mishap
    /\ UNCHANGED <<irq, machine>>

\* vim_input_handle and shell_buf_update are told kbd_n, whether it is
\* pushed, and its character.
Deliver ==
    /\ Goto("kbd_irq", "complete") /\ ready = 0
    /\ UNCHANGED <<line, irq, handler, machine, told, lost, mishap>>

\* ls7a_intc_complete and extioi_complete clear the interrupt that was
\* claimed; only a level triggered one comes back for a byte still there.
\* kbd_irq's locals are gone.
Complete ==
    /\ Goto("complete", "idle")
    /\ irq' = (~edge /\ ready > 0)
    /\ kbd_n' = KEY_RESERVED /\ shifted' = FALSE /\ told' = Nothing
    /\ UNCHANGED <<line, kbd_status, machine, lost, mishap>>

-----------------------------------------------------------------------------
(* timer_interrupt *)

\* Mutant of Timer: the loop that empties the controller is left out.
TimerUnpatched == pc = "idle" /\ UNCHANGED vars

Timer ==
    /\ Goto("idle", "drain")
    /\ UNCHANGED <<line, irq, handler, machine, told, lost, mishap>>

\* Mutant of Drain: one byte is thrown away and not all of them.
DrainOne ==
    /\ Goto("drain", "idle") /\ ready > 0
    /\ ReadByte
    /\ lost' = lost \cup {InRegister.key}
    /\ UNCHANGED <<irq, handler, machine, told, mishap>>

\* while(kbd_has_data()) kbd_read_byte()
Drain ==
    /\ pc \in {"drain", "halfway"} /\ ready > 0
    /\ ReadByte
    /\ pc' = IF InRegister.code = KEY_INSERT THEN "halfway" ELSE "drain"
    /\ lost' = lost \cup {InRegister.key}
    /\ UNCHANGED <<irq, handler, machine, told, mishap>>

\* The loop ends, maybe between a break prefix and its key.  A level
\* triggered interrupt goes with its bytes, an edge triggered one stays.
Drained ==
    /\ pc \in {"drain", "halfway"} /\ ready = 0
    /\ mishap' = IF pc = "halfway" THEN mishap \cup {"cut"} ELSE mishap
    /\ pc' = "idle"
    /\ irq' = (edge /\ irq)
    /\ UNCHANGED <<line, handler, machine, told, lost>>

-----------------------------------------------------------------------------
Init ==
    /\ down = {} /\ queue = <<>> /\ ready = 0
    /\ irq = FALSE
    /\ kbd_status = [n \in Number \cup {KEY_RESERVED, KEY_INSERT} |-> FALSE]
    /\ kbd_n = KEY_RESERVED /\ shifted = FALSE
    /\ pc = "idle" /\ told = Nothing /\ lost = {} /\ mishap = {}
    /\ whole \in BOOLEAN /\ edge \in BOOLEAN

Handlers ==
    \/ Interrupt \/ ReadKey \/ ReadRelease \/ Deliver \/ Complete
    \/ Timer \/ Drain \/ Drained

Next == (\E k \in Key : Push(k) \/ Release(k)) \/ Arrive \/ Handlers

Spec == Init /\ [][Next]_vars

\* The timer is periodic, and an interrupt handler runs to its end.
FairSpec == Spec /\ WF_vars(Handlers)

-----------------------------------------------------------------------------
\* Type correctness of the keyboard's path (kbd.c, pckbd.c, trap.c).
TypeOK ==
    /\ down \subseteq Key /\ lost \subseteq Number
    /\ queue \in Seq(Byte) /\ ready \in 0..Len(queue)
    /\ told \in Byte \cup {Nothing}
    /\ {irq, shifted, whole, edge} \subseteq BOOLEAN
    /\ kbd_status \in [Number \cup {KEY_RESERVED, KEY_INSERT} -> BOOLEAN]
    /\ kbd_n \in Number \cup {KEY_RESERVED, KEY_INSERT}
    /\ pc \in {"idle", "kbd_irq", "release", "complete", "drain", "halfway"}
    /\ mishap \subseteq {"stale", "cut"}

\* Every interrupt of the keyboard ends in a delivery.  If the last byte read was
\* the end of a key, it is that key, pushed if it went down and released if it
\* went up.  If it was an E0, whose key is still on its way, or if there was no
\* byte, it is key number 0, after an E0 as one that is pushed.  So until a break
\* prefix has once been read or thrown away without its key (kbd.c:35-70,
\* trap.c:26-28).  It says nothing of keys that were read before the last one in
\* the same interrupt: kbd_irq gives them up.
KeyFaithful ==
    pc = "complete" /\ mishap = {} =>
        IF told # Nothing /\ told.last
        THEN kbd_n = told.key /\ kbd_status[kbd_n] = told.push
        ELSE kbd_n = KEY_RESERVED /\ (told # Nothing => kbd_status[kbd_n])

\* The character of a key that is delivered is the upper one exactly if a shift
\* key was held when it was sent, unless the timer threw away that shift key's change (kbd.c:56-63).
ShiftFaithful ==
    pc = "complete" /\ told # Nothing /\ told.last /\ mishap = {} /\ lost \cap Shift = {} =>
        shifted = told.shift

\* When all bytes are read, and the timer did not throw away a number's last
\* change, no number sticks: one that is pushed is that of a key that is held.
\* The other way round it is so for the keys that share their number with no
\* other; of two that share it, the release of one is that of both (kbd.c:43-47,
\* kbdmap.c:12-44, trap.c:26-28).
StatusFaithful ==
    pc = "idle" /\ queue = <<>> /\ mishap = {} =>
        /\ \A n \in Number \ lost : kbd_status[n] => \E k \in down : keymap[k] = n
        /\ \A k \in down : Sole(k) /\ keymap[k] \notin lost => kbd_status[keymap[k]]

-----------------------------------------------------------------------------
(* The inductive invariant behind the theorems of KeyboardProofs. *)

\* A break prefix has been read, or thrown away, and its key not yet.
AfterPrefix == pc \in {"release", "halfway"}

\* The bytes in q are whole keys, but that the first one's prefix may be gone.
Flow(q, prefixed) ==
    /\ q # <<>> => q[Len(q)].last
    /\ prefixed => q # <<>>
    /\ \A i \in 1..Len(q) :
        /\ IF q[i].last THEN q[i].code = q[i].key ELSE q[i].code \notin Number
        /\ (q[i].last /\ ~q[i].push) <=> (IF i = 1 THEN prefixed ELSE q[i - 1].code = KEY_INSERT)

\* The numbers whose latest change is a push after byte b, if they were those of
\* on before it.
Hold(on, b) ==
    IF ~b.last THEN on ELSE IF b.push THEN on \cup {b.key} ELSE on \ {b.key}

\* held[i] is those numbers when the first i bytes of q had been sent, with now
\* for all of them.
History(q, held, now) ==
    /\ held \in [0..Len(q) -> SUBSET Number] /\ held[Len(q)] = now
    /\ \A i \in 1..Len(q) :
        /\ held[i] = Hold(held[i - 1], q[i])
        /\ q[i].last => (q[i].shift <=> held[i] \cap Shift # {})

\* The numbers on are those of the keys that are held, but for those that were
\* released by another key of the same number.
Pushed(on, keys) ==
    /\ \A n \in on : \E k \in keys : keymap[k] = n
    /\ \A k \in keys : Sole(k) => keymap[k] \in on

\* What kbd_irq has made of the byte it read last.
Understood ==
    IF pc \in {"kbd_irq", "complete"}
    THEN IF told # Nothing /\ told.last
         THEN /\ kbd_n = told.key /\ kbd_status[kbd_n] = told.push
              /\ lost \cap Shift = {} => shifted = told.shift
         ELSE kbd_n = KEY_RESERVED /\ (told # Nothing => kbd_status[kbd_n])
    ELSE pc = "release" \/ (told = Nothing /\ kbd_n = KEY_RESERVED)

Tracked ==
    /\ Flow(queue, AfterPrefix)
    /\ \E held \in [0..Len(queue) -> SUBSET Number], on \in SUBSET Number :
        /\ History(queue, held, on) /\ Pushed(on, down)
        /\ \A n \in Number \ lost : kbd_status[n] <=> n \in held[0]
    /\ Understood

\* After a break prefix the register holds a byte, so that the read that is not
\* guarded has something to return.
IInv ==
    /\ TypeOK
    /\ pc = "release" => told \in Byte
    /\ mishap = {} => Tracked

-----------------------------------------------------------------------------
\* A byte does not stay in the controller for ever, with an interrupt that was
\* cleared while it arrived: the timer's "keyboard patch" reads it (trap.c:25-28,
\* 180-182).
NeverStuck == ready > 0 ~> ready = 0
=============================================================================

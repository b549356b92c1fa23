--------------------------- MODULE KeyboardProofs ---------------------------
(***************************************************************************)
(* Theorems about Keyboard, for every keyboard and whatever its keys, the  *)
(* timer and the interrupts do: type correctness (every read of the        *)
(* controller finds a byte, the register's old one included), and what a   *)
(* key that is delivered, its character and kbd_status have to do with the *)
(* keys that were pushed and released.                                     *)
(***************************************************************************)
EXTENDS Keyboard, SequenceTheorems, TLAPS

LEMMA BytesType ==
    ASSUME NEW k \in Key, NEW push \in BOOLEAN, NEW shift \in BOOLEAN
    PROVE  Bytes(k, push, shift) \in Seq(Byte)
<1> DEFINE byte(code, last) == [key |-> keymap[k], code |-> code, push |-> push, shift |-> shift, last |-> last]
<1>0. keymap[k] \in Number
  BY KeysAssumption
<1>1. byte(KEY_RESERVED, FALSE) \in Byte /\ byte(KEY_INSERT, FALSE) \in Byte /\ byte(keymap[k], TRUE) \in Byte
  BY <1>0, Zenon DEF Byte
<1>2. ASSUME NEW a \in Byte, NEW b \in Byte, NEW c \in Byte
      PROVE  <<a>> \in Seq(Byte) /\ <<a>> \o <<b>> \o <<c>> \in Seq(Byte) /\ <<a>> \o << >> \o <<c>> \in Seq(Byte)
             /\ << >> \o <<b>> \o <<c>> \in Seq(Byte) /\ << >> \o << >> \o <<c>> \in Seq(Byte)
  OBVIOUS
<1>3. CASE k \in Extended /\ push
  BY <1>1, <1>2, <1>3, Zenon DEF Bytes
<1>4. CASE k \in Extended /\ ~push
  BY <1>1, <1>2, <1>4, Zenon DEF Bytes
<1>5. CASE k \notin Extended /\ push
  BY <1>1, <1>2, <1>5, Zenon DEF Bytes
<1>6. CASE k \notin Extended /\ ~push
  BY <1>1, <1>2, <1>6, Zenon DEF Bytes
<1> QED
  BY <1>3, <1>4, <1>5, <1>6

\* What is sent goes behind what was sent before.
LEMMA SendType ==
    ASSUME TypeOK, NEW bytes \in Seq(Byte), Send(bytes)
    PROVE  queue' \in Seq(Byte) /\ ready \in 0..Len(queue')
BY DEF Send, TypeOK

\* A read yields a byte unless the register is still empty, and takes at most
\* one from the queue.
LEMMA ReadType ==
    ASSUME TypeOK, ReadByte
    PROVE  /\ InRegister \in Byte \cup {Nothing} /\ (ready > 0 => InRegister \in Byte)
           /\ queue' \in Seq(Byte) /\ ready' \in 0..Len(queue') /\ down' = down
<1>1. CASE ready > 0
  <2>1. queue # << >>
    BY <1>1 DEF TypeOK
  <2>2. Head(queue) \in Byte /\ Tail(queue) \in Seq(Byte) /\ Len(Tail(queue)) = Len(queue) - 1
    BY <2>1, HeadTailProperties DEF TypeOK
  <2> QED
    BY <1>1, <2>2 DEF ReadByte, InRegister, TypeOK
<1>2. CASE ~(ready > 0)
  BY <1>2 DEF ReadByte, InRegister, TypeOK
<1> QED
  BY <1>1, <1>2
\* kbd_irq's use of a byte changes one entry of kbd_status.
LEMMA DecodeType ==
    ASSUME TypeOK, NEW b \in Byte, NEW pushed \in BOOLEAN, Decode(b, pushed)
    PROVE  /\ kbd_n' \in Number \cup {KEY_RESERVED, KEY_INSERT}
           /\ kbd_status' \in [Number \cup {KEY_RESERVED, KEY_INSERT} -> BOOLEAN]
           /\ told' \in Byte /\ lost' \subseteq Number
<1>1. b.code \in Number \cup {KEY_RESERVED, KEY_INSERT}
  BY DEF Byte
<1>2. kbd_n' \in Number \cup {KEY_RESERVED, KEY_INSERT} /\ told' \in Byte
  BY <1>1 DEF Decode
<1>3. kbd_status' \in [Number \cup {KEY_RESERVED, KEY_INSERT} -> BOOLEAN]
  BY <1>1 DEF Decode, TypeOK
<1>4. lost' \subseteq Number
  BY DEF Decode, TypeOK
<1> QED
  BY <1>2, <1>3, <1>4

-----------------------------------------------------------------------------
Types == TypeOK /\ (pc = "release" => told \in Byte)

LEMMA KeysType == Types /\ ((\E k \in Key : Push(k) \/ Release(k)) \/ Arrive) => Types'
<1> SUFFICES ASSUME Types, (\E k \in Key : Push(k) \/ Release(k)) \/ Arrive PROVE Types'
  OBVIOUS
<1> USE DEF Types
<1>1. ASSUME NEW k \in Key, Push(k) \/ Release(k) PROVE Types'
  <2>1. ShiftHeld(down') \in BOOLEAN
    BY DEF ShiftHeld
  <2>2. \E bytes \in Seq(Byte) : Send(bytes)
    BY <1>1, <2>1, BytesType DEF Push, Release
  <2>3. queue' \in Seq(Byte) /\ ready \in 0..Len(queue')
    BY <2>2, SendType
  <2>4. down' \subseteq Key /\ UNCHANGED <<ready, irq, handler, pc, machine, told, lost, mishap>>
    BY <1>1 DEF Push, Release, TypeOK
  <2> QED
    BY <2>3, <2>4 DEF TypeOK, handler, machine
<1>2. CASE Arrive
  <2>1. ready' \in 0..Len(queue) /\ irq' \in BOOLEAN
    BY <1>2, EmptySeq DEF Arrive, TypeOK
  <2> QED
    BY <1>2, <2>1 DEF Arrive, TypeOK, handler, machine
<1> QED
  BY <1>1, <1>2

LEMMA HandlersType == Types /\ Handlers => Types'
<1> SUFFICES ASSUME Types, Handlers PROVE Types'
  OBVIOUS
<1> USE DEF Types, Goto
<1>1. CASE Interrupt \/ Timer \/ Deliver
  BY <1>1 DEF Interrupt, Timer, Deliver, TypeOK, line, handler, machine
<1>2. CASE ReadKey
  <2>1. /\ InRegister \in Byte
        /\ queue' \in Seq(Byte) /\ ready' \in 0..Len(queue') /\ down' = down
    BY <1>2, ReadType DEF ReadKey
  <2>2. /\ kbd_n' \in Number \cup {KEY_RESERVED, KEY_INSERT}
        /\ kbd_status' \in [Number \cup {KEY_RESERVED, KEY_INSERT} -> BOOLEAN]
        /\ told' \in Byte /\ lost' \subseteq Number
    BY <1>2, <2>1, DecodeType DEF ReadKey
  <2>3. shifted' \in BOOLEAN
    BY <1>2, <2>2 DEF ReadKey, Issue, TypeOK
  <2> QED
    BY <1>2, <2>1, <2>2, <2>3 DEF ReadKey, TypeOK, machine
<1>3. CASE ReadRelease
  <2>1. /\ InRegister \in Byte
        /\ queue' \in Seq(Byte) /\ ready' \in 0..Len(queue') /\ down' = down
    <3>1. told \in Byte
      BY <1>3 DEF ReadRelease
    <3> QED
      BY <1>3, <3>1, ReadType DEF ReadRelease, InRegister
  <2>2. /\ kbd_n' \in Number \cup {KEY_RESERVED, KEY_INSERT}
        /\ kbd_status' \in [Number \cup {KEY_RESERVED, KEY_INSERT} -> BOOLEAN]
        /\ told' \in Byte /\ lost' \subseteq Number
    BY <1>3, <2>1, DecodeType DEF ReadRelease
  <2>3. shifted' \in BOOLEAN
    BY <1>3, <2>2 DEF ReadRelease, Issue
  <2> QED
    BY <1>3, <2>1, <2>2, <2>3 DEF ReadRelease, TypeOK, machine
<1>4. CASE Complete
  BY <1>4 DEF Complete, TypeOK, line, machine
<1>5. CASE Drain
  <2>1. /\ InRegister \in Byte
        /\ queue' \in Seq(Byte) /\ ready' \in 0..Len(queue') /\ down' = down
    BY <1>5, ReadType DEF Drain
  <2>2. lost' \subseteq Number
    BY <1>5, <2>1 DEF Drain, TypeOK, Byte
  <2> QED
    BY <1>5, <2>1, <2>2 DEF Drain, TypeOK, handler, machine
<1>6. CASE Drained
  BY <1>6 DEF Drained, TypeOK, line, handler, machine
<1> QED
  BY <1>1, <1>2, <1>3, <1>4, <1>5, <1>6 DEF Handlers

-----------------------------------------------------------------------------
(* Bytes on their way *)

\* The bytes of a key: only the last one changes it, and a release is the one
\* that follows F0.
LEMMA BytesShape ==
    ASSUME NEW k \in Key, NEW push \in BOOLEAN, NEW shift \in BOOLEAN
    PROVE  LET bs == Bytes(k, push, shift)
               n == Len(bs)
           IN  /\ bs \in Seq(Byte) /\ n \in Nat /\ n >= 1
               /\ bs[n].last /\ bs[n].key = keymap[k] /\ bs[n].code = keymap[k] /\ bs[n].push = push /\ bs[n].shift = shift
               /\ \A i \in 1..n : i # n => ~bs[i].last /\ bs[i].code \notin Number
               /\ \A i \in 1..n : (bs[i].last /\ ~bs[i].push) <=> (i # 1 /\ bs[i - 1].code = KEY_INSERT)
<1> DEFINE byte(code, last) == [key |-> keymap[k], code |-> code, push |-> push, shift |-> shift, last |-> last]
           e == byte(KEY_RESERVED, FALSE)
           f == byte(KEY_INSERT, FALSE)
           l == byte(keymap[k], TRUE)
           bs == Bytes(k, push, shift)
<1>1. /\ e.code = KEY_RESERVED /\ ~e.last /\ f.code = KEY_INSERT /\ ~f.last
      /\ l.key = keymap[k] /\ l.code = keymap[k] /\ l.push = push /\ l.shift = shift /\ l.last
  OBVIOUS
<1>2. keymap[k] \in Number /\ KEY_INSERT \notin Number /\ KEY_RESERVED \notin Number /\ KEY_RESERVED # KEY_INSERT
      /\ keymap[k] # KEY_INSERT
  BY KeysAssumption, NumbersAssumption
<1>3. bs \in Seq(Byte)
  BY BytesType
<1>4. bs = (IF k \in Extended THEN <<e>> ELSE << >>) \o (IF push THEN << >> ELSE <<f>>) \o <<l>>
  BY Zenon DEF Bytes
<1>5. e \in Byte /\ f \in Byte /\ l \in Byte
  BY <1>2, Zenon DEF Byte
<1>6. ASSUME NEW s \in Seq(Byte), NEW c \in Byte
      PROVE  /\ s \o <<c>> \in Seq(Byte) /\ Len(s \o <<c>>) = Len(s) + 1 /\ (s \o <<c>>)[Len(s) + 1] = c
             /\ \A i \in 1..Len(s) : (s \o <<c>>)[i] = s[i]
  <2>1. <<c>> \in Seq(Byte) /\ Len(<<c>>) = 1 /\ <<c>>[1] = c /\ Len(s) \in Nat
    OBVIOUS
  <2>2. /\ s \o <<c>> \in Seq(Byte) /\ Len(s \o <<c>>) = Len(s) + Len(<<c>>)
        /\ \A i \in 1..Len(s) + Len(<<c>>) : (s \o <<c>>)[i] = IF i <= Len(s) THEN s[i] ELSE <<c>>[i - Len(s)]
    BY <2>1, ConcatProperties
  <2> QED
    BY <2>1, <2>2
<1> DEFINE prefix == (IF k \in Extended THEN <<e>> ELSE << >>) \o (IF push THEN << >> ELSE <<f>>)
<1>7. /\ prefix \in Seq(Byte)
      /\ \A i \in 1..Len(prefix) : /\ prefix[i] \in {e, f}
                                   /\ prefix[i] = f <=> ~push /\ i = Len(prefix)
      /\ ~push => Len(prefix) >= 1
  <2> HIDE DEF e, f, l, bs
  <2>1. e # f
    BY <1>1, <1>2
  <2>2. \A c \in Byte : <<c>> \in Seq(Byte) /\ Len(<<c>>) = 1 /\ <<c>>[1] = c /\ <<c>> \o << >> = <<c>> /\ << >> \o <<c>> = <<c>>
    BY ConcatEmptySeq
  <2>3. << >> \o << >> = << >> /\ << >> \in Seq(Byte) /\ Len(<< >>) = 0
    OBVIOUS
  <2>4. \A i \in 1..1 : i = 1
    OBVIOUS
  <2>5. CASE k \in Extended /\ push
    <3>1. prefix = <<e>>
      BY <1>5, <2>2, <2>5, Zenon
    <3> QED
      BY <1>5, <2>1, <2>2, <2>4, <2>5, <3>1
  <2>6. CASE k \in Extended /\ ~push
    <3>1. prefix = <<e>> \o <<f>>
      BY <2>6, Zenon
    <3> HIDE DEF prefix
    <3>2. prefix \in Seq(Byte) /\ Len(prefix) = 2 /\ prefix[2] = f /\ prefix[1] = e
      BY <1>5, <1>6, <2>2, <3>1
    <3>3. \A i \in 1..2 : i = 1 \/ i = 2
      OBVIOUS
    <3> QED
      BY <2>1, <2>6, <3>2, <3>3
  <2>7. CASE k \notin Extended /\ push
    <3>1. prefix = << >>
      BY <2>3, <2>7, Zenon
    <3> QED
      BY <2>3, <2>7, <3>1
  <2>8. CASE k \notin Extended /\ ~push
    <3>1. prefix = <<f>>
      BY <1>5, <2>2, <2>8, Zenon
    <3> QED
      BY <1>5, <2>1, <2>2, <2>4, <2>8, <3>1
  <2> QED
    BY <2>5, <2>6, <2>7, <2>8
<1>8. bs = prefix \o <<l>>
  BY <1>4
<1> SUFFICES /\ Len(bs) \in Nat /\ Len(bs) >= 1
             /\ bs[Len(bs)] = l
             /\ \A i \in 1..Len(bs) : i # Len(bs) => ~bs[i].last /\ bs[i].code \notin Number
             /\ \A i \in 1..Len(bs) : (bs[i].last /\ ~bs[i].push) <=> (i # 1 /\ bs[i - 1].code = KEY_INSERT)
  BY <1>1, <1>3 DEF bs
<1> HIDE DEF e, f, l, bs, prefix
<1> DEFINE n == Len(prefix)
<1>9. n \in Nat /\ Len(bs) = n + 1 /\ bs[n + 1] = l /\ \A i \in 1..n : bs[i] = prefix[i]
  BY <1>5, <1>6, <1>7, <1>8
<1>10. \A i \in 1..n : ~prefix[i].last /\ prefix[i].code \notin Number /\ (prefix[i].code = KEY_INSERT <=> ~push /\ i = n)
  BY <1>1, <1>2, <1>7
<1>11. ~push => n >= 1
  BY <1>7
<1> HIDE DEF n
<1>12. \A i \in 1..n + 1 : i # n + 1 => i \in 1..n
  BY <1>9
<1>13. \A i \in 1..n + 1 : i # n + 1 => ~bs[i].last /\ bs[i].code \notin Number
  BY <1>9, <1>10, <1>12
<1>14. ASSUME NEW i \in 1..n + 1
       PROVE  (bs[i].last /\ ~bs[i].push) <=> (i # 1 /\ bs[i - 1].code = KEY_INSERT)
  <2>1. i # 1 => i - 1 \in 1..n /\ (i - 1 = n <=> i = n + 1)
    BY <1>9
  <2>2. i # 1 => (bs[i - 1].code = KEY_INSERT <=> ~push /\ i = n + 1)
    BY <1>9, <1>10, <2>1
  <2>3. bs[i].last <=> i = n + 1
    BY <1>1, <1>9, <1>13
  <2>4. i = n + 1 => bs[i].push = push
    BY <1>1, <1>9
  <2>5. i = n + 1 /\ ~push => i # 1
    BY <1>9, <1>11
  <2> QED
    BY <2>2, <2>3, <2>4, <2>5
<1> QED
  BY <1>9, <1>13, <1>14

LEMMA Successor == \A n \in Nat : n # 0 => n \in 1..n /\ n + 1 # 1 /\ n + 1 - 1 = n
OBVIOUS

\* Whole keys behind whole keys.
LEMMA FlowGrows ==
    ASSUME NEW q \in Seq(Byte), NEW prefixed \in BOOLEAN, Flow(q, prefixed),
           NEW bs \in Seq(Byte), Len(bs) >= 1, bs[Len(bs)].last, bs[Len(bs)].code = bs[Len(bs)].key,
           \A i \in 1..Len(bs) : i # Len(bs) => ~bs[i].last /\ bs[i].code \notin Number,
           \A i \in 1..Len(bs) :
               (bs[i].last /\ ~bs[i].push) <=> (i # 1 /\ bs[i - 1].code = KEY_INSERT)
    PROVE  Flow(q \o bs, prefixed)
<1> DEFINE n == Len(q)
           m == Len(bs)
           r == q \o bs
<1>1. n \in Nat /\ m \in Nat /\ m >= 1 /\ Len(r) = n + m
  BY LenProperties, ConcatProperties
<1>2. /\ \A i \in 1..n : r[i] = q[i]
      /\ \A i \in n + 1..n + m : r[i] = bs[i - n]
  <2>1. \A i \in 1..n + m : r[i] = IF i <= n THEN q[i] ELSE bs[i - n]
    BY ConcatProperties
  <2> HIDE DEF r, n, m
  <2> QED
    BY <1>1, <2>1
<1> HIDE DEF r, n, m
<1>3. r # << >> /\ r[n + m].last
  <2>1. r[n + m] = bs[m]
    BY <1>1, <1>2
  <2> QED
    BY <1>1, <2>1, EmptySeq DEF m
<1>4. ASSUME NEW i \in 1..n + m
      PROVE  /\ IF r[i].last THEN r[i].code = r[i].key ELSE r[i].code \notin Number
             /\ (r[i].last /\ ~r[i].push) <=> (IF i = 1 THEN prefixed ELSE r[i - 1].code = KEY_INSERT)
  <2>1. CASE i <= n
    <3>1. i \in 1..n /\ r[i] = q[i]
      BY <1>1, <1>2, <2>1
    <3>2. i # 1 => r[i - 1] = q[i - 1]
      <4>1. i # 1 => i - 1 \in 1..n
        BY <1>1, <3>1
      <4> QED
        BY <1>2, <4>1
    <3> QED
      BY <3>1, <3>2 DEF Flow, n
  <2>2. CASE i = n + 1
    <3>1. r[i] = bs[1] /\ 1 \in 1..m
      BY <1>1, <1>2, <2>2
    <3>2. IF bs[1].last THEN bs[1].code = bs[1].key ELSE bs[1].code \notin Number
      BY <1>1 DEF m
    <3>3. ~(bs[1].last /\ ~bs[1].push)
      BY <3>1 DEF m
    <3>4. CASE n = 0
      BY <2>2, <3>1, <3>2, <3>3, <3>4, EmptySeq DEF Flow, n
    <3>5. CASE n # 0
      <4>1. i # 1 /\ i - 1 = n /\ r[n] = q[n] /\ n \in 1..n
        <5>1. n \in 1..n /\ n + 1 # 1 /\ n + 1 - 1 = n
          BY <1>1, <3>5, Successor
        <5> QED
          BY <1>2, <2>2, <5>1
      <4>2. q[n] \in Byte /\ q[n].last
        BY <4>1, ElementOfSeq DEF Flow, n
      <4>3. q[n].code \in Number
        BY <4>1, <4>2 DEF Flow, n, Byte
      <4> QED
        BY <3>1, <3>2, <3>3, <4>1, <4>3, NumbersAssumption
    <3> QED
      BY <3>4, <3>5
  <2>3. CASE i > n + 1
    <3>1. /\ i - n \in 1..m /\ i - n # 1 /\ i - 1 - n = i - n - 1 /\ r[i] = bs[i - n] /\ r[i - 1] = bs[i - n - 1]
          /\ i # 1
      BY <1>1, <1>2, <2>3
    <3>2. IF bs[i - n].last THEN bs[i - n].code = bs[i - n].key ELSE bs[i - n].code \notin Number
      BY <3>1 DEF m
    <3> QED
      BY <3>1, <3>2 DEF m
  <2> QED
    BY <1>1, <2>1, <2>2, <2>3
<1> QED
  BY <1>1, <1>3, <1>4 DEF Flow, r

\* Without the first byte, whose key may remain.
LEMMA FlowShrinks ==
    ASSUME NEW q \in Seq(Byte), q # << >>, NEW prefixed, Flow(q, prefixed)
    PROVE  /\ Flow(Tail(q), Head(q).code = KEY_INSERT)
           /\ IF Head(q).last THEN Head(q).code = Head(q).key ELSE Head(q).code \notin Number
           /\ (Head(q).last /\ ~Head(q).push) <=> prefixed
<1> DEFINE n == Len(q)
           t == Tail(q)
<1>1. n \in Nat /\ n >= 1 /\ t \in Seq(Byte) /\ Len(t) = n - 1 /\ \A i \in 1..n - 1 : t[i] = q[i + 1]
  BY HeadTailProperties, EmptySeq
<1>2. Head(q) = q[1] /\ q[1] \in Byte
  BY <1>1, ElementOfSeq
<1> HIDE DEF n, t
<1>3. \A i \in 1..n : /\ IF q[i].last THEN q[i].code = q[i].key ELSE q[i].code \notin Number
                      /\ (q[i].last /\ ~q[i].push) <=> (IF i = 1 THEN prefixed ELSE q[i - 1].code = KEY_INSERT)
  BY DEF Flow, n
<1>4. q[n].last
  BY DEF Flow, n
<1>5. 1 \in 1..n /\ \A i \in 1..n - 1 : i + 1 \in 1..n /\ i + 1 # 1 /\ i + 1 - 1 = i
  BY <1>1
<1>6. q[1].code = KEY_INSERT => n # 1
  <2>1. q[1].last => q[1].code \in Number
    BY <1>2, <1>3, <1>5 DEF Byte
  <2> QED
    BY <1>4, <2>1, NumbersAssumption
<1>7. n # 1 => t # << >> /\ t[n - 1].last
  <2>1. n # 1 => n - 1 \in 1..n - 1 /\ n - 1 + 1 = n
    BY <1>1
  <2> QED
    BY <1>1, <1>4, <2>1
<1>8. n = 1 => t = << >>
  BY <1>1
<1>9. ASSUME NEW i \in 1..n - 1
      PROVE  /\ IF t[i].last THEN t[i].code = t[i].key ELSE t[i].code \notin Number
             /\ (t[i].last /\ ~t[i].push) <=> (IF i = 1 THEN q[1].code = KEY_INSERT ELSE t[i - 1].code = KEY_INSERT)
  <2>1. t[i] = q[i + 1] /\ (i # 1 => t[i - 1] = q[i])
    BY <1>1
  <2> QED
    BY <1>3, <1>5, <2>1
<1>10. Flow(t, q[1].code = KEY_INSERT)
  BY <1>1, <1>6, <1>7, <1>8, <1>9 DEF Flow
<1> QED
  BY <1>2, <1>3, <1>5, <1>10 DEF t

\* A key changes once all its bytes are sent.
LEMMA HistoryGrows ==
    ASSUME NEW q \in Seq(Byte), NEW bs \in Seq(Byte), Len(bs) >= 1,
           NEW held, NEW now, History(q, held, now), NEW then \in SUBSET Number,
           \A i \in 1..Len(bs) : i # Len(bs) => ~bs[i].last,
           bs[Len(bs)].last, bs[Len(bs)].shift <=> then \cap Shift # {}, then = Hold(now, bs[Len(bs)])
    PROVE  \E h : History(q \o bs, h, then) /\ h[0] = held[0]
<1> DEFINE n == Len(q)
           m == Len(bs)
           r == q \o bs
           h == [i \in 0..n + m |-> IF i < n THEN held[i] ELSE IF i < n + m THEN now ELSE then]
<1>1. n \in Nat /\ m \in Nat /\ m >= 1 /\ Len(r) = n + m
  BY LenProperties, ConcatProperties
<1>2. /\ \A i \in 1..n : r[i] = q[i]
      /\ \A i \in n + 1..n + m : r[i] = bs[i - n]
  <2>1. \A i \in 1..n + m : r[i] = IF i <= n THEN q[i] ELSE bs[i - n]
    BY ConcatProperties
  <2> HIDE DEF r, n, m, h
  <2> QED
    BY <1>1, <2>1
<1>3. held \in [0..n -> SUBSET Number] /\ held[n] = now
  BY DEF History
<1> HIDE DEF n, m, r
<1>4. h \in [0..n + m -> SUBSET Number]
  BY <1>1, <1>3
<1>5. /\ \A i \in 0..n : h[i] = held[i]
      /\ \A i \in n..n + m - 1 : h[i] = now
      /\ h[n + m] = then
  BY <1>1, <1>3
<1> HIDE DEF h
<1>6. ASSUME NEW i \in 1..n + m
      PROVE  /\ h[i] = Hold(h[i - 1], r[i])
             /\ r[i].last => (r[i].shift <=> h[i] \cap Shift # {})
  <2>1. CASE i <= n
    <3>1. i \in 1..n /\ r[i] = q[i] /\ h[i] = held[i] /\ h[i - 1] = held[i - 1]
      <4>1. i \in 1..n /\ i \in 0..n /\ i - 1 \in 0..n
        BY <1>1, <2>1
      <4> QED
        BY <1>2, <1>5, <4>1
    <3> QED
      BY <3>1 DEF History, n
  <2>2. CASE i > n /\ i < n + m
    <3>1. /\ i - n \in 1..m /\ i - n # m /\ r[i] = bs[i - n] /\ h[i] = now /\ h[i - 1] = now
      <4>1. i \in n + 1..n + m /\ i \in n..n + m - 1 /\ i - 1 \in n..n + m - 1 /\ i - n \in 1..m /\ i - n # m
        BY <1>1, <2>2
      <4> QED
        BY <1>2, <1>5, <4>1
    <3>2. ~r[i].last
      BY <3>1 DEF m
    <3> QED
      BY <3>1, <3>2 DEF Hold
  <2>3. CASE i = n + m
    <3>1. r[i] = bs[m] /\ h[i] = then /\ h[i - 1] = now
      BY <1>1, <1>2, <1>5, <2>3
    <3> QED
      BY <3>1 DEF m
  <2>4. i <= n \/ (i > n /\ i < n + m) \/ i = n + m
    BY <1>1
  <2> QED
    BY <2>1, <2>2, <2>3, <2>4, Zenon
<1>7. History(r, h, then)
  BY <1>1, <1>4, <1>5, <1>6 DEF History
<1>8. h[0] = held[0]
  BY <1>1, <1>5
<1> QED
  BY <1>1, <1>4, <1>7, <1>8 DEF r

LEMMA HistoryShrinks ==
    ASSUME NEW q \in Seq(Byte), q # << >>, NEW held, NEW now, History(q, held, now)
    PROVE  \E h \in [0..Len(Tail(q)) -> SUBSET Number] :
               /\ History(Tail(q), h, now) /\ h[0] = Hold(held[0], Head(q))
               /\ Head(q).last => Head(q).shift <=> h[0] \cap Shift # {}
<1> DEFINE n == Len(q)
           t == Tail(q)
           h == [i \in 0..n - 1 |-> held[i + 1]]
<1>1. n \in Nat /\ n >= 1 /\ t \in Seq(Byte) /\ Len(t) = n - 1 /\ \A i \in 1..n - 1 : t[i] = q[i + 1]
  BY HeadTailProperties, EmptySeq
<1>2. Head(q) = q[1]
  OBVIOUS
<1>3. /\ held \in [0..n -> SUBSET Number] /\ held[n] = now
      /\ \A i \in 1..n : held[i] = Hold(held[i - 1], q[i]) /\ (q[i].last => (q[i].shift <=> held[i] \cap Shift # {}))
  BY DEF History
<1> HIDE DEF n, t
<1>4. h \in [0..n - 1 -> SUBSET Number] /\ h[n - 1] = now /\ \A i \in 0..n - 1 : h[i] = held[i + 1]
  BY <1>1, <1>3
<1> HIDE DEF h
<1>5. ASSUME NEW i \in 1..n - 1
      PROVE  h[i] = Hold(h[i - 1], t[i]) /\ (t[i].last => (t[i].shift <=> h[i] \cap Shift # {}))
  <2>1. i + 1 \in 1..n /\ i + 1 - 1 = i /\ t[i] = q[i + 1] /\ h[i] = held[i + 1] /\ h[i - 1] = held[i]
    BY <1>1, <1>4
  <2>2. held[i + 1] = Hold(held[i], q[i + 1]) /\ (q[i + 1].last => (q[i + 1].shift <=> held[i + 1] \cap Shift # {}))
    BY <1>3, <2>1
  <2> QED
    BY <2>1, <2>2
<1>6. History(t, h, now)
  BY <1>1, <1>4, <1>5 DEF History
<1>7. h[0] = held[1] /\ 1 \in 1..n
  BY <1>1, <1>4
<1>8. h[0] = Hold(held[0], q[1]) /\ (q[1].last => (q[1].shift <=> h[0] \cap Shift # {}))
  BY <1>3, <1>7
<1> QED
  BY <1>1, <1>2, <1>4, <1>6, <1>8 DEF t

-----------------------------------------------------------------------------
(* What kbd_irq makes of them *)

LEMMA InitTracked == Init => Tracked
<1> SUFFICES ASSUME Init PROVE Tracked
  OBVIOUS
<1>1. queue = << >> /\ Len(queue) = 0 /\ AfterPrefix = FALSE
  BY DEF Init, AfterPrefix
<1>2. Flow(queue, AfterPrefix)
  BY <1>1 DEF Flow
<1> DEFINE held == [i \in 0..0 |-> {}]
<1>3. held \in [0..Len(queue) -> SUBSET Number] /\ History(queue, held, {}) /\ Pushed({}, down)
  BY <1>1 DEF History, Pushed, Init
<1>4. \A k \in Number \ lost : kbd_status[k] <=> k \in held[0]
  <2>1. held[0] = {} /\ \A k \in Number : kbd_status[k] = FALSE
    BY DEF Init
  <2> HIDE DEF held
  <2> QED
    BY <2>1
<1>5. Understood
  BY DEF Understood, Init
<1> HIDE DEF held
<1> QED
  BY <1>2, <1>3, <1>4, <1>5 DEF Tracked

\* A number is pushed while a key of it is held, after a push and after a release.
LEMMA PushedFollows ==
    ASSUME NEW on \in SUBSET Number, NEW keys \in SUBSET Key, Pushed(on, keys),
           NEW k \in Key, NEW push \in BOOLEAN
    PROVE  Pushed(IF push THEN on \cup {keymap[k]} ELSE on \ {keymap[k]},
                  IF push THEN keys \cup {k} ELSE keys \ {k})
<1>1. CASE push
  BY <1>1 DEF Pushed
<1>2. CASE ~push
  <2>1. ASSUME NEW n \in on, n # keymap[k] PROVE \E l \in keys \ {k} : keymap[l] = n
    BY <2>1 DEF Pushed
  <2>2. ASSUME NEW l \in keys, l # k, Sole(l) PROVE keymap[l] \in on /\ keymap[l] # keymap[k]
    BY <2>2 DEF Pushed, Sole
  <2> QED
    BY <1>2, <2>1, <2>2 DEF Pushed
<1> QED
  BY <1>1, <1>2

\* A shift key's number is its own, so that it is pushed exactly while it is held.
LEMMA ShiftPushed ==
    ASSUME NEW on \in SUBSET Number, NEW keys \in SUBSET Key, Pushed(on, keys)
    PROVE  ShiftHeld(keys) <=> on \cap Shift # {}
BY ShiftAssumption DEF Pushed, ShiftHeld

\* A key that is pushed or released goes behind all that is on its way.
LEMMA KeyTracked ==
    ASSUME Types, Tracked, NEW k \in Key, Push(k) \/ Release(k)
    PROVE  Tracked'
<1>1. PICK push \in BOOLEAN :
          /\ down' = IF push THEN down \cup {k} ELSE down \ {k}
          /\ queue' = queue \o Bytes(k, push, ShiftHeld(down'))
  <2>1. Push(k) => down' = down \cup {k} /\ queue' = queue \o Bytes(k, TRUE, ShiftHeld(down'))
    BY DEF Push, Send
  <2>2. Release(k) => down' = down \ {k} /\ queue' = queue \o Bytes(k, FALSE, ShiftHeld(down'))
    BY DEF Release, Send
  <2> QED
    BY <2>1, <2>2
<1>2. UNCHANGED <<handler, pc, told, lost, mishap>>
  BY DEF Push, Release
<1> DEFINE n == keymap[k]
           shift == ShiftHeld(down')
           bs == Bytes(k, push, shift)
<1>3. shift \in BOOLEAN /\ n \in Number
  BY KeysAssumption DEF ShiftHeld
<1>4. /\ bs \in Seq(Byte) /\ Len(bs) \in Nat /\ Len(bs) >= 1
      /\ bs[Len(bs)].last /\ bs[Len(bs)].key = n /\ bs[Len(bs)].code = n /\ bs[Len(bs)].push = push
      /\ bs[Len(bs)].shift = shift
      /\ \A i \in 1..Len(bs) : i # Len(bs) => ~bs[i].last /\ bs[i].code \notin Number
      /\ \A i \in 1..Len(bs) : (bs[i].last /\ ~bs[i].push) <=> (i # 1 /\ bs[i - 1].code = KEY_INSERT)
  <2> HIDE DEF shift
  <2> QED
    BY <1>3, BytesShape
<1>5. queue \in Seq(Byte) /\ queue' = queue \o bs /\ AfterPrefix' = AfterPrefix /\ AfterPrefix \in BOOLEAN
  BY <1>1, <1>2 DEF Types, TypeOK, AfterPrefix
<1> HIDE DEF bs, n
<1>6. Flow(queue, AfterPrefix)
  BY DEF Tracked
<1>7. Flow(queue', AfterPrefix')
  BY <1>4, <1>5, <1>6, FlowGrows
<1>8. PICK held \in [0..Len(queue) -> SUBSET Number], on \in SUBSET Number :
          /\ History(queue, held, on) /\ Pushed(on, down)
          /\ \A j \in Number \ lost : kbd_status[j] <=> j \in held[0]
  BY DEF Tracked
<1> DEFINE then == Hold(on, bs[Len(bs)])
<1>9. then = (IF push THEN on \cup {n} ELSE on \ {n}) /\ then \in SUBSET Number
      /\ then = Hold(on, bs[Len(bs)])
  BY <1>3, <1>4 DEF Hold
<1> HIDE DEF then
<1>10. \A i \in 1..Len(bs) : i # Len(bs) => ~bs[i].last
  BY <1>4
<1>11. Pushed(then, down')
  <2>1. down \in SUBSET Key
    BY DEF Types, TypeOK
  <2>2. Pushed(IF push THEN on \cup {n} ELSE on \ {n}, IF push THEN down \cup {k} ELSE down \ {k})
    BY <1>8, <2>1, PushedFollows DEF n
  <2> QED
    BY <1>1, <1>9, <2>2
<1>12. PICK h : History(queue \o bs, h, then) /\ h[0] = held[0]
  <2>1. bs[Len(bs)].shift <=> then \cap Shift # {}
    <3>1. down' \in SUBSET Key
      BY <1>1 DEF Types, TypeOK
    <3>2. ShiftHeld(down') <=> then \cap Shift # {}
      BY <1>9, <1>11, <3>1, ShiftPushed
    <3> QED
      BY <1>4, <3>2
  <2>2. bs \in Seq(Byte) /\ Len(bs) >= 1 /\ bs[Len(bs)].last
    BY <1>4
  <2>3. queue \in Seq(Byte) /\ History(queue, held, on)
    BY <1>5, <1>8
  <2>4. then \in SUBSET Number /\ then = Hold(on, bs[Len(bs)])
    BY <1>9
  <2> HIDE DEF shift
  <2> QED
    BY <1>10, <2>1, <2>2, <2>3, <2>4, HistoryGrows
<1>13. \A j \in Number \ lost' : kbd_status'[j] <=> j \in h[0]
  BY <1>2, <1>8, <1>12 DEF handler
<1>14. Understood'
  BY <1>2 DEF Understood, Tracked, handler
<1>15. h \in [0..Len(queue') -> SUBSET Number]
  BY <1>5, <1>12 DEF History
<1> QED
  BY <1>5, <1>7, <1>9, <1>11, <1>12, <1>13, <1>14, <1>15 DEF Tracked

\* A byte taken off the queue has all the properties it was sent with.
LEMMA ReadTracked ==
    ASSUME Types, Tracked, ready > 0, ReadByte
    PROVE  LET b == InRegister
           IN  /\ b \in Byte /\ Flow(queue', b.code = KEY_INSERT)
               /\ IF b.last THEN b.code = b.key ELSE b.code \notin Number
               /\ (b.last /\ ~b.push) <=> AfterPrefix
               /\ \E h \in [0..Len(queue') -> SUBSET Number], on \in SUBSET Number :
                    /\ History(queue', h, on) /\ Pushed(on, down')
                    /\ b.last => (b.shift <=> h[0] \cap Shift # {}) /\ (b.push <=> b.key \in h[0])
                    /\ \A k \in Number \ lost : (b.last /\ k = b.key) \/ (kbd_status[k] <=> k \in h[0])
<1> DEFINE b == InRegister
<1>1. b = Head(queue) /\ queue' = Tail(queue) /\ down' = down
  BY DEF InRegister, ReadByte
<1>2. queue \in Seq(Byte) /\ queue # << >>
  BY DEF Types, TypeOK
<1>3. b \in Byte
  BY <1>1, <1>2, HeadTailProperties
<1> HIDE DEF b
<1>4. /\ Flow(queue', b.code = KEY_INSERT)
      /\ IF b.last THEN b.code = b.key ELSE b.code \notin Number
      /\ (b.last /\ ~b.push) <=> AfterPrefix
  BY <1>1, <1>2, FlowShrinks DEF Tracked
<1>5. PICK held \in [0..Len(queue) -> SUBSET Number], on \in SUBSET Number :
          /\ History(queue, held, on) /\ Pushed(on, down)
          /\ \A k \in Number \ lost : kbd_status[k] <=> k \in held[0]
  BY DEF Tracked
<1>6. PICK h \in [0..Len(queue') -> SUBSET Number] :
          /\ History(queue', h, on) /\ h[0] = Hold(held[0], b)
          /\ b.last => (b.shift <=> h[0] \cap Shift # {})
  BY <1>1, <1>2, <1>5, HistoryShrinks
<1>7. b.key \in Number /\ b.push \in BOOLEAN /\ b.last \in BOOLEAN
  BY <1>3 DEF Byte
<1>8. b.last => (b.push <=> b.key \in h[0])
  BY <1>6, <1>7 DEF Hold
<1>9. ASSUME NEW k \in Number \ lost PROVE (b.last /\ k = b.key) \/ (kbd_status[k] <=> k \in h[0])
  <2>1. kbd_status[k] <=> k \in held[0]
    BY <1>5
  <2>2. (b.last /\ k = b.key) \/ (k \in h[0] <=> k \in held[0])
    BY <1>6, <1>7 DEF Hold
  <2> QED
    BY <2>1, <2>2
<1>10. \E g \in [0..Len(queue') -> SUBSET Number], now \in SUBSET Number :
          /\ History(queue', g, now) /\ Pushed(now, down')
          /\ b.last => (b.shift <=> g[0] \cap Shift # {}) /\ (b.push <=> b.key \in g[0])
          /\ \A k \in Number \ lost : (b.last /\ k = b.key) \/ (kbd_status[k] <=> k \in g[0])
  BY <1>1, <1>5, <1>6, <1>8, <1>9
<1> QED
  BY <1>3, <1>4, <1>10 DEF b

\* kbd_irq takes a byte for what it was sent as.
LEMMA DecodeTracked ==
    ASSUME Types, Types', Tracked, ready > 0, ReadByte, Decode(InRegister, ~AfterPrefix)
    PROVE  /\ \E held \in [0..Len(queue') -> SUBSET Number], on \in SUBSET Number :
                /\ History(queue', held, on) /\ Pushed(on, down')
                /\ \A k \in Number \ lost' : kbd_status'[k] <=> k \in held[0]
           /\ ~InRegister.last =>
                kbd_n' = InRegister.code /\ InRegister.code \in {KEY_RESERVED, KEY_INSERT}
                /\ kbd_status'[kbd_n'] = ~AfterPrefix
           /\ InRegister.last =>
                /\ kbd_n' = InRegister.key /\ kbd_status'[kbd_n'] = InRegister.push
                /\ lost' \cap Shift = {} => (\E s \in Shift : kbd_status'[s]) <=> InRegister.shift
<1> DEFINE b == InRegister
<1>1. /\ b \in Byte
      /\ IF b.last THEN b.code = b.key ELSE b.code \notin Number
      /\ (b.last /\ ~b.push) <=> AfterPrefix
  BY ReadTracked
<1>2. PICK h \in [0..Len(queue') -> SUBSET Number], on \in SUBSET Number :
        /\ History(queue', h, on) /\ Pushed(on, down')
        /\ b.last => (b.shift <=> h[0] \cap Shift # {}) /\ (b.push <=> b.key \in h[0])
        /\ \A k \in Number \ lost : (b.last /\ k = b.key) \/ (kbd_status[k] <=> k \in h[0])
  BY ReadTracked
<1>3. /\ kbd_n' = b.code /\ kbd_status' = [kbd_status EXCEPT ![b.code] = ~AfterPrefix]
      /\ lost' = IF b.last THEN lost \ {b.key} ELSE lost
  BY DEF Decode
<1>4. /\ b.key \in Number /\ b.code \in Number \cup {KEY_RESERVED, KEY_INSERT} /\ b.push \in BOOLEAN /\ b.last \in BOOLEAN
      /\ kbd_status \in [Number \cup {KEY_RESERVED, KEY_INSERT} -> BOOLEAN] /\ AfterPrefix \in BOOLEAN
      /\ kbd_status' \in [Number \cup {KEY_RESERVED, KEY_INSERT} -> BOOLEAN] /\ Shift \subseteq Number
  BY <1>1, ShiftAssumption DEF Byte, Types, TypeOK, AfterPrefix
<1> HIDE DEF b
<1>5. b.last => kbd_n' = b.key /\ kbd_status'[kbd_n'] = b.push
  BY <1>1, <1>3, <1>4
<1>8. ~b.last => kbd_n' = b.code /\ b.code \in {KEY_RESERVED, KEY_INSERT} /\ kbd_status'[kbd_n'] = ~AfterPrefix
  BY <1>1, <1>3, <1>4
<1>6. ASSUME NEW k \in Number \ lost' PROVE kbd_status'[k] <=> k \in h[0]
  <2>1. CASE b.last /\ k = b.key
    BY <1>2, <1>3, <1>5, <2>1
  <2>2. CASE ~(b.last /\ k = b.key)
    <3>1. k \in Number \ lost /\ k # b.code
      BY <1>1, <1>3, <2>2
    <3>2. kbd_status'[k] = kbd_status[k]
      BY <1>3, <1>4, <3>1
    <3> QED
      BY <1>2, <2>2, <3>1, <3>2
  <2> QED
    BY <2>1, <2>2
<1>7. ASSUME b.last, lost' \cap Shift = {}
      PROVE  (\E s \in Shift : kbd_status'[s]) <=> b.shift
  <2>1. \A s \in Shift : kbd_status'[s] = (s \in h[0])
    BY <1>4, <1>6, <1>7
  <2>2. b.shift <=> h[0] \cap Shift # {}
    BY <1>2, <1>7
  <2> QED
    BY <2>1, <2>2
<1> QED
  BY <1>2, <1>5, <1>6, <1>7, <1>8 DEF b

LEMMA HandlersTracked ==
    ASSUME Types, Types', Tracked, Handlers, mishap' = {}
    PROVE  Tracked'
<1> USE DEF Goto
<1>1. CASE Interrupt \/ Timer \/ Deliver \/ Complete \/ Drained
  <2>1. UNCHANGED <<queue, down, kbd_status, lost>>
    BY <1>1 DEF Interrupt, Timer, Deliver, Complete, Drained, line, handler
  <2>2. AfterPrefix' = AfterPrefix
    BY <1>1 DEF Interrupt, Timer, Deliver, Complete, Drained, AfterPrefix
  <2>3. Understood'
    <3>1. CASE Interrupt
      BY <3>1 DEF Understood, Tracked, Interrupt
    <3>2. CASE Timer
      BY <3>2 DEF Understood, Tracked, Timer
    <3>3. CASE Deliver
      BY <3>3 DEF Understood, Tracked, Deliver, handler
    <3>4. CASE Complete
      BY <3>4 DEF Understood, Complete
    <3>5. CASE Drained
      BY <3>5 DEF Understood, Tracked, Drained
    <3> QED
      BY <1>1, <3>1, <3>2, <3>3, <3>4, <3>5
  <2> QED
    BY <2>1, <2>2, <2>3 DEF Tracked
<1>2. CASE ReadKey
  <2>1. /\ pc = "kbd_irq" /\ ready > 0 /\ ReadByte /\ ~AfterPrefix /\ Decode(InRegister, ~AfterPrefix)
        /\ told' = InRegister
    <3>1. pc = "kbd_irq" /\ ready > 0 /\ ReadByte /\ Decode(InRegister, TRUE)
      BY <1>2 DEF ReadKey
    <3>2. ~AfterPrefix /\ (~AfterPrefix) = TRUE
      BY <3>1 DEF AfterPrefix
    <3> QED
      BY <3>1, <3>2 DEF Decode
  <2>2. Flow(queue', InRegister.code = KEY_INSERT)
    BY <2>1, ReadTracked
  <2>3. AfterPrefix' = (InRegister.code = KEY_INSERT)
    BY <1>2, <2>1 DEF ReadKey, AfterPrefix
  <2>4. \E held \in [0..Len(queue') -> SUBSET Number], on \in SUBSET Number :
            /\ History(queue', held, on) /\ Pushed(on, down')
            /\ \A k \in Number \ lost' : kbd_status'[k] <=> k \in held[0]
    BY <2>1, DecodeTracked
  <2>5. Understood'
    <3>1. CASE InRegister.code = KEY_INSERT
      BY <1>2, <3>1 DEF ReadKey, Understood
    <3>2. CASE InRegister.code # KEY_INSERT
      <4>1. shifted' = (\E s \in Shift : kbd_status'[s]) /\ pc' = "kbd_irq"
        BY <1>2, <2>1, <3>2 DEF ReadKey, Issue
      <4>2. CASE InRegister.last
        <5>1. /\ kbd_n' = InRegister.key /\ kbd_status'[kbd_n'] = InRegister.push
              /\ lost' \cap Shift = {} => (\E s \in Shift : kbd_status'[s]) <=> InRegister.shift
          BY <2>1, <4>2, DecodeTracked
        <5>2. InRegister.shift \in BOOLEAN /\ InRegister # Nothing
          BY <2>1, ReadTracked DEF Byte, Nothing
        <5>3. lost' \cap Shift = {} => shifted' = InRegister.shift
          BY <4>1, <5>1, <5>2
        <5> QED
          BY <2>1, <4>1, <4>2, <5>1, <5>2, <5>3 DEF Understood
      <4>3. CASE ~InRegister.last
        <5>1. kbd_n' = KEY_RESERVED /\ kbd_status'[kbd_n'] = ~AfterPrefix
          BY <2>1, <3>2, <4>3, DecodeTracked
        <5>2. (~AfterPrefix) = TRUE
          BY <2>1
        <5>3. kbd_n' = KEY_RESERVED /\ kbd_status'[kbd_n']
          BY <5>1, <5>2
        <5> QED
          BY <2>1, <4>1, <4>3, <5>3 DEF Understood
      <4> QED
        BY <4>2, <4>3
    <3> QED
      BY <3>1, <3>2
  <2> QED
    BY <2>2, <2>3, <2>4, <2>5 DEF Tracked
<1>3. CASE ReadRelease
  <2>1. /\ pc = "release" /\ pc' = "kbd_irq" /\ ready > 0 /\ ReadByte /\ AfterPrefix /\ Decode(InRegister, ~AfterPrefix)
        /\ told' = InRegister /\ shifted' = (\E s \in Shift : kbd_status'[s])
    <3>1. pc = "release" /\ pc' = "kbd_irq" /\ ready # 0 /\ ReadByte /\ Decode(InRegister, FALSE) /\ Issue
      BY <1>3 DEF ReadRelease
    <3>2. AfterPrefix /\ (~AfterPrefix) = FALSE
      BY <3>1 DEF AfterPrefix
    <3>3. ready > 0
      BY <3>1 DEF Types, TypeOK
    <3> QED
      BY <3>1, <3>2, <3>3 DEF Decode, Issue
  <2>2. Flow(queue', InRegister.code = KEY_INSERT) /\ InRegister.last /\ InRegister.code = InRegister.key /\ InRegister \in Byte
    BY <2>1, ReadTracked
  <2>3. AfterPrefix' = FALSE /\ InRegister.code # KEY_INSERT
    BY <2>1, <2>2, NumbersAssumption DEF AfterPrefix, Byte
  <2>4. \E held \in [0..Len(queue') -> SUBSET Number], on \in SUBSET Number :
            /\ History(queue', held, on) /\ Pushed(on, down')
            /\ \A k \in Number \ lost' : kbd_status'[k] <=> k \in held[0]
    BY <2>1, DecodeTracked
  <2>5. Understood'
    <3>1. InRegister \in Byte /\ Nothing \notin Byte
      BY <2>2 DEF Nothing, Byte
    <3> QED
      BY <2>1, <2>2, DecodeTracked DEF Understood
  <2>6. (InRegister.code = KEY_INSERT) = FALSE
    BY <2>3
  <2> QED
    BY <2>2, <2>3, <2>4, <2>5, <2>6 DEF Tracked
<1>4. CASE Drain
  <2>1. /\ pc \in {"drain", "halfway"} /\ ready > 0 /\ ReadByte /\ lost' = lost \cup {InRegister.key}
        /\ pc' = (IF InRegister.code = KEY_INSERT THEN "halfway" ELSE "drain")
        /\ UNCHANGED <<kbd_status, kbd_n, shifted, told>>
    BY <1>4 DEF Drain, handler
  <2>2. Flow(queue', InRegister.code = KEY_INSERT)
    BY <2>1, ReadTracked
  <2>3. AfterPrefix' = (InRegister.code = KEY_INSERT)
    BY <2>1 DEF AfterPrefix
  <2>4. PICK h \in [0..Len(queue') -> SUBSET Number], on \in SUBSET Number :
            /\ History(queue', h, on) /\ Pushed(on, down')
            /\ \A k \in Number \ lost : (InRegister.last /\ k = InRegister.key) \/ (kbd_status[k] <=> k \in h[0])
    BY <2>1, ReadTracked
  <2>5. \A k \in Number \ lost' : kbd_status'[k] <=> k \in h[0]
    BY <2>1, <2>4
  <2>6. Understood'
    BY <2>1 DEF Understood, Tracked
  <2> QED
    BY <2>2, <2>3, <2>4, <2>5, <2>6 DEF Tracked
<1> QED
  BY <1>1, <1>2, <1>3, <1>4 DEF Handlers

-----------------------------------------------------------------------------
\* The invariant holds of all keys and interrupts (kbd.c, pckbd.c, trap.c).
THEOREM Invariant == Spec => []IInv
<1>1. Init => IInv
  <2> SUFFICES ASSUME Init PROVE IInv
    OBVIOUS
  <2>1. {irq, shifted, whole, edge} \subseteq BOOLEAN
    BY Zenon DEF Init
  <2>2. kbd_status \in [Number \cup {KEY_RESERVED, KEY_INSERT} -> BOOLEAN]
    BY Zenon DEF Init
  <2>3. queue \in Seq(Byte) /\ ready \in 0..Len(queue)
    BY DEF Init
  <2>4. /\ down \subseteq Key /\ lost \subseteq Number /\ told \in Byte \cup {Nothing}
        /\ kbd_n \in Number \cup {KEY_RESERVED, KEY_INSERT} /\ pc = "idle" /\ mishap = {}
    BY DEF Init
  <2> QED
    BY <2>1, <2>2, <2>3, <2>4, InitTracked DEF IInv, TypeOK
<1>2. IInv /\ [Next]_vars => IInv'
  <2> SUFFICES ASSUME IInv, [Next]_vars PROVE IInv'
    OBVIOUS
  <2>1. Types
    BY DEF IInv, Types
  <2>2. CASE UNCHANGED vars
    BY <2>2 DEF vars, IInv, TypeOK, line, handler, machine, Tracked, AfterPrefix, Understood
  <2>3. ASSUME NEW k \in Key, Push(k) \/ Release(k) PROVE IInv'
    <3>1. Types'
      BY <2>1, <2>3, KeysType
    <3>2. mishap' = mishap
      BY <2>3 DEF Push, Release
    <3> QED
      BY <2>1, <2>3, <3>1, <3>2, KeyTracked DEF IInv, Types
  <2>4. CASE Arrive
    <3>1. Types'
      BY <2>1, <2>4, KeysType
    <3>2. UNCHANGED <<queue, down, handler, pc, told, lost, mishap>>
      BY <2>4 DEF Arrive
    <3>3. Tracked => Tracked'
      BY <3>2 DEF Tracked, AfterPrefix, Understood, handler
    <3> QED
      BY <3>1, <3>2, <3>3 DEF IInv, Types
  <2>5. CASE Handlers
    <3>1. Types'
      BY <2>1, <2>5, HandlersType
    <3>2. mishap' = {} => mishap = {}
      BY <2>5 DEF Handlers, Interrupt, ReadKey, ReadRelease, Deliver, Complete, Timer, Drain, Drained
    <3> QED
      BY <2>1, <2>5, <3>1, <3>2, HandlersTracked DEF IInv, Types
  <2> QED
    BY <2>2, <2>3, <2>4, <2>5 DEF Next
<1> QED
  BY <1>1, <1>2, PTL DEF Spec

\* The keyboard's path keeps its types, for every set of keys: kbd_status has an
\* entry for whatever byte kbd_irq takes, and the controller offers no more
\* than was sent.
THEOREM TypeCorrect == Spec => []TypeOK
<1>1. IInv => TypeOK
  BY DEF IInv
<1> QED
  BY <1>1, Invariant, PTL

\* Every delivery is the last byte kbd_irq read: the key it ends, pushed or
\* released as it was, or key number 0 for an E0 and for no byte, however long
\* bytes wait and whatever the timer throws away, as long as no break prefix was
\* parted from its key (kbd.c:35-70, trap.c:26-28).
THEOREM KeysDelivered == Spec => []KeyFaithful
<1>1. IInv => KeyFaithful
  BY DEF IInv, Tracked, Understood, KeyFaithful
<1> QED
  BY <1>1, Invariant, PTL

\* Its character is the upper one exactly if a shift key was held when it was
\* sent, not when it is read (kbd.c:56-63).
THEOREM CharacterChosen == Spec => []ShiftFaithful
<1>1. IInv => ShiftFaithful
  BY DEF IInv, Tracked, Understood, ShiftFaithful
<1> QED
  BY <1>1, Invariant, PTL

\* No number sticks: once all bytes are read, a number that is pushed is that of a
\* key that is held, and a held key's that is no other key's is pushed, but for
\* numbers whose last change the timer threw away (kbd.c:43-47, kbdmap.c:12-44,
\* trap.c:26-28).
THEOREM NoKeySticks == Spec => []StatusFaithful
<1>1. ASSUME IInv PROVE StatusFaithful
  <2> SUFFICES ASSUME queue = << >>, mishap = {}
               PROVE  /\ \A n \in Number \ lost : kbd_status[n] => \E k \in down : keymap[k] = n
                      /\ \A k \in down : Sole(k) /\ keymap[k] \notin lost => kbd_status[keymap[k]]
    BY DEF StatusFaithful
  <2>1. Tracked /\ Len(queue) = 0 /\ \A k \in down : keymap[k] \in Number
    BY <1>1, KeysAssumption DEF IInv, TypeOK
  <2>2. PICK held \in [0..Len(queue) -> SUBSET Number], on \in SUBSET Number :
            /\ History(queue, held, on) /\ Pushed(on, down)
            /\ \A n \in Number \ lost : kbd_status[n] <=> n \in held[0]
    BY <2>1 DEF Tracked
  <2>3. held[0] = on
    BY <2>1, <2>2 DEF History
  <2>4. \A n \in Number \ lost : kbd_status[n] <=> n \in on
    BY <2>2, <2>3
  <2> QED
    BY <2>1, <2>2, <2>4 DEF Pushed
<1> QED
  BY <1>1, Invariant, PTL
=============================================================================

---------------------------- MODULE LegacyPorts -----------------------------
(***************************************************************************)
(* The two ISA devices a Linux guest still touches: the 8254 counter       *)
(* (pit.rs), a function of the virtual clock that the guest calibrates its *)
(* TSC with, and the pair of masked 8259s (pic.rs).  Both belong to the    *)
(* vCPU thread; a port access is one exit, and time passes between two.    *)
(***************************************************************************)
EXTENDS Integers

CONSTANT TscHz   \* the guest's TSC frequency

\* PIT_FREQ_HZ.
PitFreqHz == 1193182

Byte == 0..255
Count == {n \in Nat : n <= 65535}
Channels == 0..2
Chips == {"master", "slave"}

VARIABLES
  now,   \* vtsc
  ch,    \* PitStub.channels
  elcr,  \* PitStub.elcr
  pic,   \* PicStub
  data,  \* the byte the guest read last
  view,  \* history: the count the guest asked to be latched, and whether it
         \* has read the low half of it
  owed   \* history: the initialisation words the guest still owes each 8259

vars == <<now, ch, elcr, pic, data, view, owed>>
-----------------------------------------------------------------------------
(* The counter. *)

\* AccessMode and from_bits.
AccessModes == {"LoByte", "HiByte", "LoHiByte"}

FromBits(bits) == CASE bits = 1 -> "LoByte" [] bits = 2 -> "HiByte" [] OTHER -> "LoHiByte"

\* latched: None.
Unlatched == -1

Channel ==
  [access : AccessModes, writeLoNext : BOOLEAN, writeLoLatch : Byte, initial : Count,
   anchor : Nat, readLoNext : BOOLEAN, latched : Count \cup {Unlatched}]

\* Channel::default.
NewChannel ==
  [access |-> "LoHiByte", writeLoNext |-> TRUE, writeLoLatch |-> 0,
   initial |-> 65535, anchor |-> 0, readLoNext |-> TRUE, latched |-> Unlatched]

\* pit_ticks_since, with its saturating subtraction.
PitTicksSince(anchor, t) ==
  LET dv == IF t > anchor THEN t - anchor ELSE 0 IN (dv * PitFreqHz) \div TscHz

\* counter: 16 bits, free running.
Counter(c, t) == (c.initial - PitTicksSince(c.anchor, t)) % 65536

\* latch: a count that is held already is kept.
Latch(c, t) ==
  IF c.latched = Unlatched
  THEN [c EXCEPT !.latched = Counter(c, t), !.readLoNext = TRUE] ELSE c

\* program.
Program(c, mode) ==
  [c EXCEPT !.access = mode, !.readLoNext = TRUE, !.writeLoNext = TRUE,
            !.latched = Unlatched]

\* read_byte: the byte, ...
ReadByte(c, t) ==
  LET value == IF c.latched = Unlatched THEN Counter(c, t) ELSE c.latched
      low == c.access = "LoByte" \/ (c.access = "LoHiByte" /\ c.readLoNext)
  IN IF low THEN value % 256 ELSE value \div 256

\* ... and what it leaves: the latch goes with the last byte of the count.
AfterRead(c) ==
  IF c.access = "LoHiByte" /\ c.readLoNext
  THEN [c EXCEPT !.readLoNext = FALSE]
  ELSE [c EXCEPT !.latched = Unlatched,
                 !.readLoNext = IF c.access = "LoHiByte" THEN TRUE ELSE @]

\* write_byte: a count is loaded, and the counter anchored, by its last byte.
WriteByte(c, b, t) ==
  CASE c.access = "LoByte" -> [c EXCEPT !.initial = b, !.anchor = t]
    [] c.access = "HiByte" -> [c EXCEPT !.initial = 256 * b, !.anchor = t]
    [] OTHER ->
         IF c.writeLoNext
         THEN [c EXCEPT !.writeLoLatch = b, !.writeLoNext = FALSE]
         ELSE [c EXCEPT !.initial = 256 * b + c.writeLoLatch, !.writeLoNext = TRUE,
                        !.anchor = t]

\* The fields of a control word.
Select(cw) == cw \div 64
Access(cw) == (cw \div 16) % 4
ReadBack(cw, i) ==
  /\ Select(cw) = 3 /\ (cw \div 32) % 2 = 0
  /\ (cw \div (CASE i = 0 -> 2 [] i = 1 -> 4 [] OTHER -> 8)) % 2 = 1

\* A control word latches a channel by the latch or the read-back command, and
\* programs it otherwise.
Latches(cw, i) == ReadBack(cw, i) \/ (Select(cw) = i /\ Access(cw) = 0)
Programs(cw, i) == Select(cw) = i /\ Access(cw) # 0

\* write_control.
WriteControl(cw, i) ==
  IF Latches(cw, i) THEN Latch(ch[i], now)
  ELSE IF Programs(cw, i) THEN Program(ch[i], FromBits(Access(cw))) ELSE ch[i]
-----------------------------------------------------------------------------
(* The 8259s. *)

Pic8259 == [imr : Byte, icwStep : 0..4, expectIcw4 : BOOLEAN]

\* Pic8259::new.
NewPic == [imr |-> 255, icwStep |-> 0, expectIcw4 |-> FALSE]

\* ICW1 is a command with bit 4; bit 0 of it announces an ICW4.
IsIcw1(b) == (b \div 16) % 2 = 1
AsksIcw4(b) == b % 2 = 1

\* write_cmd: the other commands do nothing, since nothing is in service.
WriteCmd(p, b) ==
  IF IsIcw1(b)
  THEN [imr |-> p.imr, icwStep |-> 1, expectIcw4 |-> AsksIcw4(b)] ELSE p

\* write_data: a word of the initialisation, or the mask.
WriteData(p, b) ==
  CASE p.icwStep \in {1, 2} -> [p EXCEPT !.icwStep = @ + 1]
    [] p.icwStep = 3 -> [p EXCEPT !.icwStep = IF p.expectIcw4 THEN 4 ELSE 0]
    [] p.icwStep = 4 -> [p EXCEPT !.icwStep = 0]
    [] OTHER -> [p EXCEPT !.imr = b]

\* read_data.
ReadData(p) == p.imr
-----------------------------------------------------------------------------
(* Port accesses. *)

\* The guest has asked for no count.
NoView == [snap |-> Unlatched, half |-> FALSE]

Init ==
  /\ now = 0 /\ data = 0
  /\ ch = [i \in Channels |-> NewChannel] /\ elcr = [p \in Chips |-> 0]
  /\ pic = [p \in Chips |-> NewPic]
  /\ view = [i \in Channels |-> NoView] /\ owed = [p \in Chips |-> 0]

\* vtsc advances, or is jumped forward.
Elapse ==
  /\ \E dv \in Nat : now' = now + dv
  /\ UNCHANGED <<ch, elcr, pic, data, view, owed>>

\* The guest's own account of a read: a count of two bytes takes two reads.
Half(i) == ch[i].access = "LoHiByte" /\ ~view[i].half

\* read_at, ports 0x40 to 0x42.
PitRead(i) ==
  /\ data' = ReadByte(ch[i], now)
  /\ ch' = [ch EXCEPT ![i] = AfterRead(ch[i])]
  /\ view' = [view EXCEPT ![i] = IF view[i].snap # Unlatched /\ Half(i)
                                 THEN [snap |-> view[i].snap, half |-> TRUE] ELSE NoView]
  /\ UNCHANGED <<now, elcr, pic, owed>>

\* write_at, ports 0x40 to 0x42.
PitWrite(i, b) ==
  /\ ch' = [ch EXCEPT ![i] = WriteByte(ch[i], b, now)]
  /\ UNCHANGED <<now, elcr, pic, data, view, owed>>

\* The guest's own account of a control word.
Noted(cw, i) ==
  IF Latches(cw, i) /\ view[i].snap = Unlatched
  THEN [snap |-> Counter(ch[i], now), half |-> FALSE]
  ELSE IF Programs(cw, i) THEN NoView ELSE view[i]

\* write_at, port 0x43.
PitControl(cw) ==
  /\ ch' = [i \in Channels |-> WriteControl(cw, i)]
  /\ view' = [i \in Channels |-> Noted(cw, i)]
  /\ UNCHANGED <<now, elcr, pic, data, owed>>

\* The trigger-mode registers are storage.
ElcrRead(p) == data' = elcr[p] /\ UNCHANGED <<now, ch, elcr, pic, view, owed>>
ElcrWrite(p, b) ==
  elcr' = [elcr EXCEPT ![p] = b] /\ UNCHANGED <<now, ch, pic, data, view, owed>>

\* PicStub::write and read.  ICW1 owes ICW2, ICW3 and, if it says so, ICW4.
PicCmd(p, b) ==
  /\ pic' = [pic EXCEPT ![p] = WriteCmd(pic[p], b)]
  /\ owed' = [owed EXCEPT ![p] = IF ~IsIcw1(b) THEN owed[p]
                                 ELSE IF AsksIcw4(b) THEN 3 ELSE 2]
  /\ UNCHANGED <<now, ch, elcr, data, view>>

PicData(p, b) ==
  /\ pic' = [pic EXCEPT ![p] = WriteData(pic[p], b)]
  /\ owed' = [owed EXCEPT ![p] = IF owed[p] > 0 THEN owed[p] - 1 ELSE 0]
  /\ UNCHANGED <<now, ch, elcr, data, view>>

PicRead(p) == data' = ReadData(pic[p]) /\ UNCHANGED <<now, ch, elcr, pic, view, owed>>

Next ==
  \/ Elapse
  \/ \E i \in Channels : PitRead(i) \/ \E b \in Byte : PitWrite(i, b)
  \/ \E b \in Byte : PitControl(b)
  \/ \E p \in Chips : \/ ElcrRead(p) \/ PicRead(p)
                      \/ \E b \in Byte : ElcrWrite(p, b) \/ PicCmd(p, b) \/ PicData(p, b)

Spec == Init /\ [][Next]_vars
-----------------------------------------------------------------------------
(* Properties. *)

TypeOK ==
  /\ now \in Nat /\ data \in Byte
  /\ ch \in [Channels -> Channel] /\ elcr \in [Chips -> Byte]
  /\ pic \in [Chips -> Pic8259]
  /\ view \in [Channels -> [snap : Count \cup {Unlatched}, half : BOOLEAN]]
  /\ owed \in [Chips -> 0..3]

\* A latched count is read whole: both bytes are of the count at the instant of
\* the first latch command since the last whole read, whatever the clock, loads
\* of a new count, further latch commands or reads before it did to the
\* flip-flop (read_byte, latch, program, write_byte).
LatchIsOneInstant ==
  [][\A i \in Channels :
       (PitRead(i) /\ view[i].snap # Unlatched) =>
         data' = IF ch[i].access = "LoByte" \/ Half(i)
                 THEN view[i].snap % 256 ELSE view[i].snap \div 256]_vars

\* No word of an initialisation sequence becomes the interrupt mask (write_data).
InitWordIsNoMask ==
  [][\A p \in Chips, b \in Byte :
       (PicData(p, b) /\ owed[p] > 0) => pic'[p].imr = pic[p].imr]_vars
=============================================================================

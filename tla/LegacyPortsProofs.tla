------------------------- MODULE LegacyPortsProofs --------------------------
(***************************************************************************)
(* Proofs about LegacyPorts, for every TSC frequency.                      *)
(***************************************************************************)
EXTENDS LegacyPorts, TLAPS

\* What the counter shows and what a read returns have their widths.
LEMMA CounterType ==
  ASSUME TscHz \in Nat \ {0}, NEW c \in Channel, NEW t \in Nat
  PROVE  Counter(c, t) \in Count
<1> DEFINE dv == IF t > c.anchor THEN t - c.anchor ELSE 0
           n == c.initial - PitTicksSince(c.anchor, t)
<1>1. c.anchor \in Nat /\ c.initial \in Nat
  BY DEF Channel, Count
<1>2. dv \in Nat
  BY <1>1
<1>3. dv * PitFreqHz \in Nat
  BY <1>2 DEF PitFreqHz
<1>4. PitTicksSince(c.anchor, t) \in Nat
  <2>1. \A m \in Nat : m \div TscHz \in Nat
    BY SMT
  <2>2. PitTicksSince(c.anchor, t) = (dv * PitFreqHz) \div TscHz
    BY Zenon DEF PitTicksSince
  <2> QED BY <1>3, <2>1, <2>2
<1>5. n \in Int
  BY <1>1, <1>4
<1>6. \A k \in Int : k % 65536 \in Nat /\ k % 65536 <= 65535
  BY SMT
<1> QED BY <1>5, <1>6 DEF Counter, Count

LEMMA ReadType ==
  ASSUME TscHz \in Nat \ {0}, NEW c \in Channel, NEW t \in Nat
  PROVE  ReadByte(c, t) \in Byte
<1> DEFINE value == IF c.latched = Unlatched THEN Counter(c, t) ELSE c.latched
<1>1. value \in Count
  BY CounterType DEF Channel
<1>2. value % 256 \in Byte /\ value \div 256 \in Byte
  BY <1>1 DEF Count, Byte
<1> QED BY <1>2 DEF ReadByte

\* The counter's operations make channels from channels.
LEMMA ChannelType ==
  ASSUME TscHz \in Nat \ {0}, NEW c \in Channel, NEW t \in Nat
  PROVE  /\ Latch(c, t) \in Channel
         /\ \A mode \in AccessModes : Program(c, mode) \in Channel
         /\ AfterRead(c) \in Channel
         /\ \A b \in Byte : WriteByte(c, b, t) \in Channel
<1>1. Latch(c, t) \in Channel
  BY CounterType DEF Latch, Channel
<1>2. \A mode \in AccessModes : Program(c, mode) \in Channel
  BY DEF Program, Channel
<1>3. AfterRead(c) \in Channel
  BY DEF AfterRead, Channel
<1>4. ASSUME NEW b \in Byte PROVE WriteByte(c, b, t) \in Channel
  <2>1. b \in Count /\ 256 * b \in Count
    BY DEF Byte, Count
  <2>2. 256 * b + c.writeLoLatch \in Count
    BY DEF Byte, Count, Channel
  <2> QED BY <2>1, <2>2, ZenonT(60) DEF WriteByte, Channel
<1> QED BY <1>1, <1>2, <1>3, <1>4

LEMMA PicType ==
  ASSUME NEW p \in Pic8259, NEW b \in Byte
  PROVE  WriteCmd(p, b) \in Pic8259 /\ WriteData(p, b) \in Pic8259
<1>1. WriteCmd(p, b) \in Pic8259
  <2>1. p.imr \in Byte
    BY DEF Pic8259
  <2>2. 1 \in 0..4
    OBVIOUS
  <2>3. AsksIcw4(b) \in BOOLEAN
    BY Zenon DEF AsksIcw4
  <2> QED BY Zenon, <2>1, <2>2, <2>3 DEF WriteCmd, Pic8259
<1>2. WriteData(p, b) \in Pic8259
  BY DEF WriteData, Pic8259
<1> QED BY <1>1, <1>2
-----------------------------------------------------------------------------
\* What the guest thinks is latched is latched, and when it expects the second
\* half the flip-flop is at the second half.
ViewIsTrue ==
  \A i \in Channels :
    /\ view[i].snap = ch[i].latched
    /\ ch[i].latched # Unlatched =>
         (view[i].half <=> (ch[i].access = "LoHiByte" /\ ~ch[i].readLoNext))

\* What a chip waits for after its ICW1: the words it is owed, and after them
\* one more.
Owes(p) ==
  owed[p] = CASE pic[p].icwStep = 1 -> IF pic[p].expectIcw4 THEN 3 ELSE 2
              [] pic[p].icwStep = 2 -> IF pic[p].expectIcw4 THEN 2 ELSE 1
              [] pic[p].icwStep = 3 -> IF pic[p].expectIcw4 THEN 1 ELSE 0
              [] OTHER -> 0

Inv == TypeOK /\ ViewIsTrue /\ \A p \in Chips : Owes(p)

LEMMA InitInv == ASSUME Init PROVE Inv
<1>1. TypeOK
  BY DEF Init, TypeOK, Channel, NewChannel, AccessModes, Byte, Count, Pic8259, NewPic,
         NoView, Unlatched
<1>2. ViewIsTrue
  BY DEF Init, ViewIsTrue, NewChannel, NoView
<1>3. \A p \in Chips : Owes(p)
  BY DEF Init, Owes, NewPic
<1> QED BY <1>1, <1>2, <1>3 DEF Inv

\* The counter's ports leave the other devices and what they are owed alone.
LEMMA PitKeepsInv ==
  ASSUME TscHz \in Nat \ {0}, Inv,
         \/ \E i \in Channels : PitRead(i) \/ \E b \in Byte : PitWrite(i, b)
         \/ \E b \in Byte : PitControl(b)
  PROVE  Inv'
<1>1. UNCHANGED <<now, elcr, pic, owed>>
  BY Zenon DEF PitRead, PitWrite, PitControl
<1>2. \A p \in Chips : Owes(p)'
  BY <1>1 DEF Inv, Owes
<1>3. TypeOK /\ ViewIsTrue
  BY DEF Inv
<1>4. ASSUME NEW i \in Channels, PitRead(i) PROVE TypeOK' /\ ViewIsTrue'
  <2>1. ch[i] \in Channel
    BY <1>3 DEF TypeOK
  <2>2. ch' \in [Channels -> Channel] /\ data' \in Byte
    BY <1>3, <1>4, <2>1, ChannelType, ReadType DEF TypeOK, PitRead
  <2>3. view' \in [Channels -> [snap : Count \cup {Unlatched}, half : BOOLEAN]]
    BY <1>3, <1>4 DEF TypeOK, PitRead, NoView, Count, Unlatched
  <2>4. ASSUME NEW j \in Channels, j # i PROVE ch'[j] = ch[j] /\ view'[j] = view[j]
    BY <1>3, <1>4, <2>4 DEF TypeOK, PitRead
  <2>5. /\ ch'[i] = AfterRead(ch[i])
        /\ view'[i] = IF view[i].snap # Unlatched /\ Half(i)
                      THEN [snap |-> view[i].snap, half |-> TRUE] ELSE NoView
    BY <1>3, <1>4 DEF TypeOK, PitRead
  <2>6. /\ view[i].snap = ch[i].latched
        /\ ch[i].latched # Unlatched =>
             (view[i].half <=> (ch[i].access = "LoHiByte" /\ ~ch[i].readLoNext))
        /\ view[i] \in [snap : Count \cup {Unlatched}, half : BOOLEAN]
    BY <1>3 DEF ViewIsTrue, TypeOK
  <2>7. /\ view'[i].snap = ch'[i].latched
        /\ ch'[i].latched # Unlatched =>
             (view'[i].half <=> (ch'[i].access = "LoHiByte" /\ ~ch'[i].readLoNext))
    BY <2>1, <2>5, <2>6 DEF AfterRead, Half, NoView, Channel
  <2> QED BY <1>1, <1>3, <2>2, <2>3, <2>4, <2>7 DEF TypeOK, ViewIsTrue
<1>5. ASSUME NEW i \in Channels, NEW b \in Byte, PitWrite(i, b) PROVE TypeOK' /\ ViewIsTrue'
  <2>1. ch[i] \in Channel
    BY <1>3 DEF TypeOK
  <2>2. ch' \in [Channels -> Channel] /\ UNCHANGED <<data, view>>
    BY <1>3, <1>5, <2>1, ChannelType DEF TypeOK, PitWrite
  <2>3. ASSUME NEW j \in Channels, j # i PROVE ch'[j] = ch[j]
    BY <1>3, <1>5, <2>3 DEF TypeOK, PitWrite
  <2>4. ch'[i] = WriteByte(ch[i], b, now)
    BY <1>3, <1>5 DEF TypeOK, PitWrite
  <2>5. /\ ch'[i].latched = ch[i].latched /\ ch'[i].access = ch[i].access
        /\ ch'[i].readLoNext = ch[i].readLoNext
    BY <2>1, <2>4 DEF WriteByte, Channel
  <2> QED BY <1>1, <1>3, <2>2, <2>3, <2>5 DEF TypeOK, ViewIsTrue
<1>6. ASSUME NEW b \in Byte, PitControl(b) PROVE TypeOK' /\ ViewIsTrue'
  <2>1. /\ ch' = [i \in Channels |-> WriteControl(b, i)]
        /\ view' = [i \in Channels |-> Noted(b, i)]
        /\ data' = data
    BY <1>6 DEF PitControl
  <2>2. ASSUME NEW i \in Channels
        PROVE  /\ WriteControl(b, i) \in Channel
               /\ Noted(b, i) \in [snap : Count \cup {Unlatched}, half : BOOLEAN]
               /\ Noted(b, i).snap = WriteControl(b, i).latched
               /\ WriteControl(b, i).latched # Unlatched =>
                    (Noted(b, i).half <=>
                       (WriteControl(b, i).access = "LoHiByte" /\ ~WriteControl(b, i).readLoNext))
    <3>1. /\ ch[i] \in Channel /\ now \in Nat
          /\ view[i] \in [snap : Count \cup {Unlatched}, half : BOOLEAN]
          /\ view[i].snap = ch[i].latched
          /\ ch[i].latched # Unlatched =>
               (view[i].half <=> (ch[i].access = "LoHiByte" /\ ~ch[i].readLoNext))
      BY <1>3 DEF TypeOK, ViewIsTrue
    <3>2. CASE Latches(b, i)
      <4>1. Counter(ch[i], now) \in Count /\ Unlatched \notin Count
        BY <3>1, CounterType DEF Count, Unlatched
      <4>2. WriteControl(b, i) = Latch(ch[i], now)
        BY <3>2 DEF WriteControl
      <4>3. WriteControl(b, i) \in Channel
        BY <3>1, <4>2, ChannelType
      <4>4. CASE view[i].snap = Unlatched
        <5>1. Noted(b, i) = [snap |-> Counter(ch[i], now), half |-> FALSE]
          BY <3>2, <4>4 DEF Noted
        <5>2. /\ WriteControl(b, i).latched = Counter(ch[i], now)
              /\ WriteControl(b, i).readLoNext = TRUE
          BY <3>1, <4>2, <4>4 DEF Latch, Channel
        <5> QED BY <4>1, <4>3, <5>1, <5>2
      <4>5. CASE view[i].snap # Unlatched
        <5>1. ~Programs(b, i)
          BY <3>2 DEF Latches, Programs, ReadBack, Channels
        <5>2. Noted(b, i) = view[i] /\ WriteControl(b, i) = ch[i]
          BY <3>1, <4>2, <4>5, <5>1 DEF Noted, Latch
        <5> QED BY <3>1, <5>2
      <4> QED BY <4>4, <4>5
    <3>3. CASE ~Latches(b, i) /\ Programs(b, i)
      <4>1. FromBits(Access(b)) \in AccessModes
        BY DEF FromBits, AccessModes
      <4>2. WriteControl(b, i) = Program(ch[i], FromBits(Access(b))) /\ Noted(b, i) = NoView
        BY <3>3 DEF WriteControl, Noted
      <4>3. WriteControl(b, i) \in Channel
        BY <3>1, <4>1, <4>2, ChannelType
      <4>4. WriteControl(b, i).latched = Unlatched
        BY <3>1, <4>2 DEF Program, Channel
      <4> QED BY <4>2, <4>3, <4>4 DEF NoView
    <3>4. CASE ~Latches(b, i) /\ ~Programs(b, i)
      BY <3>1, <3>4 DEF WriteControl, Noted
    <3> QED BY <3>2, <3>3, <3>4
  <2>3. ch' \in [Channels -> Channel]
    BY <2>1, <2>2
  <2>4. view' \in [Channels -> [snap : Count \cup {Unlatched}, half : BOOLEAN]]
    BY <2>1, <2>2
  <2>5. ViewIsTrue'
    BY <2>1, <2>2 DEF ViewIsTrue
  <2> QED BY <1>1, <1>3, <2>1, <2>3, <2>4, <2>5 DEF TypeOK
<1> QED BY <1>2, <1>4, <1>5, <1>6 DEF Inv

\* The other ports leave the counter and the guest's view of it alone.
LEMMA PicKeepsInv ==
  ASSUME Inv, NEW p \in Chips,
         \/ ElcrRead(p) \/ PicRead(p)
         \/ \E b \in Byte : ElcrWrite(p, b) \/ PicCmd(p, b) \/ PicData(p, b)
  PROVE  Inv'
<1>1. UNCHANGED <<now, ch, view>>
  BY Zenon DEF ElcrRead, PicRead, ElcrWrite, PicCmd, PicData
<1>2. ViewIsTrue'
  BY <1>1 DEF Inv, ViewIsTrue
<1>3. TypeOK /\ Owes(p) /\ pic[p] \in Pic8259 /\ owed[p] \in 0..3
  BY DEF Inv, TypeOK
<1>4. CASE ElcrRead(p) \/ PicRead(p) \/ \E b \in Byte : ElcrWrite(p, b)
  <2>1. TypeOK'
    BY <1>1, <1>3, <1>4 DEF TypeOK, ElcrRead, PicRead, ElcrWrite, ReadData, Pic8259
  <2>2. \A q \in Chips : Owes(q)'
    BY <1>4 DEF Inv, Owes, ElcrRead, PicRead, ElcrWrite
  <2> QED BY <1>2, <2>1, <2>2 DEF Inv
<1>5. ASSUME NEW b \in Byte, PicCmd(p, b) \/ PicData(p, b) PROVE Inv'
  <2>1. UNCHANGED <<elcr, data>>
    BY <1>5 DEF PicCmd, PicData
  <2>2. pic' \in [Chips -> Pic8259]
    <3>1. WriteCmd(pic[p], b) \in Pic8259 /\ WriteData(pic[p], b) \in Pic8259
      BY <1>3, PicType
    <3> QED BY <1>3, <1>5, <3>1 DEF PicCmd, PicData, TypeOK
  <2>3. owed' \in [Chips -> 0..3]
    BY <1>3, <1>5 DEF PicCmd, PicData, TypeOK
  <2>4. ASSUME NEW q \in Chips, q # p PROVE pic'[q] = pic[q] /\ owed'[q] = owed[q]
    BY <1>3, <1>5, <2>4 DEF PicCmd, PicData, TypeOK
  <2>5. Owes(p)'
    <3>1. CASE PicCmd(p, b)
      <4>1. /\ pic'[p] = WriteCmd(pic[p], b)
            /\ owed'[p] = IF ~IsIcw1(b) THEN owed[p] ELSE IF AsksIcw4(b) THEN 3 ELSE 2
        BY <1>3, <3>1 DEF PicCmd, TypeOK
      <4>2. CASE IsIcw1(b)
        <5>1. pic'[p].icwStep = 1 /\ (pic'[p].expectIcw4 <=> AsksIcw4(b))
          BY <1>3, <4>1, <4>2 DEF WriteCmd, Pic8259
        <5> QED BY <4>1, <4>2, <5>1 DEF Owes
      <4>3. CASE ~IsIcw1(b)
        BY <1>3, <4>1, <4>3 DEF WriteCmd, Owes
      <4> QED BY <4>2, <4>3
    <3>2. CASE PicData(p, b)
      <4>1. /\ pic'[p] = WriteData(pic[p], b)
            /\ owed'[p] = IF owed[p] > 0 THEN owed[p] - 1 ELSE 0
        BY <1>3, <3>2 DEF PicData, TypeOK
      <4> QED BY <1>3, <4>1 DEF WriteData, Owes, Pic8259
    <3> QED BY <1>5, <3>1, <3>2
  <2>6. \A q \in Chips : Owes(q)'
    BY <2>4, <2>5 DEF Inv, Owes
  <2> QED BY <1>1, <1>2, <1>3, <2>1, <2>2, <2>3, <2>6 DEF Inv, TypeOK
<1> QED BY <1>4, <1>5

LEMMA NextInv == ASSUME TscHz \in Nat \ {0}, Inv, [Next]_vars PROVE Inv'
<1>1. CASE UNCHANGED vars
  BY <1>1 DEF vars, Inv, TypeOK, ViewIsTrue, Owes
<1>2. CASE Elapse
  BY <1>2 DEF Elapse, Inv, TypeOK, ViewIsTrue, Owes
<1> QED BY <1>1, <1>2, PitKeepsInv, PicKeepsInv DEF Next

\* Inv holds whatever the guest does on these ports.
LEMMA Invariant == ASSUME TscHz \in Nat \ {0} PROVE Spec => []Inv
<1>1. Init => Inv
  BY InitInv
<1>2. Inv /\ [Next]_vars => Inv'
  BY NextInv
<1> QED BY <1>1, <1>2, PTL DEF Spec
-----------------------------------------------------------------------------
\* A latched count is read whole (Channel::latch, read_byte): with the guest's
\* view in step with the flip-flop, a read answers from the latch.
THEOREM LatchSound == ASSUME TscHz \in Nat \ {0} PROVE Spec => LatchIsOneInstant
<1>1. ASSUME Inv, NEW i \in Channels, PitRead(i), view[i].snap # Unlatched
      PROVE  data' = IF ch[i].access = "LoByte" \/ Half(i)
                     THEN view[i].snap % 256 ELSE view[i].snap \div 256
  <2>1. ch[i] \in Channel /\ view[i].snap = ch[i].latched
    BY <1>1 DEF Inv, TypeOK, ViewIsTrue
  <2>2. view[i].half <=> (ch[i].access = "LoHiByte" /\ ~ch[i].readLoNext)
    BY <1>1, <2>1 DEF Inv, ViewIsTrue
  <2>3. data' = ReadByte(ch[i], now)
    BY <1>1 DEF PitRead
  <2> QED BY <1>1, <2>1, <2>2, <2>3 DEF ReadByte, Half
<1>2. Inv /\ [Next]_vars =>
        [\A i \in Channels :
           (PitRead(i) /\ view[i].snap # Unlatched) =>
             data' = IF ch[i].access = "LoByte" \/ Half(i)
                     THEN view[i].snap % 256 ELSE view[i].snap \div 256]_vars
  BY <1>1
<1> QED BY <1>2, Invariant, PTL DEF Spec, LatchIsOneInstant

\* No initialisation word becomes the mask (Pic8259::write_data): a chip that is
\* owed a word is in the middle of its sequence.
THEOREM MaskSound == ASSUME TscHz \in Nat \ {0} PROVE Spec => InitWordIsNoMask
<1>1. ASSUME Inv, NEW p \in Chips, NEW b \in Byte, PicData(p, b), owed[p] > 0
      PROVE  pic'[p].imr = pic[p].imr
  <2>1. pic[p] \in Pic8259 /\ Owes(p)
    BY <1>1 DEF Inv, TypeOK
  <2>2. pic[p].icwStep \in {1, 2, 3}
    BY <1>1, <2>1 DEF Owes, Pic8259
  <2>3. pic'[p] = WriteData(pic[p], b)
    BY <1>1 DEF PicData, Inv, TypeOK
  <2> QED BY <2>1, <2>2, <2>3 DEF WriteData, Pic8259
<1>2. Inv /\ [Next]_vars =>
        [\A p \in Chips, b \in Byte :
           (PicData(p, b) /\ owed[p] > 0) => pic'[p].imr = pic[p].imr]_vars
  BY <1>1
<1> QED BY <1>2, Invariant, PTL DEF Spec, InitWordIsNoMask

\* The chip takes one word more than ICW1 announces: the mask the guest writes
\* right after ICW1 to ICW4 is swallowed, and the old mask is read back
\* (Pic8259::write_data; pic.rs's own test writes the reset value there).
THEOREM FirstMaskIsSwallowed ==
  ASSUME NEW chip \in Pic8259, NEW icw1 \in Byte, IsIcw1(icw1), AsksIcw4(icw1),
         NEW icw2 \in Byte, NEW icw3 \in Byte, NEW icw4 \in Byte, NEW mask \in Byte
  PROVE  LET begun == WriteData(WriteData(WriteCmd(chip, icw1), icw2), icw3)
         IN ReadData(WriteData(WriteData(begun, icw4), mask)) = ReadData(chip)
<1> DEFINE s1 == WriteCmd(chip, icw1)
           s2 == WriteData(s1, icw2)
           s3 == WriteData(s2, icw3)
           s4 == WriteData(s3, icw4)
           s5 == WriteData(s4, mask)
<1>1. s1 \in Pic8259 /\ s1.icwStep = 1 /\ s1.expectIcw4 /\ s1.imr = chip.imr
  <2>1. AsksIcw4(icw1) = TRUE
    BY Zenon DEF AsksIcw4
  <2> QED BY PicType, <2>1 DEF WriteCmd, Pic8259
<1>2. s2 \in Pic8259 /\ s2.icwStep = 2 /\ s2.expectIcw4 /\ s2.imr = chip.imr
  BY <1>1, PicType DEF WriteData, Pic8259
<1>3. s3 \in Pic8259 /\ s3.icwStep = 3 /\ s3.expectIcw4 /\ s3.imr = chip.imr
  <2>1. s3 \in Pic8259
    BY <1>2, PicType
  <2>2. s3 = WriteData(s2, icw3)
    OBVIOUS
  <2> HIDE DEF s3, s2
  <2> QED BY <1>2, <2>1, <2>2 DEF WriteData, Pic8259
<1>4. s4 \in Pic8259 /\ s4.icwStep = 4 /\ s4.imr = chip.imr
  <2>1. s4 \in Pic8259
    BY <1>3, PicType
  <2>2. s4 = WriteData(s3, icw4)
    BY SMTT(30)
  <2> HIDE DEF s4, s3
  <2> QED BY <1>3, <2>1, <2>2 DEF WriteData, Pic8259
<1>5. s5.imr = chip.imr
  BY <1>4, ZenonT(60) DEF WriteData, Pic8259
<1> QED BY <1>5 DEF ReadData
=============================================================================

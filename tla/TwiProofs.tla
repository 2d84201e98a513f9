------------------------------ MODULE TwiProofs ------------------------------
(***************************************************************************)
(* The I2C master never leaves its buffers and implements RegBus, proved    *)
(* for any number of registers, length of a block, transfers and troubles.  *)
(***************************************************************************)
EXTENDS TwiMaster, TLAPS

-----------------------------------------------------------------------------
(* The inductive invariant, in parts.                                       *)

Fatal   == {"READ_NACK", "DATA_NACK", "BUS"}
Fine    == seen \cap Fatal = {}
Sending == twi.state \in {"TX", "TX_EMPTY"}

\* The register that byte k of a block from register r belongs to.
Place(r, k) == IF r + k - 1 < Size THEN r + k - 1 ELSE r + k - 1 - Size
Slot(k)     == Place(twi.reg, k)

\* The first n bytes of the block are in their registers.
Stored(n) == \A k \in 1 .. n : dev.regs[Slot(k)] = twi.data[k]

\* Where the call is, and what may go on there.
CallInv ==
    /\ pc = "idle" <=> call = "NONE"
    /\ twi.busy <=> pc \in {"clear", "test", "wait"}
    /\ pc = "open" /\ twi.inUse => twi.bufferFree /\ ~twi.addressNACKCheck
    /\ twi.cmd # "NONE" => pc = "wait" /\ ~Event(twi)
    /\ pc = "test" /\ Event(twi) => twi.buserr \/ twi.arblost
    /\ twi.own => twi.busy
    /\ pc # "idle" /\ (twi.buserr \/ twi.arblost) => "BUS" \in seen
    /\ pc = "idle" => ~twi.inUse /\ ~twi.buserr /\ ~twi.arblost
    /\ "READ_NACK" \in seen => call # "WRITE"

\* The buffer in use fits the state: first the register number, then the data.
BufferInv == twi.busy =>
    /\ twi.state \in {"SEND_ADR_WRITE", "TX", "TX_EMPTY", "RX"}
    /\ twi.nack = "RESTART_WRITE"
    /\ twi.buffer = "REG"  => twi.complete = CompleteHandler(call)
    /\ twi.buffer = "DATA" => twi.complete = "STOP"
    /\ twi.ptr > 0 /\ twi.ptr + twi.len = Len(Buffer(twi)) + 1
    /\ twi.len = 0 <=> twi.state = "TX_EMPTY"
    /\ twi.state = "SEND_ADR_WRITE" => twi.buffer = "REG" /\ ~twi.own /\ ~twi.addressNACKCheck
    /\ twi.state = "RX" => twi.buffer = "DATA" /\ call = "READ"
    /\ twi.addressNACKCheck => twi.state \in {"TX", "RX"}
    /\ Sending /\ twi.addressNACKCheck => twi.buffer = "REG" \/ "READ_NACK" \in seen
    /\ Sending /\ twi.buffer = "DATA" => call = "WRITE" \/ "READ_NACK" \in seen

\* What went wrong is remembered.
TroubleInv == twi.busy =>
    /\ twi.state # "SEND_ADR_WRITE" /\ ~twi.own => "BUS" \in seen
    /\ twi.state = "RX" /\ twi.rxack => "READ_NACK" \in seen
    /\ Sending /\ twi.own /\ twi.cmd = "NONE" /\ twi.rxack /\ ~twi.addressNACKCheck
          => "DATA_NACK" \in seen
    /\ pc = "wait" /\ twi.cmd = "NONE" /\ seen = {} => Event(twi)

\* What the TCPC is asked for fits the state.
CmdInv ==
    /\ twi.cmd = "ADR_WRITE" => twi.state = "TX" /\ twi.addressNACKCheck /\ twi.own
    /\ twi.cmd = "ADR_READ"  => twi.state = "RX" /\ twi.addressNACKCheck /\ twi.own /\ ~twi.rxack
    /\ twi.cmd = "TX" => /\ Sending /\ ~twi.addressNACKCheck /\ twi.ptr > 1
                         /\ twi.mdata = Buffer(twi)[twi.ptr - 1]
    /\ twi.cmd = "RX" => twi.state = "RX" /\ ~twi.addressNACKCheck /\ twi.ackact = "ACK"

\* While the register number goes out, the TCPC waits for it and stores nothing.
RegInv == twi.own /\ twi.buffer = "REG" =>
    /\ twi.cmd = "TX" => dev.first
    /\ twi.cmd = "NONE" /\ ~twi.rxack /\ twi.state = "TX" => dev.first
    /\ twi.cmd = "NONE" /\ ~twi.rxack /\ twi.state = "TX_EMPTY" => ~dev.first /\ dev.ptr = twi.reg

\* As long as the master owns the bus, a block is written up to where it is.
WriteInv == twi.own /\ twi.buffer = "DATA" /\ call = "WRITE" =>
    /\ ~dev.first
    /\ twi.cmd = "TX" => dev.ptr = Slot(twi.ptr - 1) /\ Stored(twi.ptr - 2)
    /\ twi.cmd = "NONE" /\ ~twi.rxack => dev.ptr = Slot(twi.ptr) /\ Stored(twi.ptr - 1)

\* As long as nothing fatal happened, a block is read up to where it is.
ReadInv == twi.busy /\ twi.state = "RX" /\ Fine =>
    /\ Stored(twi.ptr - 1)
    /\ twi.cmd # "NONE" => dev.ptr = Slot(twi.ptr)
    /\ twi.cmd = "NONE" => twi.mdata = dev.regs[Slot(twi.ptr)] /\ dev.ptr = Slot(twi.ptr + 1)

\* A call that nothing fatal happened to has moved the whole block.
EndInv == pc = "close" /\ Fine => Stored(Len(twi.data))

IInv == /\ TypeOK /\ CallInv /\ BufferInv /\ TroubleInv /\ CmdInv
        /\ RegInv /\ WriteInv /\ ReadInv /\ EndInv

-----------------------------------------------------------------------------
(* Blocks and registers.                                                    *)

LEMMA Sizes == Size \in Nat /\ MaxLen \in Nat /\ 0 < MaxLen /\ MaxLen <= Size /\ 0 \in Byte
BY TwiAssumption DEF Byte

LEMMA BlockIs ==
    ASSUME NEW d \in Blocks
    PROVE  /\ d \in Seq(Byte) /\ Len(d) \in Nat /\ 0 < Len(d) /\ Len(d) <= MaxLen
           /\ d \in [1 .. Len(d) -> Byte] /\ DOMAIN d = 1 .. Len(d)
<1>1. PICK n \in 1 .. MaxLen : d \in [1 .. n -> Byte]
  BY DEF Blocks
<1>2. n \in Nat /\ 0 < n /\ n <= MaxLen
  BY <1>1, Sizes
<1>3. d \in Seq(Byte) /\ Len(d) = n
  BY <1>1, <1>2
<1> QED
  BY <1>1, <1>2, <1>3

LEMMA BlockPut ==
    ASSUME NEW d \in Blocks, NEW k \in 1 .. Len(d), NEW b \in Byte
    PROVE  [d EXCEPT ![k] = b] \in Blocks /\ Len([d EXCEPT ![k] = b]) = Len(d)
<1> DEFINE e == [d EXCEPT ![k] = b]
<1>1. /\ Len(d) \in Nat /\ 0 < Len(d) /\ Len(d) <= MaxLen /\ d \in [1 .. Len(d) -> Byte]
  BY BlockIs
<1>2. e \in [1 .. Len(d) -> Byte]
  BY <1>1
<1>3. e \in Blocks
  BY <1>1, <1>2, Sizes DEF Blocks
<1>4. Len(e) = Len(d)
  BY <1>1, <1>2
<1> QED
  BY <1>3, <1>4

LEMMA AfterIs == ASSUME NEW r \in Byte PROVE After(r) \in Byte
BY Sizes DEF After, Byte

LEMMA OneByte == <<0>> \in Blocks
<1>1. 1 \in 1 .. MaxLen
  BY Sizes
<1>2. <<0>> \in [1 .. 1 -> Byte]
  BY Sizes
<1> QED
  BY <1>1, <1>2 DEF Blocks

LEMMA PlaceIs ==
    ASSUME NEW r \in Byte, NEW k \in 1 .. Size + 1
    PROVE  /\ Place(r, k) \in Byte
           /\ Place(r, 1) = r
           /\ k <= Size => After(Place(r, k)) = Place(r, k + 1)
BY Sizes DEF Place, After, Byte

LEMMA PlacesDiffer ==
    ASSUME NEW r \in Byte, NEW j \in 1 .. Size, NEW k \in 1 .. Size, j # k
    PROVE  Place(r, j) # Place(r, k)
BY Sizes DEF Place, Byte

\* The one byte in the register buffer.
LEMMA RegBuffer ==
    ASSUME NEW m, m.buffer = "REG" PROVE Len(Buffer(m)) = 1 /\ Buffer(m)[1] = m.reg
BY DEF Buffer

LEMMA DataBuffer ==
    ASSUME NEW m, m.buffer # "REG" PROVE Buffer(m) = m.data
BY DEF Buffer

\* The bytes of either buffer, and its length.
LEMMA BufferIs ==
    ASSUME NEW m \in I2C0_status_t
    PROVE  /\ Len(Buffer(m)) \in Nat /\ 0 < Len(Buffer(m)) /\ Len(Buffer(m)) <= MaxLen
           /\ \A k \in 1 .. Len(Buffer(m)) : Buffer(m)[k] \in Byte
<1>1. m.reg \in Byte /\ m.data \in Blocks /\ m.buffer \in {"REG", "DATA"}
  BY DEF I2C0_status_t
<1>2. CASE m.buffer = "REG"
  <2>1. \A k \in 1 .. 1 : k = 1
    OBVIOUS
  <2>2. Len(Buffer(m)) = 1 /\ Buffer(m)[1] \in Byte
    BY <1>1, <1>2, RegBuffer
  <2>3. Len(Buffer(m)) \in Nat /\ 0 < Len(Buffer(m)) /\ Len(Buffer(m)) <= MaxLen
    BY <2>2, Sizes
  <2> QED
    BY <2>1, <2>2, <2>3
<1>3. CASE m.buffer # "REG"
  BY <1>1, <1>3, DataBuffer, BlockIs
<1> QED
  BY <1>2, <1>3

-----------------------------------------------------------------------------
(* What the bus does: it leaves the buffers and the state alone.            *)

Frame(m, n) ==
    /\ n.inUse = m.inUse /\ n.busy = m.busy /\ n.bufferFree = m.bufferFree
    /\ n.addressNACKCheck = m.addressNACKCheck /\ n.state = m.state
    /\ n.complete = m.complete /\ n.nack = m.nack /\ n.ackact = m.ackact
    /\ n.buffer = m.buffer /\ n.ptr = m.ptr /\ n.len = m.len /\ n.reg = m.reg /\ n.data = m.data

LEMMA FrameBuffer ==
    ASSUME BufferInv, Frame(twi, twi'), call' = call, seen \subseteq seen', twi'.own => twi.own
    PROVE  BufferInv'
BY DEF BufferInv, Frame, Sending, Buffer

LEMMA AckWriteKeeps == ASSUME IInv, AckWrite PROVE IInv'
<1> USE DEF IInv
<1>1. /\ twi'.cmd = "NONE" /\ twi'.wif = TRUE /\ twi'.rxack = FALSE /\ twi'.own = twi.own
      /\ twi'.buserr = twi.buserr /\ twi'.arblost = twi.arblost
      /\ Frame(twi, twi') /\ twi' \in I2C0_status_t
  BY DEF AckWrite, Answer, Done, Frame, TypeOK, I2C0_status_t
<1>2. /\ dev' = [dev EXCEPT !.first = TRUE] /\ dev'.first = TRUE
      /\ pc' = pc /\ call' = call /\ seen' = seen /\ left' = left /\ twi.cmd = "ADR_WRITE"
  BY DEF AckWrite, Answer, TypeOK
<1>3. TypeOK'
  BY <1>1, <1>2 DEF TypeOK
<1>4. pc = "wait" /\ twi.busy /\ twi.state = "TX" /\ twi.addressNACKCheck
  BY <1>2 DEF CallInv, CmdInv
<1>5. CallInv'
  BY <1>1, <1>2 DEF CallInv, Frame
<1>6. BufferInv'
  BY <1>1, <1>2, FrameBuffer
<1>7. TroubleInv'
  BY <1>1, <1>2, <1>4 DEF TroubleInv, Frame, Event, Sending
<1>8. CmdInv'
  BY <1>1 DEF CmdInv
<1>9. RegInv'
  BY <1>1, <1>2, <1>4 DEF RegInv, Frame
<1>10. WriteInv'
  BY <1>1, <1>2, <1>4 DEF WriteInv, Frame, BufferInv, CallInv, Sending
<1>11. ReadInv'
  BY <1>1, <1>4 DEF ReadInv, Frame
<1>12. EndInv'
  BY <1>2, <1>4 DEF EndInv
<1> QED
  BY <1>3, <1>5, <1>6, <1>7, <1>8, <1>9, <1>10, <1>11, <1>12

LEMMA AckReadKeeps == ASSUME IInv, AckRead PROVE IInv'
<1> USE DEF IInv
<1>1. /\ twi'.cmd = "NONE" /\ twi'.rif = TRUE /\ twi'.rxack = FALSE /\ twi'.own = twi.own
      /\ twi'.mdata = dev.regs[dev.ptr]
      /\ twi'.buserr = twi.buserr /\ twi'.arblost = twi.arblost
      /\ Frame(twi, twi') /\ twi' \in I2C0_status_t
  BY DEF AckRead, Answer, Done, Frame, TypeOK, I2C0_status_t
<1>2. /\ dev'.regs = dev.regs /\ dev'.ptr = After(dev.ptr) /\ dev'.first = dev.first
      /\ dev' = [dev EXCEPT !.ptr = After(@)]
      /\ pc' = pc /\ call' = call /\ seen' = seen /\ left' = left /\ twi.cmd = "ADR_READ"
  BY DEF AckRead, Answer, TypeOK
<1>0. After(dev.ptr) \in Byte
  BY AfterIs DEF TypeOK
<1>3. TypeOK'
  BY <1>0, <1>1, <1>2 DEF TypeOK
<1>4. /\ pc = "wait" /\ twi.busy /\ twi.state = "RX" /\ twi.addressNACKCheck
      /\ twi.buffer = "DATA" /\ call = "READ"
  BY <1>2 DEF CallInv, CmdInv, BufferInv
<1>5. CallInv'
  BY <1>1, <1>2 DEF CallInv, Frame
<1>6. BufferInv'
  BY <1>1, <1>2, FrameBuffer
<1>7. TroubleInv'
  BY <1>1, <1>2, <1>4 DEF TroubleInv, Frame, Event, Sending
<1>8. CmdInv'
  BY <1>1 DEF CmdInv
<1>9. RegInv'
  BY <1>1, <1>2, <1>4 DEF RegInv, Frame
<1>10. WriteInv'
  BY <1>1, <1>2, <1>4 DEF WriteInv
<1>11. ReadInv'
  <2> SUFFICES ASSUME Fine PROVE /\ Stored(twi.ptr - 1)'
                                 /\ twi'.mdata = dev'.regs[Slot(twi.ptr)']
                                 /\ dev'.ptr = Slot(twi.ptr + 1)'
    BY <1>1, <1>2 DEF ReadInv, Frame, Fine
  <2>1. Stored(twi.ptr - 1) /\ dev.ptr = Slot(twi.ptr)
    BY <1>2, <1>4 DEF ReadInv
  <2>2. twi.ptr \in 1 .. Size
    BY <1>4, Sizes, BufferIs DEF BufferInv, TypeOK, I2C0_status_t
  <2>3. After(Slot(twi.ptr)) = Slot(twi.ptr + 1)
    BY <2>2, Sizes, PlaceIs DEF Slot, TypeOK, I2C0_status_t
  <2> QED
    BY <1>1, <1>2, <2>1, <2>3 DEF Stored, Slot, Frame
<1>12. EndInv'
  BY <1>2, <1>4 DEF EndInv
<1> QED
  BY <1>3, <1>5, <1>6, <1>7, <1>8, <1>9, <1>10, <1>11, <1>12

LEMMA AckByteKeeps == ASSUME IInv, AckByte PROVE IInv'
<1> USE DEF IInv
<1>1. /\ twi'.cmd = "NONE" /\ twi'.wif = TRUE /\ twi'.rxack = FALSE /\ twi'.own = twi.own
      /\ twi'.mdata = twi.mdata
      /\ twi'.buserr = twi.buserr /\ twi'.arblost = twi.arblost
      /\ Frame(twi, twi') /\ twi' \in I2C0_status_t
  BY DEF AckByte, Answer, Done, Frame, TypeOK, I2C0_status_t
<1>2. /\ pc' = pc /\ call' = call /\ seen' = seen /\ left' = left /\ twi.cmd = "TX" /\ twi.own
      /\ dev' = IF dev.first THEN [dev EXCEPT !.first = FALSE, !.ptr = twi.mdata]
                ELSE [dev EXCEPT !.regs[dev.ptr] = twi.mdata, !.ptr = After(@)]
  BY DEF AckByte, Answer
<1>3. /\ pc = "wait" /\ twi.busy /\ Sending /\ ~twi.addressNACKCheck
      /\ twi.ptr > 1 /\ twi.mdata = Buffer(twi)[twi.ptr - 1]
  BY <1>2 DEF CallInv, CmdInv
<1>4. /\ twi \in I2C0_status_t /\ twi.mdata \in Byte /\ twi.reg \in Byte /\ twi.data \in Blocks
      /\ twi.ptr \in Nat /\ twi.len \in Nat /\ twi.buffer \in {"REG", "DATA"}
      /\ dev \in [regs : [Byte -> Byte], ptr : Byte, first : BOOLEAN] /\ After(dev.ptr) \in Byte
  BY AfterIs DEF TypeOK, I2C0_status_t
<1>5. TypeOK'
  BY <1>1, <1>2, <1>4 DEF TypeOK
<1>6. CallInv'
  BY <1>1, <1>2 DEF CallInv, Frame
<1>7. BufferInv'
  BY <1>1, <1>2, FrameBuffer
<1>8. TroubleInv'
  BY <1>1, <1>2, <1>3 DEF TroubleInv, Frame, Event, Sending
<1>9. CmdInv'
  BY <1>1 DEF CmdInv
<1>10. ReadInv' /\ EndInv'
  BY <1>1, <1>2, <1>3 DEF ReadInv, EndInv, Frame, Sending
<1>11. CASE twi.buffer = "REG"
  <2>1. dev.first
    BY <1>2, <1>11 DEF RegInv
  <2>2. dev'.first = FALSE /\ dev'.ptr = twi.mdata
    BY <1>2, <1>4, <2>1
  <2>3. twi.ptr = 2 /\ twi.len = 0
    <3>1. Len(Buffer(twi)) = 1
      BY <1>11, RegBuffer
    <3>2. twi.ptr + twi.len = 1 + 1
      BY <1>3, <3>1 DEF BufferInv
    <3> QED
      BY <1>3, <1>4, <3>2
  <2>4. twi.state = "TX_EMPTY" /\ twi.mdata = twi.reg
    BY <1>3, <1>11, <2>3, RegBuffer DEF BufferInv
  <2>5. RegInv' /\ WriteInv'
    BY <1>1, <1>11, <2>2, <2>4 DEF RegInv, WriteInv, Frame
  <2> QED
    BY <1>5, <1>6, <1>7, <1>8, <1>9, <1>10, <2>5
<1>12. CASE twi.buffer = "DATA"
  <2>1. RegInv'
    BY <1>1, <1>12 DEF RegInv, Frame
  <2>2. ASSUME call = "WRITE" PROVE WriteInv'
    <3>1. ~dev.first /\ dev.ptr = Slot(twi.ptr - 1) /\ Stored(twi.ptr - 2)
      BY <1>2, <1>12, <2>2 DEF WriteInv
    <3>2. /\ dev'.first = FALSE /\ dev'.ptr = After(dev.ptr)
          /\ dev'.regs = [dev.regs EXCEPT ![dev.ptr] = twi.mdata]
      BY <1>2, <1>4, <3>1
    <3>3. /\ twi.mdata = twi.data[twi.ptr - 1] /\ Len(twi.data) \in Nat /\ Len(twi.data) <= Size
          /\ twi.ptr <= Len(twi.data) + 1
      BY <1>3, <1>4, <1>12, DataBuffer, BlockIs, Sizes DEF BufferInv
    <3>4. twi.ptr - 1 \in 1 .. Size /\ (twi.ptr - 1) + 1 = twi.ptr
      BY <1>3, <1>4, <3>3, Sizes
    <3>5. dev'.ptr = Slot(twi.ptr) /\ dev.ptr \in Byte
      BY <1>4, <3>1, <3>2, <3>4, Sizes, PlaceIs DEF Slot
    <3>6. ASSUME NEW k \in 1 .. twi.ptr - 1 PROVE dev'.regs[Slot(k)] = twi.data[k]
      <4>1. CASE k = twi.ptr - 1
        BY <1>4, <3>1, <3>2, <3>3, <3>5, <4>1
      <4>2. CASE k # twi.ptr - 1
        <5>1. k \in 1 .. twi.ptr - 2 /\ k \in 1 .. Size
          BY <1>4, <3>4, <4>2, Sizes
        <5>2. Slot(k) # dev.ptr
          BY <1>4, <3>1, <3>4, <4>2, <5>1, PlacesDiffer DEF Slot
        <5>3. Slot(k) \in Byte
          BY <1>4, <5>1, Sizes, PlaceIs DEF Slot
        <5> QED
          BY <1>4, <3>1, <3>2, <5>1, <5>2, <5>3 DEF Stored
      <4> QED
        BY <4>1, <4>2
    <3> QED
      BY <1>1, <3>2, <3>5, <3>6 DEF WriteInv, Stored, Slot, Frame
  <2>3. WriteInv'
    BY <1>2, <2>2 DEF WriteInv
  <2> QED
    BY <1>5, <1>6, <1>7, <1>8, <1>9, <1>10, <2>1, <2>3
<1> QED
  BY <1>4, <1>11, <1>12

LEMMA SendByteKeeps == ASSUME IInv, SendByte PROVE IInv'
<1> USE DEF IInv
<1>0. PICK b \in Byte :
          /\ twi.ackact = "ACK" => b = dev.regs[dev.ptr]
          /\ Answer([Done(twi) EXCEPT !.rif = TRUE, !.mdata = b], [dev EXCEPT !.ptr = After(@)])
  BY DEF SendByte
<1>1. /\ twi'.cmd = "NONE" /\ twi'.rif = TRUE /\ twi'.rxack = twi.rxack /\ twi'.own = twi.own
      /\ twi'.mdata = b
      /\ twi'.buserr = twi.buserr /\ twi'.arblost = twi.arblost
      /\ Frame(twi, twi') /\ twi' \in I2C0_status_t
  BY <1>0 DEF Answer, Done, Frame, TypeOK, I2C0_status_t
<1>2. /\ dev'.regs = dev.regs /\ dev'.ptr = After(dev.ptr) /\ dev'.first = dev.first
      /\ dev' = [dev EXCEPT !.ptr = After(@)]
      /\ pc' = pc /\ call' = call /\ seen' = seen /\ left' = left /\ twi.cmd = "RX"
  BY <1>0 DEF SendByte, Answer, TypeOK
<1>3. After(dev.ptr) \in Byte
  BY AfterIs DEF TypeOK
<1>4. TypeOK'
  BY <1>1, <1>2, <1>3 DEF TypeOK
<1>5. /\ pc = "wait" /\ twi.busy /\ twi.state = "RX" /\ ~twi.addressNACKCheck
      /\ twi.buffer = "DATA" /\ call = "READ" /\ b = dev.regs[dev.ptr]
  BY <1>0, <1>2 DEF CallInv, CmdInv, BufferInv
<1>6. CallInv'
  BY <1>1, <1>2 DEF CallInv, Frame
<1>7. BufferInv'
  BY <1>1, <1>2, FrameBuffer
<1>8. TroubleInv'
  BY <1>1, <1>2, <1>5 DEF TroubleInv, Frame, Event, Sending
<1>9. CmdInv' /\ RegInv' /\ WriteInv' /\ EndInv'
  BY <1>1, <1>2, <1>5 DEF CmdInv, RegInv, WriteInv, EndInv, Frame
<1>10. ReadInv'
  <2> SUFFICES ASSUME Fine PROVE /\ Stored(twi.ptr - 1)'
                                 /\ twi'.mdata = dev'.regs[Slot(twi.ptr)']
                                 /\ dev'.ptr = Slot(twi.ptr + 1)'
    BY <1>1, <1>2 DEF ReadInv, Frame, Fine
  <2>1. Stored(twi.ptr - 1) /\ dev.ptr = Slot(twi.ptr)
    BY <1>2, <1>5 DEF ReadInv
  <2>2. twi.ptr \in 1 .. Size
    BY <1>5, Sizes, BufferIs DEF BufferInv, TypeOK, I2C0_status_t
  <2>3. After(Slot(twi.ptr)) = Slot(twi.ptr + 1)
    BY <2>2, Sizes, PlaceIs DEF Slot, TypeOK, I2C0_status_t
  <2> QED
    BY <1>1, <1>2, <1>5, <2>1, <2>3 DEF Stored, Slot, Frame
<1> QED
  BY <1>4, <1>6, <1>7, <1>8, <1>9, <1>10

\* An acknowledgement is withheld: the trouble fits what was sent.
LEMMA NackKeeps == ASSUME IInv, Nack PROVE IInv'
<1> USE DEF IInv
<1>1. /\ twi'.cmd = "NONE" /\ twi'.wif = TRUE /\ twi'.rxack = TRUE /\ twi'.own = twi.own
      /\ twi'.buserr = twi.buserr /\ twi'.arblost = twi.arblost
      /\ Frame(twi, twi') /\ twi' \in I2C0_status_t
  BY DEF Nack, Answer, Done, Frame, TypeOK, I2C0_status_t
<1>2. dev' = dev /\ pc' = pc /\ call' = call /\ left.nack > 0 /\ left' = [left EXCEPT !.nack = @ - 1]
  BY DEF Nack, Withhold, Answer
<1>3. \/ twi.cmd = "ADR_WRITE" /\ seen' = seen \cup {"ADDRESS_NACK"}
      \/ twi.cmd = "ADR_READ" /\ seen' = seen \cup {"READ_NACK"}
      \/ twi.cmd = "TX" /\ seen' = seen \cup {"DATA_NACK"}
  BY DEF Nack, Withhold
<1>4. left' \in [nack : Nat, bus : Nat]
  BY <1>2 DEF TypeOK
<1>5. TypeOK'
  BY <1>1, <1>2, <1>3, <1>4 DEF TypeOK
<1>6. pc = "wait" /\ twi.busy
  BY <1>3 DEF CallInv
<1>7. /\ twi.state = "RX" => "READ_NACK" \in seen' /\ call = "READ"
      /\ twi.cmd = "ADR_READ" => twi.state = "RX"
      /\ Sending /\ ~twi.addressNACKCheck => "DATA_NACK" \in seen'
  BY <1>3, <1>6 DEF CmdInv, BufferInv, Sending
<1>8. CallInv'
  BY <1>1, <1>2, <1>3, <1>6, <1>7 DEF CallInv, Frame
<1>9. BufferInv'
  BY <1>1, <1>2, <1>3, FrameBuffer
<1>10. TroubleInv'
  BY <1>1, <1>2, <1>3, <1>6, <1>7 DEF TroubleInv, Frame, Event, Sending
<1>11. CmdInv' /\ RegInv'
  BY <1>1 DEF CmdInv, RegInv
<1>12. WriteInv'
  BY <1>1, <1>2 DEF WriteInv, Frame
<1>13. ReadInv' /\ EndInv'
  BY <1>1, <1>2, <1>6, <1>7 DEF ReadInv, EndInv, Frame, Fine, Fatal
<1> QED
  BY <1>5, <1>8, <1>9, <1>10, <1>11, <1>12, <1>13

LEMMA BusFaultKeeps == ASSUME IInv, BusFault PROVE IInv'
<1> USE DEF IInv
<1>1. /\ twi'.cmd = "NONE" /\ twi'.wif = TRUE /\ twi'.own = FALSE /\ twi'.rxack = twi.rxack
      /\ twi'.buserr = TRUE \/ twi'.arblost = TRUE
      /\ Frame(twi, twi') /\ twi' \in I2C0_status_t
  <2>1. CASE twi' = [MasterStop(twi) EXCEPT !.wif = TRUE, !.arblost = TRUE]
    BY <2>1 DEF MasterStop, Frame, TypeOK, I2C0_status_t
  <2>2. CASE twi' = [MasterStop(twi) EXCEPT !.wif = TRUE, !.buserr = TRUE]
    BY <2>2 DEF MasterStop, Frame, TypeOK, I2C0_status_t
  <2> QED
    BY <2>1, <2>2 DEF BusFault, Answer
<1>2. /\ dev' = dev /\ pc' = pc /\ call' = call /\ call # "NONE" /\ seen' = seen \cup {"BUS"}
      /\ left.bus > 0 /\ left' = [left EXCEPT !.bus = @ - 1]
  BY DEF BusFault, Answer
<1>3. left' \in [nack : Nat, bus : Nat]
  BY <1>2 DEF TypeOK
<1>4. TypeOK'
  BY <1>1, <1>2, <1>3 DEF TypeOK
<1>5. CallInv'
  BY <1>1, <1>2 DEF CallInv, Frame, Event
<1>6. BufferInv'
  BY <1>1, <1>2, FrameBuffer
<1>7. TroubleInv'
  BY <1>1, <1>2 DEF TroubleInv, Frame, Event, Sending
<1>8. CmdInv' /\ RegInv' /\ WriteInv'
  BY <1>1 DEF CmdInv, RegInv, WriteInv
<1>9. ReadInv' /\ EndInv'
  BY <1>2 DEF ReadInv, EndInv, Fine, Fatal
<1> QED
  BY <1>4, <1>5, <1>6, <1>7, <1>8, <1>9
-----------------------------------------------------------------------------
(* What the calls do around the dispatching of an event.                    *)

LEMMA ClearIrqKeeps == ASSUME IInv, ClearIrq PROVE IInv'
<1> USE DEF IInv
<1>1. /\ twi'.cmd = twi.cmd /\ twi'.own = twi.own /\ twi'.rxack = twi.rxack /\ twi'.mdata = twi.mdata
      /\ twi'.buserr = FALSE /\ twi'.arblost = FALSE /\ ~Event(twi')
      /\ Frame(twi, twi') /\ twi' \in I2C0_status_t
  BY DEF ClearIrq, MasterClearIrq, Event, Frame, TypeOK, I2C0_status_t
<1>2. dev' = dev /\ pc = "clear" /\ pc' = "test" /\ call' = call /\ seen' = seen /\ left' = left
  BY DEF ClearIrq, Goto
<1>3. TypeOK'
  BY <1>1, <1>2 DEF TypeOK
<1>4. twi.cmd = "NONE"
  BY <1>2 DEF CallInv
<1>5. CallInv'
  BY <1>1, <1>2, <1>4 DEF CallInv, Frame
<1>6. BufferInv'
  BY <1>1, <1>2, FrameBuffer
<1>7. TroubleInv'
  BY <1>1, <1>2, <1>4 DEF TroubleInv, Frame, Sending
<1>8. CmdInv' /\ RegInv'
  BY <1>1, <1>2, <1>4 DEF CmdInv, RegInv, Frame
<1>9. WriteInv' /\ ReadInv' /\ EndInv'
  BY <1>1, <1>2 DEF WriteInv, ReadInv, EndInv, Frame, Stored, Slot, Fine
<1> QED
  BY <1>3, <1>5, <1>6, <1>7, <1>8, <1>9

LEMMA WaitForEventKeeps == ASSUME IInv, WaitForEvent PROVE IInv'
<1> USE DEF IInv
<1>1. /\ twi' = twi /\ dev' = dev /\ pc = "wait" /\ pc' = "clear" /\ call' = call
      /\ seen' = seen /\ left' = left /\ Event(twi)
  BY DEF WaitForEvent, Goto
<1>2. TypeOK' /\ CallInv'
  BY <1>1 DEF TypeOK, CallInv
<1>3. BufferInv' /\ TroubleInv' /\ CmdInv' /\ RegInv'
  BY <1>1 DEF BufferInv, TroubleInv, CmdInv, RegInv, Sending
<1>4. WriteInv' /\ ReadInv' /\ EndInv'
  BY <1>1 DEF WriteInv, ReadInv, EndInv, Stored, Slot, Fine
<1> QED
  BY <1>2, <1>3, <1>4

\* What holds of a call that is not under way: nothing is asked of the bus.
LEMMA RestKeeps ==
    ASSUME IInv, TypeOK', CallInv', ~twi'.busy, pc' # "close" PROVE IInv'
<1>1. ~twi'.own /\ twi'.cmd = "NONE"
  BY DEF CallInv
<1>2. BufferInv' /\ TroubleInv' /\ CmdInv' /\ RegInv'
  BY <1>1 DEF BufferInv, TroubleInv, CmdInv, RegInv
<1>3. WriteInv' /\ ReadInv' /\ EndInv'
  BY <1>1 DEF WriteInv, ReadInv, EndInv
<1> QED
  BY <1>2, <1>3 DEF IInv

LEMMA InitInv == Init => IInv
<1> SUFFICES ASSUME Init PROVE IInv
  OBVIOUS
<1>1. TypeOK
  BY OneByte, Sizes, TwiAssumption DEF Init, TypeOK, PowerUp, I2C0_status_t
<1>2. CallInv
  BY DEF Init, CallInv, PowerUp, Event
<1>3. BufferInv /\ TroubleInv /\ CmdInv /\ RegInv /\ WriteInv /\ ReadInv /\ EndInv
  BY DEF Init, BufferInv, TroubleInv, CmdInv, RegInv, WriteInv, ReadInv, EndInv, PowerUp
<1> QED
  BY <1>1, <1>2, <1>3 DEF IInv

LEMMA WatchdogKeeps == ASSUME IInv, Watchdog PROVE IInv'
<1>1. TypeOK'
  BY OneByte, Sizes DEF IInv, TypeOK, Watchdog, PowerUp, I2C0_status_t
<1>2. CallInv' /\ ~twi'.busy /\ pc' # "close"
  BY DEF CallInv, Watchdog, PowerUp, Event
<1> QED
  BY <1>1, <1>2, RestKeeps

LEMMA BeginKeeps == ASSUME IInv, Begin PROVE IInv'
<1>1. PICK c \in Calls : call' = c.kind /\ twi' = [twi EXCEPT !.reg = c.reg, !.data = c.data]
  BY DEF Begin
<1>2. c.kind \in {"READ", "WRITE"} /\ c.reg \in Byte /\ c.data \in Blocks
  BY TwiAssumption DEF Byte, Blocks
<1>3. /\ twi'.busy = twi.busy /\ twi'.inUse = twi.inUse /\ twi'.cmd = twi.cmd /\ twi'.own = twi.own
      /\ twi'.buserr = twi.buserr /\ twi'.arblost = twi.arblost
      /\ twi' \in I2C0_status_t
  BY <1>1, <1>2 DEF IInv, TypeOK, I2C0_status_t
<1>4. pc = "idle" /\ pc' = "open" /\ seen' = {} /\ dev' = dev /\ left' = left
  BY DEF Begin
<1>5. TypeOK'
  BY <1>1, <1>2, <1>3, <1>4 DEF IInv, TypeOK
<1>6. CallInv' /\ ~twi'.busy
  BY <1>1, <1>2, <1>3, <1>4 DEF IInv, CallInv
<1> QED
  BY <1>4, <1>5, <1>6, RestKeeps

LEMMA OpenKeeps == ASSUME IInv, Open PROVE IInv'
<1>1. /\ twi'.busy = FALSE /\ twi'.inUse = TRUE /\ twi'.bufferFree = TRUE /\ twi'.cmd = "NONE"
      /\ twi'.addressNACKCheck = FALSE /\ ~Event(twi')
      /\ twi'.own = FALSE /\ twi'.buserr = FALSE /\ twi'.arblost = FALSE
      /\ twi' \in I2C0_status_t
  BY DEF Open, MasterResetBus, MasterClearIrq, Event, IInv, TypeOK, I2C0_status_t
<1>2. /\ pc = "open" /\ pc' = "open" /\ seen' = seen /\ dev' = dev /\ left' = left /\ call' = call
  BY DEF Open, Goto
<1>3. TypeOK' /\ CallInv'
  BY <1>1, <1>2 DEF IInv, TypeOK, CallInv
<1> QED
  BY <1>1, <1>2, <1>3, RestKeeps

LEMMA CloseKeeps == ASSUME IInv, Close PROVE IInv'
<1>1. pc = "close" /\ pc' = "idle" /\ call' = "NONE" /\ dev' = dev /\ seen' = seen /\ left' = left
  BY DEF Close
<1> DEFINE m == IF twi.buserr THEN [twi EXCEPT !.busy = FALSE, !.error = "FAIL"] ELSE twi
<1>2. m \in I2C0_status_t /\ m.cmd = twi.cmd /\ m.own = twi.own /\ m.busy = FALSE
  <2>1. CASE twi.buserr
    <3>1. m = [twi EXCEPT !.busy = FALSE, !.error = "FAIL"]
      BY <2>1
    <3> HIDE DEF m
    <3> QED
      BY <3>1 DEF IInv, TypeOK, I2C0_status_t
  <2>2. CASE ~twi.buserr
    BY <1>1, <2>2 DEF IInv, TypeOK, CallInv, I2C0_status_t
  <2> QED
    BY <2>1, <2>2
<1>3. twi' = [MasterClearIrq(m) EXCEPT !.inUse = FALSE, !.reg = 0, !.data = <<0>>]
  BY DEF Close
<1> HIDE DEF m
<1>4. /\ twi'.busy = FALSE /\ twi'.inUse = FALSE /\ twi'.cmd = twi.cmd /\ twi'.own = twi.own
      /\ twi'.buserr = FALSE /\ twi'.arblost = FALSE /\ twi' \in I2C0_status_t
  BY <1>2, <1>3, OneByte, Sizes DEF MasterClearIrq, I2C0_status_t
<1>5. twi.cmd = "NONE" /\ ~twi.own
  BY <1>1 DEF IInv, CallInv
<1>6. TypeOK' /\ CallInv'
  BY <1>1, <1>4, <1>5 DEF IInv, TypeOK, CallInv
<1> QED
  BY <1>1, <1>4, <1>6, RestKeeps

\* The transfer begins with the register buffer.
LEMMA MasterWriteKeeps == ASSUME IInv, MasterWrite PROVE IInv'
<1>1. pc = "open" /\ twi.inUse /\ dev' = dev /\ call' = call /\ seen' = seen /\ left' = left
  BY DEF MasterWrite, Goto
<1>2. ~twi.busy /\ twi.bufferFree /\ twi.cmd = "NONE" /\ ~twi.own
  BY <1>1 DEF IInv, CallInv
<1>3. pc' = "clear"
  BY <1>2 DEF MasterWrite, Goto
<1>4. call \in {"READ", "WRITE"}
  BY <1>1 DEF IInv, TypeOK, CallInv
<1> DEFINE m == [SetBuffer(twi, "REG") EXCEPT
                    !.complete = CompleteHandler(call), !.nack = "RESTART_WRITE"]
<1>5. /\ m \in I2C0_status_t /\ m.busy = twi.busy /\ m.buffer = "REG" /\ m.ptr = 1 /\ m.len = 1
      /\ m.nack = "RESTART_WRITE" /\ m.complete = CompleteHandler(call) /\ m.cmd = "NONE"
      /\ m.own = twi.own /\ m.buserr = twi.buserr /\ m.arblost = twi.arblost
      /\ m.addressNACKCheck = twi.addressNACKCheck
  <2>1. SetBuffer(twi, "REG") = [twi EXCEPT !.buffer = "REG", !.ptr = 1, !.bufferFree = FALSE, !.len = 1]
    BY <1>2 DEF SetBuffer
  <2>2. CompleteHandler(call) \in {"STOP", "CONTINUE", "RESTART_READ"}
    BY DEF CompleteHandler
  <2>3. twi \in I2C0_status_t
    BY DEF IInv, TypeOK
  <2>4. m = [twi EXCEPT !.buffer = "REG", !.ptr = 1, !.bufferFree = FALSE, !.len = 1,
                        !.complete = CompleteHandler(call), !.nack = "RESTART_WRITE"]
    BY <2>1, <2>3 DEF I2C0_status_t
  <2> HIDE DEF m
  <2> QED
    BY <1>2, <2>2, <2>3, <2>4 DEF I2C0_status_t
<1>6. twi' = MasterOperation(m)
  BY DEF MasterWrite
<1> HIDE DEF m
<1>7. /\ twi' \in I2C0_status_t /\ twi'.busy /\ twi'.buffer = "REG" /\ twi'.ptr = 1 /\ twi'.len = 1
      /\ twi'.nack = "RESTART_WRITE" /\ twi'.complete = CompleteHandler(call) /\ twi'.cmd = "NONE"
      /\ ~twi'.own /\ twi'.buserr = twi.buserr /\ twi'.arblost = twi.arblost
      /\ twi'.addressNACKCheck = twi.addressNACKCheck /\ twi'.state = "SEND_ADR_WRITE"
  BY <1>2, <1>5, <1>6 DEF MasterOperation, I2C0_status_t
<1>8. TypeOK'
  BY <1>1, <1>3, <1>7 DEF IInv, TypeOK
<1>9. CallInv'
  BY <1>1, <1>2, <1>3, <1>7 DEF IInv, CallInv
<1>10. BufferInv'
  <2>1. Len(Buffer(twi')) = 1
    BY <1>7, RegBuffer
  <2>2. ~twi.addressNACKCheck
    BY <1>1 DEF IInv, CallInv
  <2> QED
    BY <1>1, <1>7, <2>1, <2>2 DEF BufferInv, Sending
<1>11. TroubleInv' /\ CmdInv' /\ RegInv' /\ WriteInv'
  BY <1>3, <1>7 DEF TroubleInv, CmdInv, RegInv, WriteInv, Sending
<1>12. ReadInv' /\ EndInv'
  BY <1>3, <1>7 DEF ReadInv, EndInv
<1> QED
  BY <1>8, <1>9, <1>10, <1>11, <1>12 DEF IInv
-----------------------------------------------------------------------------
(* The dispatching of an event.                                             *)

\* The fields no handler changes.
Fixed(m, n) ==
    /\ n.inUse = m.inUse /\ n.nack = m.nack /\ n.reg = m.reg /\ n.rxack = m.rxack
    /\ n.buserr \in {m.buserr, FALSE} /\ n.arblost \in {m.arblost, FALSE}
    /\ n.rif \in {m.rif, FALSE} /\ n.wif \in {m.wif, FALSE}

\* A handler that ends the transfer.
Ended(m, n) ==
    /\ n \in I2C0_status_t /\ Fixed(m, n)
    /\ n.busy = FALSE /\ n.own = FALSE /\ n.cmd = "NONE"

LEMMA FixedTrans == ASSUME NEW m, NEW n, NEW q, Fixed(m, n), Fixed(n, q) PROVE Fixed(m, q)
BY DEF Fixed

LEMMA StopIs ==
    ASSUME NEW m \in I2C0_status_t
    PROVE  Ended(m, DO_SEND_STOP(m)) /\ DO_SEND_STOP(m).data = m.data
BY DEF I2C0_status_t, DO_SEND_STOP, DO_IDLE, MasterStop, Ended, Fixed

LEMMA ResetBusIs ==
    ASSUME NEW m \in I2C0_status_t
    PROVE  LET n == MasterResetBus(m)
           IN  n \in I2C0_status_t /\ Fixed(m, n) /\ n.data = m.data /\ n.own = FALSE /\ n.cmd = "NONE"
<1> DEFINE c == MasterClearIrq(m)
           n == MasterResetBus(m)
<1>1. c \in I2C0_status_t /\ Fixed(m, c) /\ c.data = m.data
  BY DEF I2C0_status_t, MasterClearIrq, Fixed
<1>2. n = [c EXCEPT !.own = FALSE, !.cmd = "NONE"]
  BY DEF MasterResetBus
<1> HIDE DEF c, n
<1>3. n \in I2C0_status_t /\ Fixed(c, n) /\ n.data = c.data /\ n.own = FALSE /\ n.cmd = "NONE"
  BY <1>1, <1>2 DEF I2C0_status_t, Fixed
<1>4. n \in I2C0_status_t /\ Fixed(m, n) /\ n.data = m.data /\ n.own = FALSE /\ n.cmd = "NONE"
  BY <1>1, <1>3, FixedTrans
<1> QED
  BY <1>4 DEF n

LEMMA BusErrorIs ==
    ASSUME NEW m \in I2C0_status_t
    PROVE  Ended(m, DO_BUS_ERROR(m)) /\ DO_BUS_ERROR(m).data = m.data
<1> DEFINE n == MasterResetBus(m)
           q == DO_BUS_ERROR(m)
<1>1. n \in I2C0_status_t /\ Fixed(m, n) /\ n.data = m.data /\ n.own = FALSE /\ n.cmd = "NONE"
  BY ResetBusIs
<1>2. q = [n EXCEPT !.busy = FALSE, !.error = "FAIL", !.state = "RESET"]
  BY DEF DO_BUS_ERROR
<1> HIDE DEF n, q
<1>3. /\ q \in I2C0_status_t /\ Fixed(n, q) /\ q.data = n.data /\ q.busy = FALSE
      /\ q.own = FALSE /\ q.cmd = "NONE"
  BY <1>1, <1>2 DEF I2C0_status_t, Fixed
<1>4. Ended(m, q) /\ q.data = m.data
  BY <1>1, <1>3, FixedTrans DEF Ended
<1> QED
  BY <1>4 DEF q

LEMMA BusCollisionIs ==
    ASSUME NEW m \in I2C0_status_t
    PROVE  Ended(m, DO_BUS_COLLISION(m)) /\ DO_BUS_COLLISION(m).data = m.data
<1> DEFINE c == MasterClearIrq(m)
           n == MasterResetBus(c)
           q == DO_BUS_COLLISION(m)
<1>1. c \in I2C0_status_t /\ Fixed(m, c) /\ c.data = m.data
  BY DEF I2C0_status_t, MasterClearIrq, Fixed
<1>2. q = [n EXCEPT !.busy = FALSE, !.error = "NOERR", !.state = "RESET"]
  BY DEF DO_BUS_COLLISION, DO_RESET
<1> HIDE DEF c
<1>3. n \in I2C0_status_t /\ Fixed(c, n) /\ n.data = c.data /\ n.own = FALSE /\ n.cmd = "NONE"
  BY <1>1, ResetBusIs
<1> HIDE DEF n, q
<1>4. /\ q \in I2C0_status_t /\ Fixed(n, q) /\ q.data = n.data /\ q.busy = FALSE
      /\ q.own = FALSE /\ q.cmd = "NONE"
  BY <1>2, <1>3 DEF I2C0_status_t, Fixed
<1>5. Fixed(c, q)
  BY <1>3, <1>4, FixedTrans
<1>6. Ended(m, q) /\ q.data = m.data
  BY <1>1, <1>3, <1>4, <1>5, FixedTrans DEF Ended
<1> QED
  BY <1>6 DEF q

\* The address is sent, for writing or for reading.
Addressed(m, n, dir, next) ==
    /\ n \in I2C0_status_t /\ Fixed(m, n)
    /\ n.busy = m.busy /\ n.own = TRUE /\ n.cmd = dir /\ n.state = next /\ n.addressNACKCheck = TRUE
    /\ n.buffer = m.buffer /\ n.ptr = m.ptr /\ n.len = m.len /\ n.data = m.data
    /\ n.complete = m.complete

LEMMA SendAddressIs ==
    ASSUME NEW m \in I2C0_status_t
    PROVE  /\ Addressed(m, DO_SEND_ADR_WRITE(m), "ADR_WRITE", "TX")
           /\ Addressed(m, DO_SEND_ADR_READ(m), "ADR_READ", "RX")
BY DEF I2C0_status_t, DO_SEND_ADR_WRITE, DO_SEND_ADR_READ, SendAddress, Addressed, Fixed

LEMMA AddressNackIs ==
    ASSUME NEW m \in I2C0_status_t, m.nack = "RESTART_WRITE"
    PROVE  Addressed(m, DO_ADDRESS_NACK(m), "ADR_WRITE", "TX")
<1> DEFINE n == [m EXCEPT !.addressNACKCheck = FALSE, !.error = "FAIL"]
<1>1. /\ n \in I2C0_status_t /\ Fixed(m, n) /\ n.busy = m.busy /\ n.buffer = m.buffer /\ n.ptr = m.ptr
      /\ n.len = m.len /\ n.data = m.data /\ n.complete = m.complete /\ n.nack = m.nack
  BY DEF I2C0_status_t, Fixed
<1>2. DO_ADDRESS_NACK(m) = DO_SEND_ADR_WRITE(n)
  BY <1>1 DEF DO_ADDRESS_NACK
<1> HIDE DEF n
<1>3. Addressed(n, DO_ADDRESS_NACK(m), "ADR_WRITE", "TX")
  BY <1>1, <1>2, SendAddressIs
<1>4. Fixed(m, DO_ADDRESS_NACK(m))
  BY <1>1, <1>3, FixedTrans DEF Addressed
<1> QED
  BY <1>1, <1>3, <1>4 DEF Addressed

\* A byte of the buffer is handed to the bus.
ByteSent(m, n) ==
    /\ n \in I2C0_status_t /\ Fixed(m, n)
    /\ n.busy = m.busy /\ n.own = m.own /\ n.cmd = "TX" /\ n.addressNACKCheck = FALSE
    /\ n.mdata = Buffer(m)[m.ptr] /\ n.ptr = m.ptr + 1 /\ n.len = m.len - 1
    /\ n.state = IF m.len = 1 THEN "TX_EMPTY" ELSE "TX"
    /\ n.buffer = m.buffer /\ n.data = m.data /\ n.complete = m.complete

LEMMA TxIs ==
    ASSUME NEW m \in I2C0_status_t, ~m.rxack, m.len > 0, Buffer(m)[m.ptr] \in Byte
    PROVE  ByteSent(m, DO_TX(m))
<1> DEFINE b    == Buffer(m)[m.ptr]
           next == IF m.len = 1 THEN "TX_EMPTY" ELSE "TX"
           q    == DO_TX(m)
<1>1. m.len - 1 \in Nat /\ m.ptr + 1 \in Nat
  BY DEF I2C0_status_t
<1>2. next \in {"TX", "TX_EMPTY"}
  OBVIOUS
<1>3. b \in Byte
  OBVIOUS
<1>4. q = [MasterTxData(m, b) EXCEPT !.addressNACKCheck = FALSE, !.ptr = @ + 1, !.len = @ - 1,
                                     !.state = next]
  BY DEF DO_TX
<1> HIDE DEF b, next, q
<1>5. q = [m EXCEPT !.cmd = "TX", !.mdata = b, !.addressNACKCheck = FALSE,
                    !.ptr = m.ptr + 1, !.len = m.len - 1, !.state = next]
  BY <1>4 DEF MasterTxData, I2C0_status_t
<1>6. /\ q \in I2C0_status_t /\ Fixed(m, q) /\ q.busy = m.busy /\ q.own = m.own /\ q.cmd = "TX"
      /\ q.addressNACKCheck = FALSE /\ q.mdata = b /\ q.ptr = m.ptr + 1 /\ q.len = m.len - 1
      /\ q.state = next /\ q.buffer = m.buffer /\ q.data = m.data /\ q.complete = m.complete
  BY <1>1, <1>2, <1>3, <1>5 DEF I2C0_status_t, Fixed
<1> QED
  BY <1>6 DEF ByteSent, b, next, q

\* The callback hands over the data buffer.
LEMMA HandOver ==
    ASSUME NEW m \in I2C0_status_t, m.complete # "STOP"
    PROVE  LET n == DataComplete([m EXCEPT !.bufferFree = TRUE])
           IN  /\ n \in I2C0_status_t /\ Fixed(m, n) /\ n.busy = m.busy /\ n.own = m.own
               /\ n.buffer = "DATA" /\ n.ptr = 1 /\ n.len = Len(m.data) /\ n.data = m.data
               /\ n.complete = "STOP"
<1> DEFINE n == [m EXCEPT !.bufferFree = TRUE]
           q == SetBuffer(n, "DATA")
           d == DataComplete(n)
<1>1. /\ n \in I2C0_status_t /\ Fixed(m, n) /\ n.busy = m.busy /\ n.own = m.own
      /\ n.data = m.data /\ n.complete = m.complete /\ n.bufferFree
  BY DEF I2C0_status_t, Fixed
<1>2. d = DataComplete([m EXCEPT !.bufferFree = TRUE])
  OBVIOUS
<1> HIDE DEF n
<1>3. q = [n EXCEPT !.buffer = "DATA", !.ptr = 1, !.bufferFree = FALSE, !.len = Len(n.data)]
  BY <1>1 DEF SetBuffer
<1>4. d = [q EXCEPT !.complete = "STOP"]
  BY <1>1 DEF DataComplete
<1>5. Len(n.data) \in Nat
  BY <1>1, BlockIs DEF I2C0_status_t
<1> HIDE DEF q, d
<1>6. /\ q \in I2C0_status_t /\ Fixed(n, q) /\ q.busy = n.busy /\ q.own = n.own
      /\ q.buffer = "DATA" /\ q.ptr = 1 /\ q.len = Len(n.data) /\ q.data = n.data
  <2> DEFINE l == Len(n.data)
             p == [n EXCEPT !.buffer = "DATA", !.ptr = 1]
  <2>1. l \in Nat /\ q = [p EXCEPT !.bufferFree = FALSE, !.len = l]
    BY <1>3, <1>5
  <2>2. /\ p \in I2C0_status_t /\ Fixed(n, p) /\ p.busy = n.busy /\ p.own = n.own
        /\ p.buffer = "DATA" /\ p.ptr = 1 /\ p.data = n.data
    BY <1>1 DEF I2C0_status_t, Fixed
  <2> HIDE DEF l, p
  <2>3. /\ q \in I2C0_status_t /\ Fixed(p, q) /\ q.busy = p.busy /\ q.own = p.own
        /\ q.buffer = p.buffer /\ q.ptr = p.ptr /\ q.len = l /\ q.data = p.data
    BY <2>1, <2>2 DEF I2C0_status_t, Fixed
  <2> QED
    BY <2>2, <2>3, FixedTrans DEF l
<1>7. /\ d \in I2C0_status_t /\ Fixed(q, d) /\ d.busy = q.busy /\ d.own = q.own
      /\ d.buffer = q.buffer /\ d.ptr = q.ptr /\ d.len = q.len /\ d.data = q.data
      /\ d.complete = "STOP"
  BY <1>4, <1>6 DEF I2C0_status_t, Fixed
<1>8. Fixed(n, d)
  BY <1>6, <1>7, FixedTrans
<1>9. Fixed(m, d)
  BY <1>1, <1>8, FixedTrans
<1> QED
  BY <1>1, <1>2, <1>6, <1>7, <1>9

\* Without a callback, the buffer stays.
LEMMA NothingHandedOver ==
    ASSUME NEW m \in I2C0_status_t, m.complete = "STOP"
    PROVE  LET n == DataComplete([m EXCEPT !.bufferFree = TRUE])
           IN  n \in I2C0_status_t /\ Fixed(m, n) /\ n.data = m.data
BY DEF DataComplete, I2C0_status_t, Fixed

\* A byte is taken from the bus, and another one asked for.
ByteTaken(m, n) ==
    /\ n \in I2C0_status_t /\ Fixed(m, n)
    /\ n.busy = m.busy /\ n.own = m.own /\ n.cmd = "RX" /\ n.addressNACKCheck = FALSE
    /\ n.ptr = m.ptr + 1 /\ n.len = m.len - 1 /\ n.state = m.state /\ n.ackact = "ACK"
    /\ n.buffer = m.buffer /\ n.complete = m.complete
    /\ n.data = [m.data EXCEPT ![m.ptr] = m.mdata]

LEMMA RxIs ==
    ASSUME NEW m \in I2C0_status_t, m.len > 0, m.ptr \in 1 .. Len(m.data), m.complete = "STOP"
    PROVE  /\ m.len # 1 => ByteTaken(m, DO_RX(m))
           /\ m.len = 1 => /\ Ended(m, DO_RX(m))
                           /\ DO_RX(m).data = [m.data EXCEPT ![m.ptr] = m.mdata]
<1> DEFINE act == IF m.len = 1 THEN "NACK" ELSE "ACK"
           d == [m.data EXCEPT ![m.ptr] = m.mdata]
           n == [m EXCEPT !.addressNACKCheck = FALSE, !.data[m.ptr] = m.mdata,
                          !.ackact = act, !.ptr = @ + 1, !.len = @ - 1]
<1>1. m.data \in Blocks /\ m.mdata \in Byte /\ m.len - 1 \in Nat /\ m.ptr + 1 \in Nat
  BY DEF I2C0_status_t
<1>2. d \in Blocks
  BY <1>1, BlockPut
<1>3. n = [m EXCEPT !.addressNACKCheck = FALSE, !.data = d,
                    !.ackact = act, !.ptr = m.ptr + 1, !.len = m.len - 1]
  BY DEF I2C0_status_t
<1>4. act \in {"ACK", "NACK"} /\ (m.len # 1 => act = "ACK")
  OBVIOUS
<1>5. DO_RX(m) = IF m.len # 1 THEN MasterIsRxOrTx(n)
                 ELSE DO_RX_NACK_STOP(DataComplete([n EXCEPT !.bufferFree = TRUE]))
  BY DEF DO_RX
<1> HIDE DEF n, d, act
<1>6. /\ n \in I2C0_status_t /\ Fixed(m, n) /\ n.busy = m.busy /\ n.own = m.own
      /\ n.addressNACKCheck = FALSE /\ n.ptr = m.ptr + 1 /\ n.len = m.len - 1 /\ n.state = m.state
      /\ n.ackact = act /\ n.buffer = m.buffer /\ n.complete = m.complete /\ n.data = d
  BY <1>1, <1>2, <1>3, <1>4 DEF I2C0_status_t, Fixed
<1>7. CASE m.len # 1
  <2>1. DO_RX(m) = [n EXCEPT !.cmd = "RX"]
    BY <1>5, <1>7 DEF MasterIsRxOrTx
  <2>2. /\ DO_RX(m) \in I2C0_status_t /\ Fixed(n, DO_RX(m)) /\ DO_RX(m).busy = n.busy
        /\ DO_RX(m).own = n.own /\ DO_RX(m).cmd = "RX" /\ DO_RX(m).ptr = n.ptr /\ DO_RX(m).len = n.len
        /\ DO_RX(m).addressNACKCheck = n.addressNACKCheck /\ DO_RX(m).state = n.state
        /\ DO_RX(m).ackact = n.ackact /\ DO_RX(m).buffer = n.buffer /\ DO_RX(m).complete = n.complete
        /\ DO_RX(m).data = n.data
    BY <1>6, <2>1 DEF I2C0_status_t, Fixed
  <2> QED
    BY <1>4, <1>6, <1>7, <2>2 DEF ByteTaken, Fixed, d
<1>8. CASE m.len = 1
  <2> DEFINE c == DataComplete([n EXCEPT !.bufferFree = TRUE])
             e == [c EXCEPT !.ackact = "NACK"]
  <2>1. c \in I2C0_status_t /\ Fixed(n, c) /\ c.data = n.data
    BY <1>6, NothingHandedOver
  <2>2. DO_RX(m) = DO_SEND_STOP(e)
    BY <1>5, <1>8 DEF DO_RX_NACK_STOP
  <2> HIDE DEF c
  <2>3. e \in I2C0_status_t /\ Fixed(c, e) /\ e.data = c.data
    BY <2>1 DEF I2C0_status_t, Fixed
  <2> HIDE DEF e
  <2>4. Ended(e, DO_RX(m)) /\ DO_RX(m).data = e.data
    BY <2>2, <2>3, StopIs
  <2>5. Fixed(n, e)
    BY <2>1, <2>3, FixedTrans
  <2>6. Fixed(m, e)
    BY <1>6, <2>5, FixedTrans
  <2>7. Fixed(m, DO_RX(m))
    BY <2>4, <2>6, FixedTrans DEF Ended
  <2> QED
    BY <1>6, <1>8, <2>1, <2>3, <2>4, <2>7 DEF Ended, d
<1> QED
  BY <1>7, <1>8
\* What a step that dispatches an event leaves alone.
Dispatched == dev' = dev /\ call' = call /\ seen' = seen /\ left' = left /\ pc = "test"
Quiet      == ~twi.buserr /\ ~twi.arblost

LEMMA AtTest ==
    ASSUME IInv, pc = "test"
    PROVE  /\ twi \in I2C0_status_t /\ twi.busy /\ twi.cmd = "NONE"
           /\ Quiet => ~Event(twi)
           /\ ~Quiet => "BUS" \in seen
           /\ call \in {"READ", "WRITE"} /\ twi.data \in Blocks /\ twi.reg \in Byte
           /\ Len(twi.data) \in Nat /\ 0 < Len(twi.data) /\ Len(twi.data) <= Size
           /\ twi.ptr \in Nat /\ twi.len \in Nat /\ twi.buffer \in {"REG", "DATA"}
           /\ Len(Buffer(twi)) \in Nat /\ Len(Buffer(twi)) <= Size
           /\ twi.complete \in {"STOP", "CONTINUE", "RESTART_READ"}
<1>1. /\ twi \in I2C0_status_t /\ twi.busy /\ twi.cmd = "NONE"
      /\ Quiet => ~Event(twi)
      /\ ~Quiet => "BUS" \in seen
      /\ call \in {"READ", "WRITE"}
  BY DEF IInv, CallInv, TypeOK, Quiet
<1>2. /\ twi.data \in Blocks /\ twi.reg \in Byte /\ twi.ptr \in Nat /\ twi.len \in Nat
      /\ twi.buffer \in {"REG", "DATA"} /\ twi.complete \in {"STOP", "CONTINUE", "RESTART_READ"}
  BY <1>1 DEF I2C0_status_t
<1> QED
  BY <1>1, <1>2, BlockIs, BufferIs, Sizes

LEMMA EndedKeeps ==
    ASSUME IInv, Dispatched, Ended(twi, twi'), pc' = "close", EndInv' PROVE IInv'
<1>1. TypeOK'
  BY DEF IInv, TypeOK, Dispatched, Ended
<1>2. CallInv'
  BY DEF IInv, CallInv, Dispatched, Ended, Fixed
<1>3. BufferInv' /\ TroubleInv' /\ CmdInv' /\ RegInv' /\ WriteInv' /\ ReadInv'
  BY DEF BufferInv, TroubleInv, CmdInv, RegInv, WriteInv, ReadInv, Ended
<1> QED
  BY <1>1, <1>2, <1>3 DEF IInv

\* A dispatched event that does not end the transfer leaves no flag behind.
LEMMA GoesOn ==
    ASSUME IInv, Dispatched, Quiet, Fixed(twi, twi'), twi' \in I2C0_status_t, twi'.busy = twi.busy, pc' = "wait"
    PROVE  /\ TypeOK' /\ CallInv' /\ EndInv'
<1>1. ~Event(twi)
  BY AtTest DEF Dispatched
<1>2. ~Event(twi') /\ ~twi'.buserr /\ ~twi'.arblost
  BY <1>1 DEF Fixed, Event, Quiet
<1>3. TypeOK'
  BY DEF IInv, TypeOK, Dispatched
<1>4. CallInv'
  BY <1>2, AtTest DEF IInv, CallInv, Dispatched, Fixed
<1>5. EndInv'
  BY DEF EndInv
<1> QED
  BY <1>3, <1>4, <1>5

\* The address is sent for writing: at the start, or again after it was refused.
LEMMA WriteAddressKeeps ==
    ASSUME IInv, Dispatched, Quiet, Addressed(twi, twi', "ADR_WRITE", "TX"), pc' = "wait",
           twi.len # 0, twi.buffer = "REG" \/ "READ_NACK" \in seen
    PROVE  IInv'
<1>1. TypeOK' /\ CallInv' /\ EndInv'
  BY GoesOn DEF Addressed
<1>2. Buffer(twi') = Buffer(twi)
  BY DEF Addressed, Fixed, Buffer
<1>3. BufferInv'
  BY <1>2, AtTest DEF IInv, BufferInv, Dispatched, Addressed, Fixed, Sending
<1>4. TroubleInv' /\ CmdInv' /\ RegInv' /\ ReadInv'
  BY DEF TroubleInv, CmdInv, RegInv, ReadInv, Addressed
<1>5. WriteInv'
  BY DEF WriteInv, Addressed, Dispatched, IInv, CallInv
<1> QED
  BY <1>1, <1>3, <1>4, <1>5 DEF IInv

\* The data buffer is handed over, and the address sent for reading.
LEMMA ReadAddressKeeps ==
    ASSUME IInv, Dispatched, Quiet, NEW h, Fixed(twi, h), h.busy = twi.busy, h.buffer = "DATA", h.ptr = 1,
           h.len = Len(twi.data), h.data = twi.data, h.complete = "STOP",
           Addressed(h, twi', "ADR_READ", "RX"), pc' = "wait",
           twi.complete = "RESTART_READ", twi.state = "TX_EMPTY", ~twi.rxack
    PROVE  IInv'
<1>1. Fixed(twi, twi')
  BY FixedTrans DEF Addressed
<1>2. TypeOK' /\ CallInv' /\ EndInv'
  BY <1>1, GoesOn DEF Addressed
<1>3. /\ twi.busy /\ twi.cmd = "NONE" /\ Len(twi.data) \in Nat /\ 0 < Len(twi.data)
      /\ twi.reg \in Byte /\ Len(twi.data) <= Size /\ twi.buffer \in {"REG", "DATA"}
  BY AtTest DEF Dispatched
<1>4. twi.buffer = "REG" /\ call = "READ"
  BY <1>3 DEF IInv, BufferInv, CompleteHandler
<1>5. Buffer(twi') = twi.data
  BY DEF Addressed, Buffer
<1>6. BufferInv'
  BY <1>1, <1>3, <1>4, <1>5 DEF IInv, BufferInv, Dispatched, Addressed, Fixed, Sending
<1>7. TroubleInv' /\ CmdInv' /\ RegInv' /\ WriteInv'
  BY <1>1, <1>4 DEF TroubleInv, CmdInv, RegInv, WriteInv, Addressed, Fixed, Sending, Dispatched
<1>8. ReadInv'
  <2> SUFFICES ASSUME Fine PROVE Stored(0)' /\ dev'.ptr = Slot(1)'
    BY DEF ReadInv, Addressed, Fine, Dispatched
  <2>1. twi.own
    BY <1>3 DEF IInv, TroubleInv, Fine, Fatal
  <2>2. dev.ptr = twi.reg
    BY <1>3, <1>4, <2>1 DEF IInv, RegInv
  <2>3. Place(twi.reg, 1) = twi.reg
    BY <1>3, Sizes, PlaceIs
  <2> QED
    BY <1>1, <2>2, <2>3 DEF Stored, Slot, Dispatched, Fixed
<1> QED
  BY <1>2, <1>6, <1>7, <1>8 DEF IInv

\* The register number is sent.
LEMMA ByteSentKeeps ==
    ASSUME IInv, Dispatched, Quiet, ByteSent(twi, twi'), pc' = "wait", twi.state = "TX", ~twi.rxack
    PROVE  IInv'
<1>1. TypeOK' /\ CallInv' /\ EndInv'
  BY GoesOn DEF ByteSent
<1>2. /\ twi.busy /\ twi.cmd = "NONE" /\ twi.ptr \in Nat /\ twi.len \in Nat
      /\ Len(Buffer(twi)) \in Nat /\ twi.ptr > 0 /\ twi.len # 0
      /\ twi.ptr + twi.len = Len(Buffer(twi)) + 1
  BY AtTest DEF Dispatched, IInv, BufferInv
<1>3. Buffer(twi') = Buffer(twi)
  BY DEF ByteSent, Fixed, Buffer
<1>4. BufferInv'
  <2>1. twi'.ptr > 0 /\ twi'.ptr + twi'.len = Len(Buffer(twi')) + 1
    BY <1>2, <1>3 DEF ByteSent
  <2>2. twi'.len = 0 <=> twi'.state = "TX_EMPTY"
    BY <1>2 DEF ByteSent
  <2>3. twi'.state \in {"TX", "TX_EMPTY"} /\ ~twi'.addressNACKCheck
    BY DEF ByteSent
  <2>4. twi'.nack = "RESTART_WRITE" /\ twi'.buffer = twi.buffer /\ twi'.complete = twi.complete
    BY <1>2 DEF IInv, BufferInv, ByteSent, Fixed
  <2>5. call' = call /\ seen' = seen
    BY DEF Dispatched
  <2>6. /\ twi.buffer = "REG" => twi.complete = CompleteHandler(call)
        /\ twi.buffer = "DATA" => twi.complete = "STOP"
        /\ twi.buffer = "DATA" => call = "WRITE" \/ "READ_NACK" \in seen
    BY <1>2 DEF IInv, BufferInv, Sending
  <2> QED
    BY <2>1, <2>2, <2>3, <2>4, <2>5, <2>6 DEF BufferInv, Sending
<1>5. (twi.ptr + 1) - 1 = twi.ptr /\ (twi.ptr + 1) - 2 = twi.ptr - 1 /\ twi.ptr + 1 > 1
  BY <1>2
<1>6. CmdInv'
  BY <1>2, <1>3, <1>5 DEF CmdInv, ByteSent, Sending
<1>7. TroubleInv' /\ ReadInv'
  BY <1>2 DEF IInv, TroubleInv, ReadInv, ByteSent, Sending, Dispatched
<1>8. RegInv'
  BY <1>2 DEF IInv, RegInv, ByteSent, Dispatched
<1>9. WriteInv'
  BY <1>2, <1>5 DEF IInv, WriteInv, ByteSent, Fixed, Dispatched, Stored, Slot
<1> QED
  BY <1>1, <1>4, <1>6, <1>7, <1>8, <1>9 DEF IInv

\* The data buffer is handed over, and its first byte is sent.
LEMMA FirstByteKeeps ==
    ASSUME IInv, Dispatched, Quiet, NEW h, Fixed(twi, h), h.busy = twi.busy, h.own = twi.own,
           h.buffer = "DATA", h.ptr = 1, h.len = Len(twi.data), h.data = twi.data, h.complete = "STOP",
           ByteSent(h, twi'), pc' = "wait",
           twi.complete = "CONTINUE", twi.state = "TX_EMPTY", ~twi.rxack
    PROVE  IInv'
<1>1. Fixed(twi, twi')
  BY FixedTrans DEF ByteSent
<1>2. TypeOK' /\ CallInv' /\ EndInv'
  BY <1>1, GoesOn DEF ByteSent
<1>3. /\ twi.busy /\ twi.cmd = "NONE" /\ Len(twi.data) \in Nat /\ 0 < Len(twi.data)
      /\ twi.reg \in Byte /\ Len(twi.data) <= Size /\ twi.buffer \in {"REG", "DATA"}
      /\ call \in {"READ", "WRITE"}
  BY AtTest DEF Dispatched
<1>4. twi.buffer = "REG" /\ call = "WRITE"
  BY <1>3 DEF IInv, BufferInv, CompleteHandler
<1>5. Buffer(twi') = twi.data /\ Buffer(h) = twi.data
  BY DEF ByteSent, Buffer
<1>6. twi'.ptr = 2 /\ twi'.len = Len(twi.data) - 1 /\ twi'.len \in Nat
  BY <1>3 DEF ByteSent
<1>7. BufferInv'
  BY <1>1, <1>3, <1>4, <1>5, <1>6 DEF IInv, BufferInv, Dispatched, ByteSent, Fixed, Sending
<1>8. CmdInv'
  BY <1>5, <1>6 DEF CmdInv, ByteSent, Sending
<1>9. TroubleInv' /\ ReadInv' /\ RegInv'
  BY <1>3 DEF IInv, TroubleInv, ReadInv, RegInv, ByteSent, Sending, Dispatched
<1>10. WriteInv'
  <2> SUFFICES ASSUME twi.own PROVE ~dev.first /\ dev'.ptr = Slot(1)' /\ Stored(0)'
    BY <1>6 DEF WriteInv, ByteSent, Dispatched
  <2>1. ~dev.first /\ dev.ptr = twi.reg
    BY <1>3, <1>4 DEF IInv, RegInv
  <2>2. Place(twi.reg, 1) = twi.reg
    BY <1>3, Sizes, PlaceIs
  <2> QED
    BY <1>1, <2>1, <2>2 DEF Stored, Slot, Dispatched, Fixed
<1> QED
  BY <1>2, <1>7, <1>8, <1>9, <1>10 DEF IInv

\* One more byte of the block is in the buffer.
LEMMA BytePut ==
    ASSUME IInv, Dispatched, twi.state = "RX", Fine, twi'.reg = twi.reg,
           twi'.data = [twi.data EXCEPT ![twi.ptr] = twi.mdata]
    PROVE  /\ \A k \in 1 .. twi.ptr : dev.regs[Slot(k)] = twi'.data[k]
           /\ dev.ptr = Slot(twi.ptr + 1)
<1>1. /\ twi.busy /\ twi.cmd = "NONE" /\ twi.data \in Blocks /\ twi.ptr \in Nat /\ twi.len \in Nat
      /\ Len(twi.data) \in Nat /\ twi.buffer \in {"REG", "DATA"}
  BY AtTest DEF Dispatched
<1>2. twi.buffer = "DATA" /\ twi.ptr > 0 /\ twi.len # 0 /\ Buffer(twi) = twi.data
  BY <1>1, DataBuffer DEF IInv, BufferInv
<1>3. twi.ptr \in 1 .. Len(twi.data)
  BY <1>1, <1>2 DEF IInv, BufferInv
<1>4. /\ Stored(twi.ptr - 1) /\ twi.mdata = dev.regs[Slot(twi.ptr)] /\ dev.ptr = Slot(twi.ptr + 1)
  BY <1>1 DEF IInv, ReadInv
<1>5. ASSUME NEW k \in 1 .. twi.ptr PROVE dev.regs[Slot(k)] = twi'.data[k]
  <2>1. k \in 1 .. Len(twi.data) /\ DOMAIN twi.data = 1 .. Len(twi.data)
    BY <1>1, <1>3, BlockIs
  <2>2. CASE k = twi.ptr
    BY <1>4, <2>1, <2>2
  <2>3. CASE k # twi.ptr
    <3>1. k \in 1 .. twi.ptr - 1
      BY <1>1, <2>3
    <3> QED
      BY <1>4, <2>1, <2>3, <3>1 DEF Stored
  <2> QED
    BY <2>2, <2>3
<1> QED
  BY <1>4, <1>5

\* A byte is taken, and the next one asked for.
LEMMA ByteTakenKeeps ==
    ASSUME IInv, Dispatched, Quiet, ByteTaken(twi, twi'), pc' = "wait", twi.state = "RX", twi.len # 1
    PROVE  IInv'
<1>1. TypeOK' /\ CallInv' /\ EndInv'
  BY GoesOn DEF ByteTaken
<1>2. /\ twi.busy /\ twi.cmd = "NONE" /\ twi.ptr \in Nat /\ twi.len \in Nat /\ twi.data \in Blocks
      /\ twi.mdata \in Byte /\ Len(twi.data) \in Nat /\ twi.buffer \in {"REG", "DATA"}
  BY AtTest DEF Dispatched, I2C0_status_t
<1>3. /\ twi.buffer = "DATA" /\ call = "READ" /\ twi.ptr > 0 /\ twi.len # 0 /\ Buffer(twi) = twi.data
      /\ twi.ptr + twi.len = Len(twi.data) + 1
  BY <1>2, DataBuffer DEF IInv, BufferInv
<1>4. Len(twi'.data) = Len(twi.data) /\ Buffer(twi') = twi'.data
  <2>1. twi.ptr \in 1 .. Len(twi.data)
    BY <1>2, <1>3
  <2> QED
    BY <1>2, <1>3, <2>1, BlockPut DEF ByteTaken, Buffer
<1>5. BufferInv'
  BY <1>2, <1>3, <1>4 DEF IInv, BufferInv, Dispatched, ByteTaken, Fixed, Sending
<1>6. TroubleInv'
  BY <1>2 DEF IInv, TroubleInv, ByteTaken, Fixed, Sending, Dispatched
<1>7. CmdInv' /\ RegInv' /\ WriteInv'
  BY <1>3 DEF CmdInv, RegInv, WriteInv, ByteTaken, Dispatched
<1>8. ReadInv'
  <2> SUFFICES ASSUME Fine PROVE Stored(twi.ptr - 1)' /\ dev'.ptr = Slot(twi.ptr)'
    BY DEF ReadInv, ByteTaken, Fine, Dispatched
  <2>1. /\ \A k \in 1 .. twi.ptr : dev.regs[Slot(k)] = twi'.data[k]
        /\ dev.ptr = Slot(twi.ptr + 1)
    BY BytePut DEF ByteTaken, Fixed
  <2>2. twi'.ptr = twi.ptr + 1 /\ twi'.ptr - 1 = twi.ptr
    BY <1>2 DEF ByteTaken
  <2> QED
    BY <2>1, <2>2 DEF Stored, Slot, Dispatched, ByteTaken, Fixed
<1> QED
  BY <1>1, <1>5, <1>6, <1>7, <1>8 DEF IInv
\* A transfer that ends after a trouble owes nothing; one that ends well has
\* moved its block.
LEMMA EndsAfterTrouble ==
    ASSUME IInv, Dispatched, seen \cap Fatal # {}, Ended(twi, twi'), pc' = "close" PROVE IInv'
<1>1. EndInv'
  BY DEF EndInv, Fine, Dispatched
<1> QED
  BY <1>1, EndedKeeps

LEMMA EndsWell ==
    ASSUME IInv, Dispatched, Quiet, Ended(twi, twi'), twi'.data = twi.data, pc' = "close",
           twi.state = "TX_EMPTY", ~twi.rxack, twi.complete = "STOP"
    PROVE  IInv'
<1>1. /\ twi.busy /\ twi.cmd = "NONE" /\ twi.ptr \in Nat /\ twi.len \in Nat /\ twi.buffer \in {"REG", "DATA"}
      /\ Len(twi.data) \in Nat
  BY AtTest DEF Dispatched
<1>2. twi.buffer = "DATA" /\ twi.len = 0 /\ Buffer(twi) = twi.data
  BY <1>1, DataBuffer DEF IInv, BufferInv, CompleteHandler
<1>3. twi.ptr - 1 = Len(twi.data)
  BY <1>1, <1>2 DEF IInv, BufferInv
<1>4. EndInv'
  <2> SUFFICES ASSUME Fine PROVE Stored(Len(twi.data))'
    BY DEF EndInv, Fine, Dispatched
  <2>1. twi.own /\ call = "WRITE"
    BY <1>1, <1>2 DEF IInv, TroubleInv, BufferInv, Fine, Fatal, Sending
  <2>2. Stored(Len(twi.data))
    BY <1>1, <1>2, <1>3, <2>1 DEF IInv, WriteInv
  <2> QED
    BY <2>2 DEF Stored, Slot, Dispatched, Ended, Fixed
<1> QED
  BY <1>4, EndedKeeps

LEMMA LastByteKeeps ==
    ASSUME IInv, Dispatched, Ended(twi, twi'), pc' = "close", twi.state = "RX", twi.len = 1,
           twi'.data = [twi.data EXCEPT ![twi.ptr] = twi.mdata]
    PROVE  IInv'
<1>1. /\ twi.busy /\ twi.cmd = "NONE" /\ twi.ptr \in Nat /\ twi.data \in Blocks /\ twi.mdata \in Byte
      /\ Len(twi.data) \in Nat /\ twi.buffer \in {"REG", "DATA"}
  BY AtTest DEF Dispatched, I2C0_status_t
<1>2. twi.ptr = Len(twi.data)
  BY <1>1, DataBuffer DEF IInv, BufferInv
<1>3. twi.ptr > 0
  BY <1>1 DEF IInv, BufferInv
<1>4. Len(twi'.data) = twi.ptr
  BY <1>1, <1>2, <1>3, BlockPut
<1>5. EndInv'
  <2> SUFFICES ASSUME Fine PROVE \A k \in 1 .. twi.ptr : dev'.regs[Slot(k)'] = twi'.data[k]
    BY <1>4 DEF EndInv, Fine, Dispatched, Stored, Slot
  <2> QED
    BY BytePut DEF Ended, Fixed, Slot, Dispatched
<1> QED
  BY <1>5, EndedKeeps

\* The dispatching of an event moves at most one byte, into the buffer of a read.
Moved ==
    /\ twi'.reg = twi.reg
    /\ \/ twi'.data = twi.data
       \/ /\ call = "READ" /\ twi.state = "RX" /\ twi.ptr \in 1 .. Len(twi.data)
          /\ twi'.data = [twi.data EXCEPT ![twi.ptr] = twi.mdata]

LEMMA MasterIsrKeeps == ASSUME IInv, MasterIsr PROVE IInv' /\ Moved
<1>1. twi' = Dispatch(twi) /\ pc' = (IF twi'.busy THEN "wait" ELSE "close") /\ Dispatched
  BY DEF MasterIsr, Goto, Dispatched
<1>2. /\ twi \in I2C0_status_t /\ twi.busy /\ twi.cmd = "NONE"
      /\ ~Quiet => "BUS" \in seen
      /\ twi.data \in Blocks /\ twi.ptr \in Nat /\ twi.len \in Nat /\ twi.buffer \in {"REG", "DATA"}
      /\ Len(twi.data) \in Nat /\ 0 < Len(twi.data)
      /\ Len(Buffer(twi)) \in Nat
      /\ twi.complete \in {"STOP", "CONTINUE", "RESTART_READ"}
  BY <1>1, AtTest DEF Dispatched
<1>3. /\ twi.state \in {"SEND_ADR_WRITE", "TX", "TX_EMPTY", "RX"} /\ twi.nack = "RESTART_WRITE"
      /\ twi.ptr > 0 /\ twi.ptr + twi.len = Len(Buffer(twi)) + 1
      /\ twi.len = 0 <=> twi.state = "TX_EMPTY"
      /\ twi.state = "RX" => twi.buffer = "DATA" /\ twi.complete = "STOP" /\ call = "READ"
      /\ twi.addressNACKCheck => twi.state \in {"TX", "RX"}
      /\ twi.state = "SEND_ADR_WRITE" => twi.buffer = "REG" /\ ~twi.addressNACKCheck
  BY <1>2 DEF IInv, BufferInv
<1>4. CASE ~Quiet
  <2>1. Ended(twi, twi') /\ twi'.data = twi.data
    BY <1>1, <1>2, <1>4, BusErrorIs, BusCollisionIs DEF Dispatch, Quiet
  <2>2. pc' = "close"
    BY <1>1, <2>1 DEF Ended
  <2>3. seen \cap Fatal # {}
    BY <1>2, <1>4 DEF Fatal
  <2> QED
    BY <1>1, <2>1, <2>2, <2>3, EndsAfterTrouble DEF Ended, Fixed, Moved
<1>5. CASE Quiet /\ twi.addressNACKCheck /\ twi.rxack
  <2>1. twi' = DO_ADDRESS_NACK(twi)
    BY <1>1, <1>5 DEF Dispatch, Quiet
  <2>2. Addressed(twi, twi', "ADR_WRITE", "TX")
    BY <1>2, <1>3, <2>1, AddressNackIs
  <2>3. twi.buffer = "REG" \/ "READ_NACK" \in seen
    BY <1>2, <1>3, <1>5 DEF IInv, BufferInv, TroubleInv, Sending
  <2>4. pc' = "wait" /\ twi.len # 0
    BY <1>1, <1>2, <1>3, <1>5, <2>2 DEF Addressed
  <2> QED
    BY <1>1, <1>5, <2>2, <2>3, <2>4, WriteAddressKeeps DEF Addressed, Fixed, Moved
<1>6. CASE Quiet /\ ~(twi.addressNACKCheck /\ twi.rxack) /\ twi.state = "SEND_ADR_WRITE"
  <2>1. twi' = DO_SEND_ADR_WRITE(twi)
    BY <1>1, <1>6 DEF Dispatch, Quiet
  <2>2. Addressed(twi, twi', "ADR_WRITE", "TX")
    BY <1>2, <2>1, SendAddressIs
  <2>3. pc' = "wait" /\ twi.len # 0
    BY <1>1, <1>2, <1>3, <1>6, <2>2 DEF Addressed
  <2> QED
    BY <1>1, <1>3, <1>6, <2>2, <2>3, WriteAddressKeeps DEF Addressed, Fixed, Moved
<1>7. CASE Quiet /\ ~(twi.addressNACKCheck /\ twi.rxack) /\ twi.state = "TX"
  <2>1. twi' = DO_TX(twi)
    BY <1>1, <1>7 DEF Dispatch, Quiet
  <2>2. CASE twi.rxack
    <3>1. Ended(twi, twi') /\ twi'.data = twi.data
      BY <1>2, <2>1, <2>2, StopIs DEF DO_TX
    <3>2. seen \cap Fatal # {}
      BY <1>2, <1>7, <2>2 DEF IInv, TroubleInv, Sending, Fatal
    <3>3. pc' = "close"
      BY <1>1, <3>1 DEF Ended
    <3> QED
      BY <1>1, <3>1, <3>2, <3>3, EndsAfterTrouble DEF Ended, Fixed, Moved
  <2>3. CASE ~twi.rxack
    <3>1. twi.len > 0 /\ twi.ptr \in 1 .. Len(Buffer(twi))
      BY <1>2, <1>3, <1>7
    <3>2. ByteSent(twi, twi')
      BY <1>2, <2>1, <2>3, <3>1, BufferIs, TxIs
    <3>3. pc' = "wait"
      BY <1>1, <1>2, <3>2 DEF ByteSent
    <3> QED
      BY <1>1, <1>7, <2>3, <3>2, <3>3, ByteSentKeeps DEF ByteSent, Fixed, Moved
  <2> QED
    BY <2>2, <2>3
<1>8. CASE Quiet /\ ~(twi.addressNACKCheck /\ twi.rxack) /\ twi.state = "TX_EMPTY"
  <2> DEFINE h == DataComplete([twi EXCEPT !.bufferFree = TRUE])
  <2>0. twi' = DO_TX_EMPTY(twi)
    BY <1>1, <1>8 DEF Dispatch, Quiet
  <2>1. twi' = CASE twi.rxack -> DO_SEND_STOP(twi)
              [] ~twi.rxack /\ twi.complete = "RESTART_READ" -> DO_SEND_ADR_READ(h)
              [] ~twi.rxack /\ twi.complete = "CONTINUE"     -> DO_TX(h)
              [] ~twi.rxack /\ twi.complete = "STOP"         -> DO_SEND_STOP(twi)
    BY <2>0 DEF DO_TX_EMPTY
  <2>2. twi.complete # "STOP" =>
            /\ h \in I2C0_status_t /\ Fixed(twi, h) /\ h.busy = twi.busy /\ h.own = twi.own
            /\ h.buffer = "DATA" /\ h.ptr = 1 /\ h.len = Len(twi.data) /\ h.data = twi.data
            /\ h.complete = "STOP"
    BY <1>2, HandOver
  <2> HIDE DEF h
  <2>3. CASE twi.rxack
    <3>1. Ended(twi, twi') /\ twi'.data = twi.data
      BY <1>2, <2>1, <2>3, StopIs
    <3>2. seen \cap Fatal # {}
      BY <1>2, <1>3, <1>8, <2>3 DEF IInv, TroubleInv, Sending, Fatal
    <3>3. pc' = "close"
      BY <1>1, <3>1 DEF Ended
    <3> QED
      BY <1>1, <3>1, <3>2, <3>3, EndsAfterTrouble DEF Ended, Fixed, Moved
  <2>4. CASE ~twi.rxack /\ twi.complete = "STOP"
    <3>1. Ended(twi, twi') /\ twi'.data = twi.data
      BY <1>2, <2>1, <2>4, StopIs
    <3>2. pc' = "close"
      BY <1>1, <3>1 DEF Ended
    <3> QED
      BY <1>1, <1>8, <2>4, <3>1, <3>2, EndsWell DEF Ended, Fixed, Moved
  <2>5. CASE ~twi.rxack /\ twi.complete = "RESTART_READ"
    <3>1. Addressed(h, twi', "ADR_READ", "RX")
      BY <2>1, <2>2, <2>5, SendAddressIs
    <3>2. pc' = "wait"
      BY <1>1, <1>2, <2>2, <2>5, <3>1 DEF Addressed
    <3> QED
      BY <1>1, <1>8, <2>2, <2>5, <3>1, <3>2, ReadAddressKeeps DEF Addressed, Fixed, Moved
  <2>6. CASE ~twi.rxack /\ twi.complete = "CONTINUE"
    <3>1. Buffer(h) = twi.data /\ 1 \in 1 .. Len(twi.data) /\ twi.data[1] \in Byte
      BY <1>2, <2>2, <2>6, BlockIs DEF Buffer
    <3>2. ~h.rxack
      BY <2>2, <2>6 DEF Fixed
    <3>3. ByteSent(h, twi')
      BY <1>2, <2>1, <2>2, <2>6, <3>1, <3>2, TxIs
    <3>4. pc' = "wait"
      BY <1>1, <1>2, <2>2, <2>6, <3>3 DEF ByteSent
    <3> QED
      BY <1>1, <1>8, <2>2, <2>6, <3>3, <3>4, FirstByteKeeps DEF ByteSent, Fixed, Moved
  <2> QED
    BY <1>2, <2>3, <2>4, <2>5, <2>6
<1>9. CASE Quiet /\ ~(twi.addressNACKCheck /\ twi.rxack) /\ twi.state = "RX"
  <2>1. twi' = DO_RX(twi)
    BY <1>1, <1>9 DEF Dispatch, Quiet
  <2>2. twi.len > 0 /\ twi.ptr \in 1 .. Len(twi.data)
    BY <1>2, <1>3, <1>9, DataBuffer
  <2>3. CASE twi.len # 1
    <3>1. ByteTaken(twi, twi')
      BY <1>2, <1>3, <1>9, <2>1, <2>2, <2>3, RxIs
    <3>2. pc' = "wait"
      BY <1>1, <1>2, <3>1 DEF ByteTaken
    <3> QED
      BY <1>1, <1>3, <1>9, <2>2, <2>3, <3>1, <3>2, ByteTakenKeeps DEF ByteTaken, Fixed, Moved
  <2>4. CASE twi.len = 1
    <3>1. Ended(twi, twi') /\ twi'.data = [twi.data EXCEPT ![twi.ptr] = twi.mdata]
      BY <1>2, <1>3, <1>9, <2>1, <2>2, <2>4, RxIs
    <3>2. pc' = "close"
      BY <1>1, <3>1 DEF Ended
    <3> QED
      BY <1>1, <1>3, <1>9, <2>2, <2>4, <3>1, <3>2, LastByteKeeps DEF Ended, Fixed, Moved
  <2> QED
    BY <2>3, <2>4
<1> QED
  BY <1>3, <1>4, <1>5, <1>6, <1>7, <1>8, <1>9

-----------------------------------------------------------------------------
(* The theorems.                                                            *)

LEMMA NextKeeps == ASSUME IInv, [Next]_vars PROVE IInv'
<1>1. CASE Begin
  BY <1>1, BeginKeeps
<1>2. CASE Open \/ MasterWrite \/ Close
  BY <1>2, OpenKeeps, MasterWriteKeeps, CloseKeeps
<1>3. CASE ClearIrq \/ MasterIsr \/ WaitForEvent
  BY <1>3, ClearIrqKeeps, MasterIsrKeeps, WaitForEventKeeps
<1>4. CASE Device
  BY <1>4, AckWriteKeeps, AckReadKeeps, AckByteKeeps, SendByteKeeps DEF Device
<1>5. CASE Nack \/ BusFault \/ Watchdog
  BY <1>5, NackKeeps, BusFaultKeeps, WatchdogKeeps
<1>6. CASE UNCHANGED vars
  <2>1. TypeOK' /\ CallInv' /\ BufferInv' /\ TroubleInv' /\ CmdInv' /\ RegInv'
    BY <1>6 DEF vars, IInv, TypeOK, CallInv, BufferInv, TroubleInv, CmdInv, RegInv, Sending
  <2>2. WriteInv' /\ ReadInv' /\ EndInv'
    BY <1>6 DEF vars, IInv, WriteInv, ReadInv, EndInv, Stored, Slot, Fine
  <2> QED
    BY <2>1, <2>2 DEF IInv
<1> QED
  BY <1>1, <1>2, <1>3, <1>4, <1>5, <1>6 DEF Next, Master

\* What the master, the TCPC and the buffers have to do with each other at every
\* step of a transfer.
THEOREM TransferInvariant == Spec => []IInv
<1>1. IInv /\ [Next]_vars => IInv'
  BY NextKeeps
<1> QED
  BY <1>1, InitInv, PTL DEF Spec

\* Every variable of the I2C master stays in its type, data_length included.
THEOREM TransferTypeCorrect == Spec => []TypeOK
  BY TransferInvariant, PTL DEF IInv

\* The handlers never run past a buffer of the caller.
THEOREM BuffersAreKept == Spec => []InBounds
<1>1. IInv => InBounds
  <2> SUFFICES ASSUME IInv PROVE InBounds
    OBVIOUS
  <2>1. twi.len \in Nat
    BY DEF IInv, TypeOK, I2C0_status_t
  <2> QED
    BY <2>1 DEF IInv, BufferInv, InBounds
<1> QED
  BY <1>1, TransferInvariant, PTL
-----------------------------------------------------------------------------
(* The refinement of RegBus: each step is a step of a transfer or none.     *)

\* The transfer as its caller sees it.
Transfer == IF call = "NONE" THEN [kind |-> "NONE"]
            ELSE [kind |-> call, reg |-> twi.reg, data |-> twi.data]

LEMMA TransferIs ==
    ASSUME call # "NONE"
    PROVE  /\ Transfer.kind = call /\ Transfer.reg = twi.reg /\ Transfer.data = twi.data
           /\ call \in {"READ", "WRITE"} => Transfer # Bus!NoOp
<1>1. Transfer = [kind |-> call, reg |-> twi.reg, data |-> twi.data]
  BY DEF Transfer
<1> QED
  BY <1>1 DEF Bus!NoOp

\* A step that changes nothing a caller sees.
Unseen == dev'.regs = dev.regs /\ call' = call /\ seen' = seen /\ twi'.reg = twi.reg /\ twi'.data = twi.data

LEMMA UnseenStutters == ASSUME Unseen PROVE [Bus!Next]_(Bus!vars)
BY DEF Unseen, Bus!vars

LEMMA BusFacts ==
    ASSUME IInv, call # "NONE"
    PROVE  /\ Bus!Active /\ call \in {"READ", "WRITE"} /\ pc # "idle"
           /\ \A k \in 1 .. Len(twi.data) : Bus!Slot(k) = Slot(k)
           /\ DOMAIN twi.data = 1 .. Len(twi.data) /\ Len(twi.data) \in Nat /\ Len(twi.data) <= Size
           /\ twi.data \in Blocks /\ twi.reg \in Byte /\ twi.mdata \in Byte
           /\ Bus!Fatal = Fatal /\ Bus!Byte = Byte
<1>1. call \in {"READ", "WRITE"} /\ pc # "idle"
  BY DEF IInv, TypeOK, CallInv
<1>2. twi.data \in Blocks /\ twi.reg \in Byte /\ twi.mdata \in Byte
  BY DEF IInv, TypeOK, I2C0_status_t
<1>3. Bus!Active
  BY <1>1, TransferIs DEF Bus!Active, Transfer
<1>4. \A k \in 1 .. Len(twi.data) : Bus!Slot(k) = Slot(k)
  <2> SUFFICES ASSUME NEW k \in 1 .. Len(twi.data) PROVE Bus!Slot(k) = Slot(k)
    OBVIOUS
  <2>1. Bus!Slot(k) = Bus!Wrapped(Transfer.reg + k - 1)
    BY DEF Bus!Slot, Transfer
  <2>2. Bus!Slot(k) = Bus!Wrapped(twi.reg + k - 1)
    BY <2>1, TransferIs
  <2>3. Bus!Wrapped(twi.reg + k - 1) = Place(twi.reg, k)
    <3>1. k \in Nat /\ twi.reg \in Nat /\ Size \in Nat
      BY <1>2, BlockIs, Sizes DEF Byte
    <3> QED
      BY <3>1 DEF Bus!Wrapped, Place
  <2> QED
    BY <2>2, <2>3 DEF Slot
<1>5. Bus!Fatal = Fatal /\ Bus!Byte = Byte
  BY DEF Bus!Fatal, Bus!Troubles, Fatal, Bus!Byte, Byte
<1> QED
  BY <1>1, <1>2, <1>3, <1>4, <1>5, BlockIs, Sizes

LEMMA BeginIs == ASSUME IInv, Begin PROVE Bus!Begin
<1>1. PICK c \in Calls : call' = c.kind /\ twi' = [twi EXCEPT !.reg = c.reg, !.data = c.data]
  BY DEF Begin
<1>2. c.kind \in {"READ", "WRITE"} /\ c.reg \in Byte /\ c.data \in Blocks
  BY TwiAssumption DEF Byte, Blocks
<1>3. twi'.reg = c.reg /\ twi'.data = c.data
  BY <1>1 DEF IInv, TypeOK, I2C0_status_t
<1>4. call = "NONE" /\ seen' = {} /\ dev' = dev
  BY DEF Begin, IInv, CallInv
<1>5. Transfer' = [kind |-> c.kind, reg |-> c.reg, data |-> c.data]
  BY <1>1, <1>2, <1>3 DEF Transfer
<1>6. Transfer' \in Bus!Op
  BY <1>2, <1>5 DEF Bus!Op, Bus!Byte, Bus!Blocks, Byte, Blocks
<1> QED
  BY <1>4, <1>6 DEF Bus!Begin, Bus!Active, Bus!NoOp, Transfer

LEMMA MasterIsrIs == ASSUME IInv, MasterIsr PROVE [Bus!Next]_(Bus!vars)
<1>1. Moved /\ dev' = dev /\ call' = call /\ seen' = seen /\ pc = "test"
  BY MasterIsrKeeps DEF MasterIsr, Goto
<1>2. CASE twi'.data = twi.data
  BY <1>1, <1>2, UnseenStutters DEF Moved, Unseen
<1>3. CASE /\ call = "READ" /\ twi.state = "RX" /\ twi.ptr \in 1 .. Len(twi.data)
           /\ twi'.data = [twi.data EXCEPT ![twi.ptr] = twi.mdata]
  <2>1. Fine => twi.mdata = dev.regs[Slot(twi.ptr)]
    BY <1>1, <1>3, AtTest DEF IInv, ReadInv
  <2>2. twi.mdata = dev.regs[Bus!Slot(twi.ptr)] \/ seen \cap Bus!Fatal # {}
    BY <1>3, <2>1, BusFacts DEF Fine
  <2>3. Transfer' = [Transfer EXCEPT !.data[twi.ptr] = twi.mdata]
    <3>1. Transfer = [kind |-> call, reg |-> twi.reg, data |-> twi.data]
      BY <1>3 DEF Transfer
    <3>2. Transfer' = [kind |-> call, reg |-> twi.reg, data |-> [twi.data EXCEPT ![twi.ptr] = twi.mdata]]
      BY <1>1, <1>3 DEF Transfer, Moved
    <3> QED
      BY <3>1, <3>2
  <2>4. Transfer.kind = "READ" /\ Transfer.data = twi.data
    BY <1>3, TransferIs
  <2>5. Bus!FetchByte
    <3>1. twi.ptr \in DOMAIN Transfer.data /\ twi.mdata \in Bus!Byte /\ Bus!Active
      BY <1>3, <2>4, BusFacts
    <3>2. \E k \in DOMAIN Transfer.data, b \in Bus!Byte :
             /\ b = dev.regs[Bus!Slot(k)] \/ seen \cap Bus!Fatal # {}
             /\ Transfer' = [Transfer EXCEPT !.data[k] = b]
      BY <2>2, <2>3, <3>1
    <3> QED
      BY <1>1, <2>4, <3>1, <3>2, Zenon DEF Bus!FetchByte, Transfer
  <2> QED
    BY <2>5 DEF Bus!Next
<1> QED
  BY <1>1, <1>2, <1>3 DEF Moved

LEMMA AckByteIs == ASSUME IInv, AckByte PROVE [Bus!Next]_(Bus!vars)
<1>1. /\ twi'.reg = twi.reg /\ twi'.data = twi.data /\ call' = call /\ seen' = seen
      /\ twi.cmd = "TX" /\ twi.own
      /\ dev' = IF dev.first THEN [dev EXCEPT !.first = FALSE, !.ptr = twi.mdata]
                ELSE [dev EXCEPT !.regs[dev.ptr] = twi.mdata, !.ptr = After(@)]
  BY DEF AckByte, Answer, Done, IInv, TypeOK, I2C0_status_t
<1>2. pc = "wait" /\ twi.busy /\ Sending /\ twi.mdata = Buffer(twi)[twi.ptr - 1] /\ call # "NONE"
  BY <1>1 DEF IInv, CallInv, CmdInv
<1>3. dev \in [regs : [Byte -> Byte], ptr : Byte, first : BOOLEAN]
  BY DEF IInv, TypeOK
<1>4. CASE dev.first
  <2>1. dev'.regs = dev.regs
    BY <1>1, <1>3, <1>4
  <2> QED
    BY <1>1, <2>1, UnseenStutters DEF Unseen
<1>5. CASE ~dev.first
  <2>1. dev'.regs = [dev.regs EXCEPT ![dev.ptr] = twi.mdata]
    BY <1>1, <1>3, <1>5
  <2>2. twi.buffer = "DATA"
    BY <1>1, <1>5 DEF IInv, RegInv, TypeOK, I2C0_status_t
  <2>3. Transfer' = Transfer /\ Transfer.kind = call /\ Transfer.data = twi.data
    BY <1>1, <1>2, TransferIs DEF Transfer
  <2>4. CASE call = "WRITE"
    <3>1. dev.ptr = Slot(twi.ptr - 1)
      BY <1>1, <2>2, <2>4 DEF IInv, WriteInv
    <3>2. twi.ptr > 1 /\ twi.ptr + twi.len = Len(twi.data) + 1 /\ twi.ptr \in Nat /\ twi.len \in Nat
      BY <1>1, <1>2, <2>2, DataBuffer DEF IInv, CmdInv, BufferInv, TypeOK, I2C0_status_t
    <3>3. twi.ptr - 1 \in 1 .. Len(twi.data)
      BY <1>2, <3>2, BusFacts
    <3>4. twi.mdata = twi.data[twi.ptr - 1]
      BY <1>2, <2>2, DataBuffer
    <3>5. Bus!StoreByte
      BY <1>1, <1>2, <2>1, <2>3, <2>4, <3>1, <3>3, <3>4, BusFacts DEF Bus!StoreByte, Transfer
    <3> QED
      BY <3>5 DEF Bus!Next
  <2>5. CASE call = "READ"
    <3>1. "READ_NACK" \in seen
      BY <1>2, <2>2, <2>5 DEF IInv, BufferInv
    <3>2. Bus!StrayByte
      BY <1>1, <1>2, <1>3, <2>1, <2>3, <2>5, <3>1, BusFacts DEF Bus!StrayByte, Transfer
    <3> QED
      BY <3>2 DEF Bus!Next
  <2> QED
    BY <1>2, <2>4, <2>5, BusFacts
<1> QED
  BY <1>4, <1>5

LEMMA TroubleIs == ASSUME IInv, Nack \/ BusFault PROVE Bus!Trouble
<1>1. call # "NONE" /\ call' = call /\ dev' = dev
  BY DEF Nack, BusFault, Answer, IInv, CallInv
<1>2. twi'.reg = twi.reg /\ twi'.data = twi.data
  BY DEF Nack, BusFault, Answer, Done, MasterStop, IInv, TypeOK, I2C0_status_t
<1>3. \E t \in Bus!Troubles : seen' = seen \cup {t}
  BY DEF Nack, BusFault, Withhold, Bus!Troubles
<1> QED
  BY <1>1, <1>2, <1>3, BusFacts DEF Bus!Trouble, Transfer

LEMMA CloseIs == ASSUME IInv, Close PROVE Bus!Finish
<1>1. pc = "close" /\ call' = "NONE" /\ dev' = dev /\ seen' = seen
  BY DEF Close
<1>2. call # "NONE"
  BY <1>1 DEF IInv, CallInv
<1>3. Fine => Bus!Transferred
  <2> SUFFICES ASSUME Fine PROVE Bus!Transferred
    OBVIOUS
  <2>1. Stored(Len(twi.data))
    BY <1>1 DEF IInv, EndInv
  <2>2. Transfer.data = twi.data
    BY <1>2, TransferIs
  <2> QED
    BY <1>2, <2>1, <2>2, BusFacts DEF Bus!Transferred, Stored, Transfer
<1>4. Transfer' = Bus!NoOp
  BY <1>1 DEF Transfer, Bus!NoOp
<1> QED
  BY <1>1, <1>2, <1>3, <1>4, BusFacts DEF Bus!Finish, Fine, Transfer

\* A transfer gets stuck only after a trouble.
LEMMA WatchdogIs == ASSUME IInv, Watchdog PROVE Bus!Abort
<1>1. pc = "wait" /\ ~Event(twi) /\ (twi.cmd = "NONE" \/ ~twi.own) /\ call' = "NONE" /\ dev' = dev /\ seen' = seen
  BY DEF Watchdog, Stuck
<1>2. twi.busy /\ call # "NONE"
  BY <1>1 DEF IInv, CallInv
<1>3. seen # {}
  <2>1. CASE twi.cmd = "NONE"
    BY <1>1, <1>2, <2>1 DEF IInv, TroubleInv
  <2>2. CASE twi.cmd # "NONE"
    <3>1. twi.cmd \in {"ADR_READ", "ADR_WRITE", "TX", "RX"}
      BY <2>2 DEF IInv, TypeOK, I2C0_status_t
    <3>2. twi.state # "SEND_ADR_WRITE"
      BY <3>1 DEF IInv, CmdInv, Sending
    <3> QED
      BY <1>1, <1>2, <2>2, <3>2 DEF IInv, TroubleInv
  <2> QED
    BY <2>1, <2>2
<1>4. Transfer' = Bus!NoOp
  BY <1>1 DEF Transfer, Bus!NoOp
<1> QED
  BY <1>1, <1>2, <1>3, <1>4, BusFacts DEF Bus!Abort, Transfer

\* The calls and answers that move no byte.
LEMMA QuietStepIs ==
    ASSUME IInv, Open \/ MasterWrite \/ ClearIrq \/ WaitForEvent \/ AckWrite \/ AckRead \/ SendByte
    PROVE  Unseen
<1>1. twi \in I2C0_status_t /\ dev \in [regs : [Byte -> Byte], ptr : Byte, first : BOOLEAN]
  BY DEF IInv, TypeOK
<1>2. CASE Open
  BY <1>1, <1>2 DEF Open, Goto, MasterResetBus, MasterClearIrq, Unseen, I2C0_status_t
<1>3. CASE MasterWrite
  <2> DEFINE m == [SetBuffer(twi, "REG") EXCEPT
                      !.complete = CompleteHandler(call), !.nack = "RESTART_WRITE"]
  <2>1. m.reg = twi.reg /\ m.data = twi.data
    BY <1>1 DEF SetBuffer, I2C0_status_t
  <2>2. twi' = MasterOperation(m)
    BY <1>3 DEF MasterWrite
  <2> HIDE DEF m
  <2>3. twi'.reg = m.reg /\ twi'.data = m.data
    BY <2>2 DEF MasterOperation
  <2> QED
    BY <1>3, <2>1, <2>3 DEF MasterWrite, Goto, Unseen
<1>4. CASE ClearIrq \/ WaitForEvent
  BY <1>1, <1>4 DEF ClearIrq, WaitForEvent, Goto, MasterClearIrq, Unseen, I2C0_status_t
<1>5. CASE AckWrite \/ AckRead \/ SendByte
  BY <1>1, <1>5 DEF AckWrite, AckRead, SendByte, Answer, Done, Unseen, I2C0_status_t
<1> QED
  BY <1>2, <1>3, <1>4, <1>5

\* The I2C master implements RegBus: a block goes where it belongs, a transfer
\* ends before it is moved only after a fatal trouble, and a read changes a
\* register only after its address was refused.
THEOREM TransfersImplemented == Spec => Implements
<1>1. Init => Bus!Init
  BY DEF Init, Bus!Init, Bus!NoOp, Bus!Byte, Byte
<1>2. IInv /\ [Next]_vars => [Bus!Next]_(Bus!vars)
  <2> SUFFICES ASSUME IInv, [Next]_vars PROVE [Bus!Next]_(Bus!vars)
    OBVIOUS
  <2>1. CASE Begin
    BY <2>1, BeginIs DEF Bus!Next
  <2>2. CASE Close
    BY <2>2, CloseIs DEF Bus!Next
  <2>3. CASE MasterIsr \/ AckByte
    BY <2>3, MasterIsrIs, AckByteIs
  <2>4. CASE Nack \/ BusFault
    BY <2>4, TroubleIs DEF Bus!Next
  <2>5. CASE Watchdog
    BY <2>5, WatchdogIs DEF Bus!Next
  <2>6. CASE Open \/ MasterWrite \/ ClearIrq \/ WaitForEvent \/ AckWrite \/ AckRead \/ SendByte
    BY <2>6, QuietStepIs, UnseenStutters
  <2>7. CASE UNCHANGED vars
    BY <2>7, UnseenStutters DEF vars, Unseen
  <2> QED
    BY <2>1, <2>2, <2>3, <2>4, <2>5, <2>6, <2>7 DEF Next, Master, Device
<1> QED
  BY <1>1, <1>2, TransferInvariant, PTL DEF Spec, Implements, Bus!Spec

=============================================================================

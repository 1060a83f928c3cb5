-------------------------- MODULE UlinkUart_proofs --------------------------
(***************************************************************************)
(* Theorems about UlinkUart, for pages, FIFOs and messages of any size:    *)
(* the driver's flag and the UART's interrupt enable, the bytes out and in *)
(* in their order, and the pages of both buffers.                          *)
(***************************************************************************)
EXTENDS UlinkUart, UlinkBuffer_proofs

\* From the test of the flag until the enabling, the handler for transmission is off:
\* the kick is alone with the buffer.
KickAlone ==
  /\ pc \in {"kick", "fill", "flag"} => ~txEnabled /\ ~txInt
  /\ pc = "enable" => txEnabled /\ ~txInt

FlagInv ==
  /\ txEnabled \in BOOLEAN /\ txInt \in BOOLEAN
  /\ KickAlone
  /\ FlagTellsTruth

LEMMA FlagStep == FlagInv /\ [Next]_vars => FlagInv'
  <1>. SUFFICES ASSUME FlagInv, [Next]_vars PROVE FlagInv'
    OBVIOUS
  <1>. USE DEF FlagInv, KickAlone, FlagTellsTruth
  <1>1. CASE StartWrite
    BY <1>1 DEF StartWrite, Goto, txVars, kickVars
  <1>2. CASE TestEnabled
    BY <1>2 DEF TestEnabled, Goto, txVars, kickVars
  <1>3. CASE KickRead
    BY <1>3 DEF KickRead, Goto
  <1>4. CASE KickFill
    BY <1>4 DEF KickFill, Goto
  <1>5. CASE Enable
    <2>1. CASE pc = "flag" /\ pc' = "enable" /\ txEnabled' = TRUE /\ UNCHANGED txInt
      <3>1. ~txInt' /\ txEnabled'
        BY <2>1
      <3>. QED BY <2>1, <3>1
    <2>2. CASE pc = "enable" /\ pc' = "return" /\ txInt' = TRUE /\ UNCHANGED txEnabled
      <3>1. txInt' /\ txEnabled'
        BY <2>2
      <3>. QED BY <2>2, <3>1
    <2>. QED BY <1>5, <2>1, <2>2 DEF Enable, Goto
  <1>6. CASE WriteReturns
    BY <1>6 DEF WriteReturns, Goto
  <1>7. CASE InterruptTx
    <2>1. /\ pc' = pc /\ txInt
          /\ \/ ~txInt' /\ ~txEnabled' /\ txInt' \in BOOLEAN /\ txEnabled' \in BOOLEAN
             \/ txInt' = txInt /\ txEnabled' = txEnabled
      BY <1>7 DEF InterruptTx, mainVars
    <2>. QED BY <2>1
  <1>8. CASE BufferWrites
    <2>1. UNCHANGED <<txEnabled, txInt>>
      BY <1>8 DEF BufferWrites, PutByte, ByteLands, FindPage, TakePage, SetNext, SetWrite, AllPut,
                  txVars, kickVars
    <2>2. pc \notin {"flag", "enable"} /\ pc' \notin {"kick", "fill", "flag", "enable"}
      BY <1>8 DEF BufferWrites, PutByte, ByteLands, FindPage, TakePage, SetNext, SetWrite, AllPut, Goto
    <2>. QED BY <2>1, <2>2
  <1>9. CASE StartRead \/ Reads
    <2>1. UNCHANGED <<txEnabled, txInt>>
      BY <1>9 DEF StartRead, Reads, BufferReads, OuterLoop, TakeByte, InnerEnds, IsEmpty, IsFull,
                  NextPage, FreeNext, FreeFirst, ReadReturns, txVars, kickVars
    <2>2. pc \notin {"flag", "enable"} /\ pc' \notin {"kick", "fill", "flag", "enable"}
      BY <1>9 DEF StartRead, Reads, BufferReads, OuterLoop, TakeByte, InnerEnds, IsEmpty, IsFull,
                  NextPage, FreeNext, FreeFirst, ReadReturns, Goto
    <2>. QED BY <2>1, <2>2
  <1>10. CASE InterruptRx \/ UartSends \/ UartReceives \/ UNCHANGED vars
    <2>1. UNCHANGED <<pc, txEnabled, txInt>>
      BY <1>10 DEF InterruptRx, UartSends, UartReceives, vars, mainVars, txVars, kickVars
    <2>. QED BY <2>1
  <1>. QED BY <1>1, <1>2, <1>3, <1>4, <1>5, <1>6, <1>7, <1>8, <1>9, <1>10 DEF Next, Writes

\* The flag that write relies on tells whether the handler is enabled, wherever the
\* handler interrupts it (ulink_hps_uart.cpp:98, 112-115, 180-185).
THEOREM FlagTruthful == UartSpec => []FlagTellsTruth
  <1>1. UartInit => FlagInv
    BY DEF UartInit, FlagInv, KickAlone, FlagTellsTruth
  <1>2. FlagInv => FlagTellsTruth
    BY DEF FlagInv
  <1>. QED BY <1>1, <1>2, FlagStep, PTL DEF UartSpec

-----------------------------------------------------------------------------
(* The bytes: wherever they are, they are there in the order in which they *)
(* came, wherever the handler has interrupted the main loop, until it has  *)
(* come where it tears the buffer.                                         *)

\* x bytes have been counted, the last of which is not there yet.
Counted(b, x, from) ==
  /\ b \in Buffers /\ b.write \in DOMAIN b.page /\ b.page[b.write].wr # 0
  /\ HeldFull(FillByte(b, x), from, x)

\* The page that is written is full; page h comes next.
Turning(b, h, linked, from, to) ==
  /\ b \in Buffers /\ b.write \in DOMAIN b.page /\ h \in Nat \ {0} /\ linked \in BOOLEAN
  /\ b.page[b.write].next = IF linked THEN h ELSE 0
  /\ Held(Turned(b, h, linked), from, to)

\* m_tx_buffer holds the bytes written after the first u, or will when write has done what
\* it is about to do.
TxHeld(u) ==
  /\ pc = "put"   => HeldFull(txBuf, u, written)
  /\ pc = "byte"  => Counted(txBuf, written, u)
  /\ pc = "alloc" => HeldFull(txBuf, u, written) /\ ~HasRoom(txBuf) /\ hand \in {0, txBuf.free}
  /\ pc = "link"  => Turning(txBuf, hand, FALSE, u, written)
  /\ pc = "move"  => \E h : Turning(txBuf, h, TRUE, u, written)
  /\ pc \notin {"put", "byte", "alloc", "link", "move"} => Held(txBuf, u, written)

\* On the way out: the wire, the FIFO, what write has in hand, and the buffer.
\* Write has something in hand only between its read of the buffer and its filling of the
\* FIFO, and there is room for it then.
TxHolds(x, y, z) ==
  /\ written \in Nat
  /\ wire = Following(0, x) /\ txFifo = Following(x, y) /\ tmp = Following(x + y, z)
  /\ TxHeld(x + y + z)
  /\ y + z <= FifoSize
  /\ z # 0 => pc = "fill"

TxInv == txTorn \/ \E x, y, z \in Nat : TxHolds(x, y, z)

\* The statements of ulink_buffer::write.
LEMMA WriteKeeps ==
  ASSUME NEW u \in Nat, written \in Nat, TxHeld(u), BufferWrites
  PROVE  TxHeld(u)' /\ written' \in Nat
<1>1. CASE PutByte
  <2>1. pc = "put" /\ HasRoom(txBuf) /\ written' = written + 1
    BY <1>1 DEF PutByte, Goto
  <2>2. PICK b \in {txBuf}, n \in Nat : b = txBuf /\ n = written /\ Held(b, u, n)
    BY <2>1 DEF TxHeld, HasRoom, Held
  <2>3. HeldFull(Store(b, n + 1), u, n + 1)
    BY <2>2, StoreHeld
  <2>4. CASE pc' = "byte" /\ txBuf' = CountByte(txBuf)
    <3>1. Sane(b) /\ b.page[b.write].wr < PageSize
      BY <2>2, HeldSane DEF Held
    <3>2. /\ CountByte(b) \in Buffers /\ CountByte(b).write = b.write
          /\ b.write \in DOMAIN CountByte(b).page /\ CountByte(b).page[b.write].wr # 0
      BY <3>1, CountIs DEF Sane
    <3>3. HeldFull(FillByte(CountByte(b), n + 1), u, n + 1)
      BY <2>3 DEF Store
    <3>4. Counted(CountByte(b), n + 1, u)
      BY <3>2, <3>3 DEF Counted
    <3> QED BY <2>1, <2>2, <2>4, <3>4 DEF TxHeld
  <2>5. CASE pc' = "put" /\ txBuf' = Store(txBuf, written + 1)
    BY <2>1, <2>2, <2>3, <2>5 DEF TxHeld
  <2> QED BY <1>1, <2>4, <2>5 DEF PutByte, Goto
<1>2. CASE ByteLands
  BY <1>2 DEF ByteLands, Goto, TxHeld, Counted
<1>3. CASE FindPage
  BY <1>3 DEF FindPage, Goto, TxHeld, txVars
<1>4. CASE TakePage
  <2>1. /\ pc = "alloc" /\ pc' = "link" /\ written' = written
        /\ txBuf' = AfterAlloc(txBuf, hand) /\ hand' = PageFrom(txBuf, hand)
    BY <1>4 DEF TakePage, Goto
  <2>2. PICK b \in {txBuf}, n \in Nat, first \in {hand} :
          /\ b = txBuf /\ n = written /\ first = hand
          /\ HeldFull(b, u, n) /\ ~HasRoom(b) /\ first \in {0, b.free}
    BY <2>1 DEF TxHeld
  <2>3. Sane(b) /\ b.free # b.write /\ b.page[b.write].next = 0
    BY <2>2, HeldSane, FreeApart, LastHeld
  <2>4. Seen(b, first) /\ first # b.write
    <3>1. b.write # 0
      <4>1. PICK N \in Nat : N = Len(b.page) /\ b \in Buffers
        BY <2>3 DEF Sane, Buffers
      <4>2. DOMAIN b.page = 1 .. N
        BY <4>1, PageFacts
      <4> QED BY <2>3, <4>2 DEF Sane
    <3> QED BY <2>2, <2>3, <3>1 DEF Seen, Sane
  <2>5. b.page[b.write].wr = PageSize
    <3>1. PICK wr \in Nat : wr = b.page[b.write].wr /\ wr <= PageSize
      BY <2>2, PagesHeld
    <3> QED BY <2>2, <3>1, PageAssumption DEF HasRoom
  <2>6. PICK a, h : a = AfterAlloc(b, first) /\ h = PageFrom(b, first)
    OBVIOUS
  <2>7. /\ a \in Buffers /\ a.write = b.write /\ b.write \in DOMAIN a.page
        /\ a.page[b.write] = b.page[b.write] /\ h \in Nat \ {0}
    BY <2>3, <2>4, <2>6, AllocIs DEF Sane
  <2>8. Held(Turned(a, h, FALSE), u, n)
    <3>1. Held(GrowFrom(b, first), u, n)
      BY <2>2, <2>5, GrowHeld
    <3> QED BY <2>6, <3>1 DEF GrowFrom, Turned
  <2>9. Turning(a, h, FALSE, u, n)
    BY <2>3, <2>7, <2>8 DEF Turning
  <2> QED BY <2>1, <2>2, <2>6, <2>9 DEF TxHeld
<1>5. CASE SetNext
  <2>1. pc = "link" /\ pc' = "move" /\ written' = written /\ txBuf' = LinkPage(txBuf, hand)
    BY <1>5 DEF SetNext, Goto
  <2>2. PICK b \in {txBuf}, h \in {hand}, n \in Nat :
          b = txBuf /\ h = hand /\ n = written /\ Turning(b, h, FALSE, u, n)
    BY <2>1 DEF TxHeld
  <2>3. PICK c : c = LinkPage(b, h)
    OBVIOUS
  <2>4. b \in Buffers /\ h \in Nat \ {0} /\ b.write \in DOMAIN b.page /\ Held(MoveOn(c), u, n)
    BY <2>2, <2>3 DEF Turning, Turned
  <2>5. c \in Buffers /\ c.write = b.write /\ Len(c.page) = Len(b.page) /\ c.page[b.write].next = h
    BY <2>3, <2>4, LinkIs
  <2>6. c.write \in DOMAIN c.page
    <3>1. PICK N \in Nat : N = Len(b.page)
      BY <2>4 DEF Buffers
    <3> QED BY <2>4, <2>5, <3>1, PageFacts
  <2>7. Turning(c, h, TRUE, u, n)
    BY <2>4, <2>5, <2>6 DEF Turning, Turned
  <2> QED BY <2>1, <2>2, <2>3, <2>7 DEF TxHeld
<1>6. CASE SetWrite
  <2>1. pc = "move" /\ pc' = "put" /\ written' = written /\ txBuf' = MoveOn(txBuf)
    BY <1>6 DEF SetWrite, Goto
  <2>2. Held(MoveOn(txBuf), u, written)
    BY <2>1 DEF TxHeld, Turning, Turned
  <2>3. HeldFull(MoveOn(txBuf), u, written)
    BY <2>2 DEF Held
  <2> QED BY <2>1, <2>3 DEF TxHeld
<1>7. CASE AllPut
  <2>1. pc = "put" /\ pc' \in {"idle", "test"} /\ UNCHANGED <<txBuf, written>> /\ HasRoom(txBuf)
    BY <1>7 DEF AllPut, Goto, txVars
  <2>2. Held(txBuf, u, written)
    BY <2>1 DEF TxHeld, Held, HasRoom
  <2> QED BY <2>1, <2>2 DEF TxHeld
<1> QED BY <1>1, <1>2, <1>3, <1>4, <1>5, <1>6, <1>7 DEF BufferWrites

\* The handler, between any two of them.
LEMMA HandlerReads ==
  ASSUME NEW u \in Nat, written \in Nat, TxHeld(u), InterruptTx, ~txTorn'
  PROVE  \E k \in 0 .. FifoSize : txFifo' = Following(u, k) /\ TxHeld(u + k)'
<1>1. PICK b \in {txBuf}, n \in Nat, c \in {txBuf'} :
        /\ b = txBuf /\ n = written /\ c = txBuf' /\ c = Read(b, FifoSize).b
        /\ txFifo' = Read(b, FifoSize).out /\ ~TearsTx(c)
  BY DEF InterruptTx
<1>2. UNCHANGED <<pc, hand, written>> /\ FifoSize \in Nat
  BY UartAssumption DEF InterruptTx, mainVars
<1>3. CASE pc = "put" \/ pc = "alloc"
  <2>1. HeldFull(b, u, n)
    BY <1>1, <1>3 DEF TxHeld
  <2>2. PICK wr \in Nat : wr = b.page[b.write].wr
    BY <2>1, PagesHeld
  <2>3. wr >= PageSize => c.page[b.write].rd # c.page[b.write].wr
    <3>1. wr >= PageSize => Unsettled
      BY <1>1, <1>3, <2>2, PageAssumption, SMT DEF Unsettled, HasRoom, TxHeld
    <3> QED BY <1>1, <3>1 DEF TearsTx
  <2>4. ReadsOn(b, FifoSize, c, u, n)
    <3>1. c = Read(b, FifoSize).b
      BY <1>1
    <3>2. FifoSize \in Nat
      BY <1>2
    <3> QED BY <2>1, <3>1, <3>2, ReadHeld, Zenon
  <2>5. PICK k \in 0 .. FifoSize : /\ c.page[c.write].wr = wr
                                   /\ txFifo' = Following(u, k) /\ HeldFull(c, u + k, n)
    BY <1>1, <2>2, <2>3, <2>4 DEF ReadsOn
  <2>6. CASE pc = "put"
    <3>1. TxHeld(u + k)'
      BY <1>1, <1>2, <2>5, <2>6 DEF TxHeld
    <3> QED BY <2>5, <3>1
  <2>7. CASE pc = "alloc"
    <3>1. ~HasRoom(b) /\ hand \in {0, b.free}
      BY <1>1, <2>7 DEF TxHeld
    <3>2. hand \in {0, c.free}
      BY <1>1, <2>7, <3>1 DEF TearsTx
    <3>3. ~HasRoom(c)
      BY <2>2, <2>5, <3>1 DEF HasRoom
    <3>4. TxHeld(u + k)'
      BY <1>1, <1>2, <2>5, <2>7, <3>2, <3>3 DEF TxHeld
    <3> QED BY <2>5, <3>4
  <2> QED BY <1>3, <2>6, <2>7
<1>4. CASE pc = "byte"
  <2>1. b \in Buffers /\ b.write \in DOMAIN b.page /\ b.page[b.write].wr # 0 /\ HeldFull(FillByte(b, n), u, n)
    BY <1>1, <1>4 DEF TxHeld, Counted
  <2>2. c.page[b.write].rd # c.page[b.write].wr
    BY <1>1, <1>4 DEF TearsTx, Unsettled
  <2>3. PICK k \in 0 .. FifoSize : /\ c \in Buffers /\ c.write = b.write /\ c.write \in DOMAIN c.page
                                   /\ c.page[c.write].wr = b.page[b.write].wr
                                   /\ txFifo' = Following(u, k) /\ HeldFull(FillByte(c, n), u + k, n)
    BY <1>1, <1>2, <2>1, <2>2, ReadWhileByte
  <2>4. Counted(c, n, u + k)
    BY <2>1, <2>3 DEF Counted
  <2>5. TxHeld(u + k)'
    BY <1>1, <1>2, <1>4, <2>4 DEF TxHeld
  <2> QED BY <2>3, <2>5
<1>5. ASSUME NEW h, NEW linked, Turning(b, h, linked, u, n), Unsettled
      PROVE  \E k \in 0 .. FifoSize : txFifo' = Following(u, k) /\ Turning(c, h, linked, u + k, n)
  <2>1. /\ b \in Buffers /\ b.write \in DOMAIN b.page /\ h \in Nat \ {0} /\ linked \in BOOLEAN
        /\ b.page[b.write].next = (IF linked THEN h ELSE 0) /\ Held(Turned(b, h, linked), u, n)
    BY <1>5 DEF Turning
  <2>2. c.page[b.write].rd # c.page[b.write].wr
    BY <1>1, <1>5 DEF TearsTx
  <2>3. PICK k \in 0 .. FifoSize : /\ c \in Buffers /\ c.write = b.write /\ c.write \in DOMAIN c.page
                                   /\ c.page[c.write].next = b.page[b.write].next
                                   /\ txFifo' = Following(u, k) /\ Held(Turned(c, h, linked), u + k, n)
    BY <1>1, <1>2, <2>1, <2>2, ReadWhileTurn
  <2> QED BY <2>1, <2>3 DEF Turning
<1>6. CASE pc = "link"
  <2>1. PICK h \in {hand} : h = hand /\ Turning(b, h, FALSE, u, n)
    BY <1>1, <1>6 DEF TxHeld
  <2>2. PICK k \in 0 .. FifoSize : txFifo' = Following(u, k) /\ Turning(c, h, FALSE, u + k, n)
    BY <1>5, <1>6, <2>1 DEF Unsettled
  <2>3. TxHeld(u + k)'
    BY <1>1, <1>2, <1>6, <2>1, <2>2 DEF TxHeld
  <2> QED BY <2>2, <2>3
<1>7. CASE pc = "move"
  <2>1. PICK h : Turning(b, h, TRUE, u, n)
    BY <1>1, <1>7 DEF TxHeld
  <2>2. PICK k \in 0 .. FifoSize : txFifo' = Following(u, k) /\ Turning(c, h, TRUE, u + k, n)
    BY <1>5, <1>7, <2>1 DEF Unsettled
  <2>3. TxHeld(u + k)'
    BY <1>1, <1>2, <1>7, <2>2 DEF TxHeld
  <2> QED BY <2>2, <2>3
<1>8. CASE pc \notin {"put", "byte", "alloc", "link", "move"}
  <2>1. Held(b, u, n)
    BY <1>1, <1>8 DEF TxHeld
  <2>2. PICK k \in 0 .. FifoSize : txFifo' = Following(u, k) /\ Held(c, u + k, n)
    BY <1>1, <1>2, <2>1, ReadAlone
  <2>3. TxHeld(u + k)'
    BY <1>1, <1>2, <1>8, <2>2 DEF TxHeld
  <2> QED BY <2>2, <2>3
<1> QED BY <1>3, <1>4, <1>6, <1>7, <1>8

LEMMA TxStep == TxInv /\ FlagInv /\ [Next]_vars => TxInv'
<1> SUFFICES ASSUME TxInv, FlagInv, [Next]_vars PROVE TxInv'
  OBVIOUS
<1>1. CASE txTorn
  <2>1. CASE BufferWrites \/ TestEnabled \/ KickRead \/ KickFill \/ Enable \/ WriteReturns
    BY <1>1, <2>1 DEF TxInv, BufferWrites, PutByte, ByteLands, FindPage, TakePage, SetNext, SetWrite,
                      AllPut, TestEnabled, KickRead, KickFill, Enable, WriteReturns, txVars
  <2>2. CASE StartRead \/ Reads
    BY <1>1, <2>2 DEF TxInv, StartRead, Reads, BufferReads, OuterLoop, TakeByte, InnerEnds, IsEmpty,
                      IsFull, NextPage, FreeNext, FreeFirst, ReadReturns, txVars
  <2>3. CASE StartWrite \/ InterruptRx \/ UartSends \/ UartReceives \/ UNCHANGED vars
    BY <1>1, <2>3 DEF TxInv, StartWrite, InterruptRx, UartSends, UartReceives, vars, txVars
  <2>4. CASE InterruptTx
    BY <1>1, <2>4 DEF InterruptTx
  <2> QED BY <2>1, <2>2, <2>3, <2>4 DEF Next, Writes
<1>2. CASE ~txTorn
  <2>1. PICK x \in Nat, y \in Nat, z \in Nat : TxHolds(x, y, z)
    BY <1>2 DEF TxInv
  <2>2. PICK u \in Nat : u = x + y + z /\ TxHeld(u)
    BY <2>1 DEF TxHolds
  <2>3. /\ wire = Following(0, x) /\ txFifo = Following(x, y) /\ tmp = Following(x + y, z)
        /\ Len(txFifo) = y /\ Len(tmp) = z
        /\ txFifo = <<>> <=> y = 0
    <3>1. x + y \in Nat
      OBVIOUS
    <3> QED BY <2>1, <3>1, FollowingFacts DEF TxHolds
  <2>4. /\ y + z <= FifoSize /\ (z # 0 => pc = "fill") /\ FifoSize \in Nat /\ Chunk \in Nat
        /\ written \in Nat
    BY <2>1, UartAssumption DEF TxHolds
  <2>5. CASE BufferWrites
    <3>1. TxHeld(u)' /\ written' \in Nat
      BY <2>2, <2>4, <2>5, WriteKeeps
    <3>2. UNCHANGED <<wire, txFifo, tmp>> /\ pc # "fill"
      BY <2>5 DEF BufferWrites, PutByte, ByteLands, FindPage, TakePage, SetNext, SetWrite, AllPut,
                  Goto, txVars, kickVars
    <3>3. TxHolds(x, y, z)'
      BY <2>2, <2>3, <2>4, <3>1, <3>2 DEF TxHolds
    <3> QED BY <3>3 DEF TxInv
  <2>6. CASE KickRead
    <3>1. pc = "kick" /\ pc' = "fill" /\ z = 0 /\ u = x + y
      BY <2>2, <2>4, <2>6 DEF KickRead, Goto
    <3>2. PICK most \in Nat : most = Min({FifoSize - Len(txFifo), Chunk}) /\ most <= FifoSize - y
      <4>1. FifoSize - y \in Nat /\ Len(txFifo) = y
        BY <2>3, <2>4
      <4>2. Min({FifoSize - y, Chunk}) \in Nat /\ Min({FifoSize - y, Chunk}) <= FifoSize - y
        BY <2>4, <4>1, MinIs
      <4> QED BY <4>1, <4>2
    <3>3. PICK b \in {txBuf}, n \in Nat : b = txBuf /\ n = written /\ Held(b, u, n)
      BY <2>2, <2>4, <3>1 DEF TxHeld
    <3>4. PICK k \in 0 .. most : Read(b, most).out = Following(u, k) /\ Held(Read(b, most).b, u + k, n)
      BY <3>3, ReadAlone
    <3>5. /\ txBuf' = Read(b, most).b /\ tmp' = Read(b, most).out
          /\ UNCHANGED <<wire, txFifo, written>>
      BY <2>6, <3>2, <3>3 DEF KickRead
    <3>6. k \in Nat /\ y + k <= FifoSize /\ x + y + k = u + k
      BY <2>4, <3>1, <3>2
    <3>7. TxHeld(u + k)'
      BY <3>1, <3>3, <3>4, <3>5 DEF TxHeld
    <3>8. TxHolds(x, y, k)'
      BY <2>3, <2>4, <3>1, <3>4, <3>5, <3>6, <3>7 DEF TxHolds
    <3> QED BY <3>6, <3>8 DEF TxInv
  <2>7. CASE KickFill
    <3>1. /\ pc = "fill" /\ pc' = "flag" /\ txFifo' = txFifo \o tmp /\ tmp' = <<>>
          /\ UNCHANGED <<wire, txBuf, written>>
      BY <2>7 DEF KickFill, Goto
    <3>2. Following(x, y) \o Following(x + y, z) = Following(x, y + z)
      BY FollowingJoin
    <3>3. PICK w \in Nat : w = y + z /\ w + 0 <= FifoSize /\ x + w + 0 = u
      <4>1. y + z \in Nat /\ (y + z) + 0 <= FifoSize /\ x + (y + z) + 0 = u
        BY <2>2, <2>4
      <4> QED BY <4>1
    <3>4. <<>> = Following(x + w, 0)
      BY NoneFollow
    <3>5. TxHeld(u)'
      BY <2>2, <3>1 DEF TxHeld
    <3>6. TxHolds(x, w, 0)'
      BY <2>3, <2>4, <3>1, <3>2, <3>3, <3>4, <3>5 DEF TxHolds
    <3> QED BY <3>6 DEF TxInv
  <2>8. CASE InterruptTx
    <3>1. txInt /\ txFifo = <<>> /\ UNCHANGED <<wire, tmp, written>>
      BY <2>8 DEF InterruptTx
    <3>2. y = 0 /\ z = 0 /\ u = x
      <4>1. y = 0
        BY <2>3, <3>1
      <4>2. z = 0
        BY <2>4, <3>1 DEF FlagInv, KickAlone
      <4> QED BY <2>2, <4>1, <4>2
    <3>3. CASE txTorn'
      BY <3>3 DEF TxInv
    <3>4. CASE ~txTorn'
      <4>1. PICK k \in 0 .. FifoSize : txFifo' = Following(u, k) /\ TxHeld(u + k)'
        BY <2>2, <2>4, <2>8, <3>4, HandlerReads
      <4>2. k \in Nat /\ k + 0 <= FifoSize /\ x + k + 0 = u + k
        BY <2>4, <3>2
      <4>3. tmp' = Following(x + k, 0)
        <5>1. Following(x + y, 0) = <<>> /\ Following(x + k, 0) = <<>>
          BY NoneFollow
        <5> QED BY <2>3, <3>1, <3>2, <5>1
      <4>4. TxHolds(x, k, 0)'
        BY <2>3, <2>4, <3>1, <3>2, <4>1, <4>2, <4>3 DEF TxHolds
      <4> QED BY <4>2, <4>4 DEF TxInv
    <3> QED BY <3>3, <3>4
  <2>9. CASE UartSends
    <3>1. /\ txFifo # <<>> /\ wire' = Append(wire, Head(txFifo)) /\ txFifo' = Tail(txFifo)
          /\ UNCHANGED <<tmp, txBuf, written, pc, hand>>
      BY <2>9 DEF UartSends, mainVars
    <3>2. PICK w \in Nat : y = w + 1
      <4>1. y - 1 \in Nat /\ y = (y - 1) + 1
        BY <2>3, <3>1
      <4> QED BY <4>1
    <3>3. /\ Append(Following(0, x), Head(Following(x, w + 1))) = Following(0, x + 1)
          /\ Tail(Following(x, w + 1)) = Following(x + 1, w)
      BY FollowingNext
    <3>4. x + 1 \in Nat /\ (x + 1) + w = x + y /\ w + z <= FifoSize /\ (x + 1) + w + z = u
      BY <2>2, <2>4, <3>2
    <3>5. TxHeld(u)'
      BY <2>2, <3>1 DEF TxHeld
    <3>6. TxHolds(x + 1, w, z)'
      BY <2>3, <2>4, <3>1, <3>2, <3>3, <3>4, <3>5 DEF TxHolds
    <3> QED BY <3>4, <3>6 DEF TxInv
\* The rest of the main loop has nothing to do with it.
  <2>10. ASSUME UNCHANGED <<wire, txFifo, tmp, txBuf, written>>,
                \/ pc = pc' /\ hand = hand'
                \/ /\ pc \notin {"put", "byte", "alloc", "link", "move", "fill"}
                   /\ pc' \notin {"byte", "alloc", "link", "move"}
         PROVE  TxInv'
    <3>1. TxHeld(u)'
      BY <2>2, <2>10 DEF TxHeld, Held
    <3>2. TxHolds(x, y, z)'
      BY <2>2, <2>3, <2>4, <2>10, <3>1 DEF TxHolds
    <3> QED BY <3>2 DEF TxInv
  <2>11. CASE StartWrite \/ TestEnabled \/ Enable \/ WriteReturns
    BY <2>10, <2>11 DEF StartWrite, TestEnabled, Enable, WriteReturns, Goto, txVars, kickVars
  <2>12. CASE StartRead \/ Reads
    BY <2>10, <2>12 DEF StartRead, Reads, BufferReads, OuterLoop, TakeByte, InnerEnds, IsEmpty,
                        IsFull, NextPage, FreeNext, FreeFirst, ReadReturns, Goto, txVars, kickVars
  <2>13. CASE InterruptRx \/ UartReceives \/ UNCHANGED vars
    BY <2>10, <2>13 DEF InterruptRx, UartReceives, vars, mainVars, txVars, kickVars
  <2> QED BY <2>5, <2>6, <2>7, <2>8, <2>9, <2>11, <2>12, <2>13 DEF Next, Writes
<1> QED BY <1>1, <1>2

-----------------------------------------------------------------------------
(* The bytes that come in.                                                 *)

ReadPcs == {"outer", "inner", "empty", "full", "next", "unlink", "free", "got"}

\* m_rx_buffer holds the bytes after the first u, up to y, or will when read has done what
\* it is about to do.
RxHeld(u, y) ==
  /\ pc \notin {"unlink", "free"} => Held(rxBuf, u, y)
  /\ pc = "full" => ~(Reading.rd < Reading.wr /\ Reading.wr >= PageSize)
  /\ pc = "next" => IsDone(rxBuf)
  /\ pc = "unlink" => GivingBack(rxBuf, hand, rxBuf.read, u, y)
  /\ pc = "free" => GivingBack(rxBuf, hand, rxBuf.free, u, y)

\* What read has returned, what it has in hand, the buffer, and the FIFO.
RxHolds(x, j, y) ==
  /\ arrived \in Nat /\ y <= arrived
  /\ got = Following(0, x) /\ out = Following(x, j) /\ rxFifo = Following(y, arrived - y)
  /\ RxHeld(x + j, y)
  /\ pc \notin ReadPcs => j = 0

RxInv == rxTorn \/ \E x, j, y \in Nat : RxHolds(x, j, y)

\* The handler, between any two statements of read.
LEMMA HandlerWrites ==
  ASSUME NEW u \in Nat, NEW y \in Nat, NEW k \in Nat, RxHeld(u, y), rxFifo = Following(y, k),
         InterruptRx, ~rxTorn'
  PROVE  RxHeld(u, y + k)'
<1>1. PICK b \in {rxBuf}, c \in {rxBuf'} :
        b = rxBuf /\ c = rxBuf' /\ c = Write(b, Following(y, k)) /\ ~TearsRx(c)
  BY DEF InterruptRx
<1>2. pc' = pc /\ hand' = hand
  BY DEF InterruptRx, mainVars
<1>3. CASE pc \notin {"unlink", "free"}
  <2>1. Held(b, u, y)
    BY <1>1, <1>3 DEF RxHeld
  <2>2. Held(c, u, y + k) /\ c.read = b.read
    <3>1. Held(Write(b, Following(y, k)), u, y + k) /\ Write(b, Following(y, k)).read = b.read
      BY <2>1, WriteHeld, Zenon
    <3> QED BY <1>1, <3>1
  <2>3. ASSUME pc = "full"
        PROVE  ~(c.page[c.read].rd < c.page[c.read].wr /\ c.page[c.read].wr >= PageSize)
    BY <1>1, <2>2, <2>3 DEF TearsRx
  <2>4. ASSUME pc = "next" PROVE IsDone(c)
    <3>1. IsDone(b)
      BY <1>1, <2>4 DEF RxHeld
    <3> QED BY <1>1, <2>1, <3>1, WriteDone
  <2> QED BY <1>1, <1>2, <1>3, <2>2, <2>3, <2>4 DEF RxHeld, Reading
<1>4. CASE pc = "unlink"
  <2>1. PICK h \in {hand} : h = hand /\ GivingBack(b, h, b.read, u, y)
    BY <1>1, <1>4 DEF RxHeld
  <2>2. GivingBack(c, h, b.read, u, y + k) /\ c.read = b.read
    <3>1. GivingBack(b, h, b.read, u, y)
      BY <2>1
    <3>2. StillGiving(c, b, h, b.read, u, y + k)
      BY <1>1, <3>1, WriteGives
    <3> QED BY <3>2 DEF StillGiving
  <2> QED BY <1>1, <1>2, <1>4, <2>1, <2>2 DEF RxHeld
<1>5. CASE pc = "free"
  <2>1. PICK h \in {hand} : h = hand /\ GivingBack(b, h, b.free, u, y)
    BY <1>1, <1>5 DEF RxHeld
  <2>2. GivingBack(c, h, b.free, u, y + k)
    BY <1>1, <2>1, WriteGives DEF StillGiving
  <2>3. c.free = b.free
    BY <1>1, <1>5 DEF TearsRx
  <2> QED BY <1>1, <1>2, <1>5, <2>1, <2>2, <2>3 DEF RxHeld
<1> QED BY <1>3, <1>4, <1>5

\* The statements of ulink_buffer::read: u bytes have been taken, then v.
LEMMA ReadKeeps ==
  ASSUME NEW x \in Nat, NEW j \in Nat, NEW y \in Nat, RxHeld(x + j, y), out = Following(x, j), BufferReads
  PROVE  \E i \in Nat : RxHeld(x + i, y)' /\ out' = Following(x, i)
<1>1. PICK b \in {rxBuf}, u \in Nat : b = rxBuf /\ u = x + j
  OBVIOUS
<1>2. CASE OuterLoop \/ InnerEnds
  <2>1. UNCHANGED <<rxBuf, out>> /\ pc \notin {"unlink", "free"} /\ pc' \in {"inner", "got", "empty"}
    BY <1>2 DEF OuterLoop, InnerEnds, Goto, rxVars
  <2>2. Held(rxBuf, x + j, y)
    BY <2>1 DEF RxHeld
  <2>3. RxHeld(x + j, y)'
    BY <2>1, <2>2 DEF RxHeld
  <2> QED BY <2>1, <2>3
<1>3. CASE TakeByte
  <2>1. /\ pc = "inner" /\ pc' = "inner" /\ b.page[b.read].rd < b.page[b.read].wr
        /\ out' = Append(out, b.page[b.read].data[b.page[b.read].rd + 1]) /\ rxBuf' = Take(b, 1)
    BY <1>1, <1>3, Zenon DEF TakeByte, Goto, Reading, Take
  <2>2. Held(b, u, y)
    BY <1>1, <2>1 DEF RxHeld
  <2>3. b.page[b.read].data[b.page[b.read].rd + 1] = u + 1 /\ Held(Take(b, 1), u + 1, y)
    BY <2>1, <2>2, TakeOne
  <2>4. Append(Following(x, j), (x + j) + 1) = Following(x, j + 1)
    BY FollowingNext
  <2>5. j + 1 \in Nat /\ x + (j + 1) = u + 1
    BY <1>1
  <2>6. RxHeld(x + (j + 1), y)'
    BY <2>1, <2>3, <2>5 DEF RxHeld
  <2> QED BY <1>1, <2>1, <2>3, <2>4, <2>5, <2>6
<1>4. CASE IsEmpty
  <2>1. /\ pc = "empty" /\ UNCHANGED <<rxBuf, out>>
        /\ pc' = IF Reading.rd >= Reading.wr THEN "full" ELSE "outer"
    BY <1>4 DEF IsEmpty, Goto, rxVars
  <2>2. Held(b, u, y)
    BY <1>1, <2>1 DEF RxHeld
  <2>3. PICK wr \in Nat, rd \in Nat : wr = b.page[b.read].wr /\ rd = b.page[b.read].rd
    BY <2>2, PagesHeld DEF Held
  <2>4. pc' = "full" => ~(rd < wr)
    BY <1>1, <2>1, <2>3 DEF Reading
  <2>5. RxHeld(x + j, y)'
    BY <1>1, <2>1, <2>2, <2>3, <2>4 DEF RxHeld, Reading
  <2> QED BY <2>1, <2>5
<1>5. CASE IsFull
  <2>1. /\ pc = "full" /\ UNCHANGED <<rxBuf, out>>
        /\ pc' = IF Reading.wr >= PageSize THEN "next" ELSE "got"
    BY <1>5 DEF IsFull, Goto, rxVars
  <2>2. Held(b, u, y)
    BY <1>1, <2>1 DEF RxHeld
  <2>3. PICK wr \in Nat, rd \in Nat : wr = b.page[b.read].wr /\ rd = b.page[b.read].rd
    BY <2>2, PagesHeld DEF Held
  <2>4. pc' = "next" => rd >= wr /\ wr >= PageSize
    <3>1. ~(rd < wr /\ wr >= PageSize)
      BY <1>1, <2>1, <2>3 DEF RxHeld, Reading
    <3>2. rd < wr \/ rd >= wr
      OBVIOUS
    <3> QED BY <1>1, <2>1, <2>3, <3>1, <3>2 DEF Reading
  <2>5. pc' = "next" => IsDone(b)
    BY <2>3, <2>4 DEF IsDone
  <2>6. RxHeld(x + j, y)'
    BY <1>1, <2>1, <2>2, <2>5 DEF RxHeld
  <2> QED BY <2>1, <2>6
<1>6. CASE NextPage
  <2>1. /\ pc = "next" /\ pc' = "unlink" /\ UNCHANGED out
        /\ hand' = b.read /\ rxBuf' = LeavePage(b)
    BY <1>1, <1>6 DEF NextPage, Goto
  <2>2. Held(b, u, y) /\ IsDone(b)
    BY <1>1, <2>1 DEF RxHeld
  <2>3. GivingBack(LeavePage(b), b.read, LeavePage(b).read, u, y)
    BY <2>2, LeaveGives
  <2>4. RxHeld(x + j, y)'
    BY <1>1, <2>1, <2>3 DEF RxHeld
  <2> QED BY <2>1, <2>4
<1>7. CASE FreeNext
  <2>1. pc = "unlink" /\ pc' = "free" /\ UNCHANGED <<out, hand>>
    BY <1>7 DEF FreeNext, Goto
  <2>2. PICK h \in {hand} : h = hand /\ GivingBack(b, h, b.read, u, y) /\ rxBuf' = FreeLink(b, h)
    BY <1>1, <1>7, <2>1 DEF RxHeld, FreeNext
  <2>3. GivingBack(FreeLink(b, h), h, FreeLink(b, h).free, u, y)
    BY <2>2, LinkGives
  <2>4. RxHeld(x + j, y)'
    BY <1>1, <2>1, <2>2, <2>3 DEF RxHeld
  <2> QED BY <2>1, <2>4
<1>8. CASE FreeFirst
  <2>1. pc = "free" /\ pc' = "outer" /\ UNCHANGED out
    BY <1>8 DEF FreeFirst, Goto
  <2>2. PICK h \in {hand} : h = hand /\ GivingBack(b, h, b.free, u, y) /\ rxBuf' = FreeHead(b, h)
    BY <1>1, <1>8, <2>1 DEF RxHeld, FreeFirst
  <2>3. Held(FreeHead(b, h), u, y)
    BY <2>2, HeadGives
  <2>4. RxHeld(x + j, y)'
    BY <1>1, <2>1, <2>2, <2>3 DEF RxHeld
  <2> QED BY <2>1, <2>4
<1> QED BY <1>2, <1>3, <1>4, <1>5, <1>6, <1>7, <1>8 DEF BufferReads

LEMMA RxStep == RxInv /\ [Next]_vars => RxInv'
<1> SUFFICES ASSUME RxInv, [Next]_vars PROVE RxInv'
  OBVIOUS
<1>1. CASE rxTorn
  <2>1. CASE StartWrite \/ Writes
    BY <1>1, <2>1 DEF RxInv, StartWrite, Writes, BufferWrites, PutByte, ByteLands, FindPage, TakePage,
                      SetNext, SetWrite, AllPut, TestEnabled, KickRead, KickFill, Enable,
                      WriteReturns, rxVars
  <2>2. CASE StartRead \/ Reads
    BY <1>1, <2>2 DEF RxInv, StartRead, Reads, BufferReads, OuterLoop, TakeByte, InnerEnds, IsEmpty,
                      IsFull, NextPage, FreeNext, FreeFirst, ReadReturns, rxVars
  <2>3. CASE InterruptTx \/ UartSends \/ UartReceives \/ UNCHANGED vars
    BY <1>1, <2>3 DEF RxInv, InterruptTx, UartSends, UartReceives, vars, rxVars
  <2>4. CASE InterruptRx
    BY <1>1, <2>4 DEF InterruptRx
  <2> QED BY <2>1, <2>2, <2>3, <2>4 DEF Next
<1>2. CASE ~rxTorn
  <2>1. PICK x \in Nat, j \in Nat, y \in Nat : RxHolds(x, j, y)
    BY <1>2 DEF RxInv
  <2>2. PICK n \in Nat, k \in Nat : n = arrived /\ k = n - y /\ y + k = n /\ y <= n
    <3>1. arrived \in Nat /\ arrived - y \in Nat /\ y + (arrived - y) = arrived
      BY <2>1 DEF RxHolds
    <3> QED BY <3>1
  <2>3. /\ got = Following(0, x) /\ out = Following(x, j) /\ rxFifo = Following(y, k)
        /\ RxHeld(x + j, y) /\ (pc \notin ReadPcs => j = 0)
    BY <2>1, <2>2 DEF RxHolds
  <2>4. CASE StartRead
    <3>1. pc = "idle" /\ pc' = "outer" /\ out' = <<>> /\ UNCHANGED <<rxBuf, rxFifo, arrived, got>>
      BY <2>4 DEF StartRead, Goto, rxVars
    <3>2. j = 0 /\ out' = Following(x, j)
      <4>1. j = 0 /\ Following(x, 0) = <<>>
        BY <2>3, <3>1, NoneFollow DEF ReadPcs
      <4> QED BY <3>1, <4>1
    <3>3. RxHeld(x + j, y)'
      BY <2>3, <3>1 DEF RxHeld
    <3>4. RxHolds(x, j, y)'
      BY <2>2, <2>3, <3>1, <3>2, <3>3 DEF RxHolds
    <3> QED BY <3>4 DEF RxInv
  <2>5. CASE BufferReads
    <3>1. PICK i \in Nat : RxHeld(x + i, y)' /\ out' = Following(x, i)
      BY <2>3, <2>5, ReadKeeps
    <3>2. UNCHANGED <<rxFifo, arrived, got>> /\ pc' \in ReadPcs
      BY <2>5 DEF BufferReads, OuterLoop, TakeByte, InnerEnds, IsEmpty, IsFull, NextPage, FreeNext,
                  FreeFirst, Goto, rxVars, ReadPcs
    <3>3. RxHolds(x, i, y)'
      BY <2>2, <2>3, <3>1, <3>2 DEF RxHolds
    <3> QED BY <3>3 DEF RxInv
  <2>6. CASE ReadReturns
    <3>1. /\ pc = "got" /\ pc' \in {"outer", "idle"} /\ got' = got \o out /\ out' = <<>>
          /\ UNCHANGED <<rxBuf, rxFifo, arrived>>
      BY <2>6 DEF ReadReturns, Goto
    <3>2. PICK w \in Nat : w = x + j /\ w + 0 = x + j
      OBVIOUS
    <3>3. got' = Following(0, w)
      <4>1. Following(0, x) \o Following(0 + x, j) = Following(0, x + j)
        BY FollowingJoin
      <4> QED BY <2>3, <3>1, <3>2, <4>1
    <3>4. out' = Following(w, 0)
      BY <3>1, NoneFollow
    <3>5. RxHeld(w + 0, y)'
      BY <2>3, <3>1, <3>2 DEF RxHeld
    <3>6. RxHolds(w, 0, y)'
      BY <2>2, <2>3, <3>1, <3>3, <3>4, <3>5 DEF RxHolds
    <3> QED BY <3>6 DEF RxInv
  <2>7. CASE InterruptRx
    <3>1. CASE rxTorn'
      BY <3>1 DEF RxInv
    <3>2. CASE ~rxTorn'
      <4>1. PICK u \in Nat : u = x + j /\ RxHeld(u, y)
        BY <2>3
      <4>2. RxHeld(u, y + k)'
        BY <2>3, <2>7, <3>2, <4>1, HandlerWrites
      <4>3. rxFifo' = <<>> /\ UNCHANGED <<pc, out, arrived, got>>
        BY <2>7 DEF InterruptRx, mainVars
      <4>4. <<>> = Following(n, n - n)
        <5>1. n - n = 0 /\ Following(n, 0) = <<>>
          BY NoneFollow
        <5> QED BY <5>1
      <4>5. RxHolds(x, j, n)'
        BY <2>2, <2>3, <4>1, <4>2, <4>3, <4>4 DEF RxHolds
      <4> QED BY <4>5 DEF RxInv
    <3> QED BY <3>1, <3>2
  <2>8. CASE UartReceives
    <3>1. /\ rxFifo' = Append(rxFifo, arrived + 1) /\ arrived' = arrived + 1
          /\ UNCHANGED <<rxBuf, got, out, pc, hand>>
      BY <2>8 DEF UartReceives, mainVars
    <3>2. Append(Following(y, k), (y + k) + 1) = Following(y, k + 1)
      BY FollowingNext
    <3>3. (n + 1) - y = k + 1 /\ y <= n + 1 /\ n + 1 \in Nat
      BY <2>2
    <3>4. RxHeld(x + j, y)'
      BY <2>3, <3>1 DEF RxHeld, Reading
    <3>5. RxHolds(x, j, y)'
      BY <2>2, <2>3, <3>1, <3>2, <3>3, <3>4 DEF RxHolds
    <3> QED BY <3>5 DEF RxInv
\* The rest of the main loop has nothing to do with it.
  <2>9. ASSUME UNCHANGED <<rxBuf, rxFifo, arrived, got, out>>,
               (pc = pc' /\ hand = hand') \/ (pc \notin ReadPcs /\ pc' \notin ReadPcs)
        PROVE  RxInv'
    <3>1. RxHeld(x + j, y)'
      BY <2>3, <2>9 DEF RxHeld, Reading, ReadPcs
    <3>2. RxHolds(x, j, y)'
      BY <2>2, <2>3, <2>9, <3>1 DEF RxHolds
    <3> QED BY <3>2 DEF RxInv
  <2>10. CASE StartWrite \/ Writes
    BY <2>9, <2>10 DEF StartWrite, Writes, BufferWrites, PutByte, ByteLands, FindPage, TakePage,
                       SetNext, SetWrite, AllPut, TestEnabled, KickRead, KickFill, Enable,
                       WriteReturns, Goto, rxVars, ReadPcs
  <2>11. CASE InterruptTx \/ UartSends \/ UNCHANGED vars
    BY <2>9, <2>11 DEF InterruptTx, UartSends, vars, mainVars, rxVars
  <2> QED BY <2>4, <2>5, <2>6, <2>7, <2>8, <2>10, <2>11 DEF Next, Reads
<1> QED BY <1>1, <1>2

LEMMA BytesInv == UartSpec => [](FlagInv /\ TxInv /\ RxInv)
<1>1. UartInit => FlagInv /\ TxInv /\ RxInv
  <2> SUFFICES ASSUME UartInit PROVE FlagInv /\ TxInv /\ RxInv
    OBVIOUS
  <2>1. FlagInv
    BY DEF UartInit, FlagInv, KickAlone, FlagTellsTruth
  <2>2. Following(0, 0) = <<>> /\ Held(NewBuffer, 0, 0)
    BY FollowingFacts, NewHeld
  <2>3. TxHolds(0, 0, 0)
    BY <2>2, UartAssumption DEF UartInit, TxHolds, TxHeld
  <2>4. RxHolds(0, 0, 0)
    BY <2>2 DEF UartInit, RxHolds, RxHeld
  <2> QED BY <2>1, <2>3, <2>4 DEF TxInv, RxInv
<1> QED BY <1>1, FlagStep, TxStep, RxStep, PTL DEF UartSpec

-----------------------------------------------------------------------------

\* The buffers as they will be when the statements under way are done.
LEMMA TxIsSettled ==
  ASSUME NEW u \in Nat, written \in Nat, TxHeld(u)
  PROVE  HeldFull(TxSettled, u, written) /\ (Unsettled \/ HasRoom(txBuf))
<1>1. CASE pc \in {"put", "alloc"}
  BY <1>1 DEF TxHeld, TxSettled, Unsettled
<1>2. CASE pc = "byte"
  BY <1>2 DEF TxHeld, TxSettled, Unsettled, Counted
<1>3. CASE pc \in {"link", "move"}
  BY <1>3 DEF TxHeld, TxSettled, Unsettled, Turning, Turned, Held
<1>4. CASE pc \notin {"put", "byte", "alloc", "link", "move"}
  BY <1>4 DEF TxHeld, TxSettled, Held, HasRoom
<1> QED BY <1>1, <1>2, <1>3, <1>4

LEMMA RxIsSettled ==
  ASSUME NEW u \in Nat, NEW y \in Nat, RxHeld(u, y)
  PROVE  HeldFull(RxSettled, u, y) /\ HasRoom(rxBuf)
<1>1. PICK b \in {rxBuf} : b = rxBuf
  OBVIOUS
<1>2. CASE pc = "unlink"
  <2>1. PICK h \in {hand} : h = hand /\ GivingBack(b, h, b.read, u, y)
    BY <1>1, <1>2 DEF RxHeld
  <2>2. PICK c : c = FreeLink(b, h) /\ GivingBack(c, h, c.free, u, y)
    BY <2>1, LinkGives
  <2>3. Held(FreeHead(c, h), u, y) /\ b.page[b.write].wr < PageSize
    BY <2>1, <2>2, HeadGives, GivingRoom
  <2> QED BY <1>1, <1>2, <2>1, <2>2, <2>3 DEF RxSettled, FreePage, Held, HasRoom
<1>3. CASE pc = "free"
  <2>1. PICK h \in {hand} : h = hand /\ GivingBack(b, h, b.free, u, y)
    BY <1>1, <1>3 DEF RxHeld
  <2>2. Held(FreeHead(b, h), u, y) /\ b.page[b.write].wr < PageSize
    BY <2>1, HeadGives, GivingRoom
  <2> QED BY <1>1, <1>3, <2>1, <2>2 DEF RxSettled, Held, HasRoom
<1>4. CASE pc \notin {"unlink", "free"}
  BY <1>4 DEF RxHeld, RxSettled, Held, HasRoom
<1> QED BY <1>2, <1>3, <1>4

\* Wherever the handler has interrupted write, except where TearsTx says, the bytes on the
\* wire, in the FIFO, in write's hands and in the buffer are those written, in their order
\* (ulink_hps_uart.cpp:94-115, 163-178, ulink_buffer.cpp:62-97).
THEOREM BytesOutInOrder == UartSpec => []TxInOrder
<1>1. TxInv => TxInOrder
  <2> SUFFICES ASSUME TxInv, ~txTorn
               PROVE  wire \o txFifo \o tmp \o Content(TxSettled) = Following(0, written)
    BY DEF TxInOrder
  <2>1. PICK x \in Nat, y \in Nat, z \in Nat : TxHolds(x, y, z)
    BY DEF TxInv
  <2>2. PICK n \in Nat, u \in Nat, b \in {TxSettled} :
          n = written /\ u = x + y + z /\ b = TxSettled /\ HeldFull(b, u, n)
    <3>1. written \in Nat /\ x + y + z \in Nat /\ TxHeld(x + y + z)
      BY <2>1 DEF TxHolds
    <3>2. HeldFull(TxSettled, x + y + z, written)
      BY <3>1, TxIsSettled
    <3> QED BY <3>1, <3>2
  <2>3. u <= n /\ Content(b) = Following(u, n - u)
    BY <2>2, HeldContent
  <2>4. Following(0, x) \o Following(x, y) = Following(0, x + y)
    <3>1. Following(0, x) \o Following(0 + x, y) = Following(0, x + y)
      BY FollowingJoin
    <3> QED BY <3>1
  <2>5. PICK w \in Nat : w = x + y /\ u = w + z
    BY <2>2
  <2>6. Following(0, w) \o Following(w, z) = Following(0, u)
    <3>1. Following(0, w) \o Following(0 + w, z) = Following(0, w + z)
      BY FollowingJoin
    <3> QED BY <2>5, <3>1
  <2>7. Following(0, u) \o Following(u, n - u) = Following(0, n)
    BY <2>3, FollowingFirst
  <2> QED BY <2>1, <2>2, <2>3, <2>4, <2>5, <2>6, <2>7 DEF TxHolds
<1> QED BY <1>1, BytesInv, PTL

\* Wherever the handler has interrupted read, except where TearsRx says, what has been
\* read, what waits in the buffer and what waits in the FIFO are the bytes that arrived, in
\* their order (ulink_hps_uart.cpp:120-155, ulink_buffer.cpp:36-60, 99-102).
THEOREM BytesInInOrder == UartSpec => []RxInOrder
<1>1. RxInv => RxInOrder
  <2> SUFFICES ASSUME RxInv, ~rxTorn
               PROVE  got \o out \o Content(RxSettled) \o rxFifo = Following(0, arrived)
    BY DEF RxInOrder
  <2>1. PICK x \in Nat, j \in Nat, y \in Nat : RxHolds(x, j, y)
    BY DEF RxInv
  <2>2. PICK n \in Nat, u \in Nat, b \in {RxSettled} :
          n = arrived /\ y <= n /\ u = x + j /\ b = RxSettled /\ HeldFull(b, u, y)
    <3>1. arrived \in Nat /\ y <= arrived /\ x + j \in Nat /\ RxHeld(x + j, y)
      BY <2>1 DEF RxHolds
    <3>2. HeldFull(RxSettled, x + j, y)
      BY <3>1, RxIsSettled
    <3> QED BY <3>1, <3>2
  <2>3. u <= y /\ Content(b) = Following(u, y - u)
    BY <2>2, HeldContent
  <2>4. Following(0, x) \o Following(x, j) = Following(0, u)
    <3>1. Following(0, x) \o Following(0 + x, j) = Following(0, x + j)
      BY FollowingJoin
    <3> QED BY <2>2, <3>1
  <2>5. Following(0, u) \o Following(u, y - u) = Following(0, y)
    BY <2>3, FollowingFirst
  <2>6. Following(0, y) \o Following(y, n - y) = Following(0, n)
    BY <2>2, FollowingFirst
  <2> QED BY <2>1, <2>2, <2>3, <2>4, <2>5, <2>6 DEF RxHolds
<1> QED BY <1>1, BytesInv, PTL

\* Wherever the handler has interrupted the main loop, except where TearsTx and TearsRx
\* say, every page of both buffers is in use or free, and in one place only, and the page
\* that is written is the last in use; but for a page turn under way it has room
\* (ulink_buffer.cpp:45-51, 72-102).
THEOREM PagesAccounted == UartSpec => []PagesInOrder
<1>1. TxInv /\ RxInv => PagesInOrder
  <2> SUFFICES ASSUME TxInv, RxInv PROVE PagesInOrder
    OBVIOUS
  <2>1. ASSUME ~txTorn PROVE PagesSound(TxSettled) /\ (Unsettled \/ HasRoom(txBuf))
    <3>1. PICK u \in Nat, n \in Nat, b \in {TxSettled} : b = TxSettled /\ HeldFull(b, u, n)
                                                         /\ (Unsettled \/ HasRoom(txBuf))
      <4>1. PICK x \in Nat, y \in Nat, z \in Nat : TxHolds(x, y, z)
        BY <2>1 DEF TxInv
      <4>2. x + y + z \in Nat /\ written \in Nat /\ TxHeld(x + y + z)
        BY <4>1 DEF TxHolds
      <4>3. HeldFull(TxSettled, x + y + z, written) /\ (Unsettled \/ HasRoom(txBuf))
        BY <4>2, TxIsSettled
      <4> QED BY <4>2, <4>3
    <3> QED BY <3>1, HeldContent
  <2>2. ASSUME ~rxTorn PROVE PagesSound(RxSettled) /\ HasRoom(rxBuf)
    <3>1. PICK u \in Nat, y \in Nat, b \in {RxSettled} : b = RxSettled /\ HeldFull(b, u, y) /\ HasRoom(rxBuf)
      <4>1. PICK x \in Nat, j \in Nat, y \in Nat : RxHolds(x, j, y)
        BY <2>2 DEF RxInv
      <4>2. x + j \in Nat /\ RxHeld(x + j, y)
        BY <4>1 DEF RxHolds
      <4>3. HeldFull(RxSettled, x + j, y) /\ HasRoom(rxBuf)
        BY <4>2, RxIsSettled
      <4> QED BY <4>2, <4>3
    <3> QED BY <3>1, HeldContent
  <2> QED BY <2>1, <2>2 DEF PagesInOrder
<1> QED BY <1>1, BytesInv, PTL
=============================================================================

----------------------------- MODULE UlinkUart ------------------------------
(***************************************************************************)
(* ulink_hps_uart: the main loop writes to and reads from a UART through   *)
(* two ulink_buffers, and an interrupt handler moves bytes between them    *)
(* and the UART's FIFOs.  An interrupt may come between any two statements *)
(* of the main loop, those of ulink_buffer::write and read included; the   *)
(* handler itself is one step.  Nothing locks it out, and there are places *)
(* where it tears a buffer: TearsTx and TearsRx say where, and a buffer is *)
(* followed until then.  The bytes of each direction are numbered.         *)
(***************************************************************************)
EXTENDS UlinkBuffer

CONSTANTS
  FifoSize,  \* of the UART, each direction
  Chunk,     \* the bytes that write puts into an idle UART at most (16)
  Sizes,     \* the bytes that a write or a read may be asked for
  MostTx,    \* bound: bytes written
  MostRx,    \* bound: bytes received
  Most       \* bound: bytes written and received

ASSUME UartAssumption ==
  /\ FifoSize \in Nat \ {0} /\ Chunk \in Nat \ {0} /\ Sizes \subseteq Nat \ {0}
  /\ MostTx \in Nat /\ MostRx \in Nat /\ Most \in Nat

VARIABLES
  pc,           \* where the main loop is
  logging,      \* the call is debug, not write
  left,         \* bytes that write has yet to put into the buffer
  want, out,    \* read: bytes it may take, and those it has taken
  hand,         \* the page of alloc_page, or of free_page, that is in hand
  txEnabled,    \* m_tx_int_enabled
  txInt,        \* the UART's transmit interrupt is enabled
  txBuf, rxBuf, \* m_tx_buffer, m_rx_buffer
  tmp,          \* bytes write has taken from the buffer for the UART
  txFifo, rxFifo,
  txTorn, rxTorn, \* history: the handler has come where it tears the buffer
  written,      \* history: bytes counted in m_tx_buffer
  due,          \* history: of these, written before the last write returned
  wire,         \* history: bytes sent by the UART
  arrived,      \* history: bytes received by the UART
  got           \* history: what read has returned

mainVars == <<pc, logging, left, want, out, hand>>
kickVars == <<txEnabled, txInt, tmp, txFifo, wire, due>>
txVars   == <<kickVars, txBuf, txTorn, written>>
rxVars   == <<rxBuf, rxFifo, rxTorn, arrived, got>>
vars     == <<mainVars, txVars, rxVars>>

UartInit ==
  /\ pc = "idle" /\ logging = FALSE /\ left = 0 /\ want = 0 /\ out = <<>> /\ hand = 0
  /\ txEnabled = FALSE /\ txInt = FALSE
  /\ txBuf = NewBuffer /\ rxBuf = NewBuffer
  /\ tmp = <<>> /\ txFifo = <<>> /\ rxFifo = <<>>
  /\ txTorn = FALSE /\ rxTorn = FALSE
  /\ written = 0 /\ due = 0 /\ wire = <<>> /\ arrived = 0 /\ got = <<>>

Goto(from, to) == pc = from /\ pc' = to

Reading == rxBuf.page[rxBuf.read]

-----------------------------------------------------------------------------
(* write and debug; the statements of ulink_buffer::write on m_tx_buffer.  *)

\* debug leaves its bytes in the buffer for whoever writes next.
StartWrite ==
  /\ Goto("idle", "put")
  /\ left' \in Sizes /\ written + left' <= MostTx /\ written + left' + arrived <= Most
  /\ logging' \in BOOLEAN
  /\ UNCHANGED <<want, out, hand, txVars, rxVars>>

\* Compilers count the byte before they put it there (line 69 allows both orders): it is
\* then in a step of its own.  Where it is put there first, nobody sees that alone.
PutByte ==
  /\ left > 0 /\ txBuf.write # 0 /\ HasRoom(txBuf)
  /\ \/ Goto("put", "byte") /\ txBuf' = CountByte(txBuf)
     \/ Goto("put", "put") /\ txBuf' = Store(txBuf, written + 1)
  /\ written' = written + 1 /\ left' = left - 1
  /\ UNCHANGED <<logging, want, out, hand, kickVars, txTorn, rxVars>>

ByteLands ==
  /\ Goto("byte", "put")
  /\ txBuf' = FillByte(txBuf, written)
  /\ UNCHANGED <<logging, left, want, out, hand, kickVars, txTorn, written, rxVars>>

\* The page is full; alloc_page looks for a free one,
FindPage ==
  /\ Goto("put", "alloc")
  /\ txBuf.write # 0 /\ ~HasRoom(txBuf)
  /\ hand' = txBuf.free
  /\ UNCHANGED <<logging, left, want, out, txVars, rxVars>>

\* takes it off the list, or a new one, and clears it;
TakePage ==
  /\ Goto("alloc", "link")
  /\ txBuf' = AfterAlloc(txBuf, hand) /\ hand' = PageFrom(txBuf, hand)
  /\ UNCHANGED <<logging, left, want, out, kickVars, txTorn, written, rxVars>>

\* m_write_ptr->next is set, and m_write_ptr from it.
SetNext ==
  /\ Goto("link", "move")
  /\ txBuf' = LinkPage(txBuf, hand) /\ hand' = 0
  /\ UNCHANGED <<logging, left, want, out, kickVars, txTorn, written, rxVars>>

SetWrite ==
  /\ Goto("move", "put")
  /\ txBuf' = MoveOn(txBuf)
  /\ UNCHANGED <<logging, left, want, out, hand, kickVars, txTorn, written, rxVars>>

AllPut ==
  /\ Goto("put", IF logging THEN "idle" ELSE "test")
  /\ left = 0 /\ txBuf.write # 0 /\ HasRoom(txBuf)
  /\ UNCHANGED <<logging, left, want, out, hand, txVars, rxVars>>

BufferWrites == PutByte \/ ByteLands \/ FindPage \/ TakePage \/ SetNext \/ SetWrite \/ AllPut

-----------------------------------------------------------------------------
(* write goes on: an idle transmitter has to be kicked.                    *)

TestEnabled ==
  /\ Goto("test", IF txEnabled THEN "return" ELSE "kick")
  /\ UNCHANGED <<logging, left, want, out, hand, txVars, rxVars>>

\* The level is asked for and the buffer read; the transmit interrupt is off.
KickRead ==
  /\ Goto("kick", "fill")
  /\ LET r == Read(txBuf, Min({FifoSize - Len(txFifo), Chunk}))
     IN  txBuf' = r.b /\ tmp' = r.out
  /\ UNCHANGED <<logging, left, want, out, hand, txEnabled, txInt, txFifo, wire, due, txTorn, written,
                 rxVars>>

KickFill ==
  /\ Goto("fill", "flag")
  /\ txFifo' = txFifo \o tmp /\ tmp' = <<>>
  /\ UNCHANGED <<logging, left, want, out, hand, txEnabled, txInt, wire, due, txBuf, txTorn, written,
                 rxVars>>

\* Mutant: the interrupt is enabled before the flag says so.
EnableFirst ==
  /\ \/ Goto("flag", "enable") /\ txInt' = TRUE /\ UNCHANGED txEnabled
     \/ Goto("enable", "return") /\ txEnabled' = TRUE /\ UNCHANGED txInt
  /\ UNCHANGED <<logging, left, want, out, hand, tmp, txFifo, wire, due, txBuf, txTorn, written, rxVars>>

\* The flag, then the interrupt.
Enable ==
  /\ \/ Goto("flag", "enable") /\ txEnabled' = TRUE /\ UNCHANGED txInt
     \/ Goto("enable", "return") /\ txInt' = TRUE /\ UNCHANGED txEnabled
  /\ UNCHANGED <<logging, left, want, out, hand, tmp, txFifo, wire, due, txBuf, txTorn, written, rxVars>>

WriteReturns ==
  /\ Goto("return", "idle")
  /\ due' = written
  /\ UNCHANGED <<logging, left, want, out, hand, txEnabled, txInt, tmp, txFifo, wire, txBuf, txTorn,
                 written, rxVars>>

Writes == BufferWrites \/ TestEnabled \/ KickRead \/ KickFill \/ Enable \/ WriteReturns

-----------------------------------------------------------------------------
(* read, and the statements of ulink_buffer::read on m_rx_buffer.          *)

StartRead ==
  /\ Goto("idle", "outer")
  /\ want' \in Sizes /\ out' = <<>>
  /\ UNCHANGED <<logging, left, hand, txVars, rxVars>>

OuterLoop ==
  /\ Goto("outer", IF rxBuf.read # 0 /\ Len(out) < want THEN "inner" ELSE "got")
  /\ UNCHANGED <<logging, left, want, out, hand, txVars, rxVars>>

TakeByte ==
  /\ Goto("inner", "inner")
  /\ Reading.rd < Reading.wr /\ Len(out) < want
  /\ out' = Append(out, Reading.data[Reading.rd + 1])
  /\ rxBuf' = [rxBuf EXCEPT !.page[rxBuf.read].rd = @ + 1]
  /\ UNCHANGED <<logging, left, want, hand, txVars, rxFifo, rxTorn, arrived, got>>

InnerEnds ==
  /\ Goto("inner", "empty")
  /\ ~(Reading.rd < Reading.wr /\ Len(out) < want)
  /\ UNCHANGED <<logging, left, want, out, hand, txVars, rxVars>>

IsEmpty ==
  /\ Goto("empty", IF Reading.rd >= Reading.wr THEN "full" ELSE "outer")
  /\ UNCHANGED <<logging, left, want, out, hand, txVars, rxVars>>

\* Mutant: a page without unread bytes is given back although it is still being written.
IsFullEagerly ==
  /\ Goto("full", "next")
  /\ UNCHANGED <<logging, left, want, out, hand, txVars, rxVars>>

IsFull ==
  /\ Goto("full", IF Reading.wr >= PageSize THEN "next" ELSE "got")
  /\ UNCHANGED <<logging, left, want, out, hand, txVars, rxVars>>

NextPage ==
  /\ Goto("next", "unlink")
  /\ hand' = rxBuf.read /\ rxBuf' = LeavePage(rxBuf)
  /\ UNCHANGED <<logging, left, want, out, txVars, rxFifo, rxTorn, arrived, got>>

\* free_page, its two stores.
FreeNext ==
  /\ Goto("unlink", "free")
  /\ rxBuf' = FreeLink(rxBuf, hand)
  /\ UNCHANGED <<logging, left, want, out, hand, txVars, rxFifo, rxTorn, arrived, got>>

FreeFirst ==
  /\ Goto("free", "outer")
  /\ rxBuf' = FreeHead(rxBuf, hand) /\ hand' = 0
  /\ UNCHANGED <<logging, left, want, out, txVars, rxFifo, rxTorn, arrived, got>>

\* The buffer is asked again until it has something.
ReadReturns ==
  /\ Goto("got", IF out = <<>> THEN "outer" ELSE "idle")
  /\ got' = got \o out /\ out' = <<>>
  /\ UNCHANGED <<logging, left, want, hand, txVars, rxBuf, rxFifo, rxTorn, arrived>>

BufferReads ==
  OuterLoop \/ TakeByte \/ InnerEnds \/ IsEmpty \/ IsFull \/ NextPage \/ FreeNext \/ FreeFirst

Reads == BufferReads \/ ReadReturns

-----------------------------------------------------------------------------
(* The interrupt handler, in one step, and where it does harm.  b is the   *)
(* buffer as the handler leaves it; a torn one is not followed further.    *)

\* Between the count and its byte, and from a full page until m_write_ptr has moved on.
Unsettled == pc \in {"byte", "alloc", "link", "move"} \/ (pc = "put" /\ ~HasRoom(txBuf))

\* The handler has read all that the page being written counts: a byte that is not there
\* yet, or a page it gives back while write is still on it.  Or it has put a page before
\* the free one that alloc_page has seen and is about to take off the list.
TearsTx(b) ==
  \/ Unsettled /\ b.page[txBuf.write].rd = b.page[txBuf.write].wr
  \/ pc = "alloc" /\ hand # 0 /\ b.free # txBuf.free

\* The handler has filled the page that read found empty, before read asks whether it is
\* full.  Or it has taken the free page that free_page has just linked behind its own.
TearsRx(b) ==
  \/ pc = "full" /\ b.page[rxBuf.read].rd < b.page[rxBuf.read].wr
                 /\ b.page[rxBuf.read].wr >= PageSize
  \/ pc = "free" /\ b.free # rxBuf.free

InterruptRx ==
  /\ rxFifo # <<>> /\ ~rxTorn
  /\ rxBuf' = Write(rxBuf, rxFifo) /\ rxFifo' = <<>>
  /\ rxTorn' = TearsRx(rxBuf')
  /\ UNCHANGED <<mainVars, txVars, arrived, got>>

\* Mutant: the handler turns its interrupt off and does not say so in the flag.
InterruptTxOff ==
  /\ txInt /\ txFifo = <<>> /\ ~txTorn
  /\ LET r == Read(txBuf, FifoSize)
     IN  /\ txBuf' = r.b /\ txFifo' = r.out
         /\ txInt' = (r.out # <<>>) /\ UNCHANGED txEnabled
  /\ txTorn' = TearsTx(txBuf')
  /\ UNCHANGED <<mainVars, tmp, wire, due, written, rxVars>>

\* The UART is idle: fill it, or turn the interrupt off if there is nothing left.
InterruptTx ==
  /\ txInt /\ txFifo = <<>> /\ ~txTorn
  /\ LET r == Read(txBuf, FifoSize)
     IN  /\ txBuf' = r.b /\ txFifo' = r.out
         /\ IF r.out = <<>> THEN txInt' = FALSE /\ txEnabled' = FALSE
            ELSE UNCHANGED <<txInt, txEnabled>>
  /\ txTorn' = TearsTx(txBuf')
  /\ UNCHANGED <<mainVars, tmp, wire, due, written, rxVars>>

-----------------------------------------------------------------------------
(* The UART.                                                               *)

UartSends ==
  /\ txFifo # <<>>
  /\ wire' = Append(wire, Head(txFifo)) /\ txFifo' = Tail(txFifo)
  /\ UNCHANGED <<mainVars, txEnabled, txInt, tmp, due, txBuf, txTorn, written, rxVars>>

\* Interrupts are served before the FIFO overflows.
UartReceives ==
  /\ arrived < MostRx /\ written + left + arrived < Most /\ Len(rxFifo) < FifoSize
  /\ rxFifo' = Append(rxFifo, arrived + 1) /\ arrived' = arrived + 1
  /\ UNCHANGED <<mainVars, txVars, rxBuf, rxTorn, got>>

-----------------------------------------------------------------------------
Next ==
  \/ StartWrite \/ Writes \/ StartRead \/ Reads
  \/ InterruptRx \/ InterruptTx \/ UartSends \/ UartReceives

UartSpec == UartInit /\ [][Next]_vars

\* A write that has begun goes on, pending interrupts are taken, and the UART sends.
UartFairSpec == UartSpec /\ WF_vars(Writes) /\ WF_vars(InterruptTx) /\ WF_vars(UartSends)

-----------------------------------------------------------------------------
(* Properties.                                                             *)

\* The buffers as the statements under way will leave them if nobody interrupts.
TxSettled ==
  CASE pc = "byte" -> FillByte(txBuf, written)
    [] pc = "link" -> MoveOn(LinkPage(txBuf, hand))
    [] pc = "move" -> MoveOn(txBuf)
    [] OTHER       -> txBuf

RxSettled ==
  CASE pc = "unlink" -> FreePage(rxBuf, hand)
    [] pc = "free"   -> FreeHead(rxBuf, hand)
    [] OTHER         -> rxBuf

\* Nothing is lost, repeated or reordered on the way out unless the handler comes where
\* TearsTx says: what is on the wire, in the FIFO, in the caller's hands and in the buffer
\* is what was written (ulink_hps_uart.cpp:94-115, 163-178, ulink_buffer.cpp:62-97).
TxInOrder == ~txTorn => wire \o txFifo \o tmp \o Content(TxSettled) = Following(0, written)

\* Nor on the way in, unless it comes where TearsRx says (ulink_hps_uart.cpp:120-155,
\* ulink_buffer.cpp:36-60, 99-102).
RxInOrder == ~rxTorn => got \o out \o Content(RxSettled) \o rxFifo = Following(0, arrived)

\* The buffers' pages, wherever else the handler comes: each is in use or free, never both,
\* never neither; the page that is written is the last in use and, but for a page turn
\* under way, has room (ulink_buffer.cpp:45-51, 72-102).
PagesInOrder ==
  /\ ~txTorn => PagesSound(TxSettled) /\ (Unsettled \/ HasRoom(txBuf))
  /\ ~rxTorn => PagesSound(RxSettled) /\ HasRoom(rxBuf)

\* The flag tells the truth when a write relies on it: a write that leaves its bytes to
\* the handler leaves them to one that is enabled (ulink_hps_uart.cpp:98, 180-185).
FlagTellsTruth == pc \notin {"flag", "enable"} => txEnabled = txInt

\* Every byte that was written before a write returned is sent, also if the handler turns
\* its interrupt off in the middle of that write, unless it tears the buffer
\* (ulink_hps_uart.cpp:94-118, 180-185).
TxDrains == <>[](txTorn \/ Len(wire) >= due)

\* A page is given back when it has been read to its end and is not written any more:
\* "we've finished with the page" (ulink_buffer.cpp:47).
PageFinished ==
  \A b \in {txBuf, rxBuf} : \A p \in Range(Chain(b, b.free)) :
    b.page[p].rd = b.page[p].wr /\ p # b.write
=============================================================================
